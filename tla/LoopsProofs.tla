---------------------------- MODULE LoopsProofs ----------------------------
(***************************************************************************)
(* What MCLoops checks of the programs that are one loop, proved for every *)
(* value of the constants.  LoopsInv is one inductive invariant for each   *)
(* program; a step of one program leaves the others where they are.        *)
(***************************************************************************)
EXTENDS MCLoops, StreamLemmas, WellFoundedInduction

-----------------------------------------------------------------------------
(* cpu-idle-governor/main.c: the clock and the schedule.                   *)

(* A time of the clock as a timespec is a valid one, and the same time.    *)
LEMMA TimespecIsValid ==
  ASSUME NEW ns \in Nat
  PROVE  /\ Timespec(ns) \in [sec : Nat, nsec : 0..(NsPerSec - 1)]
         /\ Nanoseconds(Timespec(ns)) = ns
<1>1. /\ ns % NsPerSec \in 0..(NsPerSec - 1)
      /\ ns \div NsPerSec \in Nat
      /\ ns = NsPerSec * (ns \div NsPerSec) + (ns % NsPerSec)
  BY DeadlinesAssumption
<1>2. NsPerSec * (ns \div NsPerSec) = (ns \div NsPerSec) * NsPerSec
  BY <1>1, DeadlinesAssumption
<1> QED BY <1>1, <1>2 DEF Timespec, Nanoseconds

(* ts_add_ns() adds, and its one carry is enough for a valid result.       *)
LEMMA TsAddNsAdds ==
  ASSUME NEW t \in [sec : Nat, nsec : 0..(NsPerSec - 1)], NEW ns \in Nat
  PROVE  /\ TsAddNs(t, ns) \in [sec : Nat, nsec : 0..(NsPerSec - 1)]
         /\ Nanoseconds(TsAddNs(t, ns)) = Nanoseconds(t) + ns
<1> DEFINE q == ns \div NsPerSec
           r == ns % NsPerSec
           s == t.sec + q
           m == t.nsec + r
<1>1. q \in Nat /\ r \in 0..(NsPerSec - 1) /\ ns = q * NsPerSec + r
  BY TimespecIsValid DEF Timespec, Nanoseconds
<1>2. t.sec \in Nat /\ t.nsec \in 0..(NsPerSec - 1)
  OBVIOUS
<1>3. TsAddNs(t, ns) = Carry([sec |-> s, nsec |-> m])
  BY DEF TsAddNs
<1> HIDE DEF q, r
<1>4. s \in Nat /\ m \in 0..(2 * NsPerSec - 2)
  BY <1>1, <1>2, DeadlinesAssumption
<1>5. s * NsPerSec + m = t.sec * NsPerSec + t.nsec + ns
  BY <1>1, <1>2, DeadlinesAssumption
<1> HIDE DEF s, m
<1>6. CASE m >= NsPerSec
  <2>1. TsAddNs(t, ns) = [sec |-> s + 1, nsec |-> m - NsPerSec]
    BY <1>3, <1>6 DEF Carry
  <2>2. (s + 1) * NsPerSec + (m - NsPerSec) = s * NsPerSec + m
    BY <1>4, DeadlinesAssumption
  <2>3. s + 1 \in Nat /\ m - NsPerSec \in 0..(NsPerSec - 1)
    BY <1>4, <1>6, DeadlinesAssumption
  <2> QED BY <1>5, <2>1, <2>2, <2>3 DEF Nanoseconds
<1>7. CASE ~(m >= NsPerSec)
  <2>1. TsAddNs(t, ns) = [sec |-> s, nsec |-> m]
    BY <1>3, <1>7 DEF Carry
  <2>2. m \in 0..(NsPerSec - 1)
    BY <1>4, <1>7, DeadlinesAssumption
  <2> QED BY <1>4, <1>5, <2>1, <2>2 DEF Nanoseconds
<1> QED BY <1>6, <1>7

(* ts_diff_ns() subtracts.                                                 *)
LEMMA TsDiffNsSubtracts ==
  ASSUME NEW a \in [sec : Nat, nsec : Nat], NEW b \in [sec : Nat, nsec : Nat]
  PROVE  TsDiffNs(a, b) = Nanoseconds(a) - Nanoseconds(b)
<1> DEFINE x == a.sec
           y == b.sec
<1>1. x \in Nat /\ y \in Nat /\ a.nsec \in Nat /\ b.nsec \in Nat
  OBVIOUS
<1> HIDE DEF x, y
<1>2. (x - y) * NsPerSec = x * NsPerSec - y * NsPerSec
  BY <1>1, DeadlinesAssumption
<1> QED
  BY <1>1, <1>2, DeadlinesAssumption DEF TsDiffNs, Nanoseconds, x, y

(* The percentiles are those of recorded samples, for any number of them.  *)
LEMMA PrintedInRange ==
  ASSUME NEW k \in Printed
  PROVE  k + 1 \in 1..Iterations
BY DeadlinesAssumption DEF Printed

-----------------------------------------------------------------------------
(* OnSchedule is not inductive: it says nothing of next between two sleeps *)
(* or of the number of samples.  DeadlinesInv adds that a valid next is    *)
(* the time at which the last request was due, or the coming one while the *)
(* program sleeps.                                                         *)

Taken == Len(samples)

Scheduled ==
  /\ next.nsec \in 0..(NsPerSec - 1)
  /\ pc = "start" => Taken = 0
  /\ pc \in {"set", "done"} =>
       Taken <= Iterations /\ Nanoseconds(next) = Due(Taken)
  /\ pc \in {"sleep", "woke"} =>
       Taken < Iterations /\ Nanoseconds(next) = Due(Taken + 1)
  /\ pc = "woke" => Nanoseconds(next) <= now
  /\ pc = "done" => Taken = Iterations
  /\ pc # "failed"

Overshoots == \A i \in 1..Len(samples) : samples[i] \in 0..(now - Due(i))

DeadlinesInv == TypeOK /\ Scheduled /\ Overshoots

LEMMA DueIsNat ==
  ASSUME TypeOK, NEW i \in Nat
  PROVE  Due(i) \in Nat /\ Due(i + 1) = Due(i) + Interval
<1>1. i * Interval \in Nat /\ (i + 1) * Interval = i * Interval + Interval
  BY DeadlinesAssumption
<1>2. start \in Nat
  BY DEF TypeOK
<1> QED BY <1>1, <1>2, DeadlinesAssumption DEF Due

LEMMA DeadlinesStart == Init => DeadlinesInv
<1> SUFFICES ASSUME Init PROVE DeadlinesInv
  OBVIOUS
<1>1. now \in Nat
  BY DeadlinesAssumption DEF Init
<1>2. Timespec(0) \in [sec : Nat, nsec : 0..(NsPerSec - 1)]
  BY TimespecIsValid
<1>3. next.nsec \in 0..(NsPerSec - 1) /\ next \in [sec : Nat, nsec : Nat]
  BY <1>2, DeadlinesAssumption DEF Init
<1>4. samples = <<>> /\ samples \in Seq(Int) /\ Len(samples) = 0
  BY DEF Init
<1>5. TypeOK
  BY <1>1, <1>3, <1>4 DEF Init, TypeOK
<1>6. Scheduled
  BY <1>3, <1>4 DEF Init, Scheduled, Taken
<1>7. Overshoots
  BY <1>4 DEF Overshoots
<1> QED BY <1>5, <1>6, <1>7 DEF DeadlinesInv

LEMMA TickKeepsSchedule == ASSUME DeadlinesInv, Tick PROVE DeadlinesInv'
<1> USE DEF DeadlinesInv, Tick
<1>1. TypeOK'
  BY DEF TypeOK
<1>2. /\ Nanoseconds(next)' = Nanoseconds(next)
      /\ \A i \in Nat : Due(i)' = Due(i)
  BY DEF Nanoseconds, Due
<1>3. /\ Nanoseconds(next) \in Nat /\ now \in Nat /\ now' = now + 1
      /\ Taken \in Nat /\ Taken' = Taken
  BY DeadlinesAssumption DEF TypeOK, Nanoseconds, Taken
<1>4. Scheduled'
  BY <1>2, <1>3 DEF Scheduled
<1>5. ASSUME NEW i \in 1..Len(samples)
      PROVE  samples[i] \in 0..(now' - Due(i))
  <2>1. samples[i] \in 0..(now - Due(i)) /\ Due(i) \in Nat
    BY DueIsNat DEF Overshoots, TypeOK
  <2> QED BY <1>3, <2>1
<1>6. Overshoots'
  <2>1. samples' = samples
    OBVIOUS
  <2> QED BY <1>5, <2>1 DEF Overshoots, Due
<1> QED BY <1>1, <1>4, <1>6

LEMMA ReadClockKeepsSchedule == ASSUME DeadlinesInv, ReadClock PROVE DeadlinesInv'
<1> USE DEF DeadlinesInv, ReadClock
<1>1. /\ next' \in [sec : Nat, nsec : 0..(NsPerSec - 1)]
      /\ Nanoseconds(next') = now
  BY TimespecIsValid DEF TypeOK
<1>2. samples' = samples /\ Len(samples) = 0
  BY DEF Scheduled, Taken
<1>3. TypeOK'
  BY <1>1, DeadlinesAssumption DEF TypeOK
<1>4. Due(0)' = now
  <2>1. 0 * Interval = 0
    BY DeadlinesAssumption
  <2> QED BY <2>1 DEF Due, TypeOK
<1>5. Scheduled'
  BY <1>1, <1>2, <1>4, DeadlinesAssumption DEF Scheduled, Taken
<1>6. Overshoots'
  BY <1>2 DEF Overshoots
<1> QED BY <1>3, <1>5, <1>6

LEMMA SetDeadlineKeepsSchedule == ASSUME DeadlinesInv, SetDeadline PROVE DeadlinesInv'
<1> USE DEF DeadlinesInv
<1>1. /\ next \in [sec : Nat, nsec : 0..(NsPerSec - 1)]
      /\ Nanoseconds(next) = Due(Len(samples))
      /\ Len(samples) \in Nat /\ Len(samples) <= Iterations
  BY DEF TypeOK, Scheduled, SetDeadline, Taken
<1>2. Due(Len(samples) + 1) = Due(Len(samples)) + Interval
  BY <1>1, DueIsNat
<1>3. Overshoots'
  BY DEF Overshoots, SetDeadline, Due
<1>4. CASE Len(samples) < Iterations
  <2>1. next' = TsAddNs(next, Interval) /\ pc' = "sleep"
    BY <1>4 DEF SetDeadline
  <2>2. /\ next' \in [sec : Nat, nsec : 0..(NsPerSec - 1)]
        /\ Nanoseconds(next') = Nanoseconds(next) + Interval
    BY <1>1, <2>1, TsAddNsAdds, DeadlinesAssumption
  <2>3. TypeOK'
    BY <2>1, <2>2, DeadlinesAssumption DEF TypeOK, SetDeadline
  <2>4. Scheduled'
    BY <1>1, <1>2, <1>4, <2>1, <2>2 DEF Scheduled, SetDeadline, Taken, Due
  <2> QED BY <1>3, <2>3, <2>4
<1>5. CASE ~(Len(samples) < Iterations)
  <2>1. next' = next /\ pc' = "done" /\ Len(samples) = Iterations
    BY <1>1, <1>5, DeadlinesAssumption DEF SetDeadline
  <2>2. TypeOK'
    BY <2>1 DEF TypeOK, SetDeadline
  <2>3. Scheduled'
    BY <1>1, <2>1, DeadlinesAssumption
       DEF Scheduled, SetDeadline, Taken, Due, Nanoseconds
  <2> QED BY <1>3, <2>2, <2>3
<1> QED BY <1>4, <1>5

LEMMA SleepKeepsSchedule == ASSUME DeadlinesInv, Sleep PROVE DeadlinesInv'
<1> USE DEF DeadlinesInv, Sleep
<1>1. next.nsec < NsPerSec /\ Nanoseconds(next) <= now
  <2>1. next.nsec < NsPerSec
    BY DeadlinesAssumption DEF Scheduled
  <2>2. now >= Nanoseconds(next)
    BY <2>1
  <2>3. Nanoseconds(next) \in Nat /\ now \in Nat
    BY DeadlinesAssumption DEF TypeOK, Nanoseconds
  <2> QED BY <2>1, <2>2, <2>3
<1>2. pc' = "woke"
  BY <1>1
<1>3. TypeOK' /\ Overshoots'
  BY <1>2 DEF TypeOK, Overshoots, Due
<1>4. Scheduled'
  BY <1>1, <1>2 DEF Scheduled, Taken, Due, Nanoseconds
<1> QED BY <1>3, <1>4

LEMMA RecordKeepsSchedule == ASSUME DeadlinesInv, Record PROVE DeadlinesInv'
<1> DEFINE k == Len(samples)
           late == TsDiffNs(Timespec(now), next)
<1> USE DEF DeadlinesInv
<1>1. /\ k \in Nat /\ k < Iterations /\ now \in Nat
      /\ next \in [sec : Nat, nsec : Nat] /\ samples \in Seq(Int)
      /\ Nanoseconds(next) = Due(k + 1) /\ Nanoseconds(next) <= now
  BY DEF TypeOK, Scheduled, Record, Taken
<1>2. late = now - Due(k + 1)
  <2>1. /\ Timespec(now) \in [sec : Nat, nsec : Nat]
        /\ Nanoseconds(Timespec(now)) = now
    BY <1>1, TimespecIsValid, DeadlinesAssumption
  <2> QED BY <1>1, <2>1, TsDiffNsSubtracts
<1>3. samples' = Append(samples, late)
  BY DEF Record
<1>4. Due(k + 1) \in Nat
  BY <1>1, DueIsNat
<1> HIDE DEF late
<1>5. late \in Int /\ late \in 0..(now - Due(k + 1))
  BY <1>1, <1>2, <1>4
<1>6. /\ samples' \in Seq(Int) /\ Len(samples') = k + 1
      /\ samples'[k + 1] = late
      /\ \A i \in 1..k : samples'[i] = samples[i]
  BY <1>1, <1>3, <1>5
<1>7. TypeOK'
  BY <1>6 DEF TypeOK, Record
<1>8. Scheduled'
  BY <1>1, <1>6, DeadlinesAssumption
     DEF Scheduled, Record, Taken, Due, Nanoseconds
<1>9. Overshoots'
  <2> SUFFICES ASSUME NEW i \in 1..(k + 1)
               PROVE  samples'[i] \in 0..(now - Due(i))
    BY <1>6 DEF Overshoots, Record, Due
  <2>1. CASE i = k + 1
    BY <1>5, <1>6, <2>1
  <2>2. CASE i \in 1..k
    BY <1>6, <2>2 DEF Overshoots
  <2> QED BY <1>1, <2>1, <2>2
<1> QED BY <1>7, <1>8, <1>9

LEMMA DeadlinesStep == DeadlinesInv /\ [Next]_vars => DeadlinesInv'
<1> SUFFICES ASSUME DeadlinesInv, [Next]_vars PROVE DeadlinesInv'
  OBVIOUS
<1>1. CASE Tick
  BY <1>1, TickKeepsSchedule
<1>2. CASE ReadClock
  BY <1>2, ReadClockKeepsSchedule
<1>3. CASE SetDeadline
  BY <1>3, SetDeadlineKeepsSchedule
<1>4. CASE Sleep
  BY <1>4, SleepKeepsSchedule
<1>5. CASE Record
  BY <1>5, RecordKeepsSchedule
<1>6. CASE UNCHANGED vars
  BY <1>6 DEF vars, DeadlinesInv, TypeOK, Scheduled, Overshoots, Taken, Due,
              Nanoseconds
<1> QED BY <1>1, <1>2, <1>3, <1>4, <1>5, <1>6 DEF Next, Program

LEMMA OnScheduleHolds == DeadlinesInv => OnSchedule
<1> SUFFICES ASSUME DeadlinesInv PROVE OnSchedule
  OBVIOUS
<1>1. pc = "done" => \A k \in Printed : k + 1 \in 1..Len(samples)
  BY PrintedInRange DEF DeadlinesInv, Scheduled, Taken
<1> QED BY <1>1 DEF DeadlinesInv, Scheduled, Overshoots, OnSchedule, Taken

-----------------------------------------------------------------------------
(* CopyLoops: what the last call took is in hold until the next call has   *)
(* moved it out, and nothing is left behind before a call fails or is      *)
(* short.                                                                  *)
CopiesBuffer ==
  /\ copyAt = "out" =>
       /\ n \in 1..taken
       /\ hold = Slice(taken - n, taken)
       /\ ~upset => out = Upto(taken - n)
  /\ copyAt # "out" /\ ~upset => out = Upto(taken)

CopiesPipe ==
  /\ Joined(out, hold) = Upto(taken)
  /\ copyAt = "out" => n \in 0..Len(hold) /\ (~upset => Len(hold) = n)
  /\ copyAt # "out" /\ ~upset => hold = <<>>

CopyInv ==
  /\ Copy!TypeOK
  /\ tool = "readwrite" => CopiesBuffer
  /\ tool = "range" => copyAt # "out" /\ out = Upto(taken)
  /\ tool = "splice" => CopiesPipe
  /\ copyAt = "done" /\ ~upset => taken = FileSize

(* The byte streams of the instances are those of module Streams.          *)

LEMMA CopyStreams ==
  /\ \A a, b : Copy!Slice(a, b) = Slice(a, b)
  /\ \A s, t : Copy!Joined(s, t) = Joined(s, t)
  /\ \A s, a, b : Copy!Part(s, a, b) = Part(s, a, b)
  /\ \A s, k : Copy!Rest(s, k) = Rest(s, k)
  /\ \A k : Copy!Upto(k) = Upto(k)
  /\ \A a, b : Copy!Least(a, b) = Least(a, b)
<1>1. \A a, b : Copy!Slice(a, b) = Slice(a, b)
  BY DEF Copy!Slice, Slice
<1>2. \A s, t : Copy!Joined(s, t) = Joined(s, t)
  BY DEF Copy!Joined, Joined
<1>3. \A s, a, b : Copy!Part(s, a, b) = Part(s, a, b)
  BY DEF Copy!Part, Part
<1>4. \A s, k : Copy!Rest(s, k) = Rest(s, k)
  BY DEF Copy!Rest, Rest
<1>5. \A k : Copy!Upto(k) = Upto(k)
  BY <1>1 DEF Copy!Upto, Upto
<1>6. \A a, b : Copy!Least(a, b) = Least(a, b)
  BY DEF Copy!Least, Least
<1> QED BY <1>1, <1>2, <1>3, <1>4, <1>5, <1>6

LEMMA CopyConstants ==
  FileSize \in Nat /\ Chunk \in Nat \ {0} /\ PipeCap \in Nat \ {0}
BY LoopsAssumption DEF Copy!CopyAssumption

LEMMA CopyStart == Copy!Init => CopyInv
<1> SUFFICES ASSUME Copy!Init PROVE CopyInv
  OBVIOUS
<1>1. /\ copyAt = "in" /\ taken = 0 /\ hold = <<>> /\ n = 0 /\ out = <<>>
      /\ upset = FALSE /\ tool \in {"readwrite", "range", "splice"}
  BY DEF Copy!Init
<1>2. Upto(0) = <<>> /\ Joined(<<>>, <<>>) = <<>> /\ <<>> \in Seq(Nat)
  BY UptoZero, JoinedEmpty, ContentTypes
<1>3. Copy!TypeOK
  <2>1. upset \in BOOLEAN
    BY <1>1
  <2> QED BY <1>1, <1>2, <2>1, CopyConstants DEF Copy!TypeOK
<1>4. out = Upto(taken) /\ Joined(out, hold) = Upto(taken)
  BY <1>1, <1>2
<1> QED BY <1>1, <1>3, <1>4 DEF CopyInv, CopiesBuffer, CopiesPipe

(* The m bytes that a call takes. *)
LEMMA TakesSome ==
  ASSUME CopyInv, NEW m \in 1..(FileSize - taken)
  PROVE  /\ taken \in Nat /\ m \in Nat /\ taken + m \in 0..FileSize
         /\ Slice(taken, taken + m) \in Seq(Nat)
         /\ Len(Slice(taken, taken + m)) = m
         /\ Joined(Upto(taken), Slice(taken, taken + m)) = Upto(taken + m)
<1>1. taken \in Nat /\ m \in Nat /\ taken + m \in 0..FileSize
  BY CopyConstants DEF CopyInv, Copy!TypeOK
<1>2. taken + m \in Nat /\ taken <= taken + m
  BY <1>1
<1> QED BY <1>1, <1>2, ChunkType, UptoExtend

LEMMA ReadSomeKeepsCopy == ASSUME CopyInv, Copy!ReadSome PROVE CopyInv'
<1>1. PICK m \in 1..(FileSize - taken) :
        /\ n' = m /\ taken' = taken + m /\ hold' = Slice(taken, taken + m)
  <2>1. FileSize - taken \in Int /\ Chunk \in Int
    BY CopyConstants DEF CopyInv, Copy!TypeOK
  <2>2. \A m \in 1..Least(Chunk, FileSize - taken) : m \in 1..(FileSize - taken)
    BY <2>1, LeastProperties
  <2> QED BY <2>2, CopyStreams DEF Copy!ReadSome, Copy!Take
<1>2. /\ copyAt = "in" /\ tool = "readwrite" /\ copyAt' = "out"
      /\ tool' = tool /\ out' = out
  BY DEF Copy!ReadSome
<1>3. upset' = upset
  BY DEF Copy!ReadSome
<1>4. /\ taken \in Nat /\ m \in Nat /\ taken + m \in 0..FileSize
      /\ Slice(taken, taken + m) \in Seq(Nat)
  BY TakesSome
<1>5. m \in 1..(taken + m) /\ (taken + m) - m = taken
  BY <1>4
<1>6. ~upset => out = Upto(taken)
  BY <1>2 DEF CopyInv, CopiesBuffer
<1>7. Copy!TypeOK'
  <2>1. upset' \in BOOLEAN
    BY <1>3 DEF CopyInv, Copy!TypeOK
  <2> QED BY <1>1, <1>2, <1>4, <2>1 DEF CopyInv, Copy!TypeOK
<1>8. CopiesBuffer'
  <2>1. n' \in 1..taken' /\ hold' = Slice(taken' - n', taken')
    BY <1>1, <1>5
  <2>2. ~upset' => out' = Upto(taken' - n')
    BY <1>1, <1>2, <1>3, <1>5, <1>6
  <2> QED BY <1>2, <2>1, <2>2 DEF CopiesBuffer
<1> QED BY <1>2, <1>7, <1>8 DEF CopyInv

LEMMA WriteSomeKeepsCopy == ASSUME CopyInv, Copy!WriteSome PROVE CopyInv'
<1>1. PICK w \in 0..n :
        /\ out' = Joined(out, Part(hold, 1, w))
        /\ upset' = (upset \/ w < n)
  BY CopyStreams DEF Copy!WriteSome
<1>2. /\ copyAt = "out" /\ tool = "readwrite" /\ copyAt' = "in"
      /\ tool' = tool /\ taken' = taken /\ hold' = hold /\ n' = n
  BY DEF Copy!WriteSome
<1>3. /\ taken \in Nat /\ n \in 1..taken /\ hold = Slice(taken - n, taken)
      /\ hold \in Seq(Nat) /\ out \in Seq(Nat)
  BY <1>2 DEF CopyInv, CopiesBuffer, Copy!TypeOK
<1>4. ~upset => out = Upto(taken - n)
  BY <1>2 DEF CopyInv, CopiesBuffer
<1>5. /\ taken - n \in Nat /\ taken - n <= taken /\ w \in Nat
      /\ w \in 0..(taken - (taken - n)) /\ Len(hold) = n
  <2>1. taken - n \in Nat /\ taken - n <= taken /\ w \in Nat
        /\ taken - (taken - n) = n
    BY <1>3
  <2> QED BY <1>3, <2>1, SliceType
<1>6. out' \in Seq(Nat)
  <2>1. Part(hold, 1, w) \in Seq(Nat)
    BY <1>3, <1>5, PartType
  <2> QED BY <1>1, <1>3, <2>1, JoinedType
<1>7. upset' \in BOOLEAN /\ (~upset' => ~upset /\ ~(w < n))
  <2>1. upset \in BOOLEAN
    BY DEF CopyInv, Copy!TypeOK
  <2> HIDE DEF CopyInv
  <2> QED BY <1>1, <2>1, Zenon
<1>8. ~upset' => out' = Upto(taken)
  <2> SUFFICES ASSUME ~upset' PROVE out' = Upto(taken)
    OBVIOUS
  <2>1. out = Upto(taken - n) /\ ~(w < n)
    BY <1>4, <1>7
  <2>2. w = n /\ (taken - n) + w = taken
    BY <1>3, <2>1
  <2>3. Joined(Upto(taken - n), Part(Slice(taken - n, taken), 1, w))
          = Upto((taken - n) + w)
    BY <1>3, <1>5, UptoExtendByFront
  <2> QED BY <1>1, <1>3, <2>1, <2>2, <2>3
<1>9. Copy!TypeOK'
  BY <1>2, <1>6, <1>7 DEF CopyInv, Copy!TypeOK
<1>10. CopiesBuffer'
  BY <1>2, <1>8 DEF CopiesBuffer
<1> QED BY <1>2, <1>9, <1>10 DEF CopyInv

LEMMA CopyRangeKeepsCopy == ASSUME CopyInv, Copy!CopyRange PROVE CopyInv'
<1>1. PICK m \in 1..(FileSize - taken) :
        /\ n' = m /\ taken' = taken + m
        /\ out' = Joined(out, Slice(taken, taken + m))
  BY CopyStreams DEF Copy!CopyRange, Copy!Take
<1>2. /\ copyAt = "in" /\ tool = "range" /\ copyAt' = copyAt
      /\ tool' = tool /\ hold' = hold
  BY DEF Copy!CopyRange
<1>3. upset' = upset
  BY DEF Copy!CopyRange
<1>4. out = Upto(taken) /\ out \in Seq(Nat)
  BY <1>2 DEF CopyInv, Copy!TypeOK
<1>5. /\ m \in Nat /\ taken + m \in 0..FileSize
      /\ Slice(taken, taken + m) \in Seq(Nat)
      /\ Joined(Upto(taken), Slice(taken, taken + m)) = Upto(taken + m)
  BY TakesSome
<1>6. out' = Upto(taken') /\ out' \in Seq(Nat)
  <2>1. out' = Upto(taken + m)
    BY <1>1, <1>4, <1>5
  <2>2. Joined(out, Slice(taken, taken + m)) \in Seq(Nat)
    BY <1>4, <1>5, JoinedType
  <2> QED BY <1>1, <2>1, <2>2
<1>7. Copy!TypeOK'
  <2>1. upset' \in BOOLEAN
    BY <1>3 DEF CopyInv, Copy!TypeOK
  <2> QED BY <1>1, <1>2, <1>5, <1>6, <2>1 DEF CopyInv, Copy!TypeOK
<1> QED BY <1>2, <1>6, <1>7 DEF CopyInv

LEMMA SpliceInKeepsCopy == ASSUME CopyInv, Copy!SpliceIn PROVE CopyInv'
<1>1. PICK m \in 1..(FileSize - taken) :
        /\ n' = m /\ taken' = taken + m
        /\ hold' = Joined(hold, Slice(taken, taken + m))
  <2>1. FileSize - taken \in Int /\ Chunk \in Int /\ PipeCap - Len(hold) \in Int
    BY CopyConstants DEF CopyInv, Copy!TypeOK
  <2>2. \A m \in 1..Least(Chunk, Least(FileSize - taken, PipeCap - Len(hold))) :
          m \in 1..(FileSize - taken)
    <3>1. Least(FileSize - taken, PipeCap - Len(hold)) \in Int
          /\ Least(FileSize - taken, PipeCap - Len(hold)) <= FileSize - taken
      BY <2>1, LeastProperties
    <3> DEFINE q == Least(FileSize - taken, PipeCap - Len(hold))
    <3>2. Least(Chunk, q) <= q /\ Least(Chunk, q) \in Int
      BY <2>1, <3>1, LeastProperties
    <3> HIDE DEF q
    <3>3. q <= FileSize - taken /\ q \in Int
      BY <3>1 DEF q
    <3>4. \A m \in 1..Least(Chunk, q) : m \in 1..(FileSize - taken)
      BY <2>1, <3>2, <3>3
    <3> QED BY <3>4 DEF q
  <2> QED BY <2>2, CopyStreams DEF Copy!SpliceIn, Copy!Take
<1>2. /\ copyAt = "in" /\ tool = "splice" /\ copyAt' = "out"
      /\ tool' = tool /\ out' = out
  BY DEF Copy!SpliceIn
<1>3. upset' = upset
  BY DEF Copy!SpliceIn
<1>4. /\ hold \in Seq(Nat) /\ out \in Seq(Nat) /\ Len(hold) \in Nat
      /\ Joined(out, hold) = Upto(taken)
  BY <1>2 DEF CopyInv, CopiesPipe, Copy!TypeOK
<1>5. /\ taken \in Nat /\ m \in Nat /\ taken + m \in 0..FileSize
      /\ Slice(taken, taken + m) \in Seq(Nat)
      /\ Len(Slice(taken, taken + m)) = m
      /\ Joined(Upto(taken), Slice(taken, taken + m)) = Upto(taken + m)
  BY TakesSome
<1>6. hold' \in Seq(Nat) /\ Len(hold') = Len(hold) + m
  BY <1>1, <1>4, <1>5, JoinedType
<1>7. Joined(out', hold') = Upto(taken')
  <2>1. Joined(Joined(out, hold), Slice(taken, taken + m))
          = Joined(out, Joined(hold, Slice(taken, taken + m)))
    BY <1>4, <1>5, JoinedAssociative
  <2> QED BY <1>1, <1>2, <1>4, <1>5, <2>1
<1>8. n' \in 0..Len(hold') /\ (~upset' => Len(hold') = n')
  <2>1. ~upset => Len(hold) = 0
    BY <1>2 DEF CopyInv, CopiesPipe
  <2>2. m \in 0..(Len(hold) + m) /\ (~upset => Len(hold) + m = m)
    BY <1>4, <1>5, <2>1
  <2> QED BY <1>1, <1>3, <1>6, <2>2
<1>9. Copy!TypeOK'
  <2>1. upset' \in BOOLEAN
    BY <1>3 DEF CopyInv, Copy!TypeOK
  <2> QED BY <1>1, <1>2, <1>5, <1>6, <2>1 DEF CopyInv, Copy!TypeOK
<1>10. CopiesPipe'
  BY <1>2, <1>7, <1>8 DEF CopiesPipe
<1> QED BY <1>2, <1>9, <1>10 DEF CopyInv

LEMMA SpliceOutKeepsCopy == ASSUME CopyInv, Copy!SpliceOut PROVE CopyInv'
<1>1. PICK r \in 0..n :
        /\ out' = Joined(out, Part(hold, 1, r))
        /\ hold' = Rest(hold, r)
        /\ upset' = (upset \/ r < n)
  BY CopyStreams DEF Copy!SpliceOut
<1>2. /\ copyAt = "out" /\ tool = "splice" /\ copyAt' = "in"
      /\ tool' = tool /\ taken' = taken /\ n' = n
  BY DEF Copy!SpliceOut
<1>3. /\ hold \in Seq(Nat) /\ out \in Seq(Nat) /\ Len(hold) \in Nat
      /\ n \in 0..Len(hold) /\ Joined(out, hold) = Upto(taken)
  BY <1>2 DEF CopyInv, CopiesPipe, Copy!TypeOK
<1>4. ~upset => Len(hold) = n
  BY <1>2 DEF CopyInv, CopiesPipe
<1>5. r \in 0..Len(hold)
  BY <1>3
<1>6. /\ Part(hold, 1, r) \in Seq(Nat) /\ Rest(hold, r) \in Seq(Nat)
      /\ Len(Rest(hold, r)) = Len(hold) - r
  BY <1>3, <1>5, PartType, RestType
<1>7. Joined(out', hold') = Upto(taken')
  <2>1. Joined(Part(hold, 1, r), Rest(hold, r)) = hold
    BY <1>3, <1>5, PartThenRest
  <2>2. Joined(Joined(out, Part(hold, 1, r)), Rest(hold, r))
          = Joined(out, Joined(Part(hold, 1, r), Rest(hold, r)))
    BY <1>3, <1>6, JoinedAssociative
  <2> QED BY <1>1, <1>2, <1>3, <2>1, <2>2
<1>8. out' \in Seq(Nat) /\ hold' \in Seq(Nat)
  BY <1>1, <1>3, <1>6, JoinedType
<1>9. upset' \in BOOLEAN /\ (~upset' => ~upset /\ ~(r < n))
  <2>1. upset \in BOOLEAN
    BY DEF CopyInv, Copy!TypeOK
  <2> HIDE DEF CopyInv
  <2> QED BY <1>1, <2>1, Zenon
<1>10. ~upset' => hold' = <<>>
  <2> SUFFICES ASSUME ~upset' PROVE hold' = <<>>
    OBVIOUS
  <2>1. Len(hold) = n /\ ~(r < n)
    BY <1>4, <1>9
  <2>2. Len(Rest(hold, r)) = 0
    BY <1>3, <1>5, <1>6, <2>1
  <2> QED BY <1>1, <1>6, <2>2, EmptySeq
<1>11. Copy!TypeOK'
  BY <1>2, <1>8, <1>9 DEF CopyInv, Copy!TypeOK
<1>12. CopiesPipe'
  BY <1>2, <1>7, <1>10 DEF CopiesPipe
<1> QED BY <1>2, <1>11, <1>12 DEF CopyInv

LEMMA InEndsKeepsCopy ==
  ASSUME CopyInv, Copy!AtEof \/ Copy!InFails PROVE CopyInv'
<1>1. /\ copyAt = "in" /\ copyAt' \in {"done", "aborted"}
      /\ tool' = tool /\ taken' = taken /\ hold' = hold /\ out' = out
      /\ n' \in {0, -1}
  BY DEF Copy!AtEof, Copy!InFails
<1>2. \/ upset' = upset /\ taken = FileSize
      \/ upset' = TRUE
  BY DEF Copy!AtEof, Copy!InFails
<1>3. upset' \in BOOLEAN /\ (~upset' => ~upset /\ taken = FileSize)
  BY <1>2 DEF CopyInv, Copy!TypeOK
<1>4. Copy!TypeOK'
  BY <1>1, <1>3 DEF CopyInv, Copy!TypeOK
<1>5. tool = "readwrite" => CopiesBuffer'
  BY <1>1, <1>3 DEF CopyInv, CopiesBuffer
<1>6. tool = "splice" => CopiesPipe'
  BY <1>1, <1>3 DEF CopyInv, CopiesPipe
<1>7. tool = "range" => out' = Upto(taken')
  BY <1>1 DEF CopyInv
<1> QED BY <1>1, <1>3, <1>4, <1>5, <1>6, <1>7 DEF CopyInv

LEMMA CopyStep == CopyInv /\ [Copy!Next]_copyVars => CopyInv'
<1> SUFFICES ASSUME CopyInv, [Copy!Next]_copyVars PROVE CopyInv'
  OBVIOUS
<1>1. CASE Copy!Next
  BY <1>1, ReadSomeKeepsCopy, WriteSomeKeepsCopy, CopyRangeKeepsCopy,
     SpliceInKeepsCopy, SpliceOutKeepsCopy, InEndsKeepsCopy
     DEF Copy!Next, Copy!Program
<1>2. CASE UNCHANGED copyVars
  BY <1>2 DEF copyVars, CopyInv, CopiesBuffer, CopiesPipe, Copy!TypeOK
<1> QED BY <1>1, <1>2

LEMMA ExactUnlessShortHolds == CopyInv => ExactUnlessShort
<1> SUFFICES ASSUME CopyInv PROVE ExactUnlessShort
  OBVIOUS
<1>1. tool \in {"readwrite", "range", "splice"} /\ out \in Seq(Nat)
  BY DEF CopyInv, Copy!TypeOK
<1>2. tool = "splice" /\ copyAt # "out" /\ ~upset =>
        out = Upto(taken) /\ Len(hold) = 0
  <2>1. Joined(out, <<>>) = out
    BY <1>1, JoinedEmpty
  <2> QED BY <2>1 DEF CopyInv, CopiesPipe
<1>3. copyAt = "done" /\ ~upset => out = Upto(FileSize)
  BY <1>1, <1>2 DEF CopyInv, CopiesBuffer
<1>4. tool = "readwrite" /\ copyAt # "out" /\ ~upset => out = Upto(taken)
  BY DEF CopyInv, CopiesBuffer
<1>5. /\ tool = "range" => out = Upto(taken)
      /\ tool = "splice" => Joined(out, hold) = Upto(taken)
  BY DEF CopyInv, CopiesPipe
<1>6. tool = "splice" /\ copyAt = "in" /\ Len(hold) = PipeCap => upset
  BY <1>2, CopyConstants
<1> QED
  BY <1>3, <1>4, <1>5, <1>6, CopyStreams DEF ExactUnlessShort, Copy!ExactUnlessShort

-----------------------------------------------------------------------------
(* TeeLog: the log has what was consumed, stdout also what is due.         *)
LogInv ==
  /\ Log!TypeOK
  /\ log = Upto(consumed)
  /\ logAt = "splice" => due >= 1 /\ consumed + due <= written
  /\ fails = 0 /\ logAt = "splice" => stdout = Upto(consumed + due)
  /\ fails = 0 /\ logAt # "splice" =>
       stdout = Upto(consumed) /\ (due = 0 \/ (due = -1 /\ logAt = "done"))
  /\ logAt = "done" /\ due = 0 => consumed = written /\ ~writing

LEMMA LogStreams ==
  /\ \A a, b : Log!Slice(a, b) = Slice(a, b)
  /\ \A s, t : Log!Joined(s, t) = Joined(s, t)
  /\ \A k : Log!Upto(k) = Upto(k)
  /\ \A a, b : Log!Least(a, b) = Least(a, b)
<1>1. \A a, b : Log!Slice(a, b) = Slice(a, b)
  BY DEF Log!Slice, Slice
<1>2. \A s, t : Log!Joined(s, t) = Joined(s, t)
  BY DEF Log!Joined, Joined
<1>3. \A k : Log!Upto(k) = Upto(k)
  BY <1>1 DEF Log!Upto, Upto
<1>4. \A a, b : Log!Least(a, b) = Least(a, b)
  BY DEF Log!Least, Least
<1> QED BY <1>1, <1>2, <1>3, <1>4

LEMMA LogConstants ==
  Chunk \in Nat \ {0} /\ MaxBytes \in Nat /\ MaxFails \in Nat
BY LoopsAssumption DEF Log!LogAssumption

LEMMA LogStart == Log!Init => LogInv
<1> SUFFICES ASSUME Log!Init PROVE LogInv
  OBVIOUS
<1>1. /\ logAt = "tee" /\ written = 0 /\ writing = TRUE /\ consumed = 0
      /\ due = 0 /\ stdout = <<>> /\ log = <<>> /\ fails = 0
  BY DEF Log!Init
<1>2. Upto(0) = <<>> /\ <<>> \in Seq(Nat)
  BY UptoZero, ContentTypes
<1>3. Log!TypeOK
  <2>1. writing \in BOOLEAN
    BY <1>1
  <2> QED BY <1>1, <1>2, <2>1, LogConstants DEF Log!TypeOK
<1> QED BY <1>1, <1>2, <1>3 DEF LogInv

LEMMA LogTypes ==
  ASSUME LogInv
  PROVE  /\ written \in 0..MaxBytes /\ consumed \in 0..written
         /\ written \in Nat /\ consumed \in Nat
         /\ due \in -1..Chunk /\ fails \in 0..MaxFails
         /\ stdout \in Seq(Nat) /\ log \in Seq(Nat) /\ log = Upto(consumed)
         /\ logAt \in {"tee", "splice", "done"} /\ writing \in BOOLEAN
BY LogConstants DEF LogInv, Log!TypeOK

LEMMA ProducerKeepsLog ==
  ASSUME LogInv, Log!Produce \/ Log!CloseInput PROVE LogInv'
<1>1. /\ logAt' = logAt /\ consumed' = consumed /\ due' = due
      /\ stdout' = stdout /\ log' = log /\ fails' = fails /\ writing
  BY DEF Log!Produce, Log!CloseInput
<1>2. writing' \in BOOLEAN
  BY LogTypes DEF Log!Produce, Log!CloseInput
<1>3. written' \in written..MaxBytes
  <2>1. /\ written \in 0..MaxBytes /\ MaxBytes \in Nat
        /\ \/ \E m \in 1..(MaxBytes - written) : written' = written + m
           \/ written' = written
    BY LogTypes, LogConstants DEF Log!Produce, Log!CloseInput
  <2> QED BY <2>1
<1>4. Log!TypeOK'
  BY <1>1, <1>2, <1>3, LogTypes, LogConstants DEF Log!TypeOK
<1>5. logAt = "splice" => consumed + due <= written'
  <2>1. written \in Nat /\ consumed \in Nat /\ due \in Int /\ MaxBytes \in Nat
    BY LogTypes, LogConstants
  <2> QED BY <1>3, <2>1 DEF LogInv
<1>6. ~(logAt = "done" /\ due = 0)
  BY <1>1 DEF LogInv
<1> QED BY <1>1, <1>4, <1>5, <1>6 DEF LogInv

LEMMA TeeChunkKeepsLog == ASSUME LogInv, Log!TeeChunk PROVE LogInv'
<1>1. PICK m \in 1..Least(Chunk, written - consumed) :
        due' = m /\ stdout' = Joined(stdout, Slice(consumed, consumed + m))
  BY LogStreams DEF Log!TeeChunk
<1>2. /\ logAt = "tee" /\ logAt' = "splice" /\ written' = written
      /\ consumed' = consumed /\ log' = log /\ fails' = fails
  BY DEF Log!TeeChunk
<1>3. writing' = writing
  BY DEF Log!TeeChunk
<1>4. /\ m \in 1..Chunk /\ m \in 1..(written - consumed) /\ m \in Nat
      /\ consumed + m \in Nat /\ consumed <= consumed + m
      /\ consumed + m <= written
  <2>1. written - consumed \in Int /\ Chunk \in Int
    BY LogTypes, LogConstants
  <2>2. m \in 1..Chunk /\ m \in 1..(written - consumed)
    BY <2>1, LeastProperties
  <2> QED BY <2>2, LogTypes
<1>5. Joined(Upto(consumed), Slice(consumed, consumed + m))
        = Upto(consumed + m)
  BY <1>4, LogTypes, UptoExtend
<1>6. stdout' \in Seq(Nat)
  <2>1. Slice(consumed, consumed + m) \in Seq(Nat)
    BY <1>4, LogTypes, ChunkType
  <2> QED BY <1>1, <2>1, LogTypes, JoinedType
<1>7. fails = 0 => stdout' = Upto(consumed + m)
  BY <1>1, <1>2, <1>5 DEF LogInv
<1>8. Log!TypeOK'
  BY <1>1, <1>2, <1>3, <1>4, <1>6, LogTypes DEF Log!TypeOK
<1> QED BY <1>1, <1>2, <1>4, <1>7, <1>8, LogTypes DEF LogInv

LEMMA TeeEndsKeepsLog ==
  ASSUME LogInv, Log!TeeEof \/ Log!TeeFails PROVE LogInv'
<1>1. /\ logAt = "tee" /\ logAt' = "done" /\ written' = written
      /\ consumed' = consumed /\ stdout' = stdout /\ log' = log
      /\ fails' = fails
      /\ \/ due' = 0 /\ ~writing /\ consumed = written
         \/ due' = -1
  BY DEF Log!TeeEof, Log!TeeFails
<1>2. writing' = writing
  BY DEF Log!TeeEof, Log!TeeFails
<1>3. due' \in -1..Chunk
  BY <1>1, LogConstants
<1>4. Log!TypeOK'
  BY <1>1, <1>2, <1>3, LogTypes DEF Log!TypeOK
<1>5. due' = 0 => consumed = written /\ ~writing
  BY <1>1
<1>6. ~writing => ~writing'
  BY <1>2
<1> QED BY <1>1, <1>4, <1>5, <1>6, LogTypes DEF LogInv

LEMMA SpliceSomeKeepsLog == ASSUME LogInv, Log!SpliceSome PROVE LogInv'
<1>1. PICK m \in 1..Least(due, written - consumed) :
        /\ consumed' = consumed + m
        /\ log' = Joined(log, Slice(consumed, consumed + m))
        /\ due' = due - m
        /\ logAt' = IF due > m THEN "splice" ELSE "tee"
  BY LogStreams DEF Log!SpliceSome, Log!Length
<1>2. /\ logAt = "splice" /\ written' = written /\ stdout' = stdout
      /\ fails' = fails
  BY DEF Log!SpliceSome
<1>3. writing' = writing
  BY DEF Log!SpliceSome
<1>4. due \in 1..Chunk /\ consumed + due <= written
  BY <1>2, LogTypes DEF LogInv
<1>5. m \in 1..due /\ m \in Nat
  <2>1. written - consumed \in Int /\ due \in Int
    BY <1>4, LogTypes
  <2> QED BY <2>1, LeastProperties
<1>6. /\ consumed + m \in Nat /\ consumed <= consumed + m
      /\ consumed + m \in 0..written /\ due - m \in 0..Chunk
      /\ (consumed + m) + (due - m) = consumed + due
  <2>1. written \in Nat /\ consumed \in Nat /\ Chunk \in Nat
    BY LogTypes, LogConstants
  <2> QED BY <1>4, <1>5, <2>1
<1>7. log' = Upto(consumed')
  BY <1>1, <1>6, LogTypes, UptoExtend
<1>8. log' \in Seq(Nat)
  BY <1>1, <1>6, <1>7, UptoType
<1>9. Log!TypeOK'
  BY <1>1, <1>2, <1>3, <1>6, <1>8, LogTypes DEF Log!TypeOK
<1>10. fails = 0 => stdout = Upto(consumed + due)
  BY <1>2 DEF LogInv
<1>11. CASE due > m
  <2>1. /\ logAt' = "splice" /\ due' >= 1
        /\ consumed' + due' <= written
        /\ consumed' + due' = consumed + due
    BY <1>1, <1>4, <1>5, <1>6, <1>11
  <2> QED BY <1>2, <1>7, <1>9, <1>10, <2>1 DEF LogInv
<1>12. CASE ~(due > m)
  <2>1. /\ logAt' = "tee" /\ due' = 0 /\ consumed' = consumed + due
    BY <1>1, <1>4, <1>5, <1>12
  <2> QED BY <1>2, <1>7, <1>9, <1>10, <2>1 DEF LogInv
<1> QED BY <1>11, <1>12

LEMMA SpliceFailsKeepsLog == ASSUME LogInv, Log!SpliceFails PROVE LogInv'
<1>1. /\ logAt = "splice" /\ logAt' = "tee" /\ fails' = fails + 1
      /\ fails < MaxFails /\ written' = written /\ consumed' = consumed
      /\ due' = due /\ stdout' = stdout /\ log' = log
  BY DEF Log!SpliceFails
<1>2. writing' = writing
  BY DEF Log!SpliceFails
<1>3. fails' \in 0..MaxFails /\ fails' # 0
  BY <1>1, LogTypes, LogConstants
<1>4. Log!TypeOK'
  BY <1>1, <1>2, <1>3, LogTypes DEF Log!TypeOK
<1> QED BY <1>1, <1>3, <1>4, LogTypes DEF LogInv

LEMMA LogStep == LogInv /\ [Log!Next]_logVars => LogInv'
<1> SUFFICES ASSUME LogInv, [Log!Next]_logVars PROVE LogInv'
  OBVIOUS
<1>1. CASE Log!Next
  BY <1>1, ProducerKeepsLog, TeeChunkKeepsLog, TeeEndsKeepsLog,
     SpliceSomeKeepsLog, SpliceFailsKeepsLog DEF Log!Next, Log!Program
<1>2. CASE UNCHANGED logVars
  BY <1>2 DEF logVars, LogInv, Log!TypeOK
<1> QED BY <1>1, <1>2

LEMMA LogFollowsStdoutHolds == LogInv => LogFollowsStdout
<1> SUFFICES ASSUME LogInv PROVE LogFollowsStdout
  OBVIOUS
<1>1. ASSUME fails = 0, due # -1
      PROVE  stdout = Joined(log, Slice(consumed, consumed + due))
  <2>1. due \in Nat /\ consumed + due \in Nat /\ consumed <= consumed + due
    BY <1>1, LogTypes
  <2>2. stdout = Upto(consumed + due)
    BY <1>1, <2>1, LogTypes DEF LogInv
  <2> QED BY <2>1, <2>2, LogTypes, UptoExtend
<1>2. fails = 0 /\ logAt = "done" /\ due = 0 => stdout = Upto(written)
  BY DEF LogInv
<1>3. logAt = "done" /\ due = 0 => log = Upto(written)
  BY DEF LogInv
<1> QED BY <1>1, <1>2, <1>3, LogStreams DEF LogFollowsStdout, Log!LogFollowsStdout

-----------------------------------------------------------------------------
(* HttpServer: nobody has read from a client that waits, and the one that  *)
(* is served waits no more.                                                *)
Connected == {"up", "fin", "reset", "aborted"}
Served == Connected \union {"broken"}

Waits(i) ==
  /\ peer[backlog[i]] \in Connected
  /\ unread[backlog[i]] = sent[backlog[i]]
  /\ backlog[i] # serving

HttpTypeOK ==
  /\ httpAt \in {"accept", "read", "write", "killed"}
  /\ gather \in BOOLEAN
  /\ backlog \in Seq(Clients)
  /\ serving \in Clients \union {None}
  /\ calls \in Nat
  /\ peer \in [Clients -> Http!PeerStates]
  /\ sent \in [Clients -> Nat] /\ unread \in [Clients -> Nat]

HttpInv ==
  /\ HttpTypeOK
  /\ \A c \in Clients : peer[c] = "idle" => unread[c] = sent[c]
  /\ \A i \in 1..Len(backlog) : Waits(i)
  /\ \A i, j \in 1..Len(backlog) : backlog[i] = backlog[j] => i = j
  /\ httpAt # "accept" => serving \in Clients /\ peer[serving] \in Served
  /\ httpAt = "accept" => serving = None
  /\ httpAt = "read" =>
       /\ calls = 0
       /\ peer[serving] \in Connected
       /\ unread[serving] = sent[serving]
  /\ httpAt \in {"write", "killed"} /\ peer[serving] = "broken" /\ calls = 0 =>
       sent[serving] = 0
  /\ httpAt = "killed" => peer[serving] \in Http!Fatal /\ (gather => calls = 0)

LEMMA HttpConstants ==
  NaiveCalls \in Nat \ {0, 1} /\ ReadMax \in Nat \ {0} /\ None \notin Clients
BY LoopsAssumption DEF Http!HttpAssumption

LEMMA ServedStates == Served \subseteq Http!PeerStates \ {"idle"}
BY DEF Served, Connected, Http!PeerStates

LEMMA HttpStart == Http!Init => HttpInv
<1> SUFFICES ASSUME Http!Init PROVE HttpInv
  OBVIOUS
<1>1. /\ httpAt = "accept" /\ backlog = <<>> /\ serving = None /\ calls = 0
      /\ peer = [c \in Clients |-> "idle"]
      /\ sent = [c \in Clients |-> 0] /\ unread = [c \in Clients |-> 0]
  BY DEF Http!Init
<1>2. gather \in BOOLEAN
  BY DEF Http!Init
<1>3. HttpTypeOK
  BY <1>1, <1>2 DEF HttpTypeOK, Http!PeerStates
<1>4. Len(backlog) = 0
  BY <1>1
<1> QED BY <1>1, <1>3, <1>4 DEF HttpInv

(* Whoever waits is a client, and not the one that is served. *)
LEMMA WaitingClients ==
  ASSUME HttpInv, NEW i \in 1..Len(backlog)
  PROVE  backlog[i] \in Clients /\ Waits(i)
BY DEF HttpInv, HttpTypeOK

(* A step that changes neither the queue nor whom it serves is judged by   *)
(* what it does to those who wait.                                         *)
LEMMA QueueStays ==
  ASSUME HttpInv, backlog' = backlog, serving' \in {serving, None},
         \A i \in 1..Len(backlog) :
           /\ peer'[backlog[i]] \in Connected
           /\ unread'[backlog[i]] = sent'[backlog[i]]
  PROVE  /\ \A i \in 1..Len(backlog') : Waits(i)'
         /\ \A i, j \in 1..Len(backlog') : backlog'[i] = backlog'[j] => i = j
<1>1. \A i \in 1..Len(backlog) : backlog[i] # serving /\ backlog[i] # None
  BY WaitingClients, HttpConstants DEF Waits
<1>2. ASSUME NEW i \in 1..Len(backlog')
      PROVE  Waits(i)'
  BY <1>1, <1>2 DEF Waits
<1>3. \A i, j \in 1..Len(backlog) : backlog[i] = backlog[j] => i = j
  BY DEF HttpInv
<1> QED BY <1>2, <1>3

LEMMA ConnectKeepsHttp ==
  ASSUME HttpInv, NEW c \in Clients, Http!Connect(c) PROVE HttpInv'
<1>1. /\ httpAt # "killed" /\ peer[c] = "idle"
      /\ peer' = [peer EXCEPT ![c] = "up"]
      /\ backlog' = Append(backlog, c)
      /\ httpAt' = httpAt /\ serving' = serving /\ calls' = calls
      /\ sent' = sent /\ unread' = unread
  BY DEF Http!Connect
<1>2. gather' = gather
  BY DEF Http!Connect
<1>3. HttpTypeOK
  BY DEF HttpInv
<1>4. HttpTypeOK'
  BY <1>1, <1>2, <1>3 DEF HttpTypeOK, Http!PeerStates
<1>5. /\ peer'[c] = "up" /\ unread[c] = sent[c]
      /\ \A d \in Clients : d # c => peer'[d] = peer[d]
  BY <1>1, <1>3 DEF HttpTypeOK, HttpInv
<1>6. \A i \in 1..Len(backlog) : backlog[i] \in Clients /\ backlog[i] # c
  <2> SUFFICES ASSUME NEW i \in 1..Len(backlog)
               PROVE  backlog[i] \in Clients /\ backlog[i] # c
    OBVIOUS
  <2>1. backlog[i] \in Clients /\ peer[backlog[i]] \in Connected
    BY WaitingClients DEF Waits
  <2> QED BY <1>1, <2>1 DEF Connected
<1>7. c # serving
  BY <1>1, <1>3, HttpConstants, ServedStates DEF HttpInv, HttpTypeOK
<1>8. /\ Len(backlog) \in Nat /\ Len(backlog') = Len(backlog) + 1
      /\ \A i \in 1..Len(backlog) : backlog'[i] = backlog[i]
      /\ backlog'[Len(backlog) + 1] = c
  BY <1>1, <1>3 DEF HttpTypeOK
<1>9. ASSUME NEW i \in 1..Len(backlog')
      PROVE  Waits(i)'
  <2>1. CASE i = Len(backlog) + 1
    BY <1>1, <1>5, <1>7, <1>8, <2>1 DEF Waits, Connected
  <2>2. CASE i \in 1..Len(backlog)
    <3>1. Waits(i) /\ backlog'[i] = backlog[i]
      BY <1>8, <2>2, WaitingClients
    <3>2. peer'[backlog[i]] = peer[backlog[i]]
      BY <1>5, <1>6, <2>2
    <3> QED BY <1>1, <3>1, <3>2 DEF Waits
  <2> QED BY <1>8, <2>1, <2>2
<1>10. ASSUME NEW i \in 1..Len(backlog'), NEW j \in 1..Len(backlog'),
              backlog'[i] = backlog'[j]
       PROVE  i = j
  <2>1. i \in 1..(Len(backlog) + 1) /\ j \in 1..(Len(backlog) + 1)
    BY <1>8
  <2>2. CASE i \in 1..Len(backlog) /\ j \in 1..Len(backlog)
    <3>1. \A p, q \in 1..Len(backlog) : backlog[p] = backlog[q] => p = q
      BY DEF HttpInv
    <3> QED BY <1>8, <1>10, <2>2, <3>1
  <2>3. CASE i = Len(backlog) + 1 \/ j = Len(backlog) + 1
    BY <1>6, <1>8, <1>10, <2>1, <2>3
  <2> QED BY <1>8, <2>1, <2>2, <2>3
<1>11. \A d \in Clients : peer'[d] = "idle" => unread'[d] = sent'[d]
  <2>1. \A d \in Clients : peer[d] = "idle" => unread[d] = sent[d]
    BY DEF HttpInv
  <2> QED BY <1>1, <1>5, <2>1
<1>12. httpAt # "accept" => serving \in Clients /\ peer'[serving] = peer[serving]
  BY <1>5, <1>7 DEF HttpInv
<1>13. /\ httpAt' # "accept" => serving' \in Clients /\ peer'[serving'] \in Served
       /\ httpAt' = "accept" => serving' = None
  BY <1>1, <1>12 DEF HttpInv
<1>14. httpAt' = "read" =>
         /\ calls' = 0
         /\ peer'[serving'] \in Connected
         /\ unread'[serving'] = sent'[serving']
  BY <1>1, <1>12 DEF HttpInv
<1>15. httpAt' \in {"write", "killed"} /\ peer'[serving'] = "broken" /\ calls' = 0
         => sent'[serving'] = 0
  BY <1>1, <1>12 DEF HttpInv
<1>16. httpAt' # "killed"
  BY <1>1
<1> QED BY <1>4, <1>9, <1>10, <1>11, <1>13, <1>14, <1>15, <1>16 DEF HttpInv

LEMMA SendKeepsHttp ==
  ASSUME HttpInv, NEW c \in Clients, Http!Send(c) PROVE HttpInv'
<1>1. PICK k \in 1..(MaxRequest - sent[c]) :
        /\ sent' = [sent EXCEPT ![c] = @ + k]
        /\ peer[c] = "up" => unread' = [unread EXCEPT ![c] = @ + k]
        /\ peer[c] # "up" => unread' = unread
  BY DEF Http!Send
<1>2. /\ peer[c] \in {"up", "closed"}
      /\ gather' = gather
      /\ httpAt' = httpAt /\ serving' = serving /\ calls' = calls
      /\ backlog' = backlog /\ peer' = peer
  BY DEF Http!Send
<1>3. HttpTypeOK
  BY DEF HttpInv
<1> k \in Nat
  OBVIOUS
<1>4. unread' \in [Clients -> Nat] /\ sent' \in [Clients -> Nat]
  <2>1. unread \in [Clients -> Nat] /\ sent \in [Clients -> Nat]
    BY <1>3 DEF HttpTypeOK
  <2>2. unread' = unread \/ unread' = [unread EXCEPT ![c] = unread[c] + k]
    BY <1>1
  <2>3. unread[c] + k \in Nat /\ sent[c] + k \in Nat
    BY <2>1
  <2> QED BY <1>1, <2>1, <2>2, <2>3
<1>5. HttpTypeOK'
  BY <1>1, <1>2, <1>3, <1>4 DEF HttpTypeOK
<1>6. \A d \in Clients :
        /\ d # c => unread'[d] = unread[d] /\ sent'[d] = sent[d]
        /\ peer[d] # "closed" /\ unread[d] = sent[d] => unread'[d] = sent'[d]
  <2>1. \A d \in Clients : d # c => unread'[d] = unread[d] /\ sent'[d] = sent[d]
    BY <1>1, <1>3 DEF HttpTypeOK
  <2>2. peer[c] # "closed" => unread'[c] = unread[c] + k /\ sent'[c] = sent[c] + k
    BY <1>1, <1>2, <1>3 DEF HttpTypeOK
  <2> QED BY <2>1, <2>2
<1>7. \A i \in 1..Len(backlog) :
        peer'[backlog[i]] \in Connected /\ unread'[backlog[i]] = sent'[backlog[i]]
  <2> SUFFICES ASSUME NEW i \in 1..Len(backlog)
               PROVE  /\ peer'[backlog[i]] \in Connected
                      /\ unread'[backlog[i]] = sent'[backlog[i]]
    OBVIOUS
  <2>1. backlog[i] \in Clients /\ Waits(i)
    BY WaitingClients
  <2> QED BY <1>2, <1>6, <2>1 DEF Waits, Connected
<1>8. /\ \A i \in 1..Len(backlog') : Waits(i)'
      /\ \A i, j \in 1..Len(backlog') : backlog'[i] = backlog'[j] => i = j
  BY <1>2, <1>7, QueueStays
<1>9. \A d \in Clients : peer'[d] = "idle" => unread'[d] = sent'[d]
  <2>1. \A d \in Clients : peer[d] = "idle" => unread[d] = sent[d]
    BY DEF HttpInv
  <2> QED BY <1>2, <1>6, <2>1
<1>10. httpAt # "accept" => serving \in Clients
  BY DEF HttpInv
<1>11. httpAt' = "read" =>
         /\ calls' = 0
         /\ peer'[serving'] \in Connected
         /\ unread'[serving'] = sent'[serving']
  BY <1>2, <1>6, <1>10 DEF HttpInv, Connected
<1>12. httpAt' \in {"write", "killed"} /\ peer'[serving'] = "broken" /\ calls' = 0
         => sent'[serving'] = 0
  BY <1>2, <1>6, <1>10 DEF HttpInv
<1>13. /\ httpAt' # "accept" => serving' \in Clients /\ peer'[serving'] \in Served
       /\ httpAt' = "accept" => serving' = None
  BY <1>2 DEF HttpInv
<1>14. httpAt' = "killed" => peer'[serving'] \in Http!Fatal /\ (gather' => calls' = 0)
  <2>1. httpAt = "killed" => peer[serving] \in Http!Fatal /\ (gather => calls = 0)
    BY DEF HttpInv
  <2> QED BY <1>2, <2>1
<1> QED BY <1>5, <1>8, <1>9, <1>11, <1>12, <1>13, <1>14 DEF HttpInv

LEMMA LeaveKeepsHttp ==
  ASSUME HttpInv, NEW c \in Clients, Http!Leave(c) PROVE HttpInv'
<1>1. /\ peer[c] \in {"up", "fin"}
      /\ httpAt' = httpAt /\ serving' = serving /\ calls' = calls
      /\ backlog' = backlog /\ sent' = sent /\ unread' = unread
  BY DEF Http!Leave
<1>2. gather' = gather
  BY DEF Http!Leave
<1>3. HttpTypeOK
  BY DEF HttpInv
<1>4. PICK how \in {"fin", "reset", "aborted"} : peer' = [peer EXCEPT ![c] = how]
  BY DEF Http!Leave
<1>5. HttpTypeOK'
  BY <1>1, <1>2, <1>3, <1>4 DEF HttpTypeOK, Http!PeerStates
<1>6. \A d \in Clients :
        /\ peer'[d] = "idle" <=> peer[d] = "idle"
        /\ peer'[d] = "broken" <=> peer[d] = "broken"
        /\ peer[d] \in Connected => peer'[d] \in Connected
        /\ peer[d] \in Served => peer'[d] \in Served
        /\ peer[d] \in Http!Fatal => peer'[d] \in Http!Fatal
  BY <1>1, <1>3, <1>4 DEF HttpTypeOK, Connected, Served, Http!Fatal
<1>7. \A i \in 1..Len(backlog) :
        peer'[backlog[i]] \in Connected /\ unread'[backlog[i]] = sent'[backlog[i]]
  BY <1>1, <1>6, WaitingClients DEF Waits
<1>8. /\ \A i \in 1..Len(backlog') : Waits(i)'
      /\ \A i, j \in 1..Len(backlog') : backlog'[i] = backlog'[j] => i = j
  BY <1>1, <1>7, QueueStays
<1>9. \A d \in Clients : peer'[d] = "idle" => unread'[d] = sent'[d]
  <2>1. \A d \in Clients : peer[d] = "idle" => unread[d] = sent[d]
    BY DEF HttpInv
  <2> QED BY <1>1, <1>6, <2>1
<1>10. httpAt # "accept" => serving \in Clients
  BY DEF HttpInv
<1>11. httpAt' = "read" =>
         /\ calls' = 0
         /\ peer'[serving'] \in Connected
         /\ unread'[serving'] = sent'[serving']
  BY <1>1, <1>6, <1>10 DEF HttpInv
<1>12. httpAt' \in {"write", "killed"} /\ peer'[serving'] = "broken" /\ calls' = 0
         => sent'[serving'] = 0
  BY <1>1, <1>6, <1>10 DEF HttpInv
<1>13. /\ httpAt' # "accept" => serving' \in Clients /\ peer'[serving'] \in Served
       /\ httpAt' = "accept" => serving' = None
  BY <1>1, <1>6, <1>10 DEF HttpInv
<1>14. httpAt' = "killed" => peer'[serving'] \in Http!Fatal /\ (gather' => calls' = 0)
  <2>1. httpAt = "killed" => peer[serving] \in Http!Fatal /\ (gather => calls = 0)
    BY DEF HttpInv
  <2> QED BY <1>1, <1>2, <1>6, <1>10, <2>1
<1> QED BY <1>5, <1>8, <1>9, <1>11, <1>12, <1>13, <1>14 DEF HttpInv

LEMMA AcceptKeepsHttp == ASSUME HttpInv, Http!Accept PROVE HttpInv'
<1>1. /\ httpAt = "accept" /\ httpAt' = "read" /\ backlog # <<>>
      /\ serving' = Head(backlog) /\ backlog' = Tail(backlog) /\ calls' = 0
      /\ peer' = peer /\ sent' = sent /\ unread' = unread
  BY DEF Http!Accept
<1>2. gather' = gather
  BY DEF Http!Accept
<1>3. HttpTypeOK
  BY DEF HttpInv
<1>4. /\ Len(backlog) \in Nat /\ Len(backlog) >= 1 /\ serving' = backlog[1]
      /\ backlog' \in Seq(Clients) /\ Len(backlog') = Len(backlog) - 1
      /\ \A i \in 1..Len(backlog') : backlog'[i] = backlog[i + 1]
  BY <1>1, <1>3 DEF HttpTypeOK
<1>5. backlog[1] \in Clients /\ Waits(1)
  BY <1>4, WaitingClients
<1>6. HttpTypeOK'
  BY <1>1, <1>2, <1>3, <1>4, <1>5 DEF HttpTypeOK
<1>7. \A i, j \in 1..Len(backlog) : backlog[i] = backlog[j] => i = j
  BY DEF HttpInv
<1>8. ASSUME NEW i \in 1..Len(backlog')
      PROVE  Waits(i)'
  <2>1. i + 1 \in 1..Len(backlog) /\ i + 1 # 1 /\ 1 \in 1..Len(backlog)
    BY <1>4
  <2>2. Waits(i + 1) /\ backlog[i + 1] # backlog[1]
    BY <1>7, <2>1, WaitingClients
  <2> QED BY <1>1, <1>4, <2>2 DEF Waits
<1>9. ASSUME NEW i \in 1..Len(backlog'), NEW j \in 1..Len(backlog'),
             backlog'[i] = backlog'[j]
      PROVE  i = j
  <2>1. i + 1 \in 1..Len(backlog) /\ j + 1 \in 1..Len(backlog)
    BY <1>4
  <2>2. backlog[i + 1] = backlog[j + 1]
    BY <1>4, <1>9
  <2> QED BY <1>7, <2>1, <2>2
<1>10. /\ peer'[serving'] \in Connected
       /\ unread'[serving'] = sent'[serving']
       /\ serving' \in Clients
  BY <1>1, <1>4, <1>5 DEF Waits
<1>11. peer'[serving'] \in Served
  BY <1>10 DEF Served
<1>12. \A d \in Clients : peer'[d] = "idle" => unread'[d] = sent'[d]
  BY <1>1 DEF HttpInv
<1> QED BY <1>1, <1>6, <1>8, <1>9, <1>10, <1>11, <1>12 DEF HttpInv

LEMMA ReadRequestKeepsHttp == ASSUME HttpInv, Http!ReadRequest PROVE HttpInv'
<1>1. /\ httpAt = "read" /\ httpAt' = "write"
      /\ backlog' = backlog /\ serving' = serving /\ calls' = calls
      /\ peer' = peer /\ sent' = sent
  BY DEF Http!ReadRequest
<1>2. gather' = gather
  BY DEF Http!ReadRequest
<1>3. HttpTypeOK
  BY DEF HttpInv
<1>4. serving \in Clients /\ peer[serving] \in Connected
  BY <1>1 DEF HttpInv
<1>5. unread' = [unread EXCEPT ![serving] =
        IF unread[serving] > ReadMax THEN unread[serving] - ReadMax ELSE 0]
  BY DEF Http!ReadRequest
<1>6. unread' \in [Clients -> Nat]
  <2>1. /\ unread \in [Clients -> Nat]
        /\ unread[serving] > ReadMax => unread[serving] - ReadMax \in Nat
    BY <1>3, <1>4, HttpConstants DEF HttpTypeOK
  <2> QED BY <1>5, <2>1
<1>7. HttpTypeOK'
  BY <1>1, <1>2, <1>3, <1>6 DEF HttpTypeOK
<1>8. \A d \in Clients : d # serving => unread'[d] = unread[d]
  BY <1>3, <1>5 DEF HttpTypeOK
<1>9. \A i \in 1..Len(backlog) :
        peer'[backlog[i]] \in Connected /\ unread'[backlog[i]] = sent'[backlog[i]]
  BY <1>1, <1>8, WaitingClients DEF Waits
<1>10. /\ \A i \in 1..Len(backlog') : Waits(i)'
       /\ \A i, j \in 1..Len(backlog') : backlog'[i] = backlog'[j] => i = j
  BY <1>1, <1>9, QueueStays
<1>11. /\ peer'[serving'] \in Served /\ peer'[serving'] # "broken"
       /\ peer'[serving] # "idle"
  BY <1>1, <1>4 DEF Connected, Served
<1>12. \A d \in Clients : peer'[d] = "idle" => unread'[d] = sent'[d]
  <2>1. \A d \in Clients : peer[d] = "idle" => unread[d] = sent[d]
    BY DEF HttpInv
  <2> QED BY <1>1, <1>8, <1>11, <2>1
<1> QED BY <1>1, <1>4, <1>7, <1>10, <1>11, <1>12 DEF HttpInv

(* What the server does to the connection of the client that it serves is  *)
(* nothing to the others.                                                  *)
LEMMA ServedOnly ==
  ASSUME HttpInv, NEW state \in Http!PeerStates \ {"idle"}, serving \in Clients,
         peer' = [peer EXCEPT ![serving] = state], serving' \in {serving, None},
         backlog' = backlog, sent' = sent, unread' = unread
  PROVE  /\ peer' \in [Clients -> Http!PeerStates]
         /\ peer'[serving] = state
         /\ \A i \in 1..Len(backlog') : Waits(i)'
         /\ \A i, j \in 1..Len(backlog') : backlog'[i] = backlog'[j] => i = j
         /\ \A d \in Clients : peer'[d] = "idle" => unread'[d] = sent'[d]
<1>1. /\ peer' \in [Clients -> Http!PeerStates]
      /\ peer'[serving] = state
      /\ \A d \in Clients : d # serving => peer'[d] = peer[d]
  BY DEF HttpInv, HttpTypeOK
<1>2. \A i \in 1..Len(backlog) :
        peer'[backlog[i]] \in Connected /\ unread'[backlog[i]] = sent'[backlog[i]]
  BY <1>1, WaitingClients DEF Waits
<1>3. \A d \in Clients : peer[d] = "idle" => unread[d] = sent[d]
  BY DEF HttpInv
<1>4. \A d \in Clients : peer'[d] = "idle" => unread'[d] = sent'[d]
  BY <1>1, <1>3
<1> QED BY <1>1, <1>2, <1>4, QueueStays

LEMMA ReadNothingKeepsHttp == ASSUME HttpInv, Http!ReadNothing PROVE HttpInv'
<1>1. /\ httpAt = "read" /\ httpAt' = "write" /\ unread[serving] = 0
      /\ peer' = [peer EXCEPT ![serving] = IF @ = "reset" THEN "broken" ELSE @]
      /\ backlog' = backlog /\ serving' = serving /\ calls' = calls
      /\ sent' = sent /\ unread' = unread
  BY DEF Http!ReadNothing
<1>2. gather' = gather
  BY DEF Http!ReadNothing
<1>3. HttpTypeOK
  BY DEF HttpInv
<1>4. /\ serving \in Clients /\ peer[serving] \in Connected
      /\ unread[serving] = sent[serving]
  BY <1>1 DEF HttpInv
<1>5. PICK state \in Served : peer' = [peer EXCEPT ![serving] = state]
  <2>1. (IF peer[serving] = "reset" THEN "broken" ELSE peer[serving]) \in Served
    BY <1>4 DEF Served, Connected
  <2> QED BY <1>1, <2>1
<1>6. /\ peer' \in [Clients -> Http!PeerStates]
      /\ peer'[serving] = state
      /\ \A i \in 1..Len(backlog') : Waits(i)'
      /\ \A i, j \in 1..Len(backlog') : backlog'[i] = backlog'[j] => i = j
      /\ \A d \in Clients : peer'[d] = "idle" => unread'[d] = sent'[d]
  BY <1>1, <1>4, <1>5, ServedStates, ServedOnly
<1>7. HttpTypeOK'
  BY <1>1, <1>2, <1>3, <1>6 DEF HttpTypeOK
<1>8. sent'[serving'] = 0
  BY <1>1, <1>4
<1> QED BY <1>1, <1>4, <1>6, <1>7, <1>8 DEF HttpInv

LEMMA WriteSomeKeepsHttp == ASSUME HttpInv, Http!WriteSome PROVE HttpInv'
<1>1. /\ httpAt = "write" /\ httpAt' = "write" /\ calls' = calls + 1
      /\ backlog' = backlog /\ serving' = serving
      /\ sent' = sent /\ unread' = unread
  BY DEF Http!WriteSome
<1>2. gather' = gather
  BY DEF Http!WriteSome
<1>3. HttpTypeOK
  BY DEF HttpInv
<1>4. serving \in Clients
  BY <1>1 DEF HttpInv
<1>5. PICK state \in Served : peer' = [peer EXCEPT ![serving] = state]
  <2>1. peer[serving] \in Served /\ peer[serving] \notin {"broken", "aborted"}
    BY <1>1 DEF HttpInv, Http!WriteSome, Http!Fatal
  <2>2. CASE peer[serving] = "up"
    BY <2>2 DEF Http!WriteSome, Served, Connected
  <2>3. CASE peer[serving] = "fin"
    BY <2>3 DEF Http!WriteSome, Served, Connected
  <2>4. CASE peer[serving] = "reset"
    BY <2>4 DEF Http!WriteSome, Served, Connected
  <2> QED BY <2>1, <2>2, <2>3, <2>4 DEF Served, Connected
<1>6. state \in Http!PeerStates \ {"idle"}
  BY ServedStates
<1>7. /\ peer' \in [Clients -> Http!PeerStates]
      /\ peer'[serving] = state
      /\ \A i \in 1..Len(backlog') : Waits(i)'
      /\ \A i, j \in 1..Len(backlog') : backlog'[i] = backlog'[j] => i = j
      /\ \A d \in Clients : peer'[d] = "idle" => unread'[d] = sent'[d]
  BY <1>1, <1>4, <1>5, <1>6, ServedOnly
<1>8. calls' \in Nat /\ calls' # 0
  BY <1>1, <1>3 DEF HttpTypeOK
<1>9. HttpTypeOK'
  BY <1>1, <1>2, <1>3, <1>7, <1>8 DEF HttpTypeOK
<1> QED BY <1>1, <1>4, <1>7, <1>8, <1>9 DEF HttpInv

LEMMA WriteKillsKeepsHttp == ASSUME HttpInv, Http!WriteKills PROVE HttpInv'
<1>1. /\ httpAt = "write" /\ httpAt' = "killed"
      /\ peer[serving] \in Http!Fatal /\ calls < Http!Calls
      /\ backlog' = backlog /\ serving' = serving /\ calls' = calls
      /\ peer' = peer /\ sent' = sent /\ unread' = unread
  BY DEF Http!WriteKills
<1>2. gather' = gather
  BY DEF Http!WriteKills
<1>3. HttpTypeOK /\ calls \in Nat
  BY DEF HttpInv, HttpTypeOK
<1>4. gather' => calls' = 0
  BY <1>1, <1>2, <1>3 DEF Http!Calls
<1>5. HttpTypeOK'
  BY <1>1, <1>2, <1>3 DEF HttpTypeOK
<1>6. \A i \in 1..Len(backlog) :
        peer'[backlog[i]] \in Connected /\ unread'[backlog[i]] = sent'[backlog[i]]
  BY <1>1, WaitingClients DEF Waits
<1>7. /\ \A i \in 1..Len(backlog') : Waits(i)'
      /\ \A i, j \in 1..Len(backlog') : backlog'[i] = backlog'[j] => i = j
  BY <1>1, <1>6, QueueStays
<1>8. /\ serving \in Clients /\ peer[serving] \in Served
      /\ peer[serving] = "broken" /\ calls = 0 => sent[serving] = 0
      /\ \A d \in Clients : peer'[d] = "idle" => unread'[d] = sent'[d]
  BY <1>1 DEF HttpInv
<1>9. httpAt' = "killed" =>
        peer'[serving'] \in Http!Fatal /\ (gather' => calls' = 0)
  BY <1>1, <1>4
<1> QED BY <1>1, <1>5, <1>7, <1>8, <1>9 DEF HttpInv

LEMMA CloseKeepsHttp == ASSUME HttpInv, Http!Close PROVE HttpInv'
<1>1. /\ httpAt = "write" /\ httpAt' = "accept"
      /\ peer' = [peer EXCEPT ![serving] = "closed"]
      /\ backlog' = backlog /\ serving' = None /\ calls' = calls
      /\ sent' = sent /\ unread' = unread
  BY DEF Http!Close
<1>2. gather' = gather
  BY DEF Http!Close
<1>3. HttpTypeOK
  BY DEF HttpInv
<1>4. serving \in Clients
  BY <1>1 DEF HttpInv
<1>5. "closed" \in Http!PeerStates \ {"idle"}
  BY DEF Http!PeerStates
<1>6. /\ peer' \in [Clients -> Http!PeerStates]
      /\ \A i \in 1..Len(backlog') : Waits(i)'
      /\ \A i, j \in 1..Len(backlog') : backlog'[i] = backlog'[j] => i = j
      /\ \A d \in Clients : peer'[d] = "idle" => unread'[d] = sent'[d]
  BY <1>1, <1>4, <1>5, ServedOnly
<1>7. HttpTypeOK'
  BY <1>1, <1>2, <1>3, <1>6 DEF HttpTypeOK
<1> QED BY <1>1, <1>6, <1>7 DEF HttpInv

LEMMA HttpStep == HttpInv /\ [Http!Next]_httpVars => HttpInv'
<1> SUFFICES ASSUME HttpInv, [Http!Next]_httpVars PROVE HttpInv'
  OBVIOUS
<1>1. CASE Http!Program
  BY <1>1, AcceptKeepsHttp, ReadRequestKeepsHttp, ReadNothingKeepsHttp,
     WriteSomeKeepsHttp, WriteKillsKeepsHttp, CloseKeepsHttp DEF Http!Program
<1>2. CASE Http!Others
  BY <1>2, ConnectKeepsHttp, SendKeepsHttp, LeaveKeepsHttp DEF Http!Others
<1>3. CASE UNCHANGED httpVars
  BY <1>3 DEF httpVars, HttpInv, HttpTypeOK, Waits
<1> QED BY <1>1, <1>2, <1>3 DEF Http!Next

LEMMA KilledOnlyByLeaverHolds == HttpInv => KilledOnlyByLeaver
<1> SUFFICES ASSUME HttpInv PROVE KilledOnlyByLeaver
  OBVIOUS
<1>1. httpAt = "killed" =>
        /\ peer[serving] \in {"broken", "aborted"}
        /\ gather => calls = 0
  BY DEF HttpInv, Http!Fatal
<1>2. httpAt = "killed" /\ peer[serving] = "broken" /\ calls = 0
        => sent[serving] = 0
  BY DEF HttpInv
<1>3. calls \in Nat
  BY DEF HttpInv, HttpTypeOK
<1>4. httpAt = "killed" /\ peer[serving] = "broken" /\ calls # 0
        => ~gather /\ calls > 0
  BY <1>1, <1>3
<1> QED BY <1>1, <1>2, <1>4 DEF KilledOnlyByLeaver, Http!KilledOnlyByLeaver

-----------------------------------------------------------------------------
(* HttpServer: an answer is given to those only who have sent something,   *)
(* and what is unread then came late or did not fit into the buffer.       *)
Excused(c) == pieces[c] > 1 \/ sent[c] > ReadMax

AnswerInv ==
  /\ pieces \in [Clients -> Nat]
  /\ answer \in [Clients -> {"none", "whole", "cut"}]
  /\ \A c \in Clients : sent[c] > 0 => pieces[c] > 0
  /\ httpAt = "write" /\ peer[serving] = "up" =>
       sent[serving] > 0 /\ (unread[serving] > 0 => Excused(serving))
  /\ \A c \in Clients : answer[c] # "none" => pieces[c] > 0
  /\ \A c \in Clients : answer[c] = "cut" => Excused(c)

LEMMA AnswersStart == Http!Init => AnswerInv
<1> SUFFICES ASSUME Http!Init PROVE AnswerInv
  OBVIOUS
<1>1. /\ httpAt = "accept" /\ answer = [c \in Clients |-> "none"]
      /\ pieces = [c \in Clients |-> 0] /\ sent = [c \in Clients |-> 0]
  BY DEF Http!Init
<1> QED BY <1>1 DEF AnswerInv

(* A request only grows, in bytes and in pieces. *)
RequestsGrow ==
  /\ pieces' \in [Clients -> Nat]
  /\ \A c \in Clients :
       /\ sent[c] \in Nat /\ sent'[c] \in Nat /\ sent'[c] >= sent[c]
       /\ pieces'[c] >= pieces[c]
       /\ sent'[c] > 0 => pieces'[c] > 0

LEMMA ExcusedStays ==
  ASSUME AnswerInv, RequestsGrow, NEW c \in Clients
  PROVE  /\ Excused(c) => Excused(c)'
         /\ pieces[c] > 0 => pieces'[c] > 0
         /\ sent[c] > 0 => sent'[c] > 0
<1>1. /\ pieces[c] \in Nat /\ pieces'[c] \in Nat /\ pieces'[c] >= pieces[c]
      /\ sent[c] \in Nat /\ sent'[c] \in Nat /\ sent'[c] >= sent[c]
  BY DEF AnswerInv, RequestsGrow
<1> QED BY <1>1, HttpConstants DEF Excused

(* As long as requests only grow, the answers given stay right. *)
LEMMA AnswersStand ==
  ASSUME AnswerInv, RequestsGrow, answer' = answer,
         httpAt' = "write" /\ peer'[serving'] = "up" =>
           sent'[serving'] > 0 /\ (unread'[serving'] > 0 => Excused(serving)')
  PROVE  AnswerInv'
<1>1. ASSUME NEW c \in Clients
      PROVE  /\ sent'[c] > 0 => pieces'[c] > 0
             /\ answer'[c] # "none" => pieces'[c] > 0
             /\ answer'[c] = "cut" => Excused(c)'
  BY ExcusedStays DEF AnswerInv, RequestsGrow
<1>2. /\ pieces' \in [Clients -> Nat]
      /\ answer' \in [Clients -> {"none", "whole", "cut"}]
  BY DEF AnswerInv, RequestsGrow
<1> QED BY <1>1, <1>2 DEF AnswerInv

LEMMA SendKeepsAnswers ==
  ASSUME HttpInv, AnswerInv, NEW c \in Clients, Http!Send(c)
  PROVE  AnswerInv'
<1>1. PICK k \in 1..(MaxRequest - sent[c]) :
        /\ sent' = [sent EXCEPT ![c] = @ + k]
        /\ peer[c] = "up" =>
             unread' = [unread EXCEPT ![c] = @ + k] /\ answer' = answer
        /\ peer[c] # "up" =>
             unread' = unread /\ answer' = [answer EXCEPT ![c] = "cut"]
  BY DEF Http!Send
<1>2. /\ pieces' = [pieces EXCEPT ![c] = @ + 1]
      /\ httpAt' = httpAt /\ serving' = serving /\ peer' = peer
      /\ peer[c] # "up" => answer[c] # "none"
  BY DEF Http!Send
<1>3. /\ sent \in [Clients -> Nat] /\ unread \in [Clients -> Nat]
      /\ pieces \in [Clients -> Nat]
      /\ k \in Nat /\ k > 0
  BY DEF HttpInv, HttpTypeOK, AnswerInv
<1>4. /\ sent'[c] = sent[c] + k /\ pieces'[c] = pieces[c] + 1
      /\ \A d \in Clients : d # c => sent'[d] = sent[d] /\ pieces'[d] = pieces[d]
  BY <1>1, <1>2, <1>3
<1>5. RequestsGrow
  <2>1. pieces' \in [Clients -> Nat]
    BY <1>2, <1>3
  <2>2. ASSUME NEW d \in Clients
        PROVE  /\ sent[d] \in Nat /\ sent'[d] \in Nat /\ sent'[d] >= sent[d]
               /\ pieces'[d] >= pieces[d]
               /\ sent'[d] > 0 => pieces'[d] > 0
    <3>1. CASE d = c
      BY <1>3, <1>4, <3>1
    <3>2. CASE d # c
      BY <1>3, <1>4, <3>2 DEF AnswerInv
    <3> QED BY <3>1, <3>2
  <2> QED BY <2>1, <2>2 DEF RequestsGrow
<1>6. /\ httpAt = "write" => serving \in Clients
      /\ httpAt = "write" /\ peer[serving] = "up" =>
           sent[serving] > 0 /\ (unread[serving] > 0 => Excused(serving))
  BY DEF HttpInv, AnswerInv
<1>7. pieces[c] > 0 => Excused(c)'
  BY <1>3, <1>4 DEF Excused
<1>8. httpAt' = "write" /\ peer'[serving'] = "up" =>
        sent'[serving'] > 0 /\ (unread'[serving'] > 0 => Excused(serving)')
  <2> SUFFICES ASSUME httpAt' = "write", peer'[serving'] = "up"
               PROVE  /\ sent'[serving'] > 0
                      /\ unread'[serving'] > 0 => Excused(serving)'
    OBVIOUS
  <2>1. /\ serving \in Clients /\ serving' = serving /\ sent[serving] > 0
        /\ unread[serving] > 0 => Excused(serving)
    BY <1>2, <1>6
  <2>2. sent'[serving] > 0
    BY <1>5, <2>1, ExcusedStays
  <2>3. CASE serving = c
    BY <1>7, <2>1, <2>2, <2>3 DEF AnswerInv
  <2>4. CASE serving # c
    <3>1. unread'[serving] = unread[serving]
      BY <1>1, <1>3, <2>1, <2>4
    <3> QED BY <1>5, <2>1, <2>2, <3>1, ExcusedStays
  <2> QED BY <2>3, <2>4
<1>9. CASE peer[c] = "up"
  BY <1>1, <1>5, <1>8, <1>9, AnswersStand
<1>10. CASE peer[c] # "up"
  <2>1. answer' = [answer EXCEPT ![c] = "cut"] /\ answer[c] # "none"
    BY <1>1, <1>2, <1>10
  <2>2. /\ answer' \in [Clients -> {"none", "whole", "cut"}]
        /\ \A d \in Clients : d # c => answer'[d] = answer[d]
    BY <2>1 DEF AnswerInv
  <2>3. pieces[c] > 0
    BY <2>1 DEF AnswerInv
  <2>4. ASSUME NEW d \in Clients
        PROVE  /\ sent'[d] > 0 => pieces'[d] > 0
               /\ answer'[d] # "none" => pieces'[d] > 0
               /\ answer'[d] = "cut" => Excused(d)'
    <3>1. CASE d = c
      BY <1>5, <1>7, <2>3, <3>1, ExcusedStays DEF RequestsGrow
    <3>2. CASE d # c
      BY <1>5, <2>2, <3>2, ExcusedStays DEF AnswerInv, RequestsGrow
    <3> QED BY <3>1, <3>2
  <2> QED BY <1>5, <1>8, <2>2, <2>4 DEF AnswerInv, RequestsGrow
<1> QED BY <1>9, <1>10

LEMMA CloseKeepsAnswers ==
  ASSUME HttpInv, AnswerInv, Http!Close
  PROVE  AnswerInv'
<1>1. /\ httpAt = "write" /\ httpAt' = "accept"
      /\ sent' = sent /\ pieces' = pieces
      /\ answer' = [answer EXCEPT ![serving] =
           CASE peer[serving] # "up" -> "none"
             [] peer[serving] = "up" /\ unread[serving] > 0 -> "cut"
             [] OTHER -> "whole"]
  BY DEF Http!Close
<1>2. serving \in Clients
  BY <1>1 DEF HttpInv
<1>3. PICK given \in {"none", "whole", "cut"} :
        /\ answer' = [answer EXCEPT ![serving] = given]
        /\ given # "none" => peer[serving] = "up"
        /\ given = "cut" => unread[serving] > 0
  <2>1. CASE peer[serving] # "up"
    BY <1>1, <2>1
  <2>2. CASE peer[serving] = "up" /\ unread[serving] > 0
    BY <1>1, <2>2
  <2>3. CASE peer[serving] = "up" /\ ~(unread[serving] > 0)
    BY <1>1, <2>3
  <2> QED BY <2>1, <2>2, <2>3
<1>4. /\ given # "none" => pieces[serving] > 0
      /\ given = "cut" => Excused(serving)
  BY <1>1, <1>2, <1>3 DEF AnswerInv
<1>5. /\ answer' \in [Clients -> {"none", "whole", "cut"}]
      /\ answer'[serving] = given
      /\ \A d \in Clients : d # serving => answer'[d] = answer[d]
  BY <1>2, <1>3 DEF AnswerInv
<1>6. ASSUME NEW d \in Clients
      PROVE  /\ answer'[d] # "none" => pieces[d] > 0
             /\ answer'[d] = "cut" => Excused(d)
  <2>1. CASE d = serving
    BY <1>4, <1>5, <2>1
  <2>2. CASE d # serving
    BY <1>5, <2>2 DEF AnswerInv
  <2> QED BY <2>1, <2>2
<1> QED BY <1>1, <1>5, <1>6 DEF AnswerInv, Excused

(* The other steps give no answer, and no request grows. *)
LEMMA RequestsStay ==
  ASSUME HttpInv, AnswerInv, sent' = sent, pieces' = pieces
  PROVE  RequestsGrow
<1>1. /\ sent \in [Clients -> Nat] /\ pieces \in [Clients -> Nat]
      /\ \A c \in Clients : sent[c] > 0 => pieces[c] > 0
  BY DEF HttpInv, HttpTypeOK, AnswerInv
<1> QED BY <1>1 DEF RequestsGrow

LEMMA ServerKeepsAnswers ==
  ASSUME HttpInv, AnswerInv,
         \/ Http!Accept \/ Http!ReadRequest \/ Http!ReadNothing
         \/ Http!WriteSome \/ Http!WriteKills
  PROVE  AnswerInv'
<1>1. answer' = answer /\ sent' = sent /\ pieces' = pieces
  BY DEF Http!Accept, Http!ReadRequest, Http!ReadNothing, Http!WriteSome,
         Http!WriteKills
<1>2. RequestsGrow
  BY <1>1, RequestsStay
<1>3. httpAt' = "write" /\ peer'[serving'] = "up" =>
        sent'[serving'] > 0 /\ (unread'[serving'] > 0 => Excused(serving)')
  <2> SUFFICES ASSUME httpAt' = "write", peer'[serving'] = "up"
               PROVE  /\ sent'[serving'] > 0
                      /\ unread'[serving'] > 0 => Excused(serving)'
    OBVIOUS
  <2>1. CASE Http!ReadRequest
    <3>1. /\ httpAt = "read" /\ serving' = serving /\ unread[serving] > 0
          /\ unread' = [unread EXCEPT ![serving] =
               IF unread[serving] > ReadMax THEN unread[serving] - ReadMax ELSE 0]
      BY <2>1 DEF Http!ReadRequest
    <3>2. /\ serving \in Clients /\ unread[serving] = sent[serving]
          /\ unread \in [Clients -> Nat]
      BY <3>1 DEF HttpInv, HttpTypeOK
    <3>3. unread'[serving] > 0 => sent[serving] > ReadMax
      BY <3>1, <3>2
    <3> QED BY <1>1, <3>1, <3>2, <3>3 DEF Excused
  <2>2. CASE Http!ReadNothing
    <3>1. /\ httpAt = "read" /\ serving' = serving /\ peer[serving] # "up"
          /\ peer' = [peer EXCEPT ![serving] =
                        IF @ = "reset" THEN "broken" ELSE @]
      BY <2>2 DEF Http!ReadNothing
    <3>2. serving \in Clients /\ peer \in [Clients -> Http!PeerStates]
      BY <3>1 DEF HttpInv, HttpTypeOK
    <3>3. peer'[serving] # "up"
      BY <3>1, <3>2
    <3> QED BY <3>1, <3>3
  <2>3. CASE Http!WriteSome
    <3>1. /\ httpAt = "write" /\ serving' = serving /\ unread' = unread
          /\ peer[serving] \notin {"broken", "aborted"}
      BY <2>3 DEF Http!WriteSome, Http!Fatal
    <3>2. serving \in Clients /\ peer \in [Clients -> Http!PeerStates]
      BY <3>1 DEF HttpInv, HttpTypeOK
    <3>3. peer[serving] \in {"up", "fin", "reset"}
      BY <3>1 DEF HttpInv, Served, Connected
    <3>4. peer[serving] = "up"
      <4>1. peer[serving] = "fin" => peer'[serving] \in {"fin", "broken"}
        BY <2>3, <3>2 DEF Http!WriteSome
      <4>2. peer[serving] = "reset" => peer'[serving] = "broken"
        BY <2>3, <3>2 DEF Http!WriteSome
      <4> QED BY <3>1, <3>3, <4>1, <4>2
    <3>5. sent[serving] > 0 /\ (unread[serving] > 0 => Excused(serving))
      BY <3>1, <3>4 DEF AnswerInv
    <3> QED BY <1>1, <3>1, <3>5 DEF Excused
  <2> QED BY <2>1, <2>2, <2>3 DEF Http!Accept, Http!WriteKills
<1> QED BY <1>1, <1>2, <1>3, AnswersStand

LEMMA ClientsKeepAnswers ==
  ASSUME HttpInv, AnswerInv, NEW c \in Clients,
         Http!Connect(c) \/ Http!Leave(c)
  PROVE  AnswerInv'
<1>1. /\ answer' = answer /\ sent' = sent /\ pieces' = pieces
      /\ unread' = unread /\ httpAt' = httpAt /\ serving' = serving
  BY DEF Http!Connect, Http!Leave
<1>2. peer \in [Clients -> Http!PeerStates]
  BY DEF HttpInv, HttpTypeOK
<1>3. \A d \in Clients : peer'[d] = "up" => peer[d] \in {"up", "idle"}
  BY <1>2 DEF Http!Connect, Http!Leave
<1>4. httpAt = "write" => serving \in Clients /\ peer[serving] # "idle"
  BY DEF HttpInv, Served, Connected
<1>5. httpAt' = "write" /\ peer'[serving'] = "up" =>
        sent'[serving'] > 0 /\ (unread'[serving'] > 0 => Excused(serving)')
  BY <1>1, <1>3, <1>4 DEF AnswerInv, Excused
<1> QED BY <1>1, <1>5, RequestsStay, AnswersStand

LEMMA AnswersStep == HttpInv /\ AnswerInv /\ [Http!Next]_httpVars => AnswerInv'
<1> SUFFICES ASSUME HttpInv, AnswerInv, [Http!Next]_httpVars
             PROVE  AnswerInv'
  OBVIOUS
<1>1. CASE Http!Program
  BY <1>1, ServerKeepsAnswers, CloseKeepsAnswers DEF Http!Program
<1>2. CASE Http!Others
  BY <1>2, ClientsKeepAnswers, SendKeepsAnswers DEF Http!Others
<1>3. CASE UNCHANGED httpVars
  <2>1. /\ answer' = answer /\ sent' = sent /\ pieces' = pieces
        /\ unread' = unread
        /\ httpAt' = httpAt /\ serving' = serving /\ peer' = peer
    BY <1>3 DEF httpVars
  <2> QED BY <2>1 DEF AnswerInv, Excused
<1> QED BY <1>1, <1>2, <1>3 DEF Http!Next

LEMMA CutOnlyHolds == AnswerInv => Http!CutOnlyIfNotReadAtOnce
BY DEF AnswerInv, Excused, Http!CutOnlyIfNotReadAtOnce

-----------------------------------------------------------------------------
(* WatchLoop: there is at most one IN_DELETE_SELF to be seen, and none of  *)
(* a watch that lives.                                                     *)
Has(s) == \E i \in 1..Len(s) : s[i] = "DELETE_SELF"
Single(s) ==
  \A i, j \in 1..Len(s) :
    s[i] = "DELETE_SELF" /\ s[j] = "DELETE_SELF" => i = j

Coming == watchAt # "read" \/ Has(queue) \/ Has(batch)

Events == {"DELETE_SELF", "OTHER", "OVERFLOW"}

WatchTypeOK ==
  /\ watchAt \in {"start", "read", "rm", "add"}
  /\ foo \in Files \union {None} /\ watched \in Files \union {None}
  /\ kept \subseteq Files
  /\ failed \in BOOLEAN /\ lost \in BOOLEAN
  /\ queue \in Seq(Events) /\ batch \in Seq(Events)

WatchInv ==
  /\ WatchTypeOK
  /\ Single(queue) /\ Single(batch) /\ ~(Has(queue) /\ Has(batch))
  /\ watchAt # "read" => ~Has(queue) /\ ~Has(batch)
  /\ watched = None => Coming \/ failed \/ lost
  /\ failed \/ lost => watched = None
  /\ failed \/ lost \/ watched # None => ~Coming
  /\ foo # None /\ watched # None /\ foo # watched => watched \in kept

LEMMA WatchConstants ==
  QueueMax \in Nat \ {0} /\ BatchMax \in Nat \ {0} /\ None \notin Files
BY LoopsAssumption DEF Watch!WatchAssumption

(* Where an IN_DELETE_SELF is when a sequence of events grows, loses its   *)
(* first one or is split.                                                  *)
LEMMA MarksOfAppend ==
  ASSUME NEW s \in Seq(Events), NEW e \in Events
  PROVE  /\ Append(s, e) \in Seq(Events)
         /\ Has(Append(s, e)) <=> Has(s) \/ e = "DELETE_SELF"
         /\ Single(s) /\ ~(Has(s) /\ e = "DELETE_SELF") => Single(Append(s, e))
<1> DEFINE t == Append(s, e)
<1>1. /\ t \in Seq(Events) /\ Len(s) \in Nat /\ Len(t) = Len(s) + 1
      /\ t[Len(s) + 1] = e
      /\ \A i \in 1..Len(s) : t[i] = s[i]
  OBVIOUS
<1> HIDE DEF t
<1>2. \A i \in 1..Len(t) : i \in 1..Len(s) \/ i = Len(s) + 1
  BY <1>1
<1>3. Has(t) <=> Has(s) \/ e = "DELETE_SELF"
  <2>1. 1..Len(s) \subseteq 1..Len(t) /\ Len(s) + 1 \in 1..Len(t)
    BY <1>1
  <2> QED BY <1>1, <1>2, <2>1 DEF Has
<1>4. ASSUME Single(s), ~(Has(s) /\ e = "DELETE_SELF") PROVE Single(t)
  BY <1>1, <1>2, <1>4 DEF Has, Single
<1> QED BY <1>1, <1>3, <1>4 DEF t

LEMMA MarksOfTail ==
  ASSUME NEW s \in Seq(Events), s # <<>>, Single(s)
  PROVE  /\ Head(s) \in Events /\ Tail(s) \in Seq(Events) /\ Single(Tail(s))
         /\ Head(s) = "DELETE_SELF" => Has(s) /\ ~Has(Tail(s))
         /\ Head(s) # "DELETE_SELF" => (Has(Tail(s)) <=> Has(s))
<1> DEFINE t == Tail(s)
<1>1. /\ t \in Seq(Events) /\ Len(s) \in Nat /\ Len(s) >= 1
      /\ Len(t) = Len(s) - 1 /\ Head(s) = s[1] /\ s[1] \in Events
      /\ \A i \in 1..Len(t) : t[i] = s[i + 1]
  OBVIOUS
<1> HIDE DEF t
<1>2. \A i \in 1..Len(t) : i + 1 \in 1..Len(s) /\ i + 1 # 1
  BY <1>1
<1>3. /\ 1 \in 1..Len(s)
      /\ \A i \in 1..Len(s) : i = 1 \/ (i - 1 \in 1..Len(t) /\ t[i - 1] = s[i])
  BY <1>1
<1>4. Single(t)
  <2> SUFFICES ASSUME NEW i \in 1..Len(t), NEW j \in 1..Len(t),
                      t[i] = "DELETE_SELF", t[j] = "DELETE_SELF"
               PROVE  i = j
    BY DEF Single
  <2>1. i + 1 = j + 1
    BY <1>1, <1>2 DEF Single
  <2> QED BY <2>1
<1>5. Head(s) = "DELETE_SELF" => Has(s) /\ ~Has(t)
  <2>1. Head(s) = "DELETE_SELF" => Has(s)
    BY <1>1, <1>3 DEF Has
  <2>2. ASSUME Head(s) = "DELETE_SELF", NEW i \in 1..Len(t),
               t[i] = "DELETE_SELF"
        PROVE  FALSE
    BY <1>1, <1>2, <1>3, <2>2 DEF Single
  <2> QED BY <2>1, <2>2 DEF Has
<1>6. Head(s) # "DELETE_SELF" => (Has(t) <=> Has(s))
  BY <1>1, <1>2, <1>3 DEF Has
<1> QED BY <1>1, <1>4, <1>5, <1>6 DEF t

LEMMA MarksOfSplit ==
  ASSUME NEW s \in Seq(Events), NEW k \in 0..Len(s), Single(s)
  PROVE  LET t == SubSeq(s, 1, k)
             u == SubSeq(s, k + 1, Len(s))
         IN /\ t \in Seq(Events) /\ u \in Seq(Events)
            /\ Single(t) /\ Single(u) /\ ~(Has(t) /\ Has(u))
            /\ Has(s) <=> Has(t) \/ Has(u)
<1> DEFINE t == SubSeq(s, 1, k)
           u == SubSeq(s, k + 1, Len(s))
<1>1. /\ t \in Seq(Events) /\ Len(t) = k /\ k \in Nat /\ k <= Len(s)
      /\ \A i \in 1..k : t[i] = s[i]
  OBVIOUS
<1>2. /\ u \in Seq(Events) /\ Len(u) = Len(s) - k /\ Len(s) \in Nat
      /\ \A i \in 1..(Len(s) - k) : u[i] = s[i + k]
  OBVIOUS
<1> HIDE DEF t, u
<1>3. /\ \A i \in 1..Len(t) : i \in 1..Len(s) /\ i <= k
      /\ \A i \in 1..Len(u) : i + k \in 1..Len(s) /\ i + k > k
      /\ \A i \in 1..Len(s) :
           \/ i \in 1..Len(t) /\ t[i] = s[i]
           \/ i - k \in 1..Len(u) /\ u[i - k] = s[i]
  BY <1>1, <1>2
<1>4. Single(t)
  BY <1>1, <1>3 DEF Single
<1>5. Single(u)
  <2> SUFFICES ASSUME NEW i \in 1..Len(u), NEW j \in 1..Len(u),
                      u[i] = "DELETE_SELF", u[j] = "DELETE_SELF"
               PROVE  i = j
    BY DEF Single
  <2>1. i + k = j + k
    BY <1>2, <1>3 DEF Single
  <2> QED BY <1>1, <1>2, <2>1
<1>6. ~(Has(t) /\ Has(u))
  <2> SUFFICES ASSUME NEW i \in 1..Len(t), NEW j \in 1..Len(u),
                      t[i] = "DELETE_SELF", u[j] = "DELETE_SELF"
               PROVE  FALSE
    BY DEF Has
  <2>1. i = j + k
    BY <1>1, <1>2, <1>3 DEF Single
  <2> QED BY <1>1, <1>3, <2>1
<1>7. Has(s) <=> Has(t) \/ Has(u)
  <2>1. ASSUME Has(s) PROVE Has(t) \/ Has(u)
    BY <1>3, <2>1 DEF Has
  <2>2. ASSUME Has(t) PROVE Has(s)
    BY <1>1, <1>3, <2>2 DEF Has
  <2>3. ASSUME Has(u) PROVE Has(s)
    BY <1>2, <1>3, <2>3 DEF Has
  <2> QED BY <2>1, <2>2, <2>3
<1> QED BY <1>1, <1>2, <1>4, <1>5, <1>6, <1>7 DEF t, u

LEMMA MarksOfEmpty == <<>> \in Seq(Events) /\ ~Has(<<>>) /\ Single(<<>>)
BY DEF Has, Single

(* Queueing an event adds it, or IN_Q_OVERFLOW, or nothing. *)
LEMMA MarksOfQueued ==
  ASSUME WatchInv, NEW e \in Events,
         Has(queue) => e # "DELETE_SELF"
  PROVE  /\ Watch!Queued(e) \in Seq(Events) /\ Single(Watch!Queued(e))
         /\ Len(queue) \in Nat
         /\ Has(Watch!Queued(e)) <=>
              Has(queue) \/ (e = "DELETE_SELF" /\ Len(queue) < QueueMax)
<1>1. queue \in Seq(Events) /\ Single(queue) /\ Len(queue) \in Nat
  BY DEF WatchInv, WatchTypeOK
<1>2. QueueMax \in Nat
  BY WatchConstants
<1>3. CASE Len(queue) < QueueMax
  <2>1. Watch!Queued(e) = Append(queue, e)
    BY <1>1, <1>2, <1>3 DEF Watch!Queued
  <2> QED BY <1>1, <1>3, <2>1, MarksOfAppend
<1>4. CASE Len(queue) = QueueMax
  <2>1. Watch!Queued(e) = Append(queue, "OVERFLOW")
    BY <1>1, <1>2, <1>4 DEF Watch!Queued
  <2>2. "OVERFLOW" \in Events
    BY DEF Events
  <2>3. ~(Len(queue) < QueueMax)
    BY <1>1, <1>2, <1>4
  <2> QED BY <1>1, <2>1, <2>2, <2>3, MarksOfAppend
<1>5. CASE ~(Len(queue) < QueueMax) /\ Len(queue) # QueueMax
  <2>1. Watch!Queued(e) = queue
    BY <1>1, <1>2, <1>5 DEF Watch!Queued
  <2> QED BY <1>1, <1>5, <2>1
<1> QED BY <1>3, <1>4, <1>5

-----------------------------------------------------------------------------
LEMMA WatchStart == Watch!Init => WatchInv
<1> SUFFICES ASSUME Watch!Init PROVE WatchInv
  OBVIOUS
<1>1. /\ watchAt = "start" /\ foo \in Files \union {None} /\ kept = {}
      /\ watched = None /\ queue = <<>> /\ batch = <<>>
  BY DEF Watch!Init
<1>2. failed = FALSE /\ lost = FALSE
  BY DEF Watch!Init
<1>3. WatchTypeOK
  BY <1>1, <1>2, MarksOfEmpty DEF WatchTypeOK
<1> QED BY <1>1, <1>2, <1>3, MarksOfEmpty DEF WatchInv, Coming

(* Another name for ./foo, or other references: the watch of a file that   *)
(* is gone leaves its IN_DELETE_SELF, or an overflow.                      *)
LEMMA ReferKeepsWatch ==
  ASSUME WatchInv, NEW name \in Files \union {None}, NEW others \in SUBSET Files,
         Watch!Refer(name, others)
  PROVE  WatchInv'
<1>1. /\ foo' = name /\ kept' = others /\ watchAt' = watchAt /\ batch' = batch
  BY DEF Watch!Refer
<1>2. failed' = failed
  BY DEF Watch!Refer
<1>3. WatchTypeOK
  BY DEF WatchInv
<1>4. CASE watched # None /\ watched # name /\ watched \notin others
  <2>1. watched' = None /\ queue' = Watch!Queued("DELETE_SELF")
    BY <1>4 DEF Watch!Refer
  <2>2. lost' = (lost \/ Len(queue) >= QueueMax)
    BY <1>4 DEF Watch!Refer
  <2>3. ~Coming /\ ~failed /\ ~lost
    BY <1>4 DEF WatchInv
  <2>4. ~Has(queue) /\ ~Has(batch) /\ watchAt = "read"
    BY <2>3 DEF Coming
  <2>5. /\ queue' \in Seq(Events) /\ Single(queue') /\ Len(queue) \in Nat
        /\ Has(queue') <=> Len(queue) < QueueMax
    <3>1. "DELETE_SELF" \in Events
      BY DEF Events
    <3> QED BY <2>1, <2>4, <3>1, MarksOfQueued
  <2>6. Len(queue) >= QueueMax <=> ~(Len(queue) < QueueMax)
    BY <2>5, WatchConstants
  <2>7. lost' \in BOOLEAN /\ (lost' <=> ~Has(queue'))
    <3>1. lost \in BOOLEAN /\ (Len(queue) >= QueueMax) \in BOOLEAN
      BY <1>3 DEF WatchTypeOK
    <3> QED BY <2>2, <2>3, <2>5, <2>6, <3>1, Zenon
  <2>8. WatchTypeOK'
    BY <1>1, <1>2, <1>3, <2>1, <2>5, <2>7 DEF WatchTypeOK
  <2>9. Single(batch)
    BY DEF WatchInv
  <2>10. ~failed'
    BY <1>2, <2>3
  <2> QED
    BY <1>1, <2>1, <2>4, <2>5, <2>7, <2>8, <2>9, <2>10 DEF WatchInv, Coming
<1>5. CASE ~(watched # None /\ watched # name /\ watched \notin others)
  <2>1. watched' = watched /\ queue' = queue
    BY <1>5 DEF Watch!Refer
  <2>2. lost' = lost
    BY <1>5 DEF Watch!Refer
  <2>3. WatchTypeOK'
    BY <1>1, <1>2, <1>3, <2>1, <2>2 DEF WatchTypeOK
  <2>4. Coming' <=> Coming
    BY <1>1, <2>1 DEF Coming
  <2>5. watched # None => watched = name \/ watched \in others
    BY <1>5
  <2>6. /\ Single(queue') /\ Single(batch') /\ ~(Has(queue') /\ Has(batch'))
        /\ watchAt' # "read" => ~Has(queue') /\ ~Has(batch')
    BY <1>1, <2>1 DEF WatchInv
  <2>7. /\ watched' = None => Coming' \/ failed' \/ lost'
        /\ failed' \/ lost' => watched' = None
        /\ failed' \/ lost' \/ watched' # None => ~Coming'
    BY <1>2, <2>1, <2>2, <2>4 DEF WatchInv
  <2> QED BY <1>1, <2>1, <2>3, <2>5, <2>6, <2>7 DEF WatchInv
<1> QED BY <1>4, <1>5

LEMMA OthersKeepWatch == ASSUME WatchInv, Watch!Others PROVE WatchInv'
<1>1. WatchTypeOK
  BY DEF WatchInv
<1>2. CASE Watch!Touch
  <2>1. /\ watched # None /\ queue' = Watch!Queued("OTHER")
        /\ watchAt' = watchAt /\ foo' = foo /\ kept' = kept
        /\ watched' = watched /\ batch' = batch
    BY <1>2 DEF Watch!Touch
  <2>2. failed' = failed /\ lost' = lost
    BY <1>2 DEF Watch!Touch
  <2>3. /\ queue' \in Seq(Events) /\ Single(queue')
        /\ Has(queue') <=> Has(queue)
    <3>1. "OTHER" \in Events /\ "OTHER" # "DELETE_SELF"
      BY DEF Events
    <3> QED BY <2>1, <3>1, MarksOfQueued
  <2>4. WatchTypeOK'
    BY <1>1, <2>1, <2>2, <2>3 DEF WatchTypeOK
  <2>5. Coming' <=> Coming
    BY <2>1, <2>3 DEF Coming
  <2> QED BY <2>1, <2>2, <2>3, <2>4, <2>5 DEF WatchInv
<1>3. ASSUME ~Watch!Touch
      PROVE  \E name \in Files \union {None}, others \in SUBSET Files :
               Watch!Refer(name, others)
  <2>1. kept \in SUBSET Files /\ foo \in Files \union {None}
    BY <1>1 DEF WatchTypeOK
  <2>2. foo # None => kept \union {foo} \in SUBSET Files
    BY <2>1
  <2>3. \A f : kept \ {f} \in SUBSET Files
    BY <2>1
  <2>4. CASE Watch!NameFile
    BY <2>1, <2>4 DEF Watch!NameFile
  <2>5. CASE Watch!Unlink
    BY <2>1, <2>5 DEF Watch!Unlink
  <2>6. CASE Watch!Keep
    BY <2>1, <2>2, <2>6 DEF Watch!Keep
  <2>7. CASE Watch!MoveAway
    BY <2>2, <2>7 DEF Watch!MoveAway
  <2>8. CASE Watch!Release
    BY <2>1, <2>3, <2>8 DEF Watch!Release
  <2> QED BY <1>3, <2>4, <2>5, <2>6, <2>7, <2>8 DEF Watch!Others
<1> QED BY <1>2, <1>3, ReferKeepsWatch

(* Looking at ./foo again. *)
LEMMA LookKeepsWatch ==
  ASSUME WatchInv, Watch!Start \/ Watch!AddWatch PROVE WatchInv'
<1>1. /\ watchAt \in {"start", "add"} /\ watchAt' = "read" /\ watched' = foo
      /\ foo' = foo /\ kept' = kept /\ queue' = queue /\ batch' = batch
  BY DEF Watch!Start, Watch!AddWatch, Watch!Watch
<1>2. failed' = (foo = None) /\ lost' = lost
  BY DEF Watch!Start, Watch!AddWatch, Watch!Watch
<1>3. WatchTypeOK
  BY DEF WatchInv
<1>4. /\ Single(queue) /\ Single(batch) /\ ~Has(queue) /\ ~Has(batch)
      /\ Coming
  BY <1>1 DEF WatchInv, Coming
<1>5. ~lost
  BY <1>4 DEF WatchInv
<1>6. failed' \in BOOLEAN /\ (failed' <=> foo = None) /\ lost' \in BOOLEAN
      /\ ~lost'
  <2>1. lost \in BOOLEAN
    BY <1>3 DEF WatchTypeOK
  <2> QED BY <1>2, <1>5, <2>1, Zenon
<1>7. WatchTypeOK'
  BY <1>1, <1>3, <1>6 DEF WatchTypeOK
<1>8. ~Coming'
  BY <1>1, <1>4 DEF Coming
<1> QED BY <1>1, <1>4, <1>6, <1>7, <1>8 DEF WatchInv

LEMMA ReadEventsKeepsWatch == ASSUME WatchInv, Watch!ReadEvents PROVE WatchInv'
<1> DEFINE k == IF Len(queue) < BatchMax THEN Len(queue) ELSE BatchMax
<1>1. /\ watchAt = "read" /\ batch = <<>>
      /\ batch' = SubSeq(queue, 1, k)
      /\ queue' = SubSeq(queue, k + 1, Len(queue))
      /\ watchAt' = watchAt /\ foo' = foo /\ kept' = kept /\ watched' = watched
  BY DEF Watch!ReadEvents
<1>2. failed' = failed /\ lost' = lost
  BY DEF Watch!ReadEvents
<1>3. WatchTypeOK /\ Single(queue) /\ queue \in Seq(Events)
  BY DEF WatchInv, WatchTypeOK
<1>4. k \in 0..Len(queue)
  BY <1>3, WatchConstants
<1> HIDE DEF k
<1>5. /\ batch' \in Seq(Events) /\ queue' \in Seq(Events)
      /\ Single(batch') /\ Single(queue') /\ ~(Has(batch') /\ Has(queue'))
      /\ Has(queue) <=> Has(batch') \/ Has(queue')
  BY <1>1, <1>3, <1>4, MarksOfSplit
<1>6. Coming' <=> Coming
  BY <1>1, <1>5, MarksOfEmpty DEF Coming
<1>7. WatchTypeOK'
  BY <1>1, <1>2, <1>3, <1>5 DEF WatchTypeOK
<1> QED BY <1>1, <1>2, <1>5, <1>6, <1>7 DEF WatchInv

LEMMA HandleOtherKeepsWatch ==
  ASSUME WatchInv, Watch!HandleOther PROVE WatchInv'
<1>1. /\ watchAt = "read" /\ batch # <<>> /\ Head(batch) # "DELETE_SELF"
      /\ batch' = Tail(batch) /\ watchAt' = watchAt /\ foo' = foo
      /\ kept' = kept /\ watched' = watched /\ queue' = queue
  BY DEF Watch!HandleOther
<1>2. failed' = failed /\ lost' = lost
  BY DEF Watch!HandleOther
<1>3. WatchTypeOK /\ Single(batch) /\ batch \in Seq(Events)
  BY DEF WatchInv, WatchTypeOK
<1>4. /\ batch' \in Seq(Events) /\ Single(batch')
      /\ Has(batch') <=> Has(batch)
  BY <1>1, <1>3, MarksOfTail
<1>5. WatchTypeOK'
  BY <1>1, <1>2, <1>3, <1>4 DEF WatchTypeOK
<1>6. Coming' <=> Coming
  BY <1>1, <1>4 DEF Coming
<1> QED BY <1>1, <1>2, <1>4, <1>5, <1>6 DEF WatchInv

LEMMA HandleDeleteKeepsWatch ==
  ASSUME WatchInv, Watch!HandleDelete PROVE WatchInv'
<1>1. /\ watchAt = "read" /\ batch # <<>> /\ Head(batch) = "DELETE_SELF"
      /\ batch' = Tail(batch) /\ watchAt' = "rm" /\ foo' = foo
      /\ kept' = kept /\ watched' = watched /\ queue' = queue
  BY DEF Watch!HandleDelete
<1>2. failed' = failed /\ lost' = lost
  BY DEF Watch!HandleDelete
<1>3. WatchTypeOK /\ Single(batch) /\ batch \in Seq(Events)
  BY DEF WatchInv, WatchTypeOK
<1>4. batch' \in Seq(Events) /\ Single(batch') /\ Has(batch) /\ ~Has(batch')
  BY <1>1, <1>3, MarksOfTail
<1>5. Single(queue) /\ ~Has(queue) /\ Coming
  BY <1>4 DEF WatchInv, Coming
<1>6. watched = None /\ ~failed /\ ~lost
  BY <1>5 DEF WatchInv
<1>7. WatchTypeOK'
  BY <1>1, <1>2, <1>3, <1>4 DEF WatchTypeOK
<1>8. Coming' /\ ~failed' /\ ~lost'
  BY <1>1, <1>2, <1>6 DEF Coming
<1> QED BY <1>1, <1>4, <1>5, <1>6, <1>7, <1>8 DEF WatchInv

(* By then the watch is gone. *)
LEMMA RemoveWatchKeepsWatch ==
  ASSUME WatchInv, Watch!RemoveWatch PROVE WatchInv'
<1>1. /\ watchAt = "rm" /\ watchAt' = "add" /\ foo' = foo /\ kept' = kept
      /\ batch' = batch
  BY DEF Watch!RemoveWatch
<1>2. failed' = failed /\ lost' = lost
  BY DEF Watch!RemoveWatch
<1>3. WatchTypeOK
  BY DEF WatchInv
<1>4. Coming
  BY <1>1 DEF Coming
<1>5. watched = None /\ ~failed /\ ~lost
  BY <1>4 DEF WatchInv
<1>6. watched' = None /\ queue' = queue
  BY <1>5 DEF Watch!RemoveWatch
<1>7. WatchTypeOK'
  BY <1>1, <1>2, <1>3, <1>5, <1>6 DEF WatchTypeOK
<1>8. Coming' /\ ~failed' /\ ~lost'
  BY <1>1, <1>2, <1>5 DEF Coming
<1>9. Single(queue) /\ Single(batch) /\ ~Has(queue) /\ ~Has(batch)
  BY <1>1 DEF WatchInv
<1> QED BY <1>1, <1>6, <1>7, <1>8, <1>9 DEF WatchInv

LEMMA WatchStep == WatchInv /\ [Watch!Next]_watchVars => WatchInv'
<1> SUFFICES ASSUME WatchInv, [Watch!Next]_watchVars PROVE WatchInv'
  OBVIOUS
<1>1. CASE Watch!Program
  BY <1>1, LookKeepsWatch, ReadEventsKeepsWatch, HandleOtherKeepsWatch,
     HandleDeleteKeepsWatch, RemoveWatchKeepsWatch DEF Watch!Program
<1>2. CASE Watch!Others
  BY <1>2, OthersKeepWatch
<1>3. CASE UNCHANGED watchVars
  BY <1>3 DEF watchVars, WatchInv, WatchTypeOK, Coming
<1> QED BY <1>1, <1>2, <1>3 DEF Watch!Next

(* The program is about to look at ./foo again when an IN_DELETE_SELF is   *)
(* queued or in buf, or has just been seen.                                *)
LEMMA ComingIsLooksAgain == ASSUME WatchInv PROVE Watch!LooksAgain <=> Coming
<1> DEFINE all == queue \o batch
<1>1. queue \in Seq(Events) /\ batch \in Seq(Events)
  BY DEF WatchInv, WatchTypeOK
<1>2. /\ Len(queue) \in Nat /\ Len(batch) \in Nat
      /\ Len(all) = Len(queue) + Len(batch)
      /\ \A i \in 1..Len(queue) : all[i] = queue[i]
      /\ \A i \in 1..Len(batch) : all[Len(queue) + i] = batch[i]
  BY <1>1
<1>3. Watch!Contains(all, "DELETE_SELF") <=> Has(all)
  BY DEF Watch!Contains, Has
<1> HIDE DEF all
<1>4. /\ \A i \in 1..Len(queue) : i \in 1..Len(all)
      /\ \A i \in 1..Len(batch) : Len(queue) + i \in 1..Len(all)
      /\ \A i \in 1..Len(all) :
           \/ i \in 1..Len(queue) /\ all[i] = queue[i]
           \/ /\ i - Len(queue) \in 1..Len(batch)
              /\ all[i] = batch[i - Len(queue)]
  <2>1. \A i \in 1..Len(all) : i \in 1..Len(queue) \/ i - Len(queue) \in 1..Len(batch)
    BY <1>2
  <2>2. \A i \in 1..Len(all) : Len(queue) + (i - Len(queue)) = i
    BY <1>2
  <2> QED BY <1>2, <2>1, <2>2
<1>5. Has(all) <=> Has(queue) \/ Has(batch)
  <2>1. ASSUME Has(all) PROVE Has(queue) \/ Has(batch)
    BY <1>4, <2>1 DEF Has
  <2>2. ASSUME Has(queue) PROVE Has(all)
    BY <1>2, <1>4, <2>2 DEF Has
  <2>3. ASSUME Has(batch) PROVE Has(all)
    BY <1>2, <1>4, <2>3 DEF Has
  <2> QED BY <2>1, <2>2, <2>3
<1> QED BY <1>3, <1>5 DEF Watch!LooksAgain, Coming, all

LEMMA NoticedUnlessHolds == WatchInv => NoticedUnless
<1> SUFFICES ASSUME WatchInv PROVE NoticedUnless
  OBVIOUS
<1>1. ASSUME foo \notin {None, watched}
      PROVE  Coming \/ failed \/ watched \in kept \/ lost
  BY <1>1 DEF WatchInv
<1>2. /\ failed \/ lost => watched = None /\ ~Coming
      /\ watched # None => ~Coming
  BY DEF WatchInv
<1> QED
  BY <1>1, <1>2, ComingIsLooksAgain DEF NoticedUnless, Watch!NoticedUnless

-----------------------------------------------------------------------------
(* ListHoles: a block that holds data holds it from its first byte on, so  *)
(* that a run of data behind a hole begins with a block.                   *)

LEMMA HolesConstants ==
  Probe \in Nat \ {0} /\ Block \in Nat /\ Block > Probe /\ MaxSize \in Nat
BY LoopsAssumption DEF Holes!HolesAssumption

LEMMA BlockParts ==
  ASSUME NEW x \in Nat
  PROVE  /\ x \div Block \in Nat
         /\ x % Block \in 0..(Block - 1)
         /\ x = Block * (x \div Block) + (x % Block)
BY HolesConstants

LEMMA SameBlock ==
  ASSUME NEW p \in Nat, NEW q \in Nat,
         NEW r \in 0..(Block - 1), NEW s \in 0..(Block - 1),
         Block * p + r = Block * q + s
  PROVE  p = q
<1>1. ASSUME NEW i \in Nat, NEW j \in Nat, i < j,
             NEW k \in 0..(Block - 1), NEW m \in Nat
      PROVE  Block * i + k # Block * j + m
  <2>1. PICK e \in Nat : j = (i + 1) + e
    <3>1. j - (i + 1) \in Nat
      BY <1>1
    <3> QED BY <3>1
  <2>2. Block * j = (Block * i + Block) + Block * e /\ Block * e \in Nat
    BY <2>1, HolesConstants
  <2>3. Block * i \in Nat
    BY HolesConstants
  <2> QED BY <2>2, <2>3, HolesConstants
<1>2. ~(p < q)
  BY <1>1
<1>3. ~(q < p)
  BY <1>1
<1> QED BY <1>2, <1>3

(* The least of a set of natural numbers is what Min chooses.              *)
LEMMA MinIsLeast ==
  ASSUME NEW S \in SUBSET Nat, S # {}
  PROVE  Holes!Min(S) \in S /\ \A y \in S : Holes!Min(S) <= y
<1> DEFINE R == OpToRel(<, Nat)
<1>1. \A x, y \in Nat : x < y => <<x, y>> \in R
  BY DEF OpToRel
<1>2. IsWellFoundedOn(R, Nat)
  BY NatLessThanWellFounded
<1> HIDE DEF R
<1>3. PICK x \in S : \A y \in S : ~(<<y, x>> \in R)
  BY <1>2, WFMin
<1>4. ASSUME NEW y \in S PROVE x <= y
  <2>1. x \in Nat /\ y \in Nat /\ ~(<<y, x>> \in R)
    BY <1>3
  <2>2. ~(y < x)
    BY <1>1, <2>1
  <2> QED BY <2>1, <2>2
<1> QED BY <1>4 DEF Holes!Min

LEMMA SeekHoleFinds ==
  ASSUME size \in Nat, NEW from \in 0..(size - 1)
  PROVE  /\ Holes!SeekHole(from) \in from..size
         /\ ~Holes!HasData(Holes!SeekHole(from))
         /\ \A x \in from..(Holes!SeekHole(from) - 1) : Holes!HasData(x)
<1> DEFINE S == {o \in from..size : ~Holes!HasData(o)}
<1>1. ~Holes!HasData(size)
  BY DEF Holes!HasData
<1>2. S \in SUBSET Nat /\ size \in S
  BY <1>1
<1>3. Holes!SeekHole(from) = Holes!Min(S)
  BY DEF Holes!SeekHole
<1>4. Holes!Min(S) \in S /\ \A y \in S : Holes!Min(S) <= y
  <2> HIDE DEF S
  <2> QED BY <1>2, MinIsLeast
<1> QED BY <1>3, <1>4

LEMMA SeekDataFinds ==
  ASSUME size \in Nat, NEW from \in 0..size
  PROVE  \/ /\ Holes!SeekData(from) = -1
            /\ \A x \in from..size : ~Holes!HasData(x)
         \/ /\ Holes!SeekData(from) \in from..size
            /\ Holes!HasData(Holes!SeekData(from))
            /\ \A x \in from..(Holes!SeekData(from) - 1) : ~Holes!HasData(x)
<1> DEFINE S == {o \in from..size : Holes!HasData(o)}
<1>1. CASE \E o \in from..size : Holes!HasData(o)
  <2>1. S \in SUBSET Nat /\ S # {}
    BY <1>1
  <2>2. Holes!SeekData(from) = Holes!Min(S)
    BY <1>1 DEF Holes!SeekData
  <2>3. Holes!Min(S) \in S /\ \A y \in S : Holes!Min(S) <= y
    <3> HIDE DEF S
    <3> QED BY <2>1, MinIsLeast
  <2> QED BY <2>2, <2>3
<1>2. CASE ~\E o \in from..size : Holes!HasData(o)
  BY <1>2 DEF Holes!SeekData
<1> QED BY <1>1, <1>2

(* A hole begins at o. *)
Begins(o) ==
  /\ o <= size
  /\ ~Holes!HasData(o)
  /\ IF o = 0 THEN size > 0 ELSE Holes!HasData(o - 1)

LEMMA BeginsHole ==
  ASSUME size \in Nat
  PROVE  Holes!HoleStarts = {o \in Nat : Begins(o)}
<1>1. ASSUME NEW o \in Nat
      PROVE  o \in Holes!HoleStarts <=> Begins(o)
  <2>1. CASE o = 0
    BY <2>1 DEF Begins, Holes!HoleStarts
  <2>2. CASE o # 0
    BY <2>2 DEF Begins, Holes!HoleStarts
  <2> QED BY <2>1, <2>2
<1>2. Holes!HoleStarts \subseteq Nat
  BY DEF Holes!HoleStarts
<1> QED BY <1>1, <1>2

(* The last run of data begins at d, behind a hole, and is short.          *)
TailAt(d) ==
  /\ Holes!HasData(d) /\ ~Holes!HasData(d - 1)
  /\ size - d < Probe

LEMMA TailStartsBlock ==
  ASSUME size \in Nat, NEW d \in 1..size, TailAt(d)
  PROVE  d = Block * (d \div Block) /\ Block <= d
<1> DEFINE q == d \div Block
           r == d % Block
           p == (d - 1) \div Block
           s == (d - 1) % Block
<1>1. d \in Nat /\ d - 1 \in Nat /\ d < size /\ q \in blocks
  BY DEF TailAt, Holes!HasData
<1>2. q \in Nat /\ r \in 0..(Block - 1) /\ d = Block * q + r
  BY <1>1, BlockParts
<1>3. p \in Nat /\ s \in 0..(Block - 1) /\ d - 1 = Block * p + s
  BY <1>1, BlockParts
<1>4. p \notin blocks
  BY <1>1 DEF TailAt, Holes!HasData
<1> HIDE DEF q, r, p, s
<1>5. r = 0
  <2> SUFFICES ASSUME r # 0 PROVE FALSE
    OBVIOUS
  <2>1. Block * q \in Nat /\ Block * p \in Nat
    BY <1>2, <1>3, HolesConstants
  <2>2. r - 1 \in 0..(Block - 1) /\ Block * q + (r - 1) = Block * p + s
    BY <1>1, <1>2, <1>3, <2>1, HolesConstants
  <2>3. q = p
    BY <1>2, <1>3, <2>2, SameBlock
  <2> QED BY <1>1, <1>4, <2>3
<1>6. d = Block * q
  BY <1>2, <1>5, HolesConstants
<1>7. q # 0
  BY <1>6, HolesConstants
<1>8. PICK e \in Nat : q = e + 1
  <2>1. q - 1 \in Nat /\ q = (q - 1) + 1
    BY <1>2, <1>7
  <2> QED BY <2>1
<1>9. Block * q = Block * e + Block /\ Block * e \in Nat
  BY <1>8, HolesConstants
<1>10. Block <= d
  BY <1>6, <1>9, HolesConstants
<1> QED BY <1>6, <1>10 DEF q

(* What SeekData() finds behind a hole is a tail if it is short.           *)
LEMMA ShortIsTail ==
  ASSUME size \in Nat, NEW o \in 0..size, ~Holes!HasData(o),
         Holes!SeekData(o) # -1, size - Holes!SeekData(o) < Probe
  PROVE  Holes!SeekData(o) \in 1..size /\ TailAt(Holes!SeekData(o))
<1> DEFINE d == Holes!SeekData(o)
<1>1. /\ d \in o..size /\ Holes!HasData(d)
      /\ \A x \in o..(d - 1) : ~Holes!HasData(x)
  BY SeekDataFinds
<1>2. d # o
  BY <1>1
<1> HIDE DEF d
<1>3. d \in 1..size /\ d - 1 \in o..(d - 1)
  BY <1>1, <1>2
<1> QED BY <1>1, <1>3 DEF TailAt, d

LEMMA TailOfShortTail ==
  ASSUME size \in Nat, Holes!ShortTail
  PROVE  \E d \in 1..size : TailAt(d)
<1>1. PICK o \in Holes!HoleStarts :
        Holes!SeekData(o) # -1 /\ size - Holes!SeekData(o) < Probe
  BY DEF Holes!ShortTail
<1>2. o \in 0..size /\ ~Holes!HasData(o)
  BY DEF Holes!HoleStarts
<1> QED BY <1>1, <1>2, ShortIsTail

(* The last record of file_hole/main.c is as long as what is read, and its *)
(* block begins no later than the record.                                  *)
LEMMA MainMakesNoTail ==
  ASSUME size \in Nat, Holes!MadeByMain
  PROVE  ~Holes!ShortTail
<1> SUFFICES ASSUME NEW d \in 1..size, TailAt(d) PROVE FALSE
  BY TailOfShortTail
<1>1. PICK records, k \in 1..MaxSize :
        [size |-> size, blocks |-> blocks] = Holes!Written(records, k * Block)
  BY DEF Holes!MadeByMain
<1> DEFINE gap == k * Block
<1>2. gap \in Nat
  BY HolesConstants
<1>3. /\ size = records * gap + Probe
      /\ blocks = {(i * gap) \div Block : i \in 1..records}
  BY <1>1 DEF Holes!Written
<1> HIDE DEF gap
<1>4. PICK i \in 1..records : d \div Block = (i * gap) \div Block
  BY <1>3 DEF TailAt, Holes!HasData
<1> DEFINE x == i * gap
<1>5. x \in Nat
  BY <1>2
<1>6. x <= records * gap
  <2>1. PICK e \in Nat : records = i + e
    <3>1. records - i \in Nat
      OBVIOUS
    <3> QED BY <3>1
  <2>2. records * gap = i * gap + e * gap /\ e * gap \in Nat
    BY <1>2, <2>1
  <2> QED BY <1>5, <2>2
<1> HIDE DEF x
<1>7. Block * (x \div Block) <= x
  <2>1. x \div Block \in Nat /\ x = Block * (x \div Block) + (x % Block)
        /\ x % Block \in Nat
    BY <1>5, BlockParts, HolesConstants
  <2>2. Block * (x \div Block) \in Nat
    BY <2>1, HolesConstants
  <2> QED BY <2>1, <2>2
<1>8. d = Block * (x \div Block)
  BY <1>4, TailStartsBlock DEF x
<1>9. d <= records * gap /\ records * gap \in Nat
  BY <1>2, <1>5, <1>6, <1>7, <1>8
<1> QED BY <1>3, <1>9, HolesConstants DEF TailAt

-----------------------------------------------------------------------------
(* ListHoles: where the walk is.  Without a short tail it has listed the   *)
(* holes that begin before the offset; with one it never gets past it.     *)

Listed(x) ==
  listed \subseteq Nat /\ \A o \in Nat : o \in listed <=> Begins(o) /\ o < x

Walks ==
  /\ holesAt = "hole" =>
       /\ offset \in Nat
       /\ offset = 0 \/ Holes!HasData(offset)
       /\ Listed(offset)
  /\ holesAt = "data" =>
       offset \in Nat /\ Begins(offset) /\ Listed(offset + 1)
  /\ holesAt = "back" =>
       /\ offset \in Nat /\ Probe <= offset
       /\ Holes!HasData(offset - Probe) /\ Listed(offset - Probe)
  /\ holesAt = "done" => Listed(size + 1)

Turns(d) ==
  /\ holesAt \in {"hole", "data"} => offset \in 0..(d - 1)
  /\ holesAt = "back" => offset \in Probe..size
  /\ holesAt # "done"

HolesInv ==
  /\ size \in Nat
  /\ holesAt \in {"hole", "data", "back", "done"}
  /\ (\A d \in 1..size : ~TailAt(d)) => Walks
  /\ \A d \in 1..size : TailAt(d) => Turns(d)

LEMMA HolesStart == Holes!Init => HolesInv
<1> SUFFICES ASSUME Holes!Init PROVE HolesInv
  OBVIOUS
<1>1. holesAt = "hole" /\ size \in Nat /\ offset = 0 /\ listed = {}
  BY HolesConstants DEF Holes!Init
<1>2. Walks
  BY <1>1 DEF Walks, Listed
<1>3. \A d \in 1..size : Turns(d)
  BY <1>1 DEF Turns
<1> QED BY <1>1, <1>2, <1>3 DEF HolesInv

(* The file stays as it is. *)
LEMMA FileStays ==
  ASSUME size' = size, blocks' = blocks
  PROVE  /\ \A o : Holes!HasData(o)' <=> Holes!HasData(o)
         /\ \A o : Begins(o)' <=> Begins(o)
         /\ \A d : TailAt(d)' <=> TailAt(d)
<1>1. \A o : Holes!HasData(o)' <=> Holes!HasData(o)
  BY DEF Holes!HasData
<1>2. \A o : Begins(o)' <=> Begins(o)
  BY <1>1 DEF Begins
<1>3. \A d : TailAt(d)' <=> TailAt(d)
  BY <1>1 DEF TailAt
<1> QED BY <1>1, <1>2, <1>3

LEMMA FindHoleWalks ==
  ASSUME size \in Nat, Walks, Holes!FindHole
  PROVE  Walks' /\ holesAt' \in {"data", "done"}
<1>1. /\ holesAt = "hole" /\ size' = size /\ blocks' = blocks
      /\ offset' = Holes!SeekHole(offset)
      /\ offset' = -1 => holesAt' = "done" /\ listed' = listed
      /\ offset' # -1 => holesAt' = "data" /\ listed' = listed \union {offset'}
  BY DEF Holes!FindHole
<1>2. /\ offset \in Nat /\ (offset = 0 \/ Holes!HasData(offset))
      /\ listed \subseteq Nat
      /\ \A o \in Nat : o \in listed <=> Begins(o) /\ o < offset
  BY <1>1 DEF Walks, Listed
<1>3. Holes!HasData(offset) => offset < size
  BY DEF Holes!HasData
<1>4. CASE size = 0
  <2>1. offset' = -1
    BY <1>1, <1>2, <1>3, <1>4 DEF Holes!SeekHole
  <2>2. \A o \in Nat : ~Begins(o)
    BY <1>4 DEF Begins
  <2>3. \A o \in Nat : ~Begins(o)'
    BY <1>1, <2>2, FileStays
  <2>4. Listed(size + 1)'
    BY <1>1, <1>2, <2>1, <2>2, <2>3 DEF Listed
  <2> QED BY <1>1, <2>1, <2>4 DEF Walks
<1>5. CASE size # 0
  <2> DEFINE h == Holes!SeekHole(offset)
  <2>1. offset \in 0..(size - 1)
    BY <1>2, <1>3, <1>5
  <2>2. /\ h \in offset..size /\ ~Holes!HasData(h)
        /\ \A x \in offset..(h - 1) : Holes!HasData(x)
    BY <2>1, SeekHoleFinds
  <2> HIDE DEF h
  <2>3. Begins(h)
    <3>1. CASE h = offset
      BY <1>2, <1>5, <2>2, <3>1 DEF Begins
    <3>2. CASE h # offset
      <4>1. h \in Nat /\ h # 0 /\ h - 1 \in offset..(h - 1) /\ h <= size
        BY <2>1, <2>2, <3>2
      <4> QED BY <2>2, <4>1 DEF Begins
    <3> QED BY <3>1, <3>2
  <2>4. offset' = h /\ h \in Nat /\ h # -1
    BY <1>1, <2>1, <2>2 DEF h
  <2>5. ASSUME NEW o \in Nat
        PROVE  o \in listed' <=> Begins(o) /\ o < h + 1
    <3>1. o \in listed' <=> o \in listed \/ o = h
      BY <1>1, <2>4
    <3>2. o \in offset..(h - 1) => ~Begins(o)
      BY <2>2 DEF Begins
    <3>3. o \in offset..(h - 1) \/ o < offset \/ o = h \/ o > h
      BY <1>2, <2>4
    <3>4. o < offset => o < h + 1
      BY <2>1, <2>2
    <3> QED BY <1>2, <2>3, <2>4, <3>1, <3>2, <3>3, <3>4
  <2>6. listed' \subseteq Nat
    BY <1>1, <1>2, <2>4
  <2>7. \A o \in Nat : Begins(o)' <=> Begins(o)
    BY <1>1, FileStays
  <2>8. Listed(offset + 1)'
    BY <2>4, <2>5, <2>6, <2>7 DEF Listed
  <2>9. Begins(offset)'
    BY <1>1, <2>3, <2>4 DEF Begins, Holes!HasData
  <2> QED BY <1>1, <2>4, <2>8, <2>9 DEF Walks
<1> QED BY <1>4, <1>5

LEMMA FindDataWalks ==
  ASSUME size \in Nat, Walks, \A d \in 1..size : ~TailAt(d), Holes!FindData
  PROVE  Walks' /\ holesAt' \in {"back", "done"}
<1> DEFINE d == Holes!SeekData(offset)
<1>1. /\ holesAt = "data" /\ size' = size /\ blocks' = blocks
      /\ listed' = listed
      /\ d = -1 => holesAt' = "done"
      /\ d # -1 => holesAt' = "back" /\ offset' = Holes!Min({d + Probe, size})
  BY DEF Holes!FindData
<1>2. /\ offset \in Nat /\ Begins(offset) /\ offset <= size
      /\ ~Holes!HasData(offset)
      /\ listed \subseteq Nat
      /\ \A o \in Nat : o \in listed <=> Begins(o) /\ o < offset + 1
  BY <1>1 DEF Walks, Listed, Begins
<1>3. offset \in 0..size
  BY <1>2
<1>4. \/ d = -1 /\ \A x \in offset..size : ~Holes!HasData(x)
      \/ /\ d \in offset..size /\ Holes!HasData(d)
         /\ \A x \in offset..(d - 1) : ~Holes!HasData(x)
  BY <1>3, SeekDataFinds
<1>5. d # -1 => ~(size - d < Probe)
  BY <1>2, <1>3, ShortIsTail
<1> HIDE DEF d
<1>6. \A o \in Nat : Begins(o)' <=> Begins(o)
  BY <1>1, FileStays
<1>7. CASE d = -1
  <2>1. ASSUME NEW o \in Nat
        PROVE  o \in listed' <=> Begins(o) /\ o < size + 1
    <3>1. ASSUME Begins(o), ~(o < offset + 1)
          PROVE  FALSE
      <4>1. o <= size /\ o # 0 /\ Holes!HasData(o - 1)
        BY <1>2, <3>1 DEF Begins
      <4>2. o - 1 \in offset..size
        BY <1>2, <3>1, <4>1
      <4> QED BY <1>4, <1>7, <1>3, <4>1, <4>2
    <3>2. Begins(o) => o < size + 1
      BY DEF Begins
    <3> QED BY <1>1, <1>2, <3>1, <3>2
  <2>2. Listed(size + 1)'
    BY <1>1, <1>2, <1>6, <2>1 DEF Listed
  <2> QED BY <1>1, <1>7, <2>2 DEF Walks
<1>8. CASE d # -1
  <2>1. /\ d \in offset..size /\ Holes!HasData(d) /\ d + Probe <= size
        /\ \A x \in offset..(d - 1) : ~Holes!HasData(x)
    BY <1>3, <1>4, <1>5, <1>8, HolesConstants
  <2>2. d \in Nat /\ d # offset /\ d > offset
    BY <1>2, <2>1
  <2>3. offset' = d + Probe
    <3>1. {d + Probe, size} \in SUBSET Nat /\ {d + Probe, size} # {}
      BY <2>2, HolesConstants
    <3>2. /\ Holes!Min({d + Probe, size}) \in {d + Probe, size}
          /\ Holes!Min({d + Probe, size}) <= d + Probe
      BY <3>1, MinIsLeast
    <3> QED BY <1>1, <1>8, <2>1, <2>2, <3>2, HolesConstants
  <2>4. offset' \in Nat /\ Probe <= offset' /\ offset' - Probe = d
    BY <2>2, <2>3, HolesConstants
  <2>5. ASSUME NEW o \in Nat
        PROVE  o \in listed' <=> Begins(o) /\ o < d
    <3>1. ASSUME Begins(o), ~(o < offset + 1), o < d
          PROVE  FALSE
      <4>1. o # 0 /\ Holes!HasData(o - 1)
        BY <1>2, <3>1 DEF Begins
      <4>2. o - 1 \in offset..(d - 1)
        BY <1>2, <2>2, <3>1, <4>1
      <4> QED BY <2>1, <4>1, <4>2
    <3>2. o < offset + 1 => o < d
      BY <1>2, <2>2
    <3> QED BY <1>1, <1>2, <3>1, <3>2
  <2>6. Listed(offset - Probe)'
    BY <1>1, <1>2, <1>6, <2>4, <2>5 DEF Listed
  <2>7. Holes!HasData(offset - Probe)'
    BY <1>1, <2>1, <2>4 DEF Holes!HasData
  <2> QED BY <1>1, <1>8, <2>4, <2>6, <2>7 DEF Walks
<1> QED BY <1>7, <1>8

LEMMA StepBackWalks ==
  ASSUME size \in Nat, Walks, Holes!StepBack
  PROVE  Walks' /\ holesAt' = "hole"
<1>1. /\ holesAt = "back" /\ holesAt' = "hole" /\ offset' = Holes!Back
      /\ size' = size /\ blocks' = blocks /\ listed' = listed
  BY DEF Holes!StepBack
<1>2. /\ offset \in Nat /\ Probe <= offset
      /\ Holes!HasData(offset - Probe) /\ Listed(offset - Probe)
  BY <1>1 DEF Walks
<1>3. offset' = offset - Probe /\ offset' \in Nat
  BY <1>1, <1>2, HolesConstants DEF Holes!Back
<1>4. Holes!HasData(offset)'
  BY <1>1, <1>2, <1>3 DEF Holes!HasData
<1>5. \A o \in Nat : Begins(o)' <=> Begins(o)
  BY <1>1, FileStays
<1>6. Listed(offset)'
  BY <1>1, <1>2, <1>3, <1>5 DEF Listed
<1> QED BY <1>1, <1>3, <1>4, <1>6 DEF Walks

(* The walk does not get past a short tail.                                *)
LEMMA TailTurns ==
  ASSUME size \in Nat, NEW d \in 1..size, TailAt(d), Turns(d), Holes!Next
  PROVE  Turns(d)' /\ holesAt' \in {"hole", "data", "back"}
<1>1. d \in Nat /\ Probe <= d /\ d <= size /\ size - d < Probe
  BY TailStartsBlock, HolesConstants DEF TailAt
<1>2. Holes!HasData(d) /\ ~Holes!HasData(d - 1) /\ size' = size
  BY DEF TailAt, Holes!Next, Holes!Program, Holes!FindHole, Holes!FindData,
         Holes!StepBack
<1>3. CASE Holes!FindHole
  <2>1. /\ holesAt = "hole" /\ offset' = Holes!SeekHole(offset)
        /\ offset' # -1 => holesAt' = "data"
    BY <1>3 DEF Holes!FindHole
  <2>2. offset \in 0..(d - 1) /\ offset \in 0..(size - 1)
    BY <1>1, <2>1 DEF Turns
  <2>3. /\ offset' \in offset..size
        /\ \A x \in offset..(offset' - 1) : Holes!HasData(x)
    BY <2>1, <2>2, SeekHoleFinds
  <2>4. ~(d <= offset')
    <3> DEFINE o == offset'
    <3>1. o \in Int /\ offset \in Int /\ offset <= d - 1
      BY <1>1, <2>2, <2>3
    <3>2. \A x \in offset..(o - 1) : Holes!HasData(x)
      BY <2>3
    <3> HIDE DEF o
    <3>3. d <= o => d - 1 \in offset..(o - 1)
      BY <1>1, <3>1
    <3>4. ~(d <= o)
      BY <1>2, <3>2, <3>3
    <3> QED BY <3>4 DEF o
  <2>5. offset' \in 0..(d - 1) /\ offset' # -1
    BY <1>1, <2>2, <2>3, <2>4
  <2> QED BY <2>1, <2>5 DEF Turns
<1>4. CASE Holes!FindData
  <2>1. /\ holesAt = "data"
        /\ Holes!SeekData(offset) # -1 =>
             /\ holesAt' = "back"
             /\ offset' = Holes!Min({Holes!SeekData(offset) + Probe, size})
    BY <1>4 DEF Holes!FindData
  <2>2. offset \in 0..(d - 1) /\ offset \in 0..size /\ d \in offset..size
    BY <1>1, <2>1 DEF Turns
  <2> DEFINE e == Holes!SeekData(offset)
  <2>3. e \in offset..size
    BY <1>2, <2>2, SeekDataFinds
  <2> HIDE DEF e
  <2>4. {e + Probe, size} \in SUBSET Nat /\ {e + Probe, size} # {}
    BY <2>2, <2>3, HolesConstants
  <2>5. /\ Holes!Min({e + Probe, size}) \in {e + Probe, size}
        /\ Holes!Min({e + Probe, size}) <= size
    BY <2>4, MinIsLeast
  <2>6. e # -1 /\ e + Probe >= Probe /\ size >= Probe
    BY <1>1, <2>2, <2>3, HolesConstants
  <2>7. holesAt' = "back" /\ offset' = Holes!Min({e + Probe, size})
    BY <2>1, <2>6 DEF e
  <2>8. offset' \in Probe..size
    BY <2>2, <2>3, <2>5, <2>6, <2>7, HolesConstants
  <2> QED BY <1>2, <2>7, <2>8 DEF Turns
<1>5. CASE Holes!StepBack
  <2>1. holesAt = "back" /\ holesAt' = "hole" /\ offset' = Holes!Back
    BY <1>5 DEF Holes!StepBack
  <2>2. offset \in Probe..size
    BY <2>1 DEF Turns
  <2>3. offset' = offset - Probe
    BY <2>1, <2>2, HolesConstants DEF Holes!Back
  <2>4. offset' \in 0..(d - 1)
    BY <1>1, <2>2, <2>3, HolesConstants
  <2> QED BY <2>1, <2>4 DEF Turns
<1> QED BY <1>3, <1>4, <1>5 DEF Holes!Next, Holes!Program

LEMMA HolesStep == HolesInv /\ [Holes!Next]_holesVars => HolesInv'
<1> SUFFICES ASSUME HolesInv, [Holes!Next]_holesVars PROVE HolesInv'
  OBVIOUS
<1>1. size \in Nat /\ size' = size /\ blocks' = blocks
  BY DEF HolesInv, holesVars, Holes!Next, Holes!Program, Holes!FindHole,
         Holes!FindData, Holes!StepBack
<1>2. \A d : TailAt(d)' <=> TailAt(d)
  BY <1>1, FileStays
<1>3. CASE Holes!Next
  <2>1. CASE \A d \in 1..size : ~TailAt(d)
    <3>1. Walks
      BY <2>1 DEF HolesInv
    <3>2. Walks' /\ holesAt' \in {"hole", "data", "back", "done"}
      BY <1>1, <1>3, <2>1, <3>1, FindHoleWalks, FindDataWalks, StepBackWalks
         DEF Holes!Next, Holes!Program
    <3> QED BY <1>1, <1>2, <2>1, <3>2 DEF HolesInv
  <2>2. CASE \E d \in 1..size : TailAt(d)
    <3>1. ASSUME NEW d \in 1..size, TailAt(d)
          PROVE  Turns(d)' /\ holesAt' \in {"hole", "data", "back"}
      BY <1>1, <1>3, <3>1, TailTurns DEF HolesInv
    <3> QED BY <1>1, <1>2, <2>2, <3>1 DEF HolesInv
  <2> QED BY <2>1, <2>2
<1>4. CASE UNCHANGED holesVars
  <2>1. /\ holesAt' = holesAt /\ offset' = offset /\ listed' = listed
    BY <1>4 DEF holesVars
  <2>2. /\ \A o : Holes!HasData(o)' <=> Holes!HasData(o)
        /\ \A o : Begins(o)' <=> Begins(o)
    BY <1>1, FileStays
  <2>3. \A x : Listed(x)' <=> Listed(x)
    BY <2>1, <2>2 DEF Listed
  <2>4. Walks => Walks'
    BY <1>1, <2>1, <2>2, <2>3 DEF Walks
  <2>5. \A d : Turns(d)' <=> Turns(d)
    BY <1>1, <2>1 DEF Turns
  <2> QED BY <1>1, <1>2, <2>1, <2>4, <2>5 DEF HolesInv
<1> QED BY <1>3, <1>4

LEMMA EndsWithTheHolesHolds == HolesInv => Holes!EndsWithTheHoles
<1> SUFFICES ASSUME HolesInv, holesAt = "done"
             PROVE  ~Holes!ShortTail /\ listed = Holes!HoleStarts
  BY DEF Holes!EndsWithTheHoles
<1>1. size \in Nat /\ \A d \in 1..size : ~TailAt(d)
  BY DEF HolesInv, Turns
<1>2. ~Holes!ShortTail
  BY <1>1, TailOfShortTail
<1>3. /\ listed \subseteq Nat
      /\ \A o \in Nat : o \in listed <=> Begins(o) /\ o < size + 1
  BY <1>1 DEF HolesInv, Walks, Listed
<1>4. \A o \in Nat : Begins(o) => o < size + 1
  BY <1>1 DEF Begins
<1>5. listed = Holes!HoleStarts
  BY <1>1, <1>3, <1>4, BeginsHole
<1> QED BY <1>2, <1>5

-----------------------------------------------------------------------------
(* All of them at once: every step of LoopsNext is a step of one program   *)
(* and a stutter of the others.                                            *)

LoopsInv ==
  DeadlinesInv /\ CopyInv /\ LogInv /\ HttpInv /\ AnswerInv /\ WatchInv
    /\ HolesInv

LEMMA LoopsStart == LoopsInit => LoopsInv
BY DeadlinesStart, CopyStart, LogStart, HttpStart, AnswersStart, WatchStart,
   HolesStart
   DEF LoopsInit, LoopsInv

LEMMA OneRuns ==
  [LoopsNext]_loopsVars =>
    /\ [Next]_vars
    /\ [Copy!Next]_copyVars
    /\ [Log!Next]_logVars
    /\ [Http!Next]_httpVars
    /\ [Watch!Next]_watchVars
    /\ [Holes!Next]_holesVars
BY Zenon DEF LoopsNext, loopsVars, RunsDeadlines, RunsSignal, RunsWatch,
             RunsHoles, RunsHttp, RunsCopy, RunsLog

LEMMA LoopsStep == LoopsInv /\ [LoopsNext]_loopsVars => LoopsInv'
BY OneRuns, DeadlinesStep, CopyStep, LogStep, HttpStep, AnswersStep, WatchStep,
   HolesStep
   DEF LoopsInv

(* Whichever program runs, its inductive invariant holds.                  *)
THEOREM Invariance == LoopsSpec => []LoopsInv
BY LoopsStart, LoopsStep, PTL DEF LoopsSpec

(* cpu-idle-governor/main.c keeps to its schedule, in whatever way time    *)
(* passes.                                                                 *)
THEOREM KeepsSchedule == LoopsSpec => []OnSchedule
<1>1. LoopsInv => OnSchedule
  BY OnScheduleHolds DEF LoopsInv
<1> QED BY <1>1, Invariance, PTL

(* The three copying loops of copy_file_range and llm_splice_copy.c leave  *)
(* an exact copy unless a call failed or was short, and what they leave    *)
(* after that is as ExactUnlessShort says.                                 *)
THEOREM CopiesExactly == LoopsSpec => []ExactUnlessShort
<1>1. LoopsInv => ExactUnlessShort
  BY ExactUnlessShortHolds DEF LoopsInv
<1> QED BY <1>1, Invariance, PTL

(* llm_tee_example.c logs what it passes on, however tee() and splice()    *)
(* cut the stream and whenever the producer writes.                        *)
THEOREM LogsWhatPasses == LoopsSpec => []LogFollowsStdout
<1>1. LoopsInv => LogFollowsStdout
  BY LogFollowsStdoutHolds DEF LoopsInv
<1> QED BY <1>1, Invariance, PTL

(* A client that stays cannot kill one of the HTTP servers, and one that   *)
(* kills the server of the single writev() has reset its connection, before *)
(* it sent anything or after it shut down its side: for any number of      *)
(* clients and of write() calls.                                           *)
THEOREM OnlyLeaversKill == LoopsSpec => []KilledOnlyByLeaver
<1>1. LoopsInv => KilledOnlyByLeaver
  BY KilledOnlyByLeaverHolds DEF LoopsInv
<1> QED BY <1>1, Invariance, PTL

(* A client that stays can count on the whole answer if one read() takes   *)
(* its request: one that may be cut off has sent it in several pieces, or  *)
(* more than fits into the buffer; for any number of clients, any length   *)
(* of requests and of the buffer, and any number of write() calls.         *)
THEOREM AnswersAreWhole == LoopsSpec => []Http!CutOnlyIfNotReadAtOnce
<1>1. LoopsInv => Http!CutOnlyIfNotReadAtOnce
  BY CutOnlyHolds DEF LoopsInv
<1> QED BY <1>1, Invariance, PTL

(* inotify/main.c misses a new ./foo for no reason but the three that      *)
(* NoticedUnless names, for every number of files and length of the queue  *)
(* and of buf.                                                             *)
THEOREM NoticesFoo == LoopsSpec => []NoticedUnless
<1>1. LoopsInv => NoticedUnless
  BY NoticedUnlessHolds DEF LoopsInv
<1> QED BY <1>1, Invariance, PTL

(* A walk of list_holes.c that ends has printed every hole of the file and *)
(* nothing else, and a walk over a file with a short tail never ends, for  *)
(* any file, block size and length of what is read.                        *)
THEOREM WalksListTheHoles == LoopsSpec => []Holes!EndsWithTheHoles
<1>1. LoopsInv => Holes!EndsWithTheHoles
  BY EndsWithTheHolesHolds DEF LoopsInv
<1> QED BY <1>1, Invariance, PTL

(* The files of file_hole/main.c have no short tail, whatever the number   *)
(* of records and the gap between them in blocks.                          *)
THEOREM MainMakesNoShortTail ==
  LoopsSpec => [](Holes!MadeByMain => ~Holes!ShortTail)
<1>1. LoopsInv => (Holes!MadeByMain => ~Holes!ShortTail)
  BY MainMakesNoTail DEF LoopsInv, HolesInv
<1> QED BY <1>1, Invariance, PTL
=============================================================================
