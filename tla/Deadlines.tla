----------------------------- MODULE Deadlines -----------------------------
(***************************************************************************)
(* cpu-idle-governor/main.c: wake up at regular times, record how late     *)
(* each time, sort what was recorded and print percentiles.  Sorting       *)
(* leaves the samples what they are, and handling a request only takes     *)
(* time, which passes whatever the program does.                           *)
(***************************************************************************)
EXTENDS Integers, Sequences

CONSTANTS
  NsPerSec,     \* NS_PER_SEC
  Interval,     \* interval_ms in nanoseconds
  Iterations,   \* iterations
  ClockMax      \* bound of the model: when the clock stops

ASSUME DeadlinesAssumption ==
  /\ NsPerSec \in Nat \ {0}
  /\ Interval \in Nat \ {0}
  /\ Iterations \in Nat \ {0}
  /\ ClockMax \in Nat

VARIABLES
  pc,        \* "start", "set", "sleep", "woke", "done" or "failed"
  now,       \* CLOCK_MONOTONIC, in nanoseconds
  start,     \* history: the time at which the program read the clock first
  next,      \* the time to wake up
  samples    \* the overshoots recorded so far; i is its length

vars == <<pc, now, start, next, samples>>

Timespec(ns) == [sec |-> ns \div NsPerSec, nsec |-> ns % NsPerSec]
Nanoseconds(t) == t.sec * NsPerSec + t.nsec

Init ==
  /\ pc = "start"
  /\ now \in 0..(ClockMax \div 2)
  /\ start = 0
  /\ next = Timespec(0)
  /\ samples = <<>>

-----------------------------------------------------------------------------
Tick ==
  /\ now < ClockMax
  /\ now' = now + 1
  /\ UNCHANGED <<pc, start, next, samples>>

(* One carry too few. *)
CarryMutant(t) ==
  IF t.nsec > NsPerSec
    THEN [sec |-> t.sec + 1, nsec |-> t.nsec - NsPerSec]
    ELSE t

Carry(t) ==
  IF t.nsec >= NsPerSec
    THEN [sec |-> t.sec + 1, nsec |-> t.nsec - NsPerSec]
    ELSE t

(* ts_add_ns() *)
TsAddNs(t, ns) ==
  Carry([sec |-> t.sec + ns \div NsPerSec, nsec |-> t.nsec + (ns % NsPerSec)])

(* ts_diff_ns() *)
TsDiffNs(a, b) == (a.sec - b.sec) * NsPerSec + (a.nsec - b.nsec)

ReadClock ==
  /\ pc = "start"
  /\ start' = now
  /\ next' = Timespec(now)
  /\ pc' = "set"
  /\ UNCHANGED <<now, samples>>

SetDeadline ==
  /\ pc = "set"
  /\ IF Len(samples) < Iterations
       THEN next' = TsAddNs(next, Interval) /\ pc' = "sleep"
       ELSE UNCHANGED next /\ pc' = "done"
  /\ UNCHANGED <<now, start, samples>>

(* clock_nanosleep(TIMER_ABSTIME) returns when the time has come, and at   *)
(* once with EINVAL when there is no such time.  After a signal, EINTR, it *)
(* is called again with the same time, which leaves the state as it is.    *)
Sleep ==
  /\ pc = "sleep"
  /\ next.nsec < NsPerSec => now >= Nanoseconds(next)
  /\ pc' = IF next.nsec < NsPerSec THEN "woke" ELSE "failed"
  /\ UNCHANGED <<now, start, next, samples>>

Record ==
  /\ pc = "woke"
  /\ samples' = Append(samples, TsDiffNs(Timespec(now), next))
  /\ pc' = "set"
  /\ UNCHANGED <<now, start, next>>

Program == ReadClock \/ SetDeadline \/ Sleep \/ Record

Next == Program \/ Tick

Spec == Init /\ [][Next]_vars

-----------------------------------------------------------------------------
(* Properties. *)

TypeOK ==
  /\ pc \in {"start", "set", "sleep", "woke", "done", "failed"}
  /\ now \in Nat /\ start \in Nat
  /\ next \in [sec : Nat, nsec : Nat]
  /\ samples \in Seq(Int)

(* When request i was due, had no wake-up ever been late. *)
Due(i) == start + i * Interval

(* The indices into the sorted samples: minimum, median, 99th percentile   *)
(* and maximum.                                                            *)
Printed ==
  {0, Iterations \div 2, (Iterations * 99) \div 100, Iterations - 1}

(* Lateness does not add up: the program sleeps until the time at which    *)
(* the next request is due, however late it woke up before, however often  *)
(* the sleep was interrupted and wherever a second ends; an overshoot is   *)
(* never negative, nor more than the time that passed since; no deadline   *)
(* is refused as invalid; and each number printed is that of a sample.     *)
OnSchedule ==
  /\ pc \in {"sleep", "woke"} => Nanoseconds(next) = Due(Len(samples) + 1)
  /\ \A i \in 1..Len(samples) : samples[i] \in 0..(now - Due(i))
  /\ pc # "failed"
  /\ pc = "done" => \A k \in Printed : k + 1 \in 1..Len(samples)
=============================================================================
