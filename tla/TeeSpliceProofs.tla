--------------------------- MODULE TeeSpliceProofs ---------------------------
(***************************************************************************)
(* What TeeSplice checks for two files and small pipes, proved for any     *)
(* number of files, pipes and buffers of any size and inputs of any        *)
(* length.                                                                 *)
(***************************************************************************)
EXTENDS TeeSplice, StreamLemmas

(* While the files are opened nothing is copied. *)
Opening ==
  /\ taken = 0
  /\ upsets = {}
  /\ ps = [f \in Files |-> <<>>]
  /\ out = [s \in Sinks |-> IF s >= i THEN Stale ELSE <<>>]

(* Stdout holds exactly the input consumed, until the program dies and may *)
(* leave die_if's message after it.                                        *)
Base ==
  /\ TypeOK
  /\ taken <= sent
  /\ \/ out[0] = Upto(taken)
     \/ pc = "failed" /\ out[0] = Joined(Upto(taken), Message)
  /\ pc = "open" => Opening

-----------------------------------------------------------------------------
(* Stdout. *)

(* One round of a loop over the files. *)
LEMMA AdvanceFacts ==
  ASSUME i \in Files, NEW loop, NEW next, Advance(loop, next)
  PROVE  /\ i' \in Files
         /\ \/ i # FileCount /\ i' = i + 1 /\ pc' = loop
            \/ i = FileCount /\ i' = 1 /\ pc' = next
BY ConstantsAssumption DEF Advance, Files

LEMMA InitBase == Init => Base
<1> SUFFICES ASSUME Init PROVE Base
  OBVIOUS
<1> USE ConstantsAssumption DEF Init
<1>1. TypeOK
  BY DEF TypeOK, Sinks, Files, Stale, Upsets
<1>2. out = [s \in Sinks |-> IF s >= i THEN Stale ELSE <<>>]
  BY DEF Sinks, Files
<1>3. out[0] = Upto(taken)
  BY <1>2, UptoZero DEF Sinks
<1> QED
  BY <1>1, <1>2, <1>3 DEF Base, Opening

(* open() of a file: those from the next one on keep their old contents.   *)
LEMMA OpenFileBase == Base /\ OpenFile => Base'
<1> SUFFICES ASSUME Base, OpenFile PROVE Base'
  OBVIOUS
<1> USE ConstantsAssumption
<1>1. /\ pc = "open" /\ TypeOK /\ Opening /\ taken <= sent
      /\ UNCHANGED <<ps, taken, sent, closed, upsets>>
      /\ i \in Files /\ i \in Sinks /\ 0 \in Sinks /\ 0 # i
  BY DEF Base, OpenFile, TypeOK, Files, Sinks
<1>2. /\ i' \in Files
      /\ \/ i' = i + 1 /\ pc' = "open"
         \/ pc' = "tee"
  BY <1>1, AdvanceFacts DEF OpenFile
<1>3. out' = [s \in Sinks |-> IF s >= i + 1 THEN Stale ELSE <<>>]
  <2>1. out' = [s \in Sinks |-> IF s = i THEN <<>> ELSE out[s]]
    BY <1>1 DEF OpenFile, TypeOK
  <2>2. \A s \in Sinks : s # i => (s >= i <=> s >= i + 1)
    BY <1>1 DEF Sinks, Files
  <2>3. ~(i >= i + 1)
    BY <1>1 DEF Files
  <2> QED
    BY <1>1, <2>1, <2>2, <2>3 DEF Opening
<1>4. TypeOK'
  <2>1. out' \in [Sinks -> Seq(Nat)]
    BY <1>3, ContentTypes
  <2> QED
    BY <1>1, <1>2, <2>1 DEF TypeOK
<1>5. out'[0] = Upto(taken')
  <2>1. ~(0 >= i + 1) /\ taken' = 0
    BY <1>1 DEF Files, Opening
  <2> QED
    BY <1>1, <1>3, <2>1, UptoZero
<1>6. pc' = "open" => Opening'
  BY <1>1, <1>2, <1>3 DEF Opening
<1> QED
  BY <1>1, <1>4, <1>5, <1>6 DEF Base

(* tee() into the pipe of a file. *)
LEMMA TeeFileFacts ==
  ASSUME Base, TeeFile
  PROVE  LET copied == Least(Least(Queued, BufSize), Room(i)) IN
         /\ copied \in Nat \ {0}
         /\ copied <= Queued /\ copied <= BufSize /\ copied <= Room(i)
         /\ Slice(taken, taken + copied) \in Seq(Nat)
         /\ Len(Slice(taken, taken + copied)) = copied
         /\ ps' = [ps EXCEPT ![i] = Joined(ps[i], Slice(taken, taken + copied))]
<1> USE ConstantsAssumption
<1>1. Queued \in Nat /\ Room(i) \in Int /\ taken \in Nat
  BY DEF Base, TypeOK, Queued, Room
<1>2. Least(Queued, BufSize) \in Nat
  BY <1>1 DEF Least
<1> DEFINE copied == Least(Least(Queued, BufSize), Room(i))
<1>3. copied \in Int /\ copied <= Queued /\ copied <= BufSize /\ copied <= Room(i)
  BY <1>1, <1>2 DEF Least
<1>4. copied > 0 /\ ps' = [ps EXCEPT ![i] = Joined(ps[i], Slice(taken, taken + copied))]
  BY DEF TeeFile
<1> HIDE DEF copied
<1>5. copied \in Nat
  BY <1>3, <1>4
<1>6. /\ Slice(taken, taken + copied) \in Seq(Nat)
      /\ Len(Slice(taken, taken + copied)) = copied
  BY <1>1, <1>5, ChunkType
<1> QED
  BY <1>3, <1>4, <1>5, <1>6 DEF copied

LEMMA TeeFileBase == Base /\ TeeFile => Base'
<1> SUFFICES ASSUME Base, TeeFile PROVE Base'
  OBVIOUS
<1>1. /\ TypeOK /\ taken <= sent /\ out[0] = Upto(taken)
      /\ pc = "tee" /\ i \in Files
      /\ UNCHANGED <<taken, sent, closed, out>>
  BY DEF Base, TeeFile, TypeOK
<1>2. i' \in Files /\ pc' \in {"tee", "drain"}
  BY <1>1, AdvanceFacts DEF TeeFile
<1>3. upsets' \in SUBSET Upsets
  <2>1. upsets' \in {upsets, upsets \union {"full"}}
    BY DEF TeeFile
  <2> QED
    BY <1>1, <2>1 DEF TypeOK, Upsets
<1>4. ps' \in [Files -> Seq(Nat)]
  <2>1. PICK t \in Seq(Nat) : ps' = [ps EXCEPT ![i] = Joined(ps[i], t)]
    BY TeeFileFacts
  <2>2. Joined(ps[i], t) \in Seq(Nat)
    BY <1>1, JoinedType DEF TypeOK
  <2> QED
    BY <1>1, <2>1, <2>2 DEF TypeOK
<1> QED
  BY <1>1, <1>2, <1>3, <1>4 DEF Base, TypeOK

(* splice() of n bytes from the pipe of a file to the file. *)
LEMMA DrainFileFacts ==
  ASSUME Base, DrainFile
  PROVE  LET most == Least(Len(ps[i]), BufSize) IN
         \E n \in Nat \ {0} :
           /\ n <= most /\ n <= Len(ps[i])
           /\ Part(ps[i], 1, n) \in Seq(Nat)
           /\ Rest(ps[i], n) \in Seq(Nat)
           /\ Len(Rest(ps[i], n)) = Len(ps[i]) - n
           /\ out' = [out EXCEPT ![i] = Joined(out[i], Part(ps[i], 1, n))]
           /\ ps' = [ps EXCEPT ![i] = Rest(ps[i], n)]
           /\ upsets' = IF n < most THEN upsets \union {"drain"} ELSE upsets
<1> USE ConstantsAssumption
<1>1. ps[i] \in Seq(Nat) /\ Len(ps[i]) \in Nat
  BY DEF Base, TypeOK
<1> DEFINE most == Least(Len(ps[i]), BufSize)
<1>2. most \in Nat /\ most <= Len(ps[i])
  BY <1>1 DEF Least
<1>3. PICK n \in 1..most :
        /\ out' = [out EXCEPT ![i] = Joined(out[i], Part(ps[i], 1, n))]
        /\ ps' = [ps EXCEPT ![i] = Rest(ps[i], n)]
        /\ upsets' = IF n < most THEN upsets \union {"drain"} ELSE upsets
  BY DEF DrainFile
<1> HIDE DEF most
<1>4. n \in Nat \ {0} /\ n <= most /\ n <= Len(ps[i]) /\ 1 <= n + 1
  BY <1>1, <1>2
<1>5. Part(ps[i], 1, n) \in Seq(Nat)
  BY <1>1, <1>4, PartType
<1>6. Rest(ps[i], n) \in Seq(Nat) /\ Len(Rest(ps[i], n)) = Len(ps[i]) - n
  BY <1>1, <1>4, RestType
<1> QED
  BY <1>3, <1>4, <1>5, <1>6 DEF most

LEMMA DrainFileBase == Base /\ DrainFile => Base'
<1> SUFFICES ASSUME Base, DrainFile PROVE Base'
  OBVIOUS
<1> USE ConstantsAssumption
<1>1. /\ TypeOK /\ taken <= sent /\ out[0] = Upto(taken)
      /\ pc = "drain" /\ i \in Files /\ i \in Sinks /\ 0 \in Sinks /\ 0 # i
      /\ UNCHANGED <<taken, sent, closed>>
  BY DEF Base, DrainFile, TypeOK, Files, Sinks
<1>2. i' \in Files /\ pc' \in {"drain", "forward"}
  BY <1>1, AdvanceFacts DEF DrainFile
<1>3. PICK n \in Nat \ {0} :
        /\ Part(ps[i], 1, n) \in Seq(Nat)
        /\ Rest(ps[i], n) \in Seq(Nat)
        /\ out' = [out EXCEPT ![i] = Joined(out[i], Part(ps[i], 1, n))]
        /\ ps' = [ps EXCEPT ![i] = Rest(ps[i], n)]
        /\ upsets' \in {upsets, upsets \union {"drain"}}
  BY DrainFileFacts
<1>4. upsets' \in SUBSET Upsets
  BY <1>1, <1>3 DEF TypeOK, Upsets
<1>5. Joined(out[i], Part(ps[i], 1, n)) \in Seq(Nat)
  BY <1>1, <1>3, JoinedType DEF TypeOK
<1>6. out' \in [Sinks -> Seq(Nat)] /\ ps' \in [Files -> Seq(Nat)]
  BY <1>1, <1>3, <1>5 DEF TypeOK
<1>7. out'[0] = out[0]
  BY <1>1, <1>3 DEF TypeOK
<1> QED
  BY <1>1, <1>2, <1>4, <1>6, <1>7 DEF Base, TypeOK

(* splice() of the next bytes of stdin to stdout. *)
LEMMA ForwardFacts ==
  ASSUME Base, Forward
  PROVE  LET most == Least(Queued, BufSize) IN
         \E n \in Nat \ {0} :
           /\ n <= most /\ taken + n <= sent
           /\ taken' = taken + n
           /\ out' = [out EXCEPT ![0] = Upto(taken + n)]
           /\ upsets' = IF n < most THEN upsets \union {"forward"} ELSE upsets
<1> USE ConstantsAssumption
<1>1. Queued \in Nat /\ taken \in Nat /\ sent \in Nat /\ taken + Queued = sent
  BY DEF Base, TypeOK, Queued
<1> DEFINE most == Least(Queued, BufSize)
<1>2. most \in Nat /\ most <= Queued
  BY <1>1 DEF Least
<1>3. PICK n \in 1..most :
        /\ taken' = taken + n
        /\ out' = [out EXCEPT ![0] = Joined(out[0], Slice(taken, taken + n))]
        /\ upsets' = IF n < most THEN upsets \union {"forward"} ELSE upsets
  BY DEF Forward
<1> HIDE DEF most
<1>4. n \in Nat \ {0} /\ n <= most /\ taken + n <= sent
      /\ taken + n \in Nat /\ taken <= taken + n
  BY <1>1, <1>2
<1>5. Joined(out[0], Slice(taken, taken + n)) = Upto(taken + n)
  <2>1. out[0] = Upto(taken)
    BY DEF Base, Forward
  <2> QED
    BY <1>1, <1>4, <2>1, UptoExtend
<1> QED
  BY <1>3, <1>4, <1>5 DEF most

LEMMA ForwardBase == Base /\ Forward => Base'
<1> SUFFICES ASSUME Base, Forward PROVE Base'
  OBVIOUS
<1> USE ConstantsAssumption
<1>1. /\ TypeOK /\ pc' = "tee" /\ 0 \in Sinks
      /\ UNCHANGED <<i, ps, sent, closed>>
  BY DEF Base, Forward, Sinks
<1>2. PICK n \in Nat \ {0} :
        /\ taken + n <= sent
        /\ taken' = taken + n
        /\ out' = [out EXCEPT ![0] = Upto(taken + n)]
        /\ upsets' \in {upsets, upsets \union {"forward"}}
  BY ForwardFacts
<1>3. upsets' \in SUBSET Upsets
  BY <1>1, <1>2 DEF TypeOK, Upsets
<1>4. taken' \in Nat /\ Upto(taken + n) \in Seq(Nat)
  BY <1>1, <1>2, UptoType DEF TypeOK
<1>5. out' \in [Sinks -> Seq(Nat)] /\ out'[0] = Upto(taken')
  BY <1>1, <1>2, <1>4 DEF TypeOK
<1> QED
  BY <1>1, <1>2, <1>3, <1>4, <1>5 DEF Base, TypeOK

(* die_if adds to stdout alone. *)
LEMMA DieIfFacts ==
  ASSUME TypeOK, DieIf
  PROVE  /\ pc # "failed" /\ pc' = "failed"
         /\ UNCHANGED <<i, ps, taken, sent, closed, upsets>>
         /\ out' \in [Sinks -> Seq(Nat)]
         /\ out'[0] \in {out[0], Joined(out[0], Message)}
         /\ \A f \in Files : out'[f] = out[f]
<1> USE ConstantsAssumption
<1>1. PICK prefix \in {<<>>, Message} :
        out' = [out EXCEPT ![0] = Joined(out[0], prefix)]
  BY DEF DieIf
<1>2. 0 \in Sinks /\ out[0] \in Seq(Nat) /\ prefix \in Seq(Nat)
  <2>1. 0 \in Sinks
    BY DEF Sinks
  <2>2. prefix \in Seq(Nat)
    BY ContentTypes, Zenon
  <2> QED
    BY <2>1, <2>2 DEF TypeOK
<1>3. Joined(out[0], <<>>) = out[0] /\ Joined(out[0], prefix) \in Seq(Nat)
  BY <1>2, JoinedEmpty, JoinedType
<1>4. out' \in [Sinks -> Seq(Nat)] /\ out'[0] = Joined(out[0], prefix)
  BY <1>1, <1>2, <1>3 DEF TypeOK
<1>5. \A f \in Files : f \in Sinks /\ f # 0
  BY DEF Files, Sinks
<1>6. \A f \in Files : out'[f] = out[f]
  BY <1>1, <1>5 DEF TypeOK
<1> QED
  BY <1>3, <1>4, <1>6 DEF DieIf, Running

(* The other steps move nothing. *)
LEMMA OthersBase ==
  Base /\ (Produce \/ CloseInput \/ DieIf \/ TeeEof \/ UNCHANGED vars) => Base'
<1> SUFFICES ASSUME Base,
                    Produce \/ CloseInput \/ DieIf \/ TeeEof \/ UNCHANGED vars
             PROVE  Base'
  OBVIOUS
<1> USE ConstantsAssumption
<1>1. /\ TypeOK /\ taken <= sent /\ (pc = "open" => Opening)
      /\ pc # "failed" => out[0] = Upto(taken)
  BY DEF Base
<1>2. ~DieIf => UNCHANGED <<i, ps, taken, out>>
  BY DEF Produce, CloseInput, TeeEof, vars
<1>3. CASE Produce
  <2>1. sent' \in Nat /\ taken' <= sent'
    <3>1. PICK k \in 1..Least(MaxBytes - sent, StdinCap - Queued) : sent' = sent + k
      BY <1>3 DEF Produce
    <3> QED
      BY <1>1, <1>3, <3>1 DEF TypeOK, Produce
  <2>2. /\ pc' = pc /\ closed' = closed
        /\ upsets' \in {upsets, upsets \union {"late"}}
        /\ pc = "open" => upsets' = upsets
    BY <1>3 DEF Produce, MidChunk
  <2>3. TypeOK'
    BY <1>1, <1>3, <2>1, <2>2 DEF TypeOK, Upsets, Produce
  <2> QED
    BY <1>1, <1>3, <2>1, <2>2, <2>3 DEF Base, Opening, Produce
<1>4. CASE CloseInput
  BY <1>1, <1>4 DEF CloseInput, Base, TypeOK, Opening
<1>5. CASE DieIf
  BY <1>1, <1>5, DieIfFacts DEF Base, TypeOK
<1>6. CASE TeeEof
  BY <1>1, <1>6 DEF TeeEof, Base, TypeOK
<1>7. CASE UNCHANGED vars
  BY <1>1, <1>7 DEF vars, Base, TypeOK, Opening
<1> QED
  BY <1>3, <1>4, <1>5, <1>6, <1>7

LEMMA NextBase == Base /\ [Next]_vars => Base'
BY OpenFileBase, TeeFileBase, DrainFileBase, ForwardBase, OthersBase
   DEF Next, Program

(* Stdout holds exactly the bytes consumed, whatever the calls move; where *)
(* a call fails, die_if's message may follow them.                         *)
THEOREM StdoutExact == Spec => []Base
BY InitBase, NextBase, PTL DEF Spec

(* The variables keep their types. *)
THEOREM TypeCorrect == Spec => []TypeOK
<1>1. Base => TypeOK
  BY DEF Base
<1> QED
  BY <1>1, StdoutExact, PTL

-----------------------------------------------------------------------------
(* The pipes of the program. *)

(* The files whose pipe is to be drained before the next tee() into it. *)
Teed(f) == IF pc = "tee" THEN f < i ELSE pc = "drain" /\ f >= i

(* No pipe overflows, and one is full only until it is drained. *)
Rooms ==
  /\ \A f \in Files : Len(ps[f]) <= PipeCap
  /\ pc \in {"tee", "drain", "forward"} =>
       \A f \in Files : ~Teed(f) => Len(ps[f]) < PipeCap

(* What the chunk under way does to the pipes of the other files. *)
LEMMA OtherTeed ==
  ASSUME i \in Files, NEW f \in Files, f # i
  PROVE  /\ pc = "tee" /\ Advance("tee", "drain") => (Teed(f) => Teed(f)')
         /\ pc = "drain" /\ Advance("drain", "forward") => (Teed(f)' <=> Teed(f))
<1> USE ConstantsAssumption
<1>1. CASE pc = "tee" /\ Advance("tee", "drain")
  BY <1>1, AdvanceFacts DEF Teed, Files
<1>2. CASE pc = "drain" /\ Advance("drain", "forward")
  BY <1>2, AdvanceFacts DEF Teed, Files
<1> QED
  BY <1>1, <1>2

LEMMA TeeFileRooms == Base /\ Rooms /\ TeeFile => Rooms'
<1> SUFFICES ASSUME Base, Rooms, TeeFile PROVE Rooms'
  OBVIOUS
<1> USE ConstantsAssumption
<1>1. pc = "tee" /\ i \in Files /\ ps \in [Files -> Seq(Nat)]
  BY DEF Base, TypeOK, TeeFile
<1>2. PICK t \in Seq(Nat) :
        /\ Len(t) <= PipeCap - Len(ps[i])
        /\ ps' = [ps EXCEPT ![i] = Joined(ps[i], t)]
  BY TeeFileFacts DEF Room
<1>3. Len(Joined(ps[i], t)) = Len(ps[i]) + Len(t)
  BY <1>1, JoinedType
<1>4. \A f \in Files : Len(ps'[f]) <= PipeCap
  <2>1. Len(ps[i]) \in Nat /\ Len(t) \in Nat
    BY <1>1
  <2> QED
    BY <1>1, <1>2, <1>3, <2>1 DEF Rooms
<1>5. ASSUME NEW f \in Files, pc' \in {"tee", "drain", "forward"}, ~Teed(f)'
      PROVE  Len(ps'[f]) < PipeCap
  <2>1. f # i /\ ~Teed(f)
    BY <1>1, <1>5, AdvanceFacts, SMTT(30) DEF TeeFile, Teed, Files
  <2> QED
    BY <1>1, <1>2, <2>1 DEF Rooms
<1> QED
  BY <1>4, <1>5 DEF Rooms

LEMMA DrainFileRooms == Base /\ Rooms /\ DrainFile => Rooms'
<1> SUFFICES ASSUME Base, Rooms, DrainFile PROVE Rooms'
  OBVIOUS
<1> USE ConstantsAssumption
<1>1. pc = "drain" /\ i \in Files /\ ps \in [Files -> Seq(Nat)]
  BY DEF Base, TypeOK, DrainFile
<1>2. PICK n \in Nat \ {0} :
        /\ Len(Rest(ps[i], n)) = Len(ps[i]) - n
        /\ ps' = [ps EXCEPT ![i] = Rest(ps[i], n)]
  BY DrainFileFacts
<1>3. ps'[i] = Rest(ps[i], n) /\ \A f \in Files : f # i => ps'[f] = ps[f]
  BY <1>1, <1>2
<1>4. Len(ps'[i]) < PipeCap
  <2>1. Len(ps[i]) \in Nat /\ Len(ps[i]) <= PipeCap
    BY <1>1 DEF Rooms
  <2> QED
    BY <1>2, <1>3, <2>1
<1>5. \A f \in Files : Len(ps'[f]) <= PipeCap
  BY <1>1, <1>3, <1>4 DEF Rooms
<1>6. ASSUME NEW f \in Files, f # i, ~Teed(f)'
      PROVE  Len(ps'[f]) < PipeCap
  <2>1. ~Teed(f)
    BY <1>1, <1>6, OtherTeed DEF DrainFile
  <2> QED
    BY <1>1, <1>3, <1>6, <2>1 DEF Rooms
<1> QED
  BY <1>4, <1>5, <1>6 DEF Rooms

LEMMA OthersRooms ==
  ASSUME Base, Rooms, [Next]_vars, ~TeeFile, ~DrainFile
  PROVE  Rooms'
<1> USE ConstantsAssumption
<1>1. CASE OpenFile
  <2>1. \A f \in Files : ps'[f] = <<>>
    BY <1>1 DEF Base, Opening, OpenFile
  <2> QED
    BY <2>1 DEF Rooms
<1>2. CASE Forward
  <2>1. pc = "forward" /\ ps' = ps
    BY <1>2 DEF Forward
  <2>2. \A f \in Files : Len(ps[f]) < PipeCap
    BY <2>1 DEF Rooms, Teed
  <2> QED
    BY <2>1, <2>2 DEF Rooms
<1>3. CASE Produce \/ CloseInput \/ DieIf \/ TeeEof \/ UNCHANGED vars
  <2>1. ps' = ps /\ i' = i /\ pc' \in {pc, "failed", "done"}
    BY <1>3 DEF Produce, CloseInput, DieIf, TeeEof, vars
  <2>2. \A f \in Files : pc' = pc => (Teed(f)' <=> Teed(f))
    BY <2>1 DEF Teed
  <2> QED
    BY <2>1, <2>2 DEF Rooms
<1> QED
  BY <1>1, <1>2, <1>3 DEF Next, Program

LEMMA NextRooms == Base /\ Rooms /\ [Next]_vars => Rooms'
BY TeeFileRooms, DrainFileRooms, OthersRooms

THEOREM PipesBounded == Spec => []Rooms
<1>1. Init => Rooms
  BY ConstantsAssumption DEF Init, Rooms
<1>2. Base /\ Rooms /\ [Next]_vars => Rooms'
  BY NextRooms
<1> QED
  BY <1>1, <1>2, StdoutExact, PTL DEF Spec

(* A tee() never waits for room that only the program itself could make.   *)
THEOREM NeverStuck == Spec => []NeverStuckOnOwnPipe
<1>1. Base /\ Rooms => NeverStuckOnOwnPipe
  <2> SUFFICES ASSUME Base, Rooms, pc = "tee" PROVE Room(i) > 0
    BY DEF NeverStuckOnOwnPipe
  <2>1. i \in Files /\ ps[i] \in Seq(Nat) /\ ~Teed(i)
    BY DEF Base, TypeOK, Teed, Files
  <2>2. Len(ps[i]) < PipeCap /\ Len(ps[i]) \in Nat
    BY <2>1 DEF Rooms
  <2> QED
    BY <2>2, ConstantsAssumption DEF Room
<1> QED
  BY <1>1, StdoutExact, PipesBounded, PTL

-----------------------------------------------------------------------------
(* Refinement. *)

LEMMA AbsUpto == ASSUME NEW k PROVE Abs!Upto(k) = Upto(k)
BY DEF Abs!Upto, Abs!Slice, Upto, Slice

LEMMA InitRefines == Init => Abs!Init
<1> SUFFICES ASSUME Init PROVE Abs!Init
  OBVIOUS
<1>1. out[0] = <<>> /\ Status = "running"
  BY ConstantsAssumption DEF Init, Sinks, Files, Status
<1> QED
  BY <1>1 DEF Init, Abs!Init

(* The last splice() of a chunk delivers it to stdout. *)
LEMMA ForwardRefines == Base /\ Forward => Abs!Next
<1> SUFFICES ASSUME Base, Forward PROVE Abs!Next
  OBVIOUS
<1> USE ConstantsAssumption
<1>1. /\ taken \in Nat /\ sent \in Nat /\ out \in [Sinks -> Seq(Nat)]
      /\ 0 \in Sinks /\ out[0] = Upto(taken)
  BY DEF Base, TypeOK, Sinks, Forward
<1>2. PICK n \in Nat \ {0} :
        /\ taken + n <= sent
        /\ out' = [out EXCEPT ![0] = Upto(taken + n)]
  BY ForwardFacts
<1>3. Len(out[0]) = taken
  BY <1>1, UptoType
<1>4. taken + n \in (Len(out[0]) + 1)..sent
  BY <1>1, <1>2, <1>3
<1>5. [s \in {0} |-> out'[s]]
        = [[s \in {0} |-> out[s]] EXCEPT ![0] = Abs!Upto(taken + n)]
  BY <1>1, <1>2, AbsUpto
<1>6. /\ Status = "running" /\ Status' = "running"
      /\ UNCHANGED <<sent, closed>>
  BY DEF Forward, Status
<1>7. Abs!Deliver(0)
  BY <1>4, <1>5, <1>6 DEF Abs!Deliver
<1> QED
  BY <1>7 DEF Abs!Next

LEMMA OthersRefine ==
  ASSUME Base, Base', [Next]_vars, ~Forward
  PROVE  [Abs!Next]_Abs!vars
<1> USE ConstantsAssumption
<1>1. /\ taken \in Nat /\ sent \in Nat /\ sent' \in Nat
      /\ out \in [Sinks -> Seq(Nat)]
      /\ pc # "failed" => out[0] = Upto(taken)
      /\ i \in Files /\ i \in Sinks /\ i # 0
  <2>1. TypeOK /\ TypeOK'
    BY DEF Base
  <2>2. pc # "failed" => out[0] = Upto(taken)
    BY DEF Base
  <2>3. i \in Files /\ i \in Sinks /\ i # 0
    BY <2>1 DEF TypeOK, Files, Sinks
  <2> QED
    BY <2>1, <2>2, <2>3 DEF TypeOK
<1>2. ~DieIf => out'[0] = out[0]
  <2>1. CASE OpenFile
    BY <1>1, <2>1 DEF OpenFile
  <2>2. CASE DrainFile
    <3>1. \E t : out' = [out EXCEPT ![i] = t]
      BY <2>2, DrainFileFacts
    <3> QED
      BY <1>1, <3>1
  <2>3. CASE Produce \/ CloseInput \/ TeeFile \/ TeeEof \/ UNCHANGED vars
    BY <2>3 DEF Produce, CloseInput, TeeFile, TeeEof, vars
  <2> QED
    BY <2>1, <2>2, <2>3 DEF Next, Program
<1>3. ~DieIf => [s \in {0} |-> out[s]]' = [s \in {0} |-> out[s]]
  BY <1>2
<1>4. CASE Produce
  <2>1. PICK k \in 1..Least(MaxBytes - sent, StdinCap - Queued) : sent' = sent + k
    BY <1>4 DEF Produce
  <2>2. sent' > sent
    BY <1>1, <2>1
  <2>3. ~closed /\ UNCHANGED <<closed, Status>>
    BY <1>4 DEF Produce, Status
  <2> QED
    BY <1>1, <1>2, <1>4, <2>2, <2>3 DEF Abs!Next, Abs!Send, Produce
<1>5. CASE CloseInput
  <2>1. UNCHANGED <<sent, Status>> /\ ~closed /\ closed'
    BY <1>5 DEF CloseInput, Status
  <2> QED
    BY <1>5, <2>1 DEF CloseInput, Abs!Next, Abs!End
<1>6. CASE DieIf
  <2>1. Status = "running" /\ Status' = "aborted" /\ UNCHANGED <<sent, closed>>
    BY <1>6 DEF DieIf, Running, Status
  <2>2. out'[0] \in {out[0], Joined(out[0], Message)}
    BY <1>6, DieIfFacts DEF Base
  <2>3. CASE out'[0] = out[0]
    <3>1. [s \in {0} |-> out[s]]' = [s \in {0} |-> out[s]]
      BY <2>3
    <3> QED
      BY <2>1, <3>1 DEF Abs!Next, Abs!Abort
  <2>4. CASE out'[0] = Joined(out[0], Message)
    <3>1. [s \in {0} |-> out'[s]]
            = [[s \in {0} |-> out[s]] EXCEPT ![0] = Abs!Joined(out[0], Abs!Message)]
      BY <2>4 DEF Abs!Joined, Abs!Message, Joined, Message
    <3> QED
      BY <2>1, <3>1 DEF Abs!Next, Abs!Abort
  <2> QED
    BY <2>2, <2>3, <2>4
<1>7. CASE TeeEof
  <2>1. /\ Status = "running" /\ Status' = "finished"
        /\ UNCHANGED <<sent, closed>> /\ closed
    BY <1>7 DEF TeeEof, AtEof, Status
  <2>2. taken = sent
    BY <1>1, <1>7 DEF TeeEof, AtEof, Queued
  <2>3. out[0] = Abs!Upto(sent)
    BY <1>1, <1>7, <2>2, AbsUpto DEF TeeEof
  <2>4. UNCHANGED out
    BY <1>7 DEF TeeEof
  <2> QED
    BY <2>1, <2>3, <2>4 DEF Abs!Next, Abs!Finish
<1>8. CASE OpenFile \/ TeeFile \/ DrainFile
  <2>1. pc \notin {"done", "failed"} /\ pc' \notin {"done", "failed"}
    BY <1>1, <1>8, AdvanceFacts DEF OpenFile, TeeFile, DrainFile
  <2>2. UNCHANGED <<sent, closed, Status>>
    BY <1>8, <2>1 DEF OpenFile, TeeFile, DrainFile, Status
  <2>3. ~DieIf
    BY <2>1 DEF DieIf
  <2> QED
    BY <1>3, <2>2, <2>3 DEF Abs!vars
<1>9. CASE UNCHANGED vars
  BY <1>9 DEF vars, Status, Abs!vars
<1> QED
  BY <1>4, <1>5, <1>6, <1>7, <1>8, <1>9 DEF Next, Program

(* Stdout is a faithful copy of stdin, whatever the calls move and         *)
(* whatever the files miss; where a call fails it is the copy so far, or   *)
(* that and die_if's message.                                              *)
THEOREM Refinement == Spec => StdoutImplementsBroadcast
<1>1. Base /\ Base' /\ [Next]_vars => [Abs!Next]_Abs!vars
  BY ForwardRefines, OthersRefine
<1> QED
  BY <1>1, InitRefines, StdoutExact, PTL
     DEF Spec, Abs!Spec, StdoutImplementsBroadcast

-----------------------------------------------------------------------------
(* The copies in the files, as long as nothing upsets a chunk. *)

(* The bytes a call can move when the chunk is tee'd, and as long as the   *)
(* producer is not late, when it is forwarded.                             *)
Most == Least(Queued, BufSize)

(* Unless something upsets a chunk each file holds all the input consumed, *)
(* and once its pipe is drained the chunk under way as well.               *)
Balanced ==
  /\ pc \in {"tee", "drain", "forward", "done"} =>
       \A f \in Files :
         ps[f] = IF Teed(f) THEN Slice(taken, taken + Most) ELSE <<>>
  /\ pc \in {"tee", "done"} => \A f \in Files : out[f] = Upto(taken)
  /\ pc = "drain" =>
       \A f \in Files : out[f] = Upto(IF f < i THEN taken + Most ELSE taken)
  /\ pc = "forward" => \A f \in Files : out[f] = Upto(taken + Most)
  /\ pc = "forward" => i = 1

BalancedUnlessUpset == upsets = {} => Balanced

LEMMA MostType ==
  ASSUME Base
  PROVE  /\ taken \in Nat /\ Most \in Nat /\ Most <= BufSize
         /\ taken + Most \in Nat /\ taken <= taken + Most
         /\ (taken + Most) - taken = Most
         /\ Slice(taken, taken + Most) \in Seq(Nat)
         /\ Len(Slice(taken, taken + Most)) = Most
<1>1. taken \in Nat /\ Queued \in Nat
  BY DEF Base, TypeOK, Queued
<1>2. Most \in Nat /\ Most <= BufSize
  BY <1>1, ConstantsAssumption DEF Most, Least
<1>3. /\ Slice(taken, taken + Most) \in Seq(Nat)
      /\ Len(Slice(taken, taken + Most)) = Most
  BY <1>1, <1>2, ChunkType
<1> QED
  BY <1>1, <1>2, <1>3

(* The last open() leaves every sink empty. *)
LEMMA OpenFileFacts ==
  ASSUME Base, OpenFile
  PROVE  /\ taken' = 0
         /\ pc' \in {"open", "tee"}
         /\ \A f \in Files : ps'[f] = <<>> /\ out'[f] \in {Stale, <<>>}
         /\ pc' = "tee" => i' = 1 /\ \A f \in Files : out'[f] = <<>>
<1> USE ConstantsAssumption
<1>1. /\ Opening /\ i \in Files /\ i \in Sinks
      /\ UNCHANGED <<ps, taken>> /\ taken = 0
      /\ out' = [out EXCEPT ![i] = <<>>]
  BY DEF Base, OpenFile, Opening, TypeOK, Files, Sinks
<1>2. \/ i' = i + 1 /\ pc' = "open"
      \/ i = FileCount /\ i' = 1 /\ pc' = "tee"
  BY <1>1, AdvanceFacts DEF OpenFile
<1>3. \A f \in Files : ps'[f] = <<>> /\ out'[f] \in {Stale, <<>>}
  BY <1>1 DEF Opening, Files, Sinks
<1>4. i = FileCount => \A f \in Files : out'[f] = <<>>
  BY <1>1 DEF Opening, Files, Sinks
<1> QED
  BY <1>1, <1>2, <1>3, <1>4

LEMMA OpenFileBalanced == Base /\ OpenFile => Balanced'
<1> SUFFICES ASSUME Base, OpenFile PROVE Balanced'
  OBVIOUS
<1>1. CASE pc' = "open"
  BY <1>1 DEF Balanced
<1>2. CASE pc' = "tee"
  <2>1. \A f \in Files : ~Teed(f)' /\ ps'[f] = <<>>
    BY <1>2, OpenFileFacts DEF Teed, Files
  <2>2. \A f \in Files : out'[f] = Upto(taken')
    BY <1>2, OpenFileFacts, UptoZero
  <2> QED
    BY <1>2, <2>1, <2>2 DEF Balanced
<1> QED
  BY <1>1, <1>2, OpenFileFacts

(* A tee() that its pipe does not limit duplicates the whole chunk. *)
LEMMA TeeFileBalanced ==
  Base /\ Balanced /\ TeeFile /\ upsets' = {} => Balanced'
<1> SUFFICES ASSUME Base, Balanced, TeeFile, upsets' = {} PROVE Balanced'
  OBVIOUS
<1> USE ConstantsAssumption
<1>1. /\ pc = "tee" /\ i \in Files /\ ps \in [Files -> Seq(Nat)]
      /\ UNCHANGED <<taken, sent, out>>
      /\ \A f \in Files : out[f] = Upto(taken)
  BY DEF Base, TypeOK, TeeFile, Balanced
<1>2. ps' = [ps EXCEPT ![i] = Slice(taken, taken + Most)]
  <2> DEFINE copied == Least(Most, Room(i))
  <2>1. Room(i) \in Int
    BY <1>1 DEF Room
  <2>2. ~(copied < Most) /\ ps' = [ps EXCEPT ![i] = Joined(ps[i], Slice(taken, taken + copied))]
    BY DEF TeeFile, Most
  <2>3. copied = Most
    BY <2>1, <2>2, MostType DEF Least
  <2>4. ps[i] = <<>>
    BY <1>1 DEF Balanced, Teed, Files
  <2> QED
    BY <2>2, <2>3, <2>4, MostType, JoinedEmpty
<1>3. Most' = Most
  BY <1>1 DEF Most, Queued
<1>4. /\ i' \in Files
      /\ \/ i' = i + 1 /\ pc' = "tee"
         \/ i = FileCount /\ i' = 1 /\ pc' = "drain"
  BY <1>1, AdvanceFacts DEF TeeFile
<1>5. ASSUME NEW f \in Files
      PROVE  ps'[f] = IF Teed(f)' THEN Slice(taken, taken + Most) ELSE <<>>
  <2>1. CASE f = i
    BY <1>1, <1>2, <1>4, <2>1 DEF Teed, Files
  <2>2. CASE f # i
    <3>1. ps'[f] = ps[f]
      BY <1>1, <1>2, <2>2
    <3>2. Teed(f)' <=> Teed(f)
      BY <1>1, <1>4, <2>2 DEF Teed, Files
    <3>3. ps[f] = IF Teed(f) THEN Slice(taken, taken + Most) ELSE <<>>
      BY <1>1 DEF Balanced
    <3> QED
      BY <3>1, <3>2, <3>3
  <2> QED
    BY <2>1, <2>2
<1>6. \A f \in Files : pc' = "drain" => ~(f < i')
  BY <1>4 DEF Files
<1> QED
  BY <1>1, <1>3, <1>4, <1>5, <1>6 DEF Balanced

(* A splice() that is not short empties the pipe into the file. *)
LEMMA DrainFileBalanced ==
  Base /\ Balanced /\ DrainFile /\ upsets' = {} => Balanced'
<1> SUFFICES ASSUME Base, Balanced, DrainFile, upsets' = {} PROVE Balanced'
  OBVIOUS
<1> USE ConstantsAssumption
<1>1. /\ pc = "drain" /\ i \in Files /\ i \in Sinks
      /\ ps \in [Files -> Seq(Nat)] /\ out \in [Sinks -> Seq(Nat)]
      /\ UNCHANGED <<taken, sent>>
      /\ ps[i] = Slice(taken, taken + Most)
      /\ out[i] = Upto(taken)
  BY DEF Base, TypeOK, DrainFile, Balanced, Teed, Files, Sinks
<1>2. /\ out' = [out EXCEPT ![i] = Upto(taken + Most)]
      /\ ps' = [ps EXCEPT ![i] = <<>>]
  <2>1. Least(Len(ps[i]), BufSize) = Most
    BY <1>1, MostType DEF Least
  <2>2. PICK k \in Nat \ {0} :
          /\ k <= Most
          /\ out' = [out EXCEPT ![i] = Joined(out[i], Part(ps[i], 1, k))]
          /\ ps' = [ps EXCEPT ![i] = Rest(ps[i], k)]
          /\ upsets' = IF k < Most THEN upsets \union {"drain"} ELSE upsets
    BY <2>1, DrainFileFacts
  <2>3. k = Most
    <3>1. ~(k < Most)
      BY <2>2
    <3> QED
      BY <2>2, <3>1, MostType
  <2>4. Joined(Upto(taken), Part(Slice(taken, taken + Most), 1, Most)) = Upto(taken + Most)
    BY MostType, UptoExtendByFront
  <2>5. Rest(Slice(taken, taken + Most), Most) = <<>>
    BY MostType, RestOfSlice, SliceEmpty
  <2> QED
    BY <1>1, <2>2, <2>3, <2>4, <2>5
<1>3. Most' = Most
  BY <1>1 DEF Most, Queued
<1>4. /\ i' \in Files
      /\ \/ i' = i + 1 /\ pc' = "drain"
         \/ i = FileCount /\ i' = 1 /\ pc' = "forward"
  BY <1>1, AdvanceFacts DEF DrainFile
<1>5. ASSUME NEW f \in Files
      PROVE  /\ ps'[f] = IF Teed(f)' THEN Slice(taken, taken + Most) ELSE <<>>
             /\ out'[f] = Upto(IF Teed(f)' THEN taken ELSE taken + Most)
  <2>1. CASE f = i
    BY <1>1, <1>2, <1>4, <2>1 DEF Teed, Files
  <2>2. CASE f # i
    <3>1. ps'[f] = ps[f] /\ out'[f] = out[f]
      BY <1>1, <1>2, <2>2 DEF Files, Sinks
    <3>2. Teed(f)' <=> Teed(f)
      BY <1>1, <1>4, <2>2 DEF Teed, Files
    <3>3. ps[f] = IF Teed(f) THEN Slice(taken, taken + Most) ELSE <<>>
      BY <1>1 DEF Balanced
    <3>4. out[f] = Upto(IF Teed(f) THEN taken ELSE taken + Most)
      BY <1>1 DEF Balanced, Teed, Files
    <3> QED
      BY <3>1, <3>2, <3>3, <3>4
  <2> QED
    BY <2>1, <2>2
<1>6. \A f \in Files : /\ pc' = "drain" => (Teed(f)' <=> ~(f < i'))
                       /\ pc' = "forward" => ~Teed(f)'
  BY <1>4 DEF Teed, Files
<1>7. pc' = "drain" =>
        \A f \in Files : out'[f] = Upto(IF f < i' THEN taken' + Most' ELSE taken')
  BY <1>1, <1>3, <1>5, <1>6
<1>8. pc' = "forward" => \A f \in Files : out'[f] = Upto(taken' + Most')
  BY <1>1, <1>3, <1>5, <1>6
<1> QED
  BY <1>1, <1>3, <1>4, <1>5, <1>7, <1>8 DEF Balanced

(* A last splice() that is not short consumes what the files were given.   *)
LEMMA ForwardBalanced ==
  Base /\ Balanced /\ Forward /\ upsets' = {} => Balanced'
<1> SUFFICES ASSUME Base, Balanced, Forward, upsets' = {} PROVE Balanced'
  OBVIOUS
<1> USE ConstantsAssumption
<1>1. /\ pc = "forward" /\ pc' = "tee" /\ i = 1 /\ i' = 1
      /\ ps' = ps /\ out \in [Sinks -> Seq(Nat)]
      /\ \A f \in Files : ps[f] = <<>> /\ out[f] = Upto(taken + Most)
  BY DEF Base, TypeOK, Forward, Balanced, Teed
<1>2. PICK k \in Nat \ {0} :
        /\ k <= Most
        /\ taken' = taken + k
        /\ out' = [out EXCEPT ![0] = Upto(taken + k)]
        /\ upsets' = IF k < Most THEN upsets \union {"forward"} ELSE upsets
  BY ForwardFacts DEF Most
<1>3. taken' = taken + Most
  <2>1. ~(k < Most)
    BY <1>2
  <2>2. k = Most
    BY <1>2, <2>1, MostType
  <2> QED
    BY <1>2, <2>2
<1>4. \A f \in Files : out'[f] = Upto(taken')
  BY <1>1, <1>2, <1>3 DEF Files, Sinks
<1>5. \A f \in Files : ~Teed(f)' /\ ps'[f] = <<>>
  BY <1>1 DEF Teed, Files
<1> QED
  BY <1>1, <1>4, <1>5 DEF Balanced

LEMMA OthersBalanced ==
  /\ Base /\ Balanced /\ upsets' = {}
  /\ Produce \/ CloseInput \/ DieIf \/ TeeEof \/ UNCHANGED vars
  => Balanced'
<1> SUFFICES ASSUME Base, Balanced, upsets' = {},
                    Produce \/ CloseInput \/ DieIf \/ TeeEof \/ UNCHANGED vars
             PROVE  Balanced'
  OBVIOUS
<1>1. /\ i \in Files /\ taken \in Nat /\ sent \in Nat
      /\ UNCHANGED <<i, ps, taken>>
      /\ ~DieIf => UNCHANGED out
  BY DEF Base, TypeOK, Produce, CloseInput, DieIf, TeeEof, vars
<1>2. CASE Produce
  <2>1. ~MidChunk /\ pc' = pc /\ pc # "done"
    BY <1>2 DEF Produce, Running
  <2>2. pc \notin {"drain", "forward"} /\ (pc = "tee" => i = 1)
    BY <1>1, <2>1 DEF MidChunk, Files
  <2>3. \A f \in Files : ~Teed(f) /\ ~Teed(f)'
    BY <1>1, <2>1, <2>2 DEF Teed, Files
  <2> QED
    BY <1>1, <1>2, <2>1, <2>2, <2>3 DEF Balanced, Produce
<1>3. CASE DieIf
  BY <1>3 DEF DieIf, Balanced
<1>4. CASE TeeEof
  <2>1. pc = "tee" /\ pc' = "done" /\ Queued = 0
    BY <1>4 DEF TeeEof, AtEof
  <2>2. Slice(taken, taken + Most) = <<>>
    <3>1. Most = 0 /\ taken + 0 = taken
      BY <1>1, <2>1, MostType, ConstantsAssumption DEF Most, Least
    <3> QED
      BY <1>1, <3>1, SliceEmpty
  <2>3. \A f \in Files : ~Teed(f)' /\ ps'[f] = <<>> /\ out'[f] = Upto(taken')
    BY <1>1, <1>4, <2>1, <2>2 DEF Balanced, Teed, TeeEof
  <2> QED
    BY <2>1, <2>3 DEF Balanced
<1>5. CASE CloseInput \/ UNCHANGED vars
  <2>1. UNCHANGED <<pc, i, ps, taken, sent, out>>
    BY <1>5 DEF CloseInput, vars
  <2>2. Most' = Most /\ \A f \in Files : Teed(f)' <=> Teed(f)
    BY <2>1 DEF Most, Queued, Teed
  <2> QED
    BY <2>1, <2>2 DEF Balanced
<1> QED
  BY <1>2, <1>3, <1>4, <1>5

(* What once upset a chunk is not forgotten. *)
LEMMA UpsetsGrow == [Next]_vars => upsets \subseteq upsets'
<1> SUFFICES ASSUME [Next]_vars PROVE upsets \subseteq upsets'
  OBVIOUS
<1>1. CASE Produce
  BY <1>1 DEF Produce
<1>2. CASE TeeFile
  BY <1>2 DEF TeeFile
<1>3. CASE DrainFile
  BY <1>3 DEF DrainFile
<1>4. CASE Forward
  BY <1>4 DEF Forward
<1>5. CASE CloseInput \/ DieIf \/ OpenFile \/ TeeEof \/ UNCHANGED vars
  BY <1>5 DEF CloseInput, DieIf, OpenFile, TeeEof, vars
<1> QED
  BY <1>1, <1>2, <1>3, <1>4, <1>5 DEF Next, Program

LEMMA NextBalanced == Base /\ BalancedUnlessUpset /\ [Next]_vars => BalancedUnlessUpset'
<1> SUFFICES ASSUME Base, BalancedUnlessUpset, [Next]_vars, upsets' = {}
             PROVE  Balanced'
  BY DEF BalancedUnlessUpset
<1>1. upsets = {}
  BY UpsetsGrow
<1>2. Balanced
  BY <1>1 DEF BalancedUnlessUpset
<1> QED
  BY <1>2, OpenFileBalanced, TeeFileBalanced, DrainFileBalanced, ForwardBalanced,
     OthersBalanced DEF Next, Program

(* The files equal stdout after every chunk that nothing upset so far. *)
THEOREM FilesEqual == Spec => []FilesEqualStdoutUnlessUpset
<1>1. Init => BalancedUnlessUpset
  BY DEF Init, BalancedUnlessUpset, Balanced
<1>2. Base /\ BalancedUnlessUpset => FilesEqualStdoutUnlessUpset
  <2> SUFFICES ASSUME Base, Balanced, pc \in {"tee", "done"}, i = 1, NEW f \in Files
               PROVE  ps[f] = <<>> /\ out[f] = out[0]
    BY DEF BalancedUnlessUpset, FilesEqualStdoutUnlessUpset
  <2>1. ~Teed(f)
    BY DEF Teed, Files
  <2> QED
    BY <2>1 DEF Base, Balanced
<1> QED
  BY <1>1, <1>2, NextBalanced, StdoutExact, PTL DEF Spec

-----------------------------------------------------------------------------
(* The order of the bytes in the files. *)

(* All of s is input, and none of the old contents of a file. *)
OfInput(s) == \A k \in 1..Len(s) : s[k] # 0

(* No byte of s is later in the input than the m-th. *)
Within(s, m) == \A k \in 1..Len(s) : s[k] <= m

Increasing(s) == \A k \in 1..(Len(s) - 1) : s[k] < s[k + 1]

(* What file f has, and what its pipe holds for it. *)
Whole(f) == Joined(Delivered[f], ps[f])

(* The latest byte file f may have, if every last splice() consumed all    *)
(* that the tee() calls of its chunk duplicated.                           *)
Newest(f) == IF pc = "tee" /\ f >= i THEN taken ELSE taken + Most

Copying == pc \in {"tee", "drain", "forward"}

Opened == Copying => \A f \in Files : OfInput(out[f]) /\ OfInput(ps[f])

Ordered ==
  /\ \A f \in Files : Increasing(Whole(f))
  /\ Copying => \A f \in Files : Within(Whole(f), Newest(f))

OrderedUnlessForwardShort == "forward" \notin upsets => Ordered

LEMMA EmptyOrdered ==
  /\ OfInput(<<>>)
  /\ Increasing(<<>>)
  /\ \A m : Within(<<>>, m)
  /\ Joined(<<>>, <<>>) = <<>>
<1>1. Len(<<>>) = 0 /\ 1..0 = {} /\ 1..(0 - 1) = {}
  OBVIOUS
<1>2. OfInput(<<>>) /\ Increasing(<<>>) /\ \A m : Within(<<>>, m)
  BY <1>1 DEF OfInput, Increasing, Within
<1> QED
  BY <1>2, ContentTypes, JoinedEmpty

LEMMA JoinedOfInput ==
  ASSUME NEW s \in Seq(Nat), NEW t \in Seq(Nat), OfInput(s), OfInput(t)
  PROVE  OfInput(Joined(s, t))
<1> DEFINE j == Joined(s, t)
<1>1. /\ Len(j) = Len(s) + Len(t)
      /\ \A k \in 1..(Len(s) + Len(t)) :
           j[k] = IF k <= Len(s) THEN s[k] ELSE t[k - Len(s)]
  BY JoinedType
<1> HIDE DEF j
<1>2. ASSUME NEW k \in 1..Len(j) PROVE j[k] # 0
  <2>1. /\ k \in 1..(Len(s) + Len(t)) /\ Len(s) \in Nat /\ Len(t) \in Nat
        /\ j[k] = IF k <= Len(s) THEN s[k] ELSE t[k - Len(s)]
    BY <1>1, <1>2
  <2>2. CASE k <= Len(s)
    BY <2>1, <2>2 DEF OfInput
  <2>3. CASE k > Len(s)
    <3>1. k - Len(s) \in 1..Len(t) /\ j[k] = t[k - Len(s)]
      BY <2>1, <2>3
    <3> QED
      BY <3>1 DEF OfInput
  <2> QED
    BY <2>1, <2>2, <2>3
<1> QED
  BY <1>2 DEF OfInput, j

LEMMA PartsOfInput ==
  ASSUME NEW s \in Seq(Nat), OfInput(s), NEW n \in Nat, n <= Len(s)
  PROVE  OfInput(Part(s, 1, n)) /\ OfInput(Rest(s, n))
<1>1. OfInput(Part(s, 1, n))
  <2>1. /\ Len(Part(s, 1, n)) = n - 1 + 1
        /\ \A k \in 1..(n - 1 + 1) : Part(s, 1, n)[k] = s[1 + k - 1]
    <3>1. 1 \in Nat \ {0} /\ 1 <= n + 1
      OBVIOUS
    <3> QED
      BY <3>1, PartType
  <2>2. \A k \in 1..n : 1 + k - 1 \in 1..Len(s) /\ n - 1 + 1 = n
    OBVIOUS
  <2> QED
    BY <2>1, <2>2 DEF OfInput
<1>2. OfInput(Rest(s, n))
  <2>1. /\ n + 1 \in Nat \ {0} /\ Len(s) \in Nat
        /\ n + 1 <= Len(s) + 1 /\ Len(s) <= Len(s)
    OBVIOUS
  <2>2. /\ Len(Part(s, n + 1, Len(s))) = Len(s) - (n + 1) + 1
        /\ \A k \in 1..(Len(s) - (n + 1) + 1) :
             Part(s, n + 1, Len(s))[k] = s[(n + 1) + k - 1]
    BY <2>1, PartType
  <2>3. \A k \in 1..(Len(s) - (n + 1) + 1) : (n + 1) + k - 1 \in 1..Len(s)
    BY <2>1
  <2>4. Rest(s, n) = Part(s, n + 1, Len(s))
    BY RestType
  <2> QED
    BY <2>2, <2>3, <2>4 DEF OfInput
<1> QED
  BY <1>1, <1>2

LEMMA SliceOfInput ==
  ASSUME NEW a \in Nat, NEW n \in Nat
  PROVE  OfInput(Slice(a, a + n))
<1>1. a + n \in Nat /\ a <= a + n /\ (a + n) - a = n
  OBVIOUS
<1>2. /\ Len(Slice(a, a + n)) = n
      /\ \A k \in 1..n : Slice(a, a + n)[k] = a + k
  BY <1>1, SliceType
<1> QED
  BY <1>2 DEF OfInput

(* Bytes after all those of s, in order, leave s in order. *)
LEMMA JoinedIncreasing ==
  ASSUME NEW s \in Seq(Nat), NEW a \in Nat, NEW n \in Nat,
         Increasing(s), Within(s, a)
  PROVE  /\ Increasing(Joined(s, Slice(a, a + n)))
         /\ Within(Joined(s, Slice(a, a + n)), a + n)
<1> DEFINE t == Slice(a, a + n)
           j == Joined(s, t)
<1>1. t \in Seq(Nat) /\ Len(t) = n /\ \A k \in 1..n : t[k] = a + k
  <2>1. a + n \in Nat /\ a <= a + n /\ (a + n) - a = n
    OBVIOUS
  <2> QED
    BY <2>1, SliceType
<1> HIDE DEF t
<1>2. /\ Len(j) = Len(s) + n
      /\ \A k \in 1..(Len(s) + n) :
           j[k] = IF k <= Len(s) THEN s[k] ELSE t[k - Len(s)]
  BY <1>1, JoinedType
<1> HIDE DEF j
<1>3. Len(s) \in Nat /\ \A k \in 1..Len(s) : s[k] \in Nat
  OBVIOUS
<1>4. \A k \in 1..(Len(s) + n) :
        j[k] = IF k <= Len(s) THEN s[k] ELSE a + (k - Len(s))
  BY <1>1, <1>2, <1>3
<1>5. Within(j, a + n)
  BY <1>2, <1>3, <1>4 DEF Within
<1>6. Increasing(j)
  <2> SUFFICES ASSUME NEW k \in 1..(Len(j) - 1) PROVE j[k] < j[k + 1]
    BY DEF Increasing
  <2>1. k \in 1..(Len(s) + n) /\ k + 1 \in 1..(Len(s) + n)
    BY <1>2, <1>3
  <2>2. CASE k + 1 <= Len(s)
    BY <1>3, <1>4, <2>1, <2>2 DEF Increasing
  <2>3. CASE k = Len(s)
    <3>1. k \in 1..Len(s)
      BY <2>3
    <3>2. s[k] <= a /\ s[k] \in Nat
      BY <1>3, <3>1 DEF Within
    <3> QED
      BY <1>3, <1>4, <2>1, <2>3, <3>2
  <2>4. CASE k > Len(s)
    BY <1>3, <1>4, <2>1, <2>4
  <2> QED
    BY <1>3, <2>2, <2>3, <2>4
<1> QED
  BY <1>5, <1>6 DEF j, t

LEMMA WithinMore ==
  ASSUME NEW s \in Seq(Nat), NEW a \in Nat, NEW b \in Nat, a <= b, Within(s, a)
  PROVE  Within(s, b)
<1>1. \A k \in 1..Len(s) : s[k] \in Nat
  OBVIOUS
<1> QED
  BY <1>1 DEF Within

LEMMA FileTypes ==
  ASSUME TypeOK, NEW f \in Files
  PROVE  /\ f \in Sinks /\ f # 0
         /\ out[f] \in Seq(Nat) /\ ps[f] \in Seq(Nat)
         /\ Delivered[f] = IF out[f] = Stale THEN <<>> ELSE out[f]
         /\ Whole(f) \in Seq(Nat)
<1>1. f \in Sinks /\ f # 0 /\ out[f] \in Seq(Nat) /\ ps[f] \in Seq(Nat)
  BY ConstantsAssumption DEF TypeOK, Files, Sinks
<1>2. Delivered[f] = IF out[f] = Stale THEN <<>> ELSE out[f]
  BY <1>1 DEF Delivered
<1>3. Whole(f) \in Seq(Nat)
  BY <1>1, <1>2, ContentTypes, JoinedType DEF Whole
<1> QED
  BY <1>1, <1>2, <1>3

(* No file that is being written looks like one that was not opened yet.   *)
LEMMA WholeOpened ==
  ASSUME TypeOK, Opened, Copying, NEW f \in Files
  PROVE  Whole(f) = Joined(out[f], ps[f])
<1>1. Stale[1] = 0 /\ 1 \in 1..Len(Stale)
  BY DEF Stale
<1>2. out[f] # Stale
  BY <1>1 DEF Opened, OfInput
<1> QED
  BY <1>2, FileTypes DEF Whole

LEMMA NextOpened == Base /\ Base' /\ Opened /\ [Next]_vars => Opened'
<1> SUFFICES ASSUME Base, Base', Opened, [Next]_vars, Copying', NEW f \in Files
             PROVE  OfInput(out'[f]) /\ OfInput(ps'[f])
  BY DEF Opened
<1>1. TypeOK /\ i \in Files
  BY DEF Base, TypeOK
<1>2. CASE OpenFile
  BY <1>2, OpenFileFacts, EmptyOrdered DEF Copying
<1>3. Copying => OfInput(out[f]) /\ OfInput(ps[f])
  BY DEF Opened
<1>4. CASE TeeFile
  <2>1. out' = out /\ Copying
    BY <1>4 DEF TeeFile, Copying
  <2>2. PICK n \in Nat \ {0} :
          /\ Slice(taken, taken + n) \in Seq(Nat)
          /\ ps' = [ps EXCEPT ![i] = Joined(ps[i], Slice(taken, taken + n))]
    BY <1>4, TeeFileFacts
  <2>3. taken \in Nat /\ n \in Nat
    BY <1>1 DEF TypeOK
  <2>4. OfInput(Slice(taken, taken + n))
    BY <2>3, SliceOfInput
  <2>5. CASE f = i
    <3>1. OfInput(Joined(ps[f], Slice(taken, taken + n)))
      BY <1>1, <1>3, <2>1, <2>2, <2>4, FileTypes, JoinedOfInput
    <3> QED
      BY <1>1, <1>3, <2>1, <2>2, <2>5, <3>1 DEF TypeOK
  <2>6. CASE f # i
    BY <1>1, <1>3, <2>1, <2>2, <2>6 DEF TypeOK
  <2> QED
    BY <2>5, <2>6
<1>5. CASE DrainFile
  <2>1. Copying
    BY <1>5 DEF DrainFile, Copying
  <2>2. PICK n \in Nat \ {0} :
          /\ n <= Len(ps[i])
          /\ Part(ps[i], 1, n) \in Seq(Nat)
          /\ out' = [out EXCEPT ![i] = Joined(out[i], Part(ps[i], 1, n))]
          /\ ps' = [ps EXCEPT ![i] = Rest(ps[i], n)]
    BY <1>5, DrainFileFacts
  <2>3. CASE f = i
    <3>1. n \in Nat /\ ps[f] \in Seq(Nat) /\ out[f] \in Seq(Nat) /\ f \in Sinks
      BY <1>1, FileTypes
    <3>2. OfInput(Part(ps[f], 1, n)) /\ OfInput(Rest(ps[f], n))
      BY <1>3, <2>1, <2>2, <2>3, <3>1, PartsOfInput
    <3>3. OfInput(Joined(out[f], Part(ps[f], 1, n)))
      BY <1>3, <2>1, <2>2, <2>3, <3>1, <3>2, JoinedOfInput
    <3> QED
      BY <1>1, <2>2, <2>3, <3>1, <3>2, <3>3 DEF TypeOK
  <2>4. CASE f # i
    BY <1>1, <1>3, <2>1, <2>2, <2>4, FileTypes DEF TypeOK
  <2> QED
    BY <2>3, <2>4
<1>6. CASE Forward
  <2>1. ps' = ps /\ Copying
    BY <1>6 DEF Forward, Copying
  <2>2. \E n \in Nat : out' = [out EXCEPT ![0] = Upto(taken + n)]
    BY <1>6, ForwardFacts
  <2>3. out'[f] = out[f]
    BY <1>1, <2>2, FileTypes DEF TypeOK
  <2> QED
    BY <1>3, <2>1, <2>3
<1>7. CASE Produce \/ CloseInput \/ DieIf \/ TeeEof \/ UNCHANGED vars
  <2>1. out'[f] = out[f] /\ ps' = ps /\ (Copying' => Copying)
    BY <1>1, <1>7, DieIfFacts
       DEF Produce, CloseInput, DieIf, TeeEof, vars, Copying
  <2> QED
    BY <1>3, <2>1
<1> QED
  BY <1>2, <1>4, <1>5, <1>6, <1>7 DEF Next, Program

LEMMA OpenFileOrdered == Base /\ Base' /\ OpenFile => Ordered'
<1> SUFFICES ASSUME Base, Base', OpenFile PROVE Ordered'
  OBVIOUS
<1>1. TypeOK'
  BY DEF Base
<1>2. \A f \in Files : Whole(f)' = <<>>
  <2> SUFFICES ASSUME NEW f \in Files PROVE Whole(f)' = <<>>
    OBVIOUS
  <2>1. ps'[f] = <<>> /\ out'[f] \in {Stale, <<>>}
    BY OpenFileFacts
  <2>2. Delivered'[f] = IF out'[f] = Stale THEN <<>> ELSE out'[f]
    BY DEF Delivered
  <2> QED
    BY <2>1, <2>2, EmptyOrdered DEF Whole
<1> QED
  BY <1>2, EmptyOrdered DEF Ordered

(* tee() appends bytes that no last splice() has consumed yet, and so none *)
(* that the file has already.                                              *)
LEMMA TeeFileOrdered ==
  Base /\ Base' /\ Opened /\ Opened' /\ Ordered /\ TeeFile => Ordered'
<1> SUFFICES ASSUME Base, Base', Opened, Opened', Ordered, TeeFile
             PROVE  Ordered'
  OBVIOUS
<1>1. /\ TypeOK /\ TypeOK' /\ i \in Files /\ taken \in Nat
      /\ pc = "tee" /\ Copying
      /\ UNCHANGED <<taken, sent, out>>
  BY DEF Base, TypeOK, TeeFile, Copying
<1>2. /\ \/ i' = i + 1 /\ pc' = "tee"
         \/ i' = 1 /\ pc' = "drain"
      /\ Copying'
  BY <1>1, AdvanceFacts DEF TeeFile, Copying
<1>3. /\ Most' = Most /\ Most \in Nat
      /\ taken + Most \in Nat /\ taken <= taken + Most
  BY <1>1, MostType DEF Most, Queued
<1>4. PICK n \in Nat \ {0} :
        /\ n <= Most
        /\ ps' = [ps EXCEPT ![i] = Joined(ps[i], Slice(taken, taken + n))]
        /\ Slice(taken, taken + n) \in Seq(Nat)
  <2> DEFINE copied == Least(Least(Queued, BufSize), Room(i))
  <2>1. /\ copied \in Nat \ {0} /\ copied <= Queued /\ copied <= BufSize
        /\ ps' = [ps EXCEPT ![i] = Joined(ps[i], Slice(taken, taken + copied))]
        /\ Slice(taken, taken + copied) \in Seq(Nat)
    BY TeeFileFacts
  <2> HIDE DEF copied
  <2>2. copied <= Most
    BY <2>1 DEF Most, Least
  <2> QED
    BY <2>1, <2>2
<1>5. ASSUME NEW f \in Files
      PROVE  Increasing(Whole(f)') /\ Within(Whole(f)', Newest(f)')
  <2>1. /\ Whole(f) = Joined(out[f], ps[f])
        /\ Whole(f)' = Joined(out[f], ps'[f])
        /\ Whole(f) \in Seq(Nat) /\ Whole(f)' \in Seq(Nat)
        /\ out[f] \in Seq(Nat) /\ ps[f] \in Seq(Nat)
    <3>1. Whole(f) = Joined(out[f], ps[f]) /\ Whole(f) \in Seq(Nat)
      BY <1>1, WholeOpened, FileTypes
    <3>2. ps'[f] \in Seq(Nat) /\ out'[f] \in Seq(Nat) /\ out'[f] # Stale
      <4>1. Stale[1] = 0 /\ 1 \in 1..Len(Stale)
        BY DEF Stale
      <4>2. OfInput(out'[f])
        BY <1>2 DEF Opened
      <4> QED
        BY <1>1, <4>1, <4>2, FileTypes DEF OfInput, TypeOK
    <3>3. Whole(f)' = Joined(out[f], ps'[f])
      <4>1. Delivered'[f] = out[f]
        BY <1>1, <3>2, FileTypes DEF Delivered
      <4> QED
        BY <4>1 DEF Whole
    <3>4. out[f] \in Seq(Nat) /\ ps[f] \in Seq(Nat)
      BY <1>1, FileTypes
    <3>5. Whole(f)' \in Seq(Nat)
      BY <3>2, <3>3, <3>4, JoinedType, ZenonT(60)
    <3> QED
      BY <3>1, <3>3, <3>4, <3>5
  <2>2. Increasing(Whole(f)) /\ Within(Whole(f), Newest(f))
    BY <1>1 DEF Ordered
  <2>3. CASE f = i
    <3>1. Newest(f) = taken /\ Newest(f)' = taken + Most
      BY <1>1, <1>2, <1>3, <2>3 DEF Newest, Files
    <3>2. Whole(f)' = Joined(Whole(f), Slice(taken, taken + n))
      <4>1. ps'[f] = Joined(ps[f], Slice(taken, taken + n))
        BY <1>1, <1>4, <2>3 DEF TypeOK
      <4> QED
        BY <1>4, <2>1, <4>1, JoinedAssociative
    <3>3. Increasing(Whole(f)') /\ Within(Whole(f)', taken + n)
      BY <1>1, <1>4, <2>1, <2>2, <3>1, <3>2, JoinedIncreasing
    <3>4. taken + n \in Nat /\ taken + n <= taken + Most
      BY <1>1, <1>3, <1>4
    <3> QED
      BY <1>3, <2>1, <3>1, <3>3, <3>4, WithinMore
  <2>4. CASE f # i
    <3>1. Whole(f)' = Whole(f)
      BY <1>1, <1>4, <2>1, <2>4 DEF TypeOK
    <3>2. /\ Newest(f) \in Nat /\ Newest(f)' \in Nat
          /\ Newest(f) <= Newest(f)'
      BY <1>1, <1>2, <1>3, <2>4 DEF Newest, Files
    <3> QED
      BY <2>1, <2>2, <3>1, <3>2, WithinMore
  <2> QED
    BY <2>3, <2>4
<1> QED
  BY <1>5 DEF Ordered

(* The bytes that leave a pipe are those its file gets. *)
LEMMA DrainFileOrdered ==
  Base /\ Base' /\ Opened /\ Opened' /\ Ordered /\ DrainFile => Ordered'
<1> SUFFICES ASSUME Base, Base', Opened, Opened', Ordered, DrainFile
             PROVE  Ordered'
  OBVIOUS
<1>1. /\ TypeOK /\ TypeOK' /\ i \in Files /\ taken \in Nat
      /\ pc = "drain" /\ Copying
      /\ UNCHANGED <<taken, sent>>
  BY DEF Base, TypeOK, DrainFile, Copying
<1>2. pc' \in {"drain", "forward"} /\ Copying'
  BY <1>1, AdvanceFacts DEF DrainFile, Copying
<1>3. PICK n \in Nat \ {0} :
        /\ n <= Len(ps[i])
        /\ Part(ps[i], 1, n) \in Seq(Nat)
        /\ Rest(ps[i], n) \in Seq(Nat)
        /\ out' = [out EXCEPT ![i] = Joined(out[i], Part(ps[i], 1, n))]
        /\ ps' = [ps EXCEPT ![i] = Rest(ps[i], n)]
  BY DrainFileFacts
<1>4. ASSUME NEW f \in Files
      PROVE  Whole(f)' = Whole(f)
  <2>1. /\ Whole(f) = Joined(out[f], ps[f])
        /\ out[f] \in Seq(Nat) /\ ps[f] \in Seq(Nat) /\ f \in Sinks
    BY <1>1, WholeOpened, FileTypes
  <2>2. Whole(f)' = Joined(out'[f], ps'[f])
    <3>1. Stale[1] = 0 /\ 1 \in 1..Len(Stale)
      BY DEF Stale
    <3>2. OfInput(out'[f])
      BY <1>2 DEF Opened
    <3>3. out'[f] # Stale
      BY <3>1, <3>2 DEF OfInput
    <3>4. Delivered'[f] = out'[f]
      BY <2>1, <3>3 DEF Delivered
    <3> QED
      BY <3>4 DEF Whole
  <2>3. CASE f = i
    <3>1. out'[f] = Joined(out[f], Part(ps[f], 1, n)) /\ ps'[f] = Rest(ps[f], n)
      BY <1>1, <1>3, <2>1, <2>3 DEF TypeOK
    <3>2. Joined(Joined(out[f], Part(ps[f], 1, n)), Rest(ps[f], n))
            = Joined(out[f], Joined(Part(ps[f], 1, n), Rest(ps[f], n)))
      BY <1>3, <2>1, <2>3, JoinedAssociative
    <3>3. Joined(Part(ps[f], 1, n), Rest(ps[f], n)) = ps[f]
      BY <1>3, <2>1, <2>3, PartThenRest
    <3> QED
      BY <2>1, <2>2, <3>1, <3>2, <3>3
  <2>4. CASE f # i
    BY <1>1, <1>3, <2>1, <2>2, <2>4 DEF TypeOK
  <2> QED
    BY <2>3, <2>4
<1>5. \A f \in Files : Newest(f)' = Newest(f)
  BY <1>1, <1>2 DEF Newest, Most, Queued
<1> QED
  BY <1>1, <1>4, <1>5 DEF Ordered

(* The steps after which every file and every pipe is as it was. *)
LEMMA OthersOrdered ==
  /\ Base /\ Base' /\ Ordered
  /\ \/ Forward /\ "forward" \notin upsets'
     \/ Produce \/ CloseInput \/ DieIf \/ TeeEof \/ UNCHANGED vars
  => Ordered'
<1> SUFFICES ASSUME Base, Base', Ordered,
                    \/ Forward /\ "forward" \notin upsets'
                    \/ Produce \/ CloseInput \/ DieIf \/ TeeEof \/ UNCHANGED vars
             PROVE  Ordered'
  OBVIOUS
<1>1. /\ TypeOK /\ TypeOK' /\ taken \in Nat /\ sent \in Nat /\ sent' \in Nat
      /\ i \in Files /\ out \in [Sinks -> Seq(Nat)]
      /\ i' = i /\ ps' = ps
  BY DEF Base, TypeOK, Forward, Produce, CloseInput, DieIf, TeeEof, vars
<1>2. \A f \in Files : Whole(f)' = Whole(f)
  <2>1. \A f \in Files : out'[f] = out[f]
    <3>1. CASE Forward
      <4>1. \E n \in Nat : out' = [out EXCEPT ![0] = Upto(taken + n)]
        BY <3>1, ForwardFacts
      <4> QED
        BY <1>1, <4>1, FileTypes
    <3>2. CASE ~Forward
      BY <1>1, <3>2, DieIfFacts DEF Produce, CloseInput, TeeEof, vars
    <3> QED
      BY <3>1, <3>2
  <2>2. \A f \in Files : Delivered'[f] = Delivered[f]
    BY <1>1, <2>1, FileTypes DEF Delivered
  <2> QED
    BY <1>1, <2>2 DEF Whole
<1>3. ASSUME NEW f \in Files, Copying'
      PROVE  /\ Copying
             /\ Newest(f) \in Nat /\ Newest(f)' \in Nat
             /\ Newest(f) <= Newest(f)'
  <2> taken \in Nat /\ sent \in Nat /\ sent' \in Nat
    BY <1>1
  <2>1. Most \in Nat /\ Most' \in Nat /\ taken' \in Nat
    <3>1. taken' \in Nat /\ taken <= sent /\ taken' <= sent'
      BY DEF Base, TypeOK
    <3>2. PICK t \in Nat, u \in Nat : taken' = t /\ sent' = u
      BY <3>1
    <3>3. Queued \in Nat /\ Queued' \in Nat
      BY <3>1, <3>2 DEF Queued
    <3> QED
      BY <3>1, <3>3, ConstantsAssumption DEF Most, Least
  <2>2. CASE Forward
    <3>1. PICK n \in Nat \ {0} :
            /\ n <= Most /\ taken' = taken + n
            /\ upsets' = IF n < Most THEN upsets \union {"forward"} ELSE upsets
      BY <2>2, ForwardFacts DEF Most
    <3>2. ~(n < Most)
      BY <2>2, <3>1 DEF Produce, CloseInput, DieIf, TeeEof, vars, Forward
    <3>3. taken' = taken + Most
      BY <2>1, <3>1, <3>2
    <3>4. Copying /\ Newest(f) = taken + Most
      BY <2>2 DEF Forward, Newest, Copying
    <3>5. Newest(f)' \in {taken', taken' + Most'}
      BY DEF Newest
    <3> QED
      BY <1>1, <2>1, <3>3, <3>4, <3>5
  <2>3. CASE Produce \/ CloseInput \/ UNCHANGED vars
    <3>1. taken' = taken /\ pc' = pc
      BY <2>3 DEF Produce, CloseInput, vars
    <3>2. sent <= sent'
      <4>1. CASE Produce
        <5>1. PICK k \in 1..Least(MaxBytes - sent, StdinCap - Queued) : sent' = sent + k
          BY <4>1 DEF Produce
        <5> QED
          BY <1>1, <5>1
      <4>2. CASE CloseInput \/ UNCHANGED vars
        BY <1>1, <4>2 DEF CloseInput, vars
      <4> QED
        BY <2>3, <4>1, <4>2
    <3>3. Most <= Most'
      <4>1. PICK u \in Nat : sent' = u
        OBVIOUS
      <4>2. PICK q \in Int : Queued' = q /\ q >= Queued
        BY <3>1, <3>2, <4>1 DEF Queued
      <4>3. Queued \in Int
        BY DEF Queued
      <4> QED
        BY <4>2, <4>3, ConstantsAssumption DEF Most, Least
    <3>4. Copying
      BY <1>3, <3>1 DEF Copying
    <3>5. CASE pc = "tee" /\ f >= i
      <4>1. Newest(f) = taken /\ Newest(f)' = taken'
        BY <1>1, <3>1, <3>5 DEF Newest
      <4> QED
        BY <1>1, <3>1, <3>4, <4>1
    <3>6. CASE ~(pc = "tee" /\ f >= i)
      <4>1. Newest(f) = taken + Most /\ Newest(f)' = taken' + Most'
        BY <1>1, <3>1, <3>6 DEF Newest
      <4>2. PICK m \in Nat : Most' = m
        BY <2>1
      <4> QED
        BY <2>1, <3>1, <3>3, <3>4, <4>1, <4>2
    <3> QED
      BY <3>5, <3>6
  <2>4. CASE DieIf \/ TeeEof
    BY <1>3, <2>4 DEF DieIf, TeeEof, Copying
  <2> QED
    BY <2>2, <2>3, <2>4
<1>4. ASSUME NEW f \in Files, Copying'
      PROVE  Within(Whole(f), Newest(f)')
  <2>1. Within(Whole(f), Newest(f)) /\ Whole(f) \in Seq(Nat)
    BY <1>1, <1>3, <1>4, FileTypes DEF Ordered
  <2> QED
    BY <1>3, <1>4, <2>1, WithinMore
<1> QED
  BY <1>2, <1>4 DEF Ordered

LEMMA NextOrdered ==
  /\ Base /\ Base' /\ Opened /\ Opened'
  /\ OrderedUnlessForwardShort /\ [Next]_vars
  => OrderedUnlessForwardShort'
<1> SUFFICES ASSUME Base, Base', Opened, Opened', OrderedUnlessForwardShort,
                    [Next]_vars, "forward" \notin upsets'
             PROVE  Ordered'
  BY DEF OrderedUnlessForwardShort
<1>1. Ordered
  BY UpsetsGrow DEF OrderedUnlessForwardShort
<1> QED
  BY <1>1, OpenFileOrdered, TeeFileOrdered, DrainFileOrdered, OthersOrdered
     DEF Next, Program

(* Until a last splice() is short no file repeats or reorders its input,   *)
(* whatever the producer, the pipes and the other calls do.                *)
THEOREM FilesOrdered == Spec => []FilesOrderedUnlessForwardShort
<1>1. Init => Opened /\ OrderedUnlessForwardShort
  <2> SUFFICES ASSUME Init PROVE Opened /\ OrderedUnlessForwardShort
    OBVIOUS
  <2>1. ~Copying
    BY DEF Init, Copying
  <2>2. \A f \in Files : Whole(f) = <<>>
    BY EmptyOrdered, FileTypes, ConstantsAssumption, InitBase
       DEF Init, Base, Whole
  <2> QED
    BY <2>1, <2>2, EmptyOrdered DEF Opened, OrderedUnlessForwardShort, Ordered
<1>2. OrderedUnlessForwardShort => FilesOrderedUnlessForwardShort
  BY DEF OrderedUnlessForwardShort, Ordered, FilesOrderedUnlessForwardShort,
         Increasing, Whole
<1> QED
  BY <1>1, <1>2, NextOpened, NextOrdered, StdoutExact, PTL DEF Spec
=============================================================================
