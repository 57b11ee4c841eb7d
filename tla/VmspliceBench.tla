--------------------------- MODULE VmspliceBench ---------------------------
(***************************************************************************)
(* vmsplice/bench.c: map up to CHUNK bytes into a pipe with vmsplice(),    *)
(* then splice() the pipe into the socket until it is drained.  The one    *)
(* process holds both ends of the pipe.                                    *)
(***************************************************************************)
EXTENDS BenchPeers

CONSTANT PipeCap   \* capacity of p after F_SETPIPE_SZ

ASSUME PipeAssumption == PipeCap \in Nat \ {0}

VARIABLES
  p,        \* bytes in the pipe
  in_pipe,  \* result of the last vmsplice()
  drained   \* how many of them were spliced into the socket

pipeVars == <<p, in_pipe, drained>>
vars == <<pc, sent, conn, serverVars, pipeVars>>

Init == PeersInit /\ p = 0 /\ in_pipe = 0 /\ drained = 0

(* A full pipe makes vmsplice() wait. *)
Vmsplice ==
  /\ pc = "send"
  /\ \E n \in 1..Least(Want, PipeCap - p) :
       /\ p' = p + n
       /\ in_pipe' = n
  /\ drained' = 0
  /\ pc' = "splice"
  /\ UNCHANGED <<sent, conn, serverVars>>

DrainedMutant(d) == TRUE

(* The inner loop is over after d bytes of the chunk. *)
Drained(d) == d = in_pipe

SentMutant == sent + Chunk

(* sent += in_pipe *)
Sent == sent + in_pipe

(* splice() of what fits into the socket; an empty pipe makes it wait. *)
SpliceSome ==
  /\ pc = "splice"
  /\ \E m \in 1..Least(in_pipe - drained, Least(p, Room)) :
       /\ p' = p - m
       /\ queue' = queue + m
       /\ IF Drained(drained + m)
            THEN sent' = Sent /\ pc' = "send" /\ drained' = 0
            ELSE drained' = drained + m /\ UNCHANGED <<sent, pc>>
  /\ UNCHANGED <<conn, got, server, in_pipe>>

Program ==
  \/ (Connect \/ Close \/ PeerGone) /\ UNCHANGED pipeVars
  \/ Vmsplice
  \/ SpliceSome

Next == Program \/ ((DieIf \/ Server \/ ServerDies) /\ UNCHANGED pipeVars)

Spec == Init /\ [][Next]_vars

(* Both processes are scheduled. *)
FairSpec ==
  Spec /\ WF_vars(Program) /\ WF_vars(Server /\ UNCHANGED pipeVars)

-----------------------------------------------------------------------------
(* Properties. *)

(* No call reads beyond the CHUNK bytes that are mapped. *)
TypeOK ==
  /\ PeersTypeOK
  /\ pc \in {"connect", "send", "splice", "done", "failed"}
  /\ p \in 0..PipeCap
  /\ in_pipe \in 0..Chunk
  /\ drained \in 0..Chunk

(* The program never waits for itself: the pipe is empty when vmsplice()   *)
(* fills it and holds all that the inner loop still asks for, which is no  *)
(* more than the CHUNK bytes that are mapped.                              *)
PipeMatchesLoop ==
  /\ in_pipe <= Chunk
  /\ pc = "send" => p = 0
  /\ pc = "splice" => p = in_pipe - drained /\ p > 0

(* What the socket and recv.c see is what bench_naive could do: bench.c    *)
(* implements WriteBench, down to its liveness, with the bytes drained     *)
(* counted as sent.                                                        *)
Write == INSTANCE WriteBench WITH
  pc <- IF pc = "splice" THEN "send" ELSE pc,
  sent <- sent + drained

ImplementsWriteBench == Write!FairSpec

(* The benchmark comes to an end, recv.c goes back to accept(), and when   *)
(* the benchmark prints a result all of TOTAL gets through to recv.c.      *)
Ends == Write!Ends
=============================================================================
