----------------------------- MODULE ProxyNaive -----------------------------
(***************************************************************************)
(* tee-splice/proxy_naive.c: read() from the source into a buffer, write() *)
(* to subscriber 0, then to subscriber 1.  The asserts compare results but *)
(* no result is compared with -1.                                          *)
(***************************************************************************)
EXTENDS ProxyPeers

VARIABLES
  n,    \* result of the last read()
  buf   \* the n bytes it returned

vars == <<pc, cur, bound, source, sent, reach, taken, peer, out, n, buf>>

Init == PeersInit /\ n = 0 /\ buf = <<>>

ReadSome ==
  /\ pc = "read"
  /\ \E m \in Arriving(Chunk) :
       /\ n' = m
       /\ buf' = Slice(taken, taken + m)
       /\ taken' = taken + m
  /\ pc' = "write"
  /\ UNCHANGED <<cur, bound, source, sent, reach, peer, out>>

(* n = -1 is not told apart from a number of bytes. *)
ReadError ==
  /\ pc = "read"
  /\ AtError
  /\ source' = "dead"
  /\ n' = -1
  /\ pc' = "write"
  /\ UNCHANGED <<cur, bound, sent, reach, taken, peer, out, buf>>

ReadEof ==
  /\ pc = "read"
  /\ AtEnd
  /\ n' = 0
  /\ pc' = "done"
  /\ UNCHANGED <<cur, bound, source, sent, reach, taken, peer, out, buf>>

AssertMutant(w) == TRUE

(* assert(w == n) *)
Assert(w) == w = n

(* What happens after write() to subscriber cur returned w. *)
Written(w) ==
  IF Assert(w)
    THEN cur' = NextSubscriber /\ pc' = (IF cur = 1 THEN "read" ELSE "write")
    ELSE cur' = cur /\ pc' = "aborted"

(* w = 0 stands for a failed write() too: SIGPIPE, or an assert on -1. *)
WriteChunk ==
  /\ pc = "write"
  /\ n > 0
  /\ \E w \in Accepted(cur, n) :
       /\ out' = [out EXCEPT ![cur] = Joined(@, Part(buf, 1, w))]
       /\ Written(w)
  /\ UNCHANGED <<bound, source, sent, reach, taken, peer, n, buf>>

(* write(sub, buf, (size_t)-1) returns -1 and writes nothing. *)
WriteNothing ==
  /\ pc = "write"
  /\ n = -1
  /\ Written(-1)
  /\ UNCHANGED <<bound, source, sent, reach, taken, peer, out, n, buf>>

Program ==
  \/ Start("read") /\ UNCHANGED <<n, buf>>
  \/ ReadSome
  \/ ReadError
  \/ ReadEof
  \/ WriteChunk
  \/ WriteNothing

Next == Program \/ (Others /\ UNCHANGED <<n, buf>>)

Spec == Init /\ [][Next]_vars

(* The process is scheduled, and the subscribers that stay read what they  *)
(* are sent.                                                               *)
FairSpec == Spec /\ WF_vars(Program)

-----------------------------------------------------------------------------
(* Properties. *)

TypeOK ==
  /\ PeersTypeOK
  /\ pc \in {"bind", "accept", "connect", "read", "write", "done", "aborted"}
  /\ n \in Nat \union {-1}
  /\ buf \in Seq(Nat)

(* An exit after a reset counts as an abort of the broadcast. *)
Status ==
  CASE pc = "done" /\ source = "closed" -> "finished"
    [] pc = "aborted" \/ (pc = "done" /\ source # "closed") -> "aborted"
    [] OTHER -> "running"

(* The proxy implements Broadcast as long as the source ends its stream:   *)
(* each subscriber gets a prefix of the input, and all of it by a normal   *)
(* exit.                                                                   *)
Abs == INSTANCE Broadcast WITH
  Reporting <- {},
  Sinks <- Subscribers,
  ended <- source = "closed",
  status <- Status

ImplementsBroadcast == Abs!Spec

(* Subscriber 1 never has a byte that subscriber 0 lacks, and is behind by *)
(* one chunk at most, although the asserts may end the program between the *)
(* two writes.                                                             *)
SkewWithinOneChunk ==
  /\ Len(out[1]) <= Len(out[0])
  /\ Len(out[0]) - Len(out[1]) <= Chunk

(* The program never waits for good: when the source has ended or reset    *)
(* its connection, the program stops.                                      *)
StopsAfterSource == source \in {"closed", "reset"} ~> ~Running

(* REPORT.md:8: "Every byte the source sends is delivered to both          *)
(* subscribers", here by the time of a normal exit.                        *)
EveryByteDelivered ==
  pc = "done" => \A s \in Subscribers : out[s] = Upto(sent)
=============================================================================
