---------------------------- MODULE ProxySplice ----------------------------
(***************************************************************************)
(* tee-splice/proxy.c: splice() moves a chunk from the source into main_p, *)
(* tee() duplicates it into sub_p, and two more splice() calls move sub_p  *)
(* to subscriber 0 and main_p to subscriber 1.  The program holds both     *)
(* ends of both pipes.  The asserts compare results but no result is       *)
(* compared with -1.                                                       *)
(***************************************************************************)
EXTENDS ProxyPeers

CONSTANT PipeCap   \* capacity of main_p and of sub_p

ASSUME PipeAssumption == PipeCap \in Nat \ {0}

VARIABLES
  n,       \* result of the splice() from the source
  main_p,  \* content of pipe main_p
  sub_p    \* content of pipe sub_p

pipes == <<n, main_p, sub_p>>
vars == <<pc, cur, bound, source, sent, reach, taken, peer, out, pipes>>

Init ==
  /\ PeersInit
  /\ n = 0
  /\ main_p = <<>>
  /\ sub_p = <<>>

Room(pipe) == PipeCap - Len(pipe)

FillMain ==
  /\ pc = "fill"
  /\ \E m \in Arriving(Least(Chunk, Room(main_p))) :
       /\ n' = m
       /\ main_p' = Joined(main_p, Slice(taken, taken + m))
       /\ taken' = taken + m
  /\ pc' = "tee"
  /\ UNCHANGED <<cur, bound, source, sent, reach, peer, out, sub_p>>

(* n = -1 is not told apart from a number of bytes. *)
FillError ==
  /\ pc = "fill"
  /\ AtError
  /\ source' = "dead"
  /\ n' = -1
  /\ pc' = "tee"
  /\ UNCHANGED <<cur, bound, sent, reach, taken, peer, out, main_p, sub_p>>

(* The end of the stream taken for a chunk that is late. *)
FillEofMutant ==
  /\ pc = "fill"
  /\ AtEnd
  /\ UNCHANGED vars

FillEof ==
  /\ pc = "fill"
  /\ AtEnd
  /\ n' = 0
  /\ pc' = "done"
  /\ UNCHANGED <<cur, bound, source, sent, reach, taken, peer, out, main_p, sub_p>>

(* The length tee() is given: n converted to size_t, which no pipe limits  *)
(* when n is -1.                                                           *)
TeeLength == IF n = -1 THEN PipeCap ELSE n

Teed == Least(TeeLength, Least(Len(main_p), Room(sub_p)))

AssertMutant(r) == TRUE

(* assert(t == n), assert(s == n) *)
Assert(r) == r = n

(* tee() waits while main_p is empty or sub_p full. *)
TeeChunk ==
  /\ pc = "tee"
  /\ Teed > 0
  /\ sub_p' = Joined(sub_p, Part(main_p, 1, Teed))
  /\ pc' = IF Assert(Teed) THEN "sub0" ELSE "aborted"
  /\ UNCHANGED <<cur, bound, source, sent, reach, taken, peer, out, n, main_p>>

(* r = 0 stands for a failed splice() too: SIGPIPE, or an assert on -1. *)
SpliceToSub0 ==
  /\ pc = "sub0"
  /\ \E r \in Accepted(0, Least(n, Len(sub_p))) :
       /\ out' = [out EXCEPT ![0] = Joined(@, Part(sub_p, 1, r))]
       /\ sub_p' = Rest(sub_p, r)
       /\ pc' = IF Assert(r) THEN "sub1" ELSE "aborted"
  /\ UNCHANGED <<cur, bound, source, sent, reach, taken, peer, n, main_p>>

(* The chunk duplicated into subscriber 1 with main_p left as it is. *)
SpliceToSub1Mutant ==
  /\ pc = "sub1"
  /\ \E r \in Accepted(1, Least(n, Len(main_p))) :
       /\ out' = [out EXCEPT ![1] = Joined(@, Part(main_p, 1, r))]
       /\ pc' = IF Assert(r) THEN "fill" ELSE "aborted"
  /\ UNCHANGED <<cur, bound, source, sent, reach, taken, peer, pipes>>

SpliceToSub1 ==
  /\ pc = "sub1"
  /\ \E r \in Accepted(1, Least(n, Len(main_p))) :
       /\ out' = [out EXCEPT ![1] = Joined(@, Part(main_p, 1, r))]
       /\ main_p' = Rest(main_p, r)
       /\ pc' = IF Assert(r) THEN "fill" ELSE "aborted"
  /\ UNCHANGED <<cur, bound, source, sent, reach, taken, peer, n, sub_p>>

Program ==
  \/ Start("fill") /\ UNCHANGED pipes
  \/ FillMain
  \/ FillError
  \/ FillEof
  \/ TeeChunk
  \/ SpliceToSub0
  \/ SpliceToSub1

Next == Program \/ (Others /\ UNCHANGED pipes)

Spec == Init /\ [][Next]_vars

(* The process is scheduled, and the subscribers that stay read what they  *)
(* are sent.                                                               *)
FairSpec == Spec /\ WF_vars(Program)

-----------------------------------------------------------------------------
(* Properties. *)

TypeOK ==
  /\ PeersTypeOK
  /\ pc \in {"bind", "accept", "connect", "fill", "tee", "sub0", "sub1",
             "done", "aborted"}
  /\ n \in Nat \union {-1}
  /\ main_p \in Seq(Nat)
  /\ sub_p \in Seq(Nat)

(* An exit after a reset counts as an abort of the broadcast. *)
Status ==
  CASE pc = "done" /\ source = "closed" -> "finished"
    [] pc = "aborted" \/ (pc = "done" /\ source # "closed") -> "aborted"
    [] OTHER -> "running"

(* The proxy implements Broadcast as long as the source ends its stream:   *)
(* each subscriber gets a prefix of the input, and all of it by a normal   *)
(* exit.                                                                   *)
Abs == INSTANCE Broadcast WITH
  Reporting <- {},
  Sinks <- Subscribers,
  ended <- source = "closed",
  status <- Status

ImplementsBroadcast == Abs!Spec

(* Nothing is lost or repeated inside the program: throughout a chunk,     *)
(* what subscriber 1 has and main_p holds is all the input taken, and the  *)
(* same is true of subscriber 0 and sub_p from tee() to the end of the     *)
(* chunk.                                                                  *)
PipesHoldTheRest ==
  /\ pc \in {"fill", "tee", "sub0", "sub1"} =>
       Joined(out[1], main_p) = Upto(taken)
  /\ pc \in {"sub0", "sub1", "fill"} => Joined(out[0], sub_p) = Upto(taken)

(* assert(t == n) never fails: both pipes are empty whenever a chunk is    *)
(* read, so what fitted into main_p fits into sub_p.                       *)
TeeNeverShort ==
  /\ pc = "fill" => main_p = <<>> /\ sub_p = <<>>
  /\ pc = "tee" /\ n # -1 => Teed = n

(* When the source ends its stream, the program stops.                     *)
StopsAfterClose == source = "closed" ~> ~Running

(* REPORT.md:34: both broadcasters print their CPU times at exit; one      *)
(* whose source is gone gets there, or a failed assert ends it.            *)
StopsAfterSource == source \in {"closed", "reset"} ~> ~Running
=============================================================================
