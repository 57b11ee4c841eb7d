----------------------------- MODULE WriteBench -----------------------------
(***************************************************************************)
(* vmsplice/bench_naive.c: write TOTAL bytes to the socket, CHUNK at most  *)
(* at a time.  It is also what bench.c promises on the socket: module      *)
(* VmspliceBench implements this one.                                      *)
(***************************************************************************)
EXTENDS BenchPeers

vars == <<pc, sent, conn, serverVars>>

Init == PeersInit

WriteSome ==
  /\ pc = "send"
  /\ \E n \in 1..Least(Want, Room) :
       /\ sent' = sent + n
       /\ queue' = queue + n
  /\ UNCHANGED <<pc, conn, got, server>>

Program == Connect \/ WriteSome \/ Close \/ PeerGone

Next == Program \/ DieIf \/ Server \/ ServerDies

Spec == Init /\ [][Next]_vars

(* Both processes are scheduled. *)
FairSpec == Spec /\ WF_vars(Program) /\ WF_vars(Server)

-----------------------------------------------------------------------------
(* Properties. *)

(* The count of bytes sent never passes TOTAL. *)
TypeOK == PeersTypeOK /\ pc \in {"connect", "send", "done", "failed"}

(* When the benchmark prints a result, TOTAL bytes have got through by the *)
(* time that recv.c goes back to accept().                                 *)
ResultMeansTotal == conn = "served" /\ pc = "done" => got = Total

(* The benchmark comes to an end, and recv.c goes back to accept().  It    *)
(* counts nothing, so it takes a benchmark that died for one that ended;   *)
(* but when the benchmark prints a result, TOTAL bytes get through.        *)
Ends ==
  /\ <>(~Running)
  /\ (conn = "closed") ~> (conn = "served" \/ server = "dead")
  /\ []ResultMeansTotal
=============================================================================
