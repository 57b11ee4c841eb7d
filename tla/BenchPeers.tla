----------------------------- MODULE BenchPeers -----------------------------
(***************************************************************************)
(* vmsplice/recv.c and the loopback connection to it, shared by the two    *)
(* benchmarks bench.c and bench_naive.c.  recv.c accepts one connection at *)
(* a time and reads it to its end; it does not know how much to expect.    *)
(* Bytes are counted, since all of them are 'a'.                           *)
(***************************************************************************)
EXTENDS Streams

CONSTANTS
  Chunk,    \* CHUNK
  Total,    \* TOTAL
  Scratch,  \* SCRATCH
  SockCap   \* bytes that the connection holds between the two processes

ASSUME BenchAssumption ==
  /\ Chunk \in Nat \ {0}
  /\ Total \in Nat
  /\ Scratch \in Nat \ {0}
  /\ SockCap \in Nat \ {0}

VARIABLES
  pc,      \* of the benchmark
  sent,    \* of the benchmark
  conn,    \* "none", "open", "closed" by the benchmark, "served" by recv
  queue,   \* bytes in the connection
  got,     \* bytes recv() returned
  server   \* recv.c: "accept", "recv" or "dead"

serverVars == <<queue, got, server>>

Running == pc \notin {"done", "failed"}

PeersInit ==
  /\ pc = "connect"
  /\ sent = 0
  /\ conn = "none"
  /\ queue = 0
  /\ got = 0
  /\ server \in {"accept", "dead"}   \* started or not

-----------------------------------------------------------------------------
(* recv.c *)

Accept ==
  /\ server = "accept"
  /\ conn \in {"open", "closed"}
  /\ server' = "recv"
  /\ UNCHANGED <<pc, sent, conn, queue, got>>

Recv ==
  /\ server = "recv"
  /\ \E n \in 1..Least(queue, Scratch) :
       /\ queue' = queue - n
       /\ got' = got + n
  /\ UNCHANGED <<pc, sent, conn, server>>

EndOfStreamMutant == queue = 0

(* recv() returns 0. *)
EndOfStream == queue = 0 /\ conn = "closed"

RecvEnd ==
  /\ server = "recv"
  /\ EndOfStream
  /\ server' = "accept"
  /\ conn' = "served"
  /\ UNCHANGED <<pc, sent, queue, got>>

(* recv.c is killed, or dies of a failed accept(). *)
ServerDies ==
  /\ server # "dead"
  /\ server' = "dead"
  /\ UNCHANGED <<pc, sent, conn, queue, got>>

Server == Accept \/ Recv \/ RecvEnd

-----------------------------------------------------------------------------
(* The part of main() that the benchmarks share. *)

Connect ==
  /\ pc = "connect"
  /\ server # "dead"
  /\ conn' = "open"
  /\ pc' = "send"
  /\ UNCHANGED <<sent, serverVars>>

(* size_t want *)
Want == Least(Total - sent, Chunk)

(* close(sock_fd) when the loop is over. *)
Close ==
  /\ pc = "send"
  /\ sent >= Total
  /\ conn' = "closed"
  /\ pc' = "done"
  /\ UNCHANGED <<sent, serverVars>>

(* die_if: a call fails and the process exits, which closes its socket. *)
DieIf ==
  /\ Running
  /\ pc' = "failed"
  /\ conn' = IF conn = "open" THEN "closed" ELSE conn
  /\ UNCHANGED <<sent, serverVars>>

(* A dead server makes the next call on the socket fail. *)
PeerGone == server = "dead" /\ DieIf

Room == IF server = "dead" THEN 0 ELSE SockCap - queue

PeersTypeOK ==
  /\ sent \in 0..Total
  /\ conn \in {"none", "open", "closed", "served"}
  /\ queue \in Nat
  /\ got \in Nat
  /\ server \in {"accept", "recv", "dead"}
=============================================================================
