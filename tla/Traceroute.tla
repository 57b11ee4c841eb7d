----------------------------- MODULE Traceroute -----------------------------
(***************************************************************************)
(* traceroute/main.c and icmp.c: one probe for each ttl, sent over a raw   *)
(* ICMP socket, and one recvfrom() with a timeout for each probe.          *)
(*                                                                         *)
(* The socket receives every ICMP message that reaches the host, not only  *)
(* the answers to this program, and the program does not look at the id    *)
(* or sequence number of what it receives.  The network may lose, delay,   *)
(* reorder and duplicate.                                                  *)
(***************************************************************************)
EXTENDS Checksum, Sequences

CONSTANTS
  MaxTtl,    \* the last ttl of main(), 31
  Dist,      \* hops to the destination; may lie beyond MaxTtl
  MaxNoise   \* bound: foreign messages and duplicates that the host receives

(* The words of a header add up to less than 2^16. *)
ASSUME TracerouteAssumption ==
  /\ MaxTtl \in Nat \ {0}
  /\ 8 + 42 + MaxTtl < Base
  /\ Dist \in Nat \ {0}
  /\ MaxNoise \in Nat

VARIABLES
  pc,     \* "send", "recv", "done", or the assert() that failed
  ttl,    \* of the loop in main()
  rows,   \* what main() printed: the message shown, or Timeout
  wire,   \* probes and answers on their way
  sock,   \* ICMP messages received by the socket and not yet read
  noise   \* how much noise there was

vars == <<pc, ttl, rows, wire, sock, noise>>

Types == {"echo reply", "time exceeded", "dest unreach", "other"}

(* probe 0: a message to another program of this host.  copy: a duplicate. *)
Message == [type : Types, probe : 0..MaxTtl, copy : BOOLEAN]
Foreign(type) == [type |-> type, probe |-> 0, copy |-> FALSE]
Timeout == [type |-> "timeout", probe |-> 0, copy |-> FALSE]

Init ==
  /\ pc = "send"
  /\ ttl = 1
  /\ rows = <<>>
  /\ wire = {}
  /\ sock = <<>>
  /\ noise = 0

-----------------------------------------------------------------------------
(* The network. *)

(* The ICMP header of a probe as words: type and code, no checksum yet, id *)
(* and sequence.                                                           *)
Header(t) == <<8, 0, 42, t>>

(* The checksum field not cleared before it is computed, but set to 1. *)
SentMutant(t) == [Header(t) EXCEPT
                    ![2] = checksum([Header(t) EXCEPT ![2] = 1])]

Sent(t) == [Header(t) EXCEPT ![2] = checksum(Header(t))]

(* What may answer a probe: the router that its ttl lets it reach, the     *)
(* destination, or a router that cannot pass it on.                        *)
AnswerTypes(t) ==
  {IF t < Dist THEN "time exceeded" ELSE "echo reply", "dest unreach"}

(* The answer to a probe reaches the host. *)
AnswerArrives ==
  \E p \in wire, type \in Types :
    /\ type \in AnswerTypes(p)
    /\ wire' = wire \ {p}
    /\ sock' = Append(sock, [type |-> type, probe |-> p, copy |-> FALSE])
    /\ UNCHANGED <<pc, ttl, rows, noise>>

(* A probe, or its answer, is lost. *)
Lose ==
  \E p \in wire :
    /\ wire' = wire \ {p}
    /\ UNCHANGED <<pc, ttl, rows, sock, noise>>

(* The socket queues a second copy of an answer. *)
Duplicate ==
  \E i \in DOMAIN sock :
    /\ noise < MaxNoise
    /\ sock[i].probe > 0
    /\ noise' = noise + 1
    /\ sock' = Append(sock, [sock[i] EXCEPT !.copy = TRUE])
    /\ UNCHANGED <<pc, ttl, rows, wire>>

(* An ICMP message to another program of the host: the reply to a ping, an *)
(* error, a ping of this host.                                             *)
ForeignArrives ==
  /\ noise < MaxNoise
  /\ noise' = noise + 1
  /\ \E type \in Types : sock' = Append(sock, Foreign(type))
  /\ UNCHANGED <<pc, ttl, rows, wire>>

-----------------------------------------------------------------------------
(* main() *)

NextTtlMutant == ttl + 2

(* ttl++ *)
NextTtl == ttl + 1

(* The rest of an iteration that does not break out of the loop. *)
Continue ==
  /\ ttl' = NextTtl
  /\ pc' = IF NextTtl > MaxTtl THEN "done" ELSE "send"

IcmpSend ==
  /\ pc = "send"
  /\ wire' = wire \union {ttl}
  /\ pc' = "recv"
  /\ UNCHANGED <<ttl, rows, sock, noise>>

(* assert(err != -1) *)
SendFails ==
  /\ pc = "send"
  /\ pc' = "send failed"
  /\ UNCHANGED <<ttl, rows, wire, sock, noise>>

(* A socket without SO_RCVTIMEO. *)
TimesOutMutant == FALSE

(* recvfrom() waited SO_RCVTIMEO for nothing. *)
TimesOut ==
  /\ pc = "recv"
  /\ sock = <<>>
  /\ rows' = Append(rows, Timeout)
  /\ Continue
  /\ UNCHANGED <<wire, sock, noise>>

(* The value that icmp_recv() makes of a type; there is none for others. *)
RecvMutant(type) ==
  CASE type = "dest unreach" -> -1
    [] type = "echo reply" -> 0
    [] type = "time exceeded" -> -2

Recv(type) ==
  CASE type = "dest unreach" -> -1
    [] type = "echo reply" -> -2
    [] type = "time exceeded" -> 0

IcmpRecv ==
  /\ pc = "recv"
  /\ sock # <<>>
  /\ sock[1].type # "other"
  /\ LET ret == Recv(sock[1].type)
     IN /\ rows' = Append(rows, IF ret = -1 THEN Timeout ELSE sock[1])
        /\ IF ret = -2 THEN pc' = "done" /\ UNCHANGED ttl ELSE Continue
  /\ sock' = Tail(sock)
  /\ UNCHANGED <<wire, noise>>

(* assert(0) *)
UnknownType ==
  /\ pc = "recv"
  /\ sock # <<>>
  /\ sock[1].type = "other"
  /\ pc' = "unknown type"
  /\ sock' = Tail(sock)
  /\ UNCHANGED <<ttl, rows, wire, noise>>

Program == IcmpSend \/ SendFails \/ TimesOut \/ IcmpRecv \/ UnknownType

Network == AnswerArrives \/ Lose \/ Duplicate \/ ForeignArrives

Next == Program \/ Network

Spec == Init /\ [][Next]_vars

(* The program is scheduled; the network owes it nothing. *)
FairSpec == Spec /\ WF_vars(Program)

-----------------------------------------------------------------------------
(* Properties. *)

TypeOK ==
  /\ pc \in {"send", "recv", "done", "send failed", "unknown type"}
  /\ ttl \in 1..(MaxTtl + 1)
  /\ rows \in Seq(Message \union {Timeout})
  /\ Len(rows) <= MaxTtl
  /\ wire \subseteq 1..MaxTtl
  /\ sock \in Seq(Message)
  /\ noise \in 0..MaxNoise

(* Each probe carries a checksum that its receiver accepts.                *)
ProbesVerify == \A t \in wire : Accepted(SumFunction(Sent(t)))

Own(row) == row # Timeout /\ row.probe > 0 /\ ~row.copy

(* Nothing ties an answer to its probe, yet until the first row that is a  *)
(* timeout or noise every row shows the answer to the probe of its ttl.    *)
RightUntilFirstMiss ==
  \A t \in 1..Len(rows) :
    (\A r \in 1..t : Own(rows[r])) => rows[t].probe = t

(* A late answer is shown in the row of a later probe, never of an earlier *)
(* one, and no two rows show the same answer.                              *)
AnswersMoveDownOnly ==
  \A t \in 1..Len(rows) :
    Own(rows[t]) =>
      /\ rows[t].probe <= t
      /\ \A r \in 1..(t - 1) : rows[r] # rows[t]

(* The loop stops before MaxTtl only at an echo reply, and if that is not  *)
(* another program's, the destination is at most as far as the last row.   *)
StopsAtDestination ==
  (pc = "done" /\ ttl <= MaxTtl) =>
    LET last == rows[Len(rows)]
    IN /\ last.type = "echo reply"
       /\ last.probe > 0 => Dist <= last.probe /\ last.probe <= Len(rows)

(* The trace ends, whatever the network does. *)
TraceEnds == <>(pc \notin {"send", "recv"})

(* icmp.c:125: assert(0), no other type of message is received. *)
OnlyKnownTypes == pc # "unknown type"
=============================================================================
