----------------------------- MODULE ProxyPeers -----------------------------
(***************************************************************************)
(* What tee-splice/proxy.c and proxy_naive.c share: one TCP source, two    *)
(* TCP subscribers, and the start of main() that connects them.  Almost no *)
(* call of the start is checked, so each of its failures is carried on     *)
(* into the copying loop.                                                  *)
(***************************************************************************)
EXTENDS Streams

CONSTANTS
  Chunk,     \* CHUNK
  MaxBytes   \* bound of the model: the most the source sends

ASSUME PeersAssumption ==
  /\ Chunk \in Nat \ {0}
  /\ MaxBytes \in Nat

Subscribers == {0, 1}

VARIABLES
  pc,       \* where the program is
  cur,      \* the subscriber to connect or to write to
  bound,    \* bind() succeeded: the program listens on LISTEN_PORT
  source,   \* state of the source's connection
  sent,     \* bytes the source has sent
  reach,    \* how many of them reach the program's socket, sooner or later
  taken,    \* bytes the program has received
  peer,     \* peer[s]: state of the connection to subscriber s
  out       \* out[s]: what the socket of subscriber s accepted

peers == <<bound, source, sent, reach, peer>>

(* A source that resets its connection is "reset" until the error has been *)
(* reported to the program, once, and "dead" afterwards.                   *)
SourceStates == {"idle", "open", "closed", "reset", "dead"}

(* "none" until connect(); then "up", "refused", or "gone" when it closed. *)
PeerStates == {"none", "up", "refused", "gone"}

Running == pc \notin {"done", "aborted"}

PeersInit ==
  /\ pc = "bind"
  /\ cur = 0
  /\ bound = FALSE
  /\ source = "idle"
  /\ sent = 0
  /\ reach = 0
  /\ taken = 0
  /\ peer = [s \in Subscribers |-> "none"]
  /\ out = [s \in Subscribers |-> <<>>]

-----------------------------------------------------------------------------
(* The other processes. *)

(* The kernel completes the connection as soon as the program listens. *)
SourceConnect ==
  /\ pc \notin {"bind", "done", "aborted"}
  /\ bound
  /\ source = "idle"
  /\ source' = "open"
  /\ UNCHANGED <<pc, cur, bound, sent, reach, taken, peer, out>>

SourceSend ==
  /\ Running
  /\ source = "open"
  /\ \E n \in 1..(MaxBytes - sent) :
       /\ sent' = sent + n
       /\ reach' = reach + n
  /\ UNCHANGED <<pc, cur, bound, source, taken, peer, out>>

SourceClose ==
  /\ Running
  /\ source = "open"
  /\ source' = "closed"
  /\ UNCHANGED <<pc, cur, bound, sent, reach, taken, peer, out>>

(* A reset loses what is still on its way; what has arrived stays readable. *)
SourceReset ==
  /\ Running
  /\ source = "open"
  /\ source' = "reset"
  /\ reach' \in taken..sent
  /\ UNCHANGED <<pc, cur, bound, sent, taken, peer, out>>

PeerLeave(s) ==
  /\ Running
  /\ peer[s] = "up"
  /\ peer' = [peer EXCEPT ![s] = "gone"]
  /\ UNCHANGED <<pc, cur, bound, source, sent, reach, taken, out>>

Others ==
  SourceConnect \/ SourceSend \/ SourceClose \/ SourceReset
    \/ \E s \in Subscribers : PeerLeave(s)

-----------------------------------------------------------------------------
(* The start of main(). *)

(* When bind() fails listen() picks a port that nobody knows. *)
BindAndListen ==
  /\ pc = "bind"
  /\ bound' \in BOOLEAN
  /\ pc' = "accept"
  /\ UNCHANGED <<cur, source, sent, reach, taken, peer, out>>

Accept ==
  /\ pc = "accept"
  /\ source # "idle"
  /\ pc' = "connect"
  /\ UNCHANGED <<cur, bound, source, sent, reach, taken, peer, out>>

(* Subscriber 0 comes first, for connect() and for each chunk. *)
NextSubscriber == IF cur = 0 THEN 1 ELSE 0

(* connect_to: the result of connect() is ignored. *)
ConnectTo(first) ==
  /\ pc = "connect"
  /\ \E state \in {"up", "refused"} : peer' = [peer EXCEPT ![cur] = state]
  /\ cur' = NextSubscriber
  /\ pc' = IF cur = 1 THEN first ELSE "connect"
  /\ UNCHANGED <<bound, source, sent, reach, taken, out>>

Start(first) == BindAndListen \/ Accept \/ ConnectTo(first)

-----------------------------------------------------------------------------
(* System calls on the sockets. *)

(* The numbers of bytes that one call can take from the source. *)
Arriving(limit) == 1..Least(reach - taken, limit)

AtEnd == taken = reach /\ source \in {"closed", "dead"}

AtError == taken = reach /\ source = "reset"

(* How many of n bytes a blocking call can hand to subscriber s.  The      *)
(* socket of a subscriber that left may still accept some.                 *)
Accepted(s, n) ==
  CASE peer[s] = "up" -> {n}
    [] peer[s] = "gone" -> 0..n
    [] OTHER -> {0}

-----------------------------------------------------------------------------
PeersTypeOK ==
  /\ cur \in Subscribers
  /\ bound \in BOOLEAN
  /\ source \in SourceStates
  /\ sent \in Nat
  /\ reach \in Nat
  /\ taken \in Nat
  /\ peer \in [Subscribers -> PeerStates]
  /\ out \in [Subscribers -> Seq(Nat)]
=============================================================================
