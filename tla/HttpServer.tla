----------------------------- MODULE HttpServer -----------------------------
(***************************************************************************)
(* readv-writev/main.c and main_naive.c: a server that answers one         *)
(* connection after the other, with one writev() or with nine writes.  It  *)
(* looks at no result, and SIGPIPE has its default action.                 *)
(*                                                                         *)
(* The request of a client arrives in one or more pieces, of which one     *)
(* read() takes what is there and fits into buf.  A client may leave at    *)
(* any time.  When it does so in an orderly way, the first write after     *)
(* that is accepted, answered by a reset, and the next one raises SIGPIPE. *)
(* When it resets the connection, the error is reported once, by whichever *)
(* call comes first, and a write after that raises SIGPIPE.  When a reset  *)
(* follows an orderly shutdown, it leaves EPIPE: read() still returns 0,   *)
(* and the first write raises SIGPIPE.                                     *)
(***************************************************************************)
EXTENDS Sequences, Integers

CONSTANTS
  Clients,     \* each connects once
  NaiveCalls,  \* write() calls of main_naive.c, 9
  ReadMax,     \* sizeof buf, 4096
  MaxRequest,  \* bound: bytes of one request
  Nobody       \* model value

HttpAssumption ==
  /\ NaiveCalls \in Nat \ {0, 1}
  /\ ReadMax \in Nat \ {0} /\ MaxRequest \in Nat \ {0}
  /\ Nobody \notin Clients

VARIABLES
  pc,        \* "accept", "read", "write" or "killed"
  gather,    \* the program that runs: main.c, or else main_naive.c
  backlog,   \* connections to be accepted
  serving,   \* client of client_fd
  calls,     \* writes made for it
  peer,      \* peer[c]: state of the connection on the server's side
  sent,      \* bytes of its request that have arrived from each client
  pieces,    \* how many times some arrived
  unread,    \* bytes that the server has not read
  answer     \* what the client can count on: "none", "whole", or "cut" when
             \* a reset by the server may overtake the answer

vars == <<pc, gather, backlog, serving, calls, peer, sent, pieces, unread,
          answer>>

(* "up" until the client leaves ("fin", "aborted" when a reset follows, or *)
(* "reset" until the error has been reported) or the server closes the     *)
(* connection ("closed"); a write raises SIGPIPE when it is "broken" or    *)
(* "aborted".                                                              *)
PeerStates == {"idle", "up", "fin", "reset", "aborted", "broken", "closed"}

Fatal == {"broken", "aborted"}

Init ==
  /\ pc = "accept"
  /\ gather \in BOOLEAN
  /\ backlog = <<>>
  /\ serving = Nobody
  /\ calls = 0
  /\ peer = [c \in Clients |-> "idle"]
  /\ sent = [c \in Clients |-> 0]
  /\ pieces = [c \in Clients |-> 0]
  /\ unread = [c \in Clients |-> 0]
  /\ answer = [c \in Clients |-> "none"]

-----------------------------------------------------------------------------
(* The clients. *)

Connect(c) ==
  /\ pc # "killed"
  /\ peer[c] = "idle"
  /\ peer' = [peer EXCEPT ![c] = "up"]
  /\ backlog' = Append(backlog, c)
  /\ UNCHANGED <<pc, gather, serving, calls, sent, pieces, unread, answer>>

(* A piece that nobody will read is answered by a reset. *)
Send(c) ==
  /\ peer[c] = "up" \/ (peer[c] = "closed" /\ answer[c] # "none")
  /\ \E n \in 1..(MaxRequest - sent[c]) :
       /\ sent' = [sent EXCEPT ![c] = @ + n]
       /\ IF peer[c] = "up"
            THEN unread' = [unread EXCEPT ![c] = @ + n] /\ UNCHANGED answer
            ELSE answer' = [answer EXCEPT ![c] = "cut"] /\ UNCHANGED unread
  /\ pieces' = [pieces EXCEPT ![c] = @ + 1]
  /\ UNCHANGED <<pc, gather, backlog, serving, calls, peer>>

(* An orderly shutdown or a reset, or first the one and then the other. *)
Leave(c) ==
  /\ \/ peer[c] = "up" /\ peer' \in {[peer EXCEPT ![c] = how] :
                                      how \in {"fin", "reset"}}
     \/ peer[c] = "fin" /\ peer' = [peer EXCEPT ![c] = "aborted"]
  /\ UNCHANGED <<pc, gather, backlog, serving, calls, sent, pieces, unread,
                 answer>>

Others == \E c \in Clients : Connect(c) \/ Send(c) \/ Leave(c)

-----------------------------------------------------------------------------
(* The server. *)

Accept ==
  /\ pc = "accept"
  /\ backlog # <<>>
  /\ serving' = Head(backlog)
  /\ backlog' = Tail(backlog)
  /\ calls' = 0
  /\ pc' = "read"
  /\ UNCHANGED <<gather, peer, sent, pieces, unread, answer>>

(* The one read() takes what is there, as far as it fits into buf. *)
ReadRequest ==
  /\ pc = "read"
  /\ unread[serving] > 0
  /\ unread' = [unread EXCEPT ![serving] =
       IF @ > ReadMax THEN @ - ReadMax ELSE 0]
  /\ pc' = "write"
  /\ UNCHANGED <<gather, backlog, serving, calls, peer, sent, pieces, answer>>

(* read() returns 0, or reports a reset that no shutdown came before; it   *)
(* waits while the client is connected and silent.                         *)
ReadNothing ==
  /\ pc = "read"
  /\ unread[serving] = 0
  /\ peer[serving] # "up"
  /\ peer' = [peer EXCEPT ![serving] = IF @ = "reset" THEN "broken" ELSE @]
  /\ pc' = "write"
  /\ UNCHANGED <<gather, backlog, serving, calls, sent, pieces, unread,
                 answer>>

CallsMutant == NaiveCalls

(* Calls that it takes to write the answer. *)
Calls == IF gather THEN 1 ELSE NaiveCalls

(* One write(), or the writev(). *)
WriteSome ==
  /\ pc = "write"
  /\ calls < Calls
  /\ peer[serving] \notin Fatal
  /\ calls' = calls + 1
  /\ peer' \in {[peer EXCEPT ![serving] = state] : state \in
       CASE peer[serving] = "up" -> {"up"}
         [] peer[serving] = "fin" -> {"fin", "broken"}
         [] peer[serving] = "reset" -> {"broken"}}
  /\ UNCHANGED <<pc, gather, backlog, serving, sent, pieces, unread, answer>>

WriteKills ==
  /\ pc = "write"
  /\ calls < Calls
  /\ peer[serving] \in Fatal
  /\ pc' = "killed"
  /\ UNCHANGED <<gather, backlog, serving, calls, peer, sent, pieces, unread,
                 answer>>

(* A connection that is not closed. *)
CloseMutant ==
  /\ pc = "write"
  /\ calls = Calls
  /\ pc' = "accept"
  /\ serving' = Nobody
  /\ UNCHANGED <<gather, backlog, calls, peer, sent, pieces, unread, answer>>

(* close(client_fd), which resets the connection if input is unread. *)
Close ==
  /\ pc = "write"
  /\ calls = Calls
  /\ peer' = [peer EXCEPT ![serving] = "closed"]
  /\ answer' = [answer EXCEPT ![serving] =
       CASE peer[serving] # "up" -> "none"
         [] peer[serving] = "up" /\ unread[serving] > 0 -> "cut"
         [] OTHER -> "whole"]
  /\ pc' = "accept"
  /\ serving' = Nobody
  /\ UNCHANGED <<gather, backlog, calls, sent, pieces, unread>>

Program ==
  Accept \/ ReadRequest \/ ReadNothing \/ WriteSome \/ WriteKills \/ Close

Next == Program \/ Others

Spec == Init /\ [][Next]_vars

(* The process is scheduled. *)
FairSpec == Spec /\ WF_vars(Program)

-----------------------------------------------------------------------------
(* Properties. *)

TypeOK ==
  /\ pc \in {"accept", "read", "write", "killed"}
  /\ gather \in BOOLEAN
  /\ backlog \in Seq(Clients)
  /\ serving \in Clients \union {Nobody}
  /\ calls \in 0..Calls
  /\ peer \in [Clients -> PeerStates]
  /\ sent \in [Clients -> 0..MaxRequest]
  /\ pieces \in [Clients -> 0..MaxRequest]
  /\ unread \in [Clients -> 0..MaxRequest]
  /\ answer \in [Clients -> {"none", "whole", "cut"}]

(* Only a client that leaves can kill the server.  With writev(), it is    *)
(* one that shuts down its side and then resets the connection, or resets  *)
(* it before it has sent anything; with nine writes, also one that leaves  *)
(* in any way before its answer is complete.                               *)
KilledOnlyByLeaver ==
  pc = "killed" =>
    \/ peer[serving] = "aborted"
    \/ peer[serving] = "broken" /\ sent[serving] = 0
    \/ peer[serving] = "broken" /\ ~gather /\ calls > 0

(* The client being served is connected and says nothing. *)
Held == pc = "read" /\ peer[serving] = "up" /\ unread[serving] = 0

(* A client that stays can count on the whole answer, unless its request   *)
(* came in pieces or is longer than the buffer of the one read().          *)
CutOnlyIfNotReadAtOnce ==
  \A c \in Clients : answer[c] = "cut" => pieces[c] > 1 \/ sent[c] > ReadMax

(* Everyone is served in the end, unless one silent client holds the       *)
(* server for good or one that left killed it; and nobody who stays and    *)
(* sends a request that one read() can take gets a part of the answer only. *)
ServedUnlessHeld ==
  /\ []<>(~Held) =>
       \A c \in Clients : peer[c] # "idle" ~> peer[c] = "closed" \/ pc = "killed"
  /\ []CutOnlyIfNotReadAtOnce
=============================================================================
