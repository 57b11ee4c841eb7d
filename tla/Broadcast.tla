----------------------------- MODULE Broadcast -----------------------------
(***************************************************************************)
(* What a program that copies one source to several sinks promises         *)
(* (tee-splice/REPORT.md, "Scenario"): each sink receives the bytes of the *)
(* source in order, the sinks advance independently of each other, and the *)
(* program finishes only when each sink has everything.  It may also stop  *)
(* early, and then each sink holds a prefix of the source; a program that  *)
(* reports its failure on one of its own sinks adds a message to it then.  *)
(***************************************************************************)
EXTENDS Streams

CONSTANTS
  Sinks,
  Reporting  \* the sinks a message may be left on

VARIABLES
  sent,    \* number of bytes the source has written
  ended,   \* TRUE once the source can write no more
  out,     \* out[s]: the bytes sink s has received
  status   \* "running", "finished" or "aborted"

Init ==
  /\ sent = 0
  /\ ended = FALSE
  /\ out = [s \in Sinks |-> <<>>]
  /\ status = "running"

(* The source writes. *)
Send ==
  /\ ~ended
  /\ sent' \in Nat
  /\ sent' > sent
  /\ UNCHANGED <<ended, out, status>>

End ==
  /\ ~ended
  /\ ended' = TRUE
  /\ UNCHANGED <<sent, out, status>>

(* One sink receives the bytes that come next for it; the transfer may be  *)
(* the last one before the program gives up.                               *)
Deliver(s) ==
  /\ status = "running"
  /\ \E n \in (Len(out[s]) + 1)..sent : out' = [out EXCEPT ![s] = Upto(n)]
  /\ status' \in {"running", "aborted"}
  /\ UNCHANGED <<sent, ended>>

Finish ==
  /\ status = "running"
  /\ ended
  /\ \A s \in Sinks : out[s] = Upto(sent)
  /\ status' = "finished"
  /\ UNCHANGED <<sent, ended, out>>

Abort ==
  /\ status = "running"
  /\ status' = "aborted"
  /\ \/ UNCHANGED out
     \/ \E s \in Reporting : out' = [out EXCEPT ![s] = Joined(@, Message)]
  /\ UNCHANGED <<sent, ended>>

Next ==
  \/ Send
  \/ End
  \/ \E s \in Sinks : Deliver(s)
  \/ Finish
  \/ Abort

vars == <<sent, ended, out, status>>

Spec == Init /\ [][Next]_vars
=============================================================================
