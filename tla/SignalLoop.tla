----------------------------- MODULE SignalLoop -----------------------------
(***************************************************************************)
(* signalfd/main.c: poll() on stdin and on a signalfd of SIGINT and        *)
(* SIGQUIT; SIGQUIT ends the program.  A turn looks at stdin first, and at *)
(* the signals only when stdin is not readable, so what gets through       *)
(* depends on who keeps whom waiting.                                      *)
(*                                                                         *)
(* Nobody else reads stdin, and read() does not fail.  A turn in which     *)
(* poll() times out, or reports nothing that the code acts on, changes     *)
(* nothing and is a stuttering step.                                       *)
(***************************************************************************)
EXTENDS Integers

CONSTANTS
  Buf,       \* bytes of one read(), 32
  StdinCap   \* bound: the unread input

SignalAssumption == Buf \in Nat \ {0} /\ StdinCap \in Nat

VARIABLES
  pc,       \* "poll", "stdin" or "signal" (the read() to come), "done"
  kind,     \* what stdin is: "pipe" (or a terminal that stays) or "file"
  open,     \* the pipe has a writer
  input,    \* bytes of stdin that are unread
  pending   \* signals sent and not yet read; a second one of a kind is lost

vars == <<pc, kind, open, input, pending>>

Signals == {"SIGINT", "SIGQUIT"}

Init ==
  /\ pc = "poll"
  /\ kind \in {"pipe", "file"}
  /\ open = TRUE
  /\ input = 0
  /\ pending = {}

-----------------------------------------------------------------------------
(* The other processes. *)

Write ==
  /\ open
  /\ \E n \in 1..(StdinCap - input) : input' = input + n
  /\ UNCHANGED <<pc, kind, open, pending>>

HangUp ==
  /\ open
  /\ kind = "pipe"
  /\ open' = FALSE
  /\ UNCHANGED <<pc, kind, input, pending>>

Kill ==
  /\ \E sig \in Signals : pending' = pending \union {sig}
  /\ UNCHANGED <<pc, kind, open, input>>

Others == Write \/ HangUp \/ Kill

-----------------------------------------------------------------------------
(* What poll() reports for stdin.  A file is readable at its end, too. *)
Revents ==
  {event \in {"POLLIN", "POLLHUP"} :
     \/ event = "POLLIN" /\ (kind = "file" \/ input > 0)
     \/ event = "POLLHUP" /\ ~open}

(* A hangup taken for input. *)
ReadableMutant == Revents # {}

(* fds[0].revents == POLLIN *)
Readable == Revents = {"POLLIN"}

PollStdin ==
  /\ pc = "poll"
  /\ Readable
  /\ pc' = "stdin"
  /\ UNCHANGED <<kind, open, input, pending>>

PollSignal ==
  /\ pc = "poll"
  /\ ~Readable
  /\ pending # {}
  /\ pc' = "signal"
  /\ UNCHANGED <<kind, open, input, pending>>

ReadStdin ==
  /\ pc = "stdin"
  /\ input' = IF input > Buf THEN input - Buf ELSE 0
  /\ pc' = "poll"
  /\ UNCHANGED <<kind, open, pending>>

(* A signalfd gives the signal with the lowest number first. *)
NextSignal == IF "SIGINT" \in pending THEN "SIGINT" ELSE "SIGQUIT"

ReadSignal ==
  /\ pc = "signal"
  /\ pending' = pending \ {NextSignal}
  /\ pc' = IF NextSignal = "SIGQUIT" THEN "done" ELSE "poll"
  /\ UNCHANGED <<kind, open, input>>

Program == PollStdin \/ PollSignal \/ ReadStdin \/ ReadSignal

Next == Program \/ Others

Spec == Init /\ [][Next]_vars

(* The process is scheduled. *)
FairSpec == Spec /\ WF_vars(Program)

-----------------------------------------------------------------------------
(* Properties. *)

TypeOK ==
  /\ pc \in {"poll", "stdin", "signal", "done"}
  /\ kind \in {"pipe", "file"}
  /\ open \in BOOLEAN
  /\ input \in 0..StdinCap
  /\ pending \subseteq Signals

(* Stdin keeps the signals waiting: a file always does, a pipe while its   *)
(* writer is ahead of the program.                                         *)
StdinFirst == kind = "file" \/ (open /\ input > 0)

(* Who is heard.  SIGINT is read, and SIGQUIT ends the program, unless     *)
(* stdin keeps them waiting again and again; or, for SIGQUIT, SIGINT does. *)
(* Input of a pipe is read, unless the writer hangs up or the program ends *)
(* first; and what is left after the hangup never is.                      *)
Heard ==
  /\ <>[](~StdinFirst) =>
       ("SIGINT" \in pending ~> "SIGINT" \notin pending \/ pc = "done")
  /\ (<>[](~StdinFirst) /\ <>[]("SIGINT" \notin pending)) =>
       ("SIGQUIT" \in pending ~> pc = "done")
  /\ (kind = "pipe" /\ input > 0) ~> (pc \in {"stdin", "done"} \/ ~open)
  /\ [][~open /\ pc # "stdin" => input' = input]_vars
=============================================================================
