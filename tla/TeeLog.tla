------------------------------- MODULE TeeLog -------------------------------
(***************************************************************************)
(* tee-splice/llm_tee_example.c: tee() what stdin holds to stdout, then    *)
(* splice() as many bytes, and no more, from stdin into a log.  Stdin and  *)
(* stdout are pipes; whoever reads stdout keeps room in it.                *)
(***************************************************************************)
EXTENDS Streams

CONSTANTS
  Chunk,      \* the length given to tee(), 65536
  MaxBytes,   \* bound: the most that is written to stdin
  MaxFails    \* bound: how often splice() fails

LogAssumption ==
  Chunk \in Nat \ {0} /\ MaxBytes \in Nat /\ MaxFails \in Nat

VARIABLES
  pc,       \* "tee", "splice" or "done"
  sent,     \* bytes written to stdin
  open,     \* stdin has a writer
  taken,    \* bytes consumed from stdin
  n,        \* bytes that are still to be consumed, or the last result of tee()
  stdout,   \* what stdout got
  log,      \* copy.log
  fails     \* history: how often splice() failed

vars == <<pc, sent, open, taken, n, stdout, log, fails>>

Init ==
  /\ pc = "tee"
  /\ sent = 0
  /\ open = TRUE
  /\ taken = 0
  /\ n = 0
  /\ stdout = <<>>
  /\ log = <<>>
  /\ fails = 0

-----------------------------------------------------------------------------
Produce ==
  /\ open
  /\ \E m \in 1..(MaxBytes - sent) : sent' = sent + m
  /\ UNCHANGED <<pc, open, taken, n, stdout, log, fails>>

CloseInput ==
  /\ open
  /\ open' = FALSE
  /\ UNCHANGED <<pc, sent, taken, n, stdout, log, fails>>

(* tee() copies from the front of stdin, and consumes nothing. *)
TeeChunk ==
  /\ pc = "tee"
  /\ \E m \in 1..Least(Chunk, sent - taken) :
       /\ n' = m
       /\ stdout' = Joined(stdout, Slice(taken, taken + m))
  /\ pc' = "splice"
  /\ UNCHANGED <<sent, open, taken, log, fails>>

TeeEof ==
  /\ pc = "tee"
  /\ ~open
  /\ taken = sent
  /\ n' = 0
  /\ pc' = "done"
  /\ UNCHANGED <<sent, open, taken, stdout, log, fails>>

(* A failing tee(), of something that is no pipe say, is not told apart    *)
(* from the end of the input.                                              *)
TeeFails ==
  /\ pc = "tee"
  /\ n' = -1
  /\ pc' = "done"
  /\ UNCHANGED <<sent, open, taken, stdout, log, fails>>

(* The length given to splice(), when it is not what tee() returned. *)
LengthMutant == Chunk

Length == n

SpliceSome ==
  /\ pc = "splice"
  /\ \E m \in 1..Least(Length, sent - taken) :
       /\ taken' = taken + m
       /\ log' = Joined(log, Slice(taken, taken + m))
       /\ n' = n - m
       /\ pc' = IF n > m THEN "splice" ELSE "tee"
  /\ UNCHANGED <<sent, open, stdout, fails>>

(* m <= 0 leaves the inner loop, and the rest of the chunk in stdin. *)
SpliceFails ==
  /\ pc = "splice"
  /\ fails < MaxFails
  /\ fails' = fails + 1
  /\ pc' = "tee"
  /\ UNCHANGED <<sent, open, taken, n, stdout, log>>

Program == TeeChunk \/ TeeEof \/ TeeFails \/ SpliceSome \/ SpliceFails

Next == Program \/ Produce \/ CloseInput

Spec == Init /\ [][Next]_vars

-----------------------------------------------------------------------------
(* Properties. *)

TypeOK ==
  /\ pc \in {"tee", "splice", "done"}
  /\ sent \in 0..MaxBytes /\ taken \in 0..sent
  /\ open \in BOOLEAN
  /\ n \in -1..Chunk
  /\ stdout \in Seq(Nat) /\ log \in Seq(Nat)
  /\ fails \in 0..MaxFails

(* Stdout is ahead of the log by the bytes of the chunk that are still to  *)
(* be consumed, whenever the producer writes, and at the end of the input  *)
(* both have all of it.  A splice() that fails makes the rest of its chunk *)
(* go to stdout twice, but to the log once.  tee.c, whose splice() is not  *)
(* limited to what tee() copied, has no such property (tee.c:69).          *)
LogFollowsStdout ==
  /\ fails = 0 /\ n # -1 => stdout = Joined(log, Slice(taken, taken + n))
  /\ fails = 0 /\ pc = "done" /\ n = 0 => stdout = Upto(sent)
  /\ pc = "done" /\ n = 0 => log = Upto(sent)
=============================================================================
