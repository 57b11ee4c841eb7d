------------------------------ MODULE TeeNaive ------------------------------
(***************************************************************************)
(* tee-splice/tee_naive.c: read a chunk of stdin into a buffer, write it   *)
(* to stdout, then to each of the files named on the command line.         *)
(*                                                                         *)
(* Sink 0 is stdout and sinks 1..FileCount are fds[0..file_count-1].  The  *)
(* file that holds Stale has not been opened (and truncated) yet.          *)
(***************************************************************************)
EXTENDS Streams

CONSTANTS
  FileCount,  \* argc - 1
  BufSize,    \* BUF_SIZE
  MaxBytes    \* bound of the model: the longest input

ASSUME ConstantsAssumption ==
  /\ FileCount \in Nat \ {0}   \* assert(argc > 1)
  /\ BufSize \in Nat \ {0}
  /\ MaxBytes \in Nat

Sinks == 0..FileCount
Files == 1..FileCount

VARIABLES
  pc,      \* "open", "read", "write", then "done" or "failed"
  cur,     \* the file to open, the sink to write
  buf,     \* the chunk read last
  off,     \* how much of buf write_all has written to sink cur
  taken,   \* bytes read from stdin
  sent,    \* bytes the producer has written to stdin
  closed,  \* the producer has closed its end of stdin
  out      \* out[s]: contents of sink s

vars == <<pc, cur, buf, off, taken, sent, closed, out>>

Running == pc \notin {"done", "failed"}

Init ==
  /\ pc = "open"
  /\ cur = 1
  /\ buf = <<>>
  /\ off = 0
  /\ taken = 0
  /\ sent = 0
  /\ closed = FALSE
  /\ out = [s \in Sinks |-> IF s \in Files THEN Stale ELSE <<>>]

-----------------------------------------------------------------------------
(* The process at the other end of stdin. *)

Produce ==
  /\ Running
  /\ ~closed
  /\ \E n \in 1..(MaxBytes - sent) : sent' = sent + n
  /\ UNCHANGED <<pc, cur, buf, off, taken, closed, out>>

CloseInput ==
  /\ Running
  /\ ~closed
  /\ closed' = TRUE
  /\ UNCHANGED <<pc, cur, buf, off, taken, sent, out>>

-----------------------------------------------------------------------------
(* The program. *)

(* die_if: any system call may fail, and the program exits at once.  Its   *)
(* puts() goes to stdout, which is a sink, and exit() flushes it; nothing  *)
(* of it arrives when stdout is what failed or SIGPIPE ends the program.   *)
DieIf ==
  /\ Running
  /\ pc' = "failed"
  /\ \E prefix \in {<<>>, Message} :
       out' = [out EXCEPT ![0] = Joined(@, prefix)]
  /\ UNCHANGED <<cur, buf, off, taken, sent, closed>>

OpenedAllMutant(i) == i + 1 >= FileCount

(* i is the last file of the loop that opens them. *)
OpenedAll(i) == i = FileCount

OpenFile ==
  /\ pc = "open"
  /\ out' = [out EXCEPT ![cur] = <<>>]
  /\ cur' = cur + 1
  /\ pc' = IF OpenedAll(cur) THEN "read" ELSE "open"
  /\ UNCHANGED <<buf, off, taken, sent, closed>>

(* read() returns between one byte and a full buffer. *)
ReadChunk ==
  /\ pc = "read"
  /\ \E n \in 1..Least(sent - taken, BufSize) :
       /\ buf' = Slice(taken, taken + n)
       /\ taken' = taken + n
  /\ cur' = 0
  /\ off' = 0
  /\ pc' = "write"
  /\ UNCHANGED <<sent, closed, out>>

ReadEof ==
  /\ pc = "read"
  /\ closed
  /\ sent = taken
  /\ pc' = "done"
  /\ UNCHANGED <<cur, buf, off, taken, sent, closed, out>>

WrittenAllMutant(count) == TRUE

(* write_all leaves its loop: no byte of the chunk is left to write. *)
WrittenAll(count) == count = 0

LastSinkMutant(s) == s + 1 >= FileCount

(* s is the last sink a chunk is written to. *)
LastSink(s) == s = FileCount

(* One turn of write_all's loop for sink cur: write() takes w bytes. *)
WriteSome ==
  /\ pc = "write"
  /\ \E w \in 1..(Len(buf) - off) :
       LET count == Len(buf) - off - w IN
       /\ out' = [out EXCEPT ![cur] = Joined(@, Part(buf, off + 1, off + w))]
       /\ off' = IF WrittenAll(count) THEN 0 ELSE off + w
       /\ cur' = IF WrittenAll(count) THEN cur + 1 ELSE cur
       /\ pc' = IF WrittenAll(count) /\ LastSink(cur) THEN "read" ELSE "write"
  /\ UNCHANGED <<buf, taken, sent, closed>>

Program == OpenFile \/ ReadChunk \/ ReadEof \/ WriteSome

Next == Produce \/ CloseInput \/ DieIf \/ Program

Spec == Init /\ [][Next]_vars

(* The process is scheduled, and a blocked write() eventually returns. *)
FairSpec == Spec /\ WF_vars(Program)

-----------------------------------------------------------------------------
(* Properties. *)

TypeOK ==
  /\ pc \in {"open", "read", "write", "done", "failed"}
  /\ cur \in 0..(FileCount + 1)
  /\ buf \in Seq(Nat)
  /\ off \in Nat
  /\ taken \in Nat
  /\ sent \in Nat
  /\ closed \in BOOLEAN
  /\ out \in [Sinks -> Seq(Nat)]

(* What the sinks have been given: nothing yet, if a file still has its    *)
(* old contents.                                                           *)
Delivered ==
  [s \in Sinks |-> IF s \in Files /\ out[s] = Stale THEN <<>> ELSE out[s]]

Status ==
  CASE pc = "done" -> "finished"
    [] pc = "failed" -> "aborted"
    [] OTHER -> "running"

(* tee_naive implements Broadcast, whatever lengths read() and write()     *)
(* return: while it runs each sink is a prefix of the input, and at a      *)
(* normal exit each sink has the whole input.  Wherever the program dies,  *)
(* the files are left as prefixes and stdout as a prefix or as a prefix    *)
(* and then die_if's message.                                              *)
Abs == INSTANCE Broadcast WITH
  Reporting <- {0},
  ended <- closed,
  out <- Delivered,
  status <- Status

ImplementsBroadcast == Abs!Spec

(* The chunk buffer is the only skew between the sinks: in the order in    *)
(* which they are written no later sink has more input than an earlier     *)
(* one, and none is more than one buffer of input behind stdout, which     *)
(* die_if's message may make longer still.                                 *)
SkewWithinOneBuffer ==
  \A s, t \in Sinks :
    LET ahead == Len(InputIn(out[s])) - Len(InputIn(out[t])) IN
    s < t => ahead \in 0..BufSize

(* No byte of the input leaves the program before every file could be      *)
(* opened: a failed open() never leaves a partial copy in an earlier file  *)
(* or on stdout, where there is at most the message of that failure.       *)
NothingCopiedBeforeAllOpen ==
  (\E f \in Files : out[f] = Stale) =>
    /\ \A f \in Files : out[f] \in {<<>>, Stale}
    /\ out[0] = <<>> \/ (out[0] = Message /\ pc = "failed")

(* Every byte the producer writes reaches every sink unless a system call  *)
(* fails.                                                                  *)
EveryByteCopied ==
  \A k \in 1..MaxBytes :
    (sent >= k) ~> (pc = "failed" \/ \A s \in Sinks : Len(Delivered[s]) >= k)
=============================================================================
