----------------------------- MODULE TeeSplice -----------------------------
(***************************************************************************)
(* tee-splice/tee.c: stdin is a pipe.  For each chunk, tee() duplicates    *)
(* what stdin holds into one pipe per file without consuming it, splice()  *)
(* drains each of these pipes into its file, and a last splice() moves     *)
(* stdin to stdout.                                                        *)
(*                                                                         *)
(* Sink 0 is stdout and sinks 1..FileCount are fds[0..file_count-1].  The  *)
(* kernel decides how much each call moves.  One unit of data stands for   *)
(* one pipe buffer, which is what the capacity of a pipe counts.           *)
(***************************************************************************)
EXTENDS Streams

CONSTANTS
  FileCount,  \* argc - 1
  BufSize,    \* BUF_SIZE
  StdinCap,   \* capacity of the pipe that is stdin
  PipeCap,    \* capacity of the pipes the program makes
  MaxBytes    \* bound of the model: the longest input

ASSUME ConstantsAssumption ==
  /\ FileCount \in Nat \ {0}   \* assert(argc > 1)
  /\ BufSize \in Nat \ {0}
  /\ StdinCap \in Nat \ {0}
  /\ PipeCap \in Nat \ {0}
  /\ MaxBytes \in Nat

Sinks == 0..FileCount
Files == 1..FileCount

VARIABLES
  pc,      \* "open", "tee", "drain", "forward", then "done" or "failed"
  i,       \* index of the loops over the files
  ps,      \* ps[f]: content of the pipe between stdin and file f
  taken,   \* bytes consumed from stdin
  sent,    \* bytes the producer has written to stdin
  closed,  \* the producer has closed its end of stdin
  out,     \* out[s]: contents of sink s
  upsets   \* history: the events that unbalance the chunk under way

vars == <<pc, i, ps, taken, sent, closed, out, upsets>>

(* "late": the producer wrote after the first tee() of a chunk and before  *)
(* its last splice(); "full": a pipe had too little room for its tee();    *)
(* "drain", "forward": a splice() moved less than it was asked to and      *)
(* could.                                                                  *)
Upsets == {"late", "full", "drain", "forward"}

Running == pc \notin {"done", "failed"}

Init ==
  /\ pc = "open"
  /\ i = 1
  /\ ps = [f \in Files |-> <<>>]
  /\ taken = 0
  /\ sent = 0
  /\ closed = FALSE
  /\ out = [s \in Sinks |-> IF s \in Files THEN Stale ELSE <<>>]
  /\ upsets = {}

Queued == sent - taken

-----------------------------------------------------------------------------
(* The process at the other end of stdin. *)

MidChunk == pc \in {"drain", "forward"} \/ (pc = "tee" /\ i > 1)

Produce ==
  /\ Running
  /\ ~closed
  /\ \E n \in 1..Least(MaxBytes - sent, StdinCap - Queued) : sent' = sent + n
  /\ upsets' = IF MidChunk THEN upsets \union {"late"} ELSE upsets
  /\ UNCHANGED <<pc, i, ps, taken, closed, out>>

CloseInput ==
  /\ Running
  /\ ~closed
  /\ closed' = TRUE
  /\ UNCHANGED <<pc, i, ps, taken, sent, out, upsets>>

-----------------------------------------------------------------------------
(* The program. *)

(* die_if: any system call may fail, and the program exits at once.  Its   *)
(* puts() goes to stdout, which is a sink, and exit() flushes it; nothing  *)
(* of it arrives when stdout is what failed or SIGPIPE ends the program.   *)
DieIf ==
  /\ Running
  /\ pc' = "failed"
  /\ \E prefix \in {<<>>, Message} :
       out' = [out EXCEPT ![0] = Joined(@, prefix)]
  /\ UNCHANGED <<i, ps, taken, sent, closed, upsets>>

(* One splice() too few. *)
AdvanceMutant(loop, next) ==
  IF i = FileCount \/ (loop = "drain" /\ i + 1 = FileCount)
    THEN pc' = next /\ i' = 1
    ELSE pc' = loop /\ i' = i + 1

(* The last splice() left out. *)
AdvanceMutant2(loop, next) ==
  IF i = FileCount
    THEN pc' = (IF loop = "drain" THEN "tee" ELSE next) /\ i' = 1
    ELSE pc' = loop /\ i' = i + 1

(* The end of a loop over the files, and what comes next. *)
Advance(loop, next) ==
  IF i = FileCount
    THEN pc' = next /\ i' = 1
    ELSE pc' = loop /\ i' = i + 1

(* The loop of open(); the pipes are made after it.  A pipe() that fails is *)
(* not noticed, and then it is the first tee() that does (DieIf).           *)
OpenFile ==
  /\ pc = "open"
  /\ out' = [out EXCEPT ![i] = <<>>]
  /\ Advance("open", "tee")
  /\ UNCHANGED <<ps, taken, sent, closed, upsets>>

Room(f) == PipeCap - Len(ps[f])

(* tee() waits for input and for room in its pipe, then duplicates as much *)
(* as both allow.                                                          *)
TeeFile ==
  LET wanted == Least(Queued, BufSize)
      copied == Least(wanted, Room(i))
  IN
  /\ pc = "tee"
  /\ copied > 0
  /\ ps' = [ps EXCEPT ![i] = Joined(@, Slice(taken, taken + copied))]
  /\ upsets' = IF copied < wanted THEN upsets \union {"full"} ELSE upsets
  /\ Advance("tee", "drain")
  /\ UNCHANGED <<taken, sent, closed, out>>

AtEofMutant == Queued = 0

(* tee() returns 0. *)
AtEof == Queued = 0 /\ closed

(* copied_size == 0: goto end.  A full pipe makes tee() wait even then. *)
TeeEof ==
  /\ pc = "tee"
  /\ AtEof
  /\ Room(i) > 0
  /\ pc' = "done"
  /\ UNCHANGED <<i, ps, taken, sent, closed, out, upsets>>

DrainFile ==
  LET most == Least(Len(ps[i]), BufSize) IN
  /\ pc = "drain"
  /\ \E n \in 1..most :
       /\ out' = [out EXCEPT ![i] = Joined(@, Part(ps[i], 1, n))]
       /\ ps' = [ps EXCEPT ![i] = Rest(@, n)]
       /\ upsets' = IF n < most THEN upsets \union {"drain"} ELSE upsets
  /\ Advance("drain", "forward")
  /\ UNCHANGED <<taken, sent, closed>>

Forward ==
  LET most == Least(Queued, BufSize) IN
  /\ pc = "forward"
  /\ \E n \in 1..most :
       /\ out' = [out EXCEPT ![0] = Joined(@, Slice(taken, taken + n))]
       /\ taken' = taken + n
       /\ upsets' = IF n < most THEN upsets \union {"forward"} ELSE upsets
  /\ pc' = "tee"
  /\ UNCHANGED <<i, ps, sent, closed>>

Program == OpenFile \/ TeeFile \/ TeeEof \/ DrainFile \/ Forward

Next == Produce \/ CloseInput \/ DieIf \/ Program

Spec == Init /\ [][Next]_vars

(* The process is scheduled, and a splice() that can move data does. *)
FairSpec == Spec /\ WF_vars(Program)

-----------------------------------------------------------------------------
(* Properties. *)

TypeOK ==
  /\ pc \in {"open", "tee", "drain", "forward", "done", "failed"}
  /\ i \in Files
  /\ ps \in [Files -> Seq(Nat)]
  /\ taken \in Nat
  /\ sent \in Nat
  /\ closed \in BOOLEAN
  /\ out \in [Sinks -> Seq(Nat)]
  /\ upsets \in SUBSET Upsets

(* What the files have been given. *)
Delivered == [f \in Files |-> IF out[f] = Stale THEN <<>> ELSE out[f]]

Status ==
  CASE pc = "done" -> "finished"
    [] pc = "failed" -> "aborted"
    [] OTHER -> "running"

(* Stdout alone is a faithful copy, whatever the calls move and whatever   *)
(* the files miss: it implements Broadcast with stdout as the only sink,   *)
(* and where the program dies it may get die_if's message after the input. *)
Abs == INSTANCE Broadcast WITH
  Sinks <- {0},
  Reporting <- {0},
  ended <- closed,
  out <- [s \in {0} |-> out[s]],
  status <- Status

StdoutImplementsBroadcast == Abs!Spec

(* A file is a copy of stdout only as long as nothing upsets a chunk: the  *)
(* producer writes nothing between the first tee() of a chunk and its last *)
(* splice(), no pipe is too small for its tee(), and no splice() is short. *)
(* Then all pipes are empty and all files equal whenever a chunk is over.  *)
FilesEqualStdoutUnlessUpset ==
  (upsets = {} /\ pc \in {"tee", "done"} /\ i = 1) =>
    \A f \in Files : ps[f] = <<>> /\ out[f] = out[0]

(* Until a last splice() is short a file may miss input but never repeats  *)
(* or reorders it: tee() duplicates only what the chunks before consumed   *)
(* nothing of.                                                             *)
FilesOrderedUnlessForwardShort ==
  "forward" \notin upsets =>
    \A f \in Files : LET s == Joined(Delivered[f], ps[f]) IN
      \A k \in 1..(Len(s) - 1) : s[k] < s[k + 1]

(* The program holds both ends of each of its pipes, so a tee() into a     *)
(* full one would wait for itself forever.  It never does: each file's     *)
(* splice() makes room for its next tee().                                 *)
NeverStuckOnOwnPipe == pc = "tee" => Room(i) > 0

(* Every byte the producer writes reaches stdout, and once the input ends  *)
(* so does the program, unless a system call fails.                        *)
EveryByteForwarded ==
  /\ \A k \in 1..MaxBytes : (sent >= k) ~> (Len(out[0]) >= k \/ pc = "failed")
  /\ closed ~> ~Running

(* The comment above main (tee.c:27-36): per chunk, what goes to stdout    *)
(* also goes through p to the file.  Here, of the executions in which no   *)
(* call moves less than it can and the pipes are large enough.             *)
FilesGetEveryChunk ==
  (pc = "done" /\ upsets \subseteq {"late"}) =>
    \A f \in Files : out[f] = out[0]
=============================================================================
