----------------------------- MODULE CopyLoops -----------------------------
(***************************************************************************)
(* Three ways to copy a file that drop the result of the call which moves  *)
(* the bytes out: copy_file_range/main.c and foo.c (read and write),       *)
(* copy_file_range/main_with_copy_range.c, and                             *)
(* tee-splice/llm_splice_copy.c (splice through a pipe of its own).        *)
(***************************************************************************)
EXTENDS Streams

CONSTANTS
  FileSize,   \* bytes to copy
  Chunk,      \* BUF_SIZE, or the length given to splice()
  PipeCap     \* capacity of pipefd

CopyAssumption ==
  FileSize \in Nat /\ Chunk \in Nat \ {0} /\ PipeCap \in Nat \ {0}

VARIABLES
  pc,      \* "in" or "out" (the call to come), "done" or "aborted"
  tool,    \* the program that runs: "readwrite", "range" or "splice"
  taken,   \* bytes taken from the file
  hold,    \* the bytes in buf, or in the pipe
  n,       \* result of the last call that took bytes
  out,     \* the copy
  upset    \* history: a call failed, or moved out less than it was given

vars == <<pc, tool, taken, hold, n, out, upset>>

Init ==
  /\ pc = "in"
  /\ tool \in {"readwrite", "range", "splice"}
  /\ taken = 0
  /\ hold = <<>>
  /\ n = 0
  /\ out = <<>>
  /\ upset = FALSE

-----------------------------------------------------------------------------
Take(m) ==
  /\ n' = m
  /\ taken' = taken + m

(* read(fd_in, buf, BUF_SIZE) replaces what buf holds. *)
ReadSome ==
  /\ pc = "in" /\ tool = "readwrite"
  /\ \E m \in 1..Least(Chunk, FileSize - taken) :
       Take(m) /\ hold' = Slice(taken, taken + m)
  /\ pc' = "out"
  /\ UNCHANGED <<tool, out, upset>>

(* write(fd_out, buf, read_size), w = 0 for one that fails. *)
WriteSome ==
  /\ pc = "out" /\ tool = "readwrite"
  /\ \E w \in 0..n :
       /\ out' = Joined(out, Part(hold, 1, w))
       /\ upset' = (upset \/ w < n)
  /\ pc' = "in"
  /\ UNCHANGED <<tool, taken, hold, n>>

(* copy_file_range() moves both offsets by what it copied. *)
CopyRange ==
  /\ pc = "in" /\ tool = "range"
  /\ \E m \in 1..(FileSize - taken) :
       Take(m) /\ out' = Joined(out, Slice(taken, taken + m))
  /\ UNCHANGED <<pc, tool, hold, upset>>

(* splice() into the pipe waits while the pipe is full. *)
SpliceIn ==
  /\ pc = "in" /\ tool = "splice"
  /\ \E m \in 1..Least(Chunk, Least(FileSize - taken, PipeCap - Len(hold))) :
       Take(m) /\ hold' = Joined(hold, Slice(taken, taken + m))
  /\ pc' = "out"
  /\ UNCHANGED <<tool, out, upset>>

(* The pipe emptied, whatever was moved. *)
SpliceOutMutant ==
  /\ pc = "out" /\ tool = "splice"
  /\ \E r \in 0..n :
       /\ out' = Joined(out, Part(hold, 1, r))
       /\ hold' = <<>>
       /\ upset' = (upset \/ r < n)
  /\ pc' = "in"
  /\ UNCHANGED <<tool, taken, n>>

(* splice() of n bytes out of the pipe, r = 0 for one that fails. *)
SpliceOut ==
  /\ pc = "out" /\ tool = "splice"
  /\ \E r \in 0..n :
       /\ out' = Joined(out, Part(hold, 1, r))
       /\ hold' = Rest(hold, r)
       /\ upset' = (upset \/ r < n)
  /\ pc' = "in"
  /\ UNCHANGED <<tool, taken, n>>

(* A result of 0.  Before it can return 0, splice() needs room, too. *)
AtEof ==
  /\ pc = "in"
  /\ taken = FileSize
  /\ tool = "splice" => Len(hold) < PipeCap
  /\ n' = 0
  /\ pc' = "done"
  /\ UNCHANGED <<tool, taken, hold, out, upset>>

(* A result of -1: only read() is checked, by an assert; the others end    *)
(* the loop as the end of the file does.                                   *)
InFails ==
  /\ pc = "in"
  /\ n' = -1
  /\ upset' = TRUE
  /\ pc' = IF tool = "readwrite" THEN "aborted" ELSE "done"
  /\ UNCHANGED <<tool, taken, hold, out>>

Program ==
  \/ ReadSome \/ WriteSome
  \/ CopyRange
  \/ SpliceIn \/ SpliceOut
  \/ AtEof \/ InFails

Next == Program

Spec == Init /\ [][Next]_vars

-----------------------------------------------------------------------------
(* Properties. *)

TypeOK ==
  /\ pc \in {"in", "out", "done", "aborted"}
  /\ tool \in {"readwrite", "range", "splice"}
  /\ taken \in 0..FileSize
  /\ hold \in Seq(Nat) /\ out \in Seq(Nat)
  /\ n \in Nat \union {-1}
  /\ upset \in BOOLEAN

(* The copy is exact when the program ends, unless a call failed or moved  *)
(* out less than it was given.  Even then copy_file_range() and splice()   *)
(* leave a prefix, and what splice() did not move is still in the pipe,    *)
(* while a short write() leaves a gap.  Only after such a call can the     *)
(* program wait for room in its own pipe.                                  *)
ExactUnlessShort ==
  /\ pc = "done" /\ ~upset => out = Upto(FileSize)
  /\ tool = "readwrite" /\ pc # "out" /\ ~upset => out = Upto(taken)
  /\ tool = "range" => out = Upto(taken)
  /\ tool = "splice" => Joined(out, hold) = Upto(taken)
  /\ tool = "splice" /\ pc = "in" /\ Len(hold) = PipeCap => upset
=============================================================================
