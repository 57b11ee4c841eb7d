----------------------------- MODULE ListHoles -----------------------------
(***************************************************************************)
(* file_hole/list_holes.c: walk over a file from hole to data to hole with *)
(* lseek(), reading the first 32 bytes of each run of data and stepping    *)
(* back over them.  The files are those of file_hole/main.c, and all small *)
(* ones.  A file is its size and the blocks that hold data; what is not in *)
(* such a block is a hole.                                                 *)
(***************************************************************************)
EXTENDS FiniteSetsExt, Integers

CONSTANTS
  Block,    \* block size of the file system
  Probe,    \* bytes read and stepped back over, 32
  MaxSize   \* bound: the size of a file

HolesAssumption ==
  /\ Probe \in Nat \ {0} /\ Block \in Nat /\ Block > Probe
  /\ MaxSize \in Nat

VARIABLES
  pc,       \* "hole", "data" or "back" (the lseek() to come), or "done"
  size,     \* size of the file
  blocks,   \* its blocks that hold data
  offset,   \* offset; while pc = "back", the position in the file instead
  listed    \* history: the offsets printed as holes

vars == <<pc, size, blocks, offset, listed>>

(* The blocks of a file of n bytes. *)
BlocksOf(n) == {b \in 0..n : b * Block < n}

(* file_hole/main.c: records of Probe bytes, each a gap after the last one. *)
Written(records, gap) ==
  [size |-> records * gap + Probe,
   blocks |-> {(i * gap) \div Block : i \in 1..records}]

Init ==
  /\ pc = "hole"
  /\ size \in 0..MaxSize
  /\ blocks \in SUBSET BlocksOf(size)
  /\ offset = 0
  /\ listed = {}

-----------------------------------------------------------------------------
HasData(o) == o < size /\ o \div Block \in blocks

(* lseek(fd, from, SEEK_HOLE); the end of the file is a hole, too. *)
SeekHole(from) ==
  IF from \notin 0..(size - 1) THEN -1
  ELSE Min({o \in from..size : ~HasData(o)})

(* lseek(fd, from, SEEK_DATA) *)
SeekData(from) ==
  IF \E o \in from..size : HasData(o)
    THEN Min({o \in from..size : HasData(o)})
    ELSE -1

FindHole ==
  /\ pc = "hole"
  /\ offset' = SeekHole(offset)
  /\ IF offset' = -1
       THEN pc' = "done" /\ UNCHANGED listed
       ELSE pc' = "data" /\ listed' = listed \union {offset'}
  /\ UNCHANGED <<size, blocks>>

(* read() leaves the position behind the bytes it returns. *)
FindData ==
  /\ pc = "data"
  /\ IF SeekData(offset) = -1
       THEN pc' = "done" /\ offset' = -1
       ELSE /\ pc' = "back"
            /\ offset' = Min({SeekData(offset) + Probe, size})
  /\ UNCHANGED <<size, blocks, listed>>

(* One byte too many. *)
BackMutant == offset - Probe - 1

(* lseek(fd, -32, SEEK_CUR) *)
Back == IF offset < Probe THEN -1 ELSE offset - Probe

StepBack ==
  /\ pc = "back"
  /\ offset' = Back
  /\ pc' = "hole"
  /\ UNCHANGED <<size, blocks, listed>>

Program == FindHole \/ FindData \/ StepBack

Next == Program

Spec == Init /\ [][Next]_vars

(* The process is scheduled. *)
FairSpec == Spec /\ WF_vars(Program)

-----------------------------------------------------------------------------
(* Properties. *)

TypeOK ==
  /\ pc \in {"hole", "data", "back", "done"}
  /\ size \in 0..MaxSize
  /\ blocks \subseteq BlocksOf(size)
  /\ offset \in -1..size
  /\ listed \subseteq 0..size

(* Where a hole begins. *)
HoleStarts ==
  {o \in 0..size : ~HasData(o) /\ o > 0 /\ HasData(o - 1)}
    \union {o \in {0} : size > 0 /\ ~HasData(o)}

(* A run of data that begins behind a hole and ends with the file before   *)
(* the 32 bytes are read: stepping back ends in the hole.                  *)
ShortTail ==
  \E o \in HoleStarts :
    LET d == SeekData(o)
    IN d # -1 /\ size - d < Probe

(* The files of file_hole/main.c, whose gap is a multiple of any block. *)
MadeByMain ==
  \E records, k \in 1..MaxSize :
    [size |-> size, blocks |-> blocks] = Written(records, k * Block)

(* A walk that ended has listed the holes of the file and nothing else,    *)
(* and there was no short tail.                                            *)
EndsWithTheHoles == pc = "done" => ~ShortTail /\ listed = HoleStarts

(* The walk ends, and has listed the holes of the file and nothing else;   *)
(* except that it goes round for ever through the last hole of a file with *)
(* a short tail.  The files of file_hole/main.c have none.                 *)
ListsTheHoles ==
  /\ MadeByMain => ~ShortTail
  /\ ~ShortTail => <>(pc = "done")
  /\ []EndsWithTheHoles
=============================================================================
