-------------------------------- MODULE Vec --------------------------------
(***************************************************************************)
(* flexible-array-member/main.c: a vector whose elements lie behind its    *)
(* header in one block, so that growing it may move the header itself.     *)
(*                                                                         *)
(* Sizes are size_t values, computed modulo SizeMax + 1.  Which elements   *)
(* are there follows from length, so only their room is modelled.          *)
(***************************************************************************)
EXTENDS Integers

CONSTANTS
  SizeMax,   \* SIZE_MAX
  HeapMax    \* PTRDIFF_MAX, the largest block that malloc() ever provides

Header == 16   \* sizeof(Vec)
Item == 4       \* sizeof(int)

ASSUME VecAssumption ==
  /\ SizeMax \in Nat
  /\ HeapMax \in Nat
  /\ 2 * HeapMax <= SizeMax

VARIABLES
  pc,        \* "new", "use", or "null" once an allocation has failed
  asked,     \* history: the argument of vec_new()
  capacity,
  length,
  size,      \* of the block, in bytes
  block,     \* which block vec_push() has
  super_v,   \* which block its caller has
  stray      \* whether something was written outside of the block

vars == <<pc, asked, capacity, length, size, block, super_v, stray>>

Wrap(n) == n % (SizeMax + 1)

(* sizeof(Vec) + n * sizeof(int) *)
Bytes(n) == Wrap(Header + Wrap(n * Item))

Init ==
  /\ pc = "new"
  /\ asked \in 0..SizeMax
  /\ capacity = 0 /\ length = 0 /\ size = 0
  /\ block = 0 /\ super_v = 0
  /\ stray = FALSE

VecNew ==
  /\ pc = "new"
  /\ Bytes(asked) <= HeapMax
  /\ pc' = "use"
  /\ capacity' = asked
  /\ size' = Bytes(asked)
  /\ stray' = (size' < Header)
  /\ UNCHANGED <<asked, length, block, super_v>>

(* A write outside of the block leaves nothing to say about what follows. *)
InUse == pc = "use" /\ ~stray

FullMutant == length > capacity

Full == length = capacity

(* v->capacity *= 2 *)
Grown == Wrap(2 * capacity)

(* v->content[v->length] = x in a block of the given size. *)
Put(bytes) ==
  /\ length' = length + 1
  /\ stray' = (stray \/ Header + Item * (length + 1) > bytes)

(* *super_v = v *)
SetSuper == super_v' = block'

VecPush ==
  /\ InUse
  /\ ~Full
  /\ Put(size)
  /\ UNCHANGED block
  /\ SetSuper
  /\ UNCHANGED <<pc, asked, capacity, size>>

(* realloc() leaves the block where it is or moves it. *)
VecGrowAndPush ==
  /\ InUse
  /\ Full
  /\ Bytes(Grown) <= HeapMax
  /\ capacity' = Grown
  /\ size' = Bytes(Grown)
  /\ block' \in {block, 1 - block}
  /\ Put(size')
  /\ SetSuper
  /\ UNCHANGED <<pc, asked>>

(* malloc() or realloc() fails, as it must beyond HeapMax.  Nothing tests  *)
(* for it: the program writes through the null pointer.                    *)
NoMemory ==
  /\ pc = "new" \/ (InUse /\ Full)
  /\ pc' = "null"
  /\ UNCHANGED <<asked, capacity, length, size, block, super_v, stray>>

Next == VecNew \/ VecPush \/ VecGrowAndPush \/ NoMemory

Spec == Init /\ [][Next]_vars

-----------------------------------------------------------------------------
(* Properties. *)

TypeOK ==
  /\ pc \in {"new", "use", "null"}
  /\ asked \in 0..SizeMax
  /\ capacity \in 0..SizeMax
  /\ length \in Nat
  /\ size \in 0..HeapMax
  /\ block \in 0..1 /\ super_v \in 0..1
  /\ stray \in BOOLEAN

(* Between two calls the caller has the block that the elements are in.    *)
CallerHasBlock == super_v = block

(* A vector made with some capacity, such that its size is a size_t, never *)
(* writes outside of its block, however long it gets: doubling does not    *)
(* wrap around before the heap is exhausted.  A capacity of zero never     *)
(* grows.                                                                  *)
Sensible == asked > 0 /\ Header + Item * asked <= SizeMax

NeverStray == Sensible => ~stray
=============================================================================
