----------------------------- MODULE SmallString -----------------------------
(***************************************************************************)
(* small-string-optimization/main.c: strings whose text lies in the union  *)
(* itself while it fits, and in a block of the heap from then on.          *)
(*                                                                         *)
(* Any sequence of calls on a few strings is considered, main() being one  *)
(* of them.  The bytes of new blocks are indeterminate (Junk).             *)
(***************************************************************************)
EXTENDS Integers, Sequences, FiniteSets

CONSTANTS
  Strings,   \* the variables of type String
  Chars,     \* what is pushed
  Small,     \* STRING_SMALL_STORAGE_SIZE
  MaxLen     \* bound: pushes onto one string
CONSTANTS Nul, Junk, Free, Unset   \* model values

VARIABLES
  str,     \* Unset, or the members of each String; data is the union
  heap,    \* the block at each address, or Free
  stray,   \* whether a byte was written outside of a block
  text,    \* history: the characters pushed onto each string
  origin   \* history: "own" text, a "copy" of a block, or one pushed onto

vars == <<str, heap, stray, text, origin>>

Addresses == 1..(Cardinality(Strings) + 1)
Bytes == Chars \union {Nul, Junk}
Block(n) == [b \in 1..n |-> Junk]

Init ==
  /\ str = [s \in Strings |-> Unset]
  /\ heap = [a \in Addresses |-> Free]
  /\ stray = FALSE
  /\ text = [s \in Strings |-> <<>>]
  /\ origin = [s \in Strings |-> "own"]

-----------------------------------------------------------------------------
IsSmall(r) == r.capacity < Small

(* buffer with the bytes of src at its start, cut to the block's size. *)
Memcpy(buffer, src) ==
  [b \in DOMAIN buffer |-> IF b \in DOMAIN src THEN src[b] ELSE buffer[b]]

(* c and the NUL behind it, stored after n characters. *)
Store(buffer, n, c) ==
  [b \in DOMAIN buffer |->
     CASE b = n + 1 -> c [] b = n + 2 -> Nul [] OTHER -> buffer[b]]

StringNew(s) ==
  /\ str[s] = Unset
  /\ str' = [str EXCEPT ![s] =
       [data |-> Memcpy(Block(Small), <<Nul>>),
        length |-> 0, capacity |-> Small - 1]]
  /\ UNCHANGED <<heap, stray, text, origin>>

(* grow_for(): the new length needs room for the NUL too. *)
OverflowsMutant(r) == r.length + 1 > Small

Overflows(r) == r.length + 1 >= Small

(* Characters stay in the union. *)
PushSmall(s, c) ==
  /\ IsSmall(str[s]) /\ ~Overflows(str[s])
  /\ LET r == str[s]
     IN /\ str' = [str EXCEPT ![s] =
             [data |-> Store(r.data, r.length, c),
              length |-> r.length + 1, capacity |-> r.capacity]]
        /\ stray' = (stray \/ r.length + 2 > Small)
  /\ UNCHANGED heap

(* The string moves to a new block, by way of tmp since large overlays     *)
(* small.                                                                  *)
PushMoves(s, c) ==
  /\ IsSmall(str[s]) /\ Overflows(str[s])
  /\ LET r == str[s]
         capacity == r.length + Small
     IN \E a \in Addresses :
          /\ heap[a] = Free
          /\ heap' = [heap EXCEPT ![a] =
               Store(Memcpy(Block(capacity), r.data), r.length, c)]
          /\ str' = [str EXCEPT ![s] =
               [data |-> a, length |-> r.length + 1, capacity |-> capacity]]
          /\ stray' = (stray \/ r.length + 2 > capacity)

(* realloc() to one byte more, in place or elsewhere. *)
PushLarge(s, c) ==
  /\ ~IsSmall(str[s])
  /\ LET r == str[s]
         block == Memcpy(Block(r.capacity + 1), heap[r.data])
     IN \E a \in Addresses :
          /\ heap[a] = Free \/ a = r.data
          /\ heap' = [heap EXCEPT
               ![r.data] = Free, ![a] = Store(block, r.length, c)]
          /\ str' = [str EXCEPT ![s] =
               [data |-> a, length |-> r.length + 1,
                capacity |-> r.capacity + 1]]
          /\ stray' = (stray \/ r.length + 2 > r.capacity + 1)

StringPushChar(s, c) ==
  /\ str[s] # Unset
  /\ Len(text[s]) < MaxLen
  /\ PushSmall(s, c) \/ PushMoves(s, c) \/ PushLarge(s, c)
  /\ text' = [text EXCEPT ![s] = Append(@, c)]
  /\ origin' = [origin EXCEPT ![s] = IF @ = "own" THEN @ ELSE "pushed"]

(* return *s *)
CopySmall(s, x) ==
  /\ IsSmall(str[s])
  /\ str' = [str EXCEPT ![x] = str[s]]
  /\ origin' = [origin EXCEPT ![x] = origin[s]]
  /\ UNCHANGED <<heap, stray>>

(* A copy that shares the block. *)
CopyLargeMutant(s, x) ==
  /\ ~IsSmall(str[s])
  /\ str' = [str EXCEPT ![x] = str[s]]
  /\ origin' = [origin EXCEPT ![x] = "copy"]
  /\ UNCHANGED <<heap, stray>>

(* The length of the copy is the capacity of the original. *)
CopyLarge(s, x) ==
  /\ ~IsSmall(str[s])
  /\ LET r == str[s]
     IN \E a \in Addresses :
          /\ heap[a] = Free
          /\ heap' = [heap EXCEPT ![a] =
               Memcpy(Block(r.capacity), heap[r.data])]
          /\ str' = [str EXCEPT ![x] =
               [data |-> a, length |-> r.capacity, capacity |-> r.capacity]]
  /\ origin' = [origin EXCEPT ![x] =
       IF origin[s] = "pushed" THEN "pushed" ELSE "copy"]
  /\ UNCHANGED stray

(* x = string_copy(&s), x a new variable *)
StringCopy(s, x) ==
  /\ str[s] # Unset /\ str[x] = Unset
  /\ CopySmall(s, x) \/ CopyLarge(s, x)
  /\ text' = [text EXCEPT ![x] = text[s]]

Next ==
  \E s \in Strings :
    \/ StringNew(s)
    \/ \E c \in Chars : StringPushChar(s, c)
    \/ \E x \in Strings : StringCopy(s, x)

Spec == Init /\ [][Next]_vars

-----------------------------------------------------------------------------
(* Properties. *)

StringData(s) == IF IsSmall(str[s]) THEN str[s].data ELSE heap[str[s].data]

Live == {s \in Strings : str[s] # Unset}
Large == {s \in Live : ~IsSmall(str[s])}
Used == {a \in Addresses : heap[a] # Free}

TypeOK ==
  /\ \A s \in Live :
       /\ str[s].capacity \in Nat /\ str[s].length \in 0..str[s].capacity
       /\ str[s].data \in
            IF IsSmall(str[s]) THEN [1..Small -> Bytes] ELSE Addresses
  /\ \A a \in Used : heap[a] \in Seq(Bytes)
  /\ stray \in BOOLEAN
  /\ text \in [Strings -> Seq(Chars)]
  /\ origin \in [Strings -> {"own", "copy", "pushed"}]

(* Each large string owns a block of its capacity, that nobody else owns   *)
(* or has freed; and no block is lost.                                     *)
OwnsItsBlock ==
  /\ \A s, x \in Large : str[s].data = str[x].data => s = x
  /\ \A a \in Used : \E s \in Large : str[s].data = a
  /\ \A s \in Large : Len(heap[str[s].data]) = str[s].capacity

(* printf("%s") of string_data() shows what was pushed, whichever way the  *)
(* text moved, and no byte is written outside of a block; unless a copy of *)
(* a large string was pushed onto.  Such a copy has length = capacity, and *)
(* a push leaves no room for the NUL.                                      *)
TextStaysWhole ==
  /\ \A s \in Live :
       origin[s] # "pushed" =>
         LET n == Len(text[s])
         IN /\ n < Len(StringData(s))
            /\ SubSeq(StringData(s), 1, n) = text[s]
            /\ StringData(s)[n + 1] = Nul
  /\ stray => \E s \in Strings : origin[s] = "pushed"
=============================================================================
