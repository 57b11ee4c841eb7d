---------------------------- MODULE VmspliceGift ----------------------------
(***************************************************************************)
(* vmsplice/main.c: gift SIZE bytes of 'a' to a pipe and splice them into  *)
(* a file, overwrite them with '#', and do it again.  The results of the   *)
(* four calls are not looked at.                                           *)
(*                                                                         *)
(* The pipe holds references to the mapping and no bytes: what splice()    *)
(* writes is what the mapping holds by then.  The pipe has room for both   *)
(* gifts and splice() copies into the page cache of the file.              *)
(***************************************************************************)
EXTENDS Streams

CONSTANT Size   \* SIZE

VARIABLES
  pc,      \* the statement of main() to come
  data,    \* what every byte of the mapping holds
  p,       \* bytes in the pipe
  file,
  gifted,  \* history: the bytes given to the pipe, as they were then
  left     \* history: bytes that a short first splice() left in the pipe

vars == <<pc, data, p, file, gifted, left>>

Fill(value, n) == [b \in 1..n |-> value]

(* memset() between a gift and its splice(). *)
AfterMutant == [vmsplice1 |-> "memset", splice1 |-> "vmsplice2",
                vmsplice2 |-> "splice2", splice2 |-> "done"]

After == [vmsplice1 |-> "splice1", splice1 |-> "memset",
          vmsplice2 |-> "splice2", splice2 |-> "done"]

Init ==
  /\ pc = "vmsplice1"
  /\ data = "a"
  /\ p = 0
  /\ file = <<>>
  /\ gifted = <<>>
  /\ left = 0

(* vmsplice() of all SIZE bytes, or of none when it fails. *)
Vmsplice ==
  /\ pc \in {"vmsplice1", "vmsplice2"}
  /\ \E n \in {0, Size} :
       /\ p' = p + n
       /\ gifted' = gifted \o Fill(data, n)
  /\ pc' = After[pc]
  /\ UNCHANGED <<data, file, left>>

(* splice() waits while p is empty, since main() holds its writing end.    *)
(* Then it moves SIZE bytes at most, fewer as the file has room, or fails. *)
Splice ==
  /\ pc \in {"splice1", "splice2"}
  /\ p > 0
  /\ \E m \in 0..Least(Size, p) :
       /\ p' = p - m
       /\ file' = file \o Fill(data, m)
  /\ left' = IF pc = "splice1" THEN p' ELSE left
  /\ pc' = After[pc]
  /\ UNCHANGED <<data, gifted>>

Memset ==
  /\ pc = "memset"
  /\ data' = "#"
  /\ pc' = "vmsplice2"
  /\ UNCHANGED <<p, file, gifted, left>>

Next == Vmsplice \/ Splice \/ Memset

Spec == Init /\ [][Next]_vars

-----------------------------------------------------------------------------
(* Properties. *)

(* The four statements run at most once: no more than two gifts. *)
TypeOK ==
  /\ pc \in (DOMAIN After) \union {"memset", "done"}
  /\ data \in {"a", "#"}
  /\ p \in 0..(2 * Size)
  /\ file \in Seq({"a", "#"})
  /\ gifted \in Seq({"a", "#"})
  /\ left \in 0..Size

(* The file gets each byte as it was when it was gifted, but for those     *)
(* that a short first splice() leaves in the pipe for memset() to change.  *)
FileAsGifted ==
  \A b \in 1..Len(file) :
    file[b] # gifted[b] => b \in (Size - left + 1)..Size
=============================================================================
