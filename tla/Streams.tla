------------------------------ MODULE Streams ------------------------------
(***************************************************************************)
(* Byte streams.  The programs of this repository copy bytes and never     *)
(* look at them, so a byte is represented by its offset in the input: the  *)
(* k-th byte the source writes is the number k.  A sink that received      *)
(* exactly the first n input bytes in order holds Upto(n), and every loss, *)
(* repetition or reordering shows as some other sequence.                  *)
(***************************************************************************)
EXTENDS Integers, Sequences

(* The input bytes after the first "from" ones, up to and including "to". *)
Slice(from, to) == [k \in 1..(to - from) |-> from + k]

(* The first n bytes of the input. *)
Upto(n) == Slice(0, n)

(* The bytes of s, then those of t. *)
Joined(s, t) == s \o t

(* The m-th to the n-th byte of s. *)
Part(s, m, n) == SubSeq(s, m, n)

(* What is left of s once n bytes are taken from its front. *)
Rest(s, n) == SubSeq(s, n + 1, Len(s))

(* What a file that is to be overwritten holds before it is truncated, and *)
(* what a program that reports its failure adds to a sink: 0 stands for    *)
(* bytes that are not of the input.                                        *)
Stale == <<0>>
Message == <<0>>

(* The input bytes of a sink that holds s: not its old contents, and not   *)
(* the message at its end.                                                 *)
InputIn(s) == IF s # <<>> /\ s[Len(s)] = 0 THEN Part(s, 1, Len(s) - 1) ELSE s

Least(a, b) == IF a <= b THEN a ELSE b
=============================================================================
