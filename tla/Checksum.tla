------------------------------ MODULE Checksum ------------------------------
(***************************************************************************)
(* checksum() of traceroute/icmp.c, and what a receiver does with it       *)
(* (RFC 1071).  The width of a word is a parameter.                        *)
(***************************************************************************)
EXTENDS Integers, Functions

CONSTANT Base   \* the number of values of a word, 2^16

ASSUME BaseAssumption == Base \in Nat /\ Base > 2

(* ~x in the width of a word *)
Not(x) == Base - 1 - x

(* (sum << 16 >> 16) + (sum >> 16) *)
Fold(sum) == (sum % Base) + (sum \div Base)

(* The conversion to uint16_t drops what Fold() may carry. *)
Result(sum) == Not(Fold(sum) % Base)

(* Of a header as a sequence of words. *)
checksum(data) == Result(SumFunction(data))

(* A receiver accepts a header whose words, checksum included, add up to   *)
(* zero in the ones' complement: to a multiple of Base - 1.                *)
Accepted(total) == total % (Base - 1) = 0
=============================================================================
