----------------------------- MODULE MCBuffers -----------------------------
(***************************************************************************)
(* The demonstrations in which bytes outlive or outgrow the memory they    *)
(* were put in, for one run of TLC: the vector of flexible-array-member,   *)
(* the strings of small-string-optimization, the gifted pages of           *)
(* vmsplice/main.c and the pipe of vmsplice/bench.c.  They share nothing:  *)
(* each behaviour is one of one of them, while the others rest in one of   *)
(* their initial states.                                                   *)
(***************************************************************************)
EXTENDS Vec, Sequences

CONSTANTS Strings, Chars, Small, MaxLen, Nul, Junk, Free, Unset
CONSTANT Size
CONSTANTS Chunk, Total, Scratch, SockCap, PipeCap

(* A pointer is two bytes or more.  Free is no block and Unset no String.  *)
ASSUME StringAssumption ==
  LET Buffers == [1..Small -> Chars \union {Nul, Junk}]
  IN /\ Small \in Nat /\ Small >= 2
     /\ Free \notin Seq(Chars \union {Nul, Junk})
     /\ Unset \notin [data : Buffers, length : Nat, capacity : Nat]
     /\ Unset \notin [data : Nat, length : Nat, capacity : Nat]

ASSUME GiftAssumption == Size \in Nat

ASSUME BenchAssumption ==
  /\ Total \in Nat
  /\ {Chunk, Scratch, SockCap, PipeCap} \subseteq Nat \ {0}

VARIABLES
  demo,                               \* the one that runs
  str, heap, strayed, text, origin,   \* SmallString
  at, data, p, file, gifted, left,    \* VmspliceGift
  loopAt, sent, conn, queue, got,     \* VmspliceBench
  server, pipe, in_pipe, drained

stringVars == <<str, heap, strayed, text, origin>>
giftVars == <<at, data, p, file, gifted, left>>
benchVars ==
  <<loopAt, sent, conn, queue, got, server, pipe, in_pipe, drained>>

String == INSTANCE SmallString WITH stray <- strayed
Gift == INSTANCE VmspliceGift WITH pc <- at
Bench == INSTANCE VmspliceBench WITH pc <- loopAt, p <- pipe

BuffersInit ==
  /\ demo \in {"vector", "string", "gift", "bench"}
  /\ Init /\ (demo # "vector" => asked = 4)
  /\ String!Init
  /\ Gift!Init
  /\ Bench!Init /\ (demo # "bench" => server = "accept")

BuffersNext ==
  /\ UNCHANGED demo
  /\ \/ /\ demo = "vector" /\ Next
        /\ UNCHANGED <<stringVars, giftVars, benchVars>>
     \/ /\ demo = "string" /\ String!Next
        /\ UNCHANGED <<vars, giftVars, benchVars>>
     \/ /\ demo = "gift" /\ Gift!Next
        /\ UNCHANGED <<vars, stringVars, benchVars>>
     \/ /\ demo = "bench" /\ Bench!Next
        /\ UNCHANGED <<vars, stringVars, giftVars>>

BuffersSpec ==
  BuffersInit
    /\ [][BuffersNext]_<<demo, vars, stringVars, giftVars, benchVars>>

(* SmallString: blocks are neither shared, nor used after being freed, nor *)
(* lost.  Vec: between two calls the caller's pointer is that of the block *)
(* which the elements are in, although realloc() moves it.                 *)
OwnsItsBlock == String!OwnsItsBlock /\ CallerHasBlock

(* SmallString: the text survives every move, and no byte leaves a block   *)
(* but by a push onto a copy of a large string.                            *)
TextStaysWhole == String!TextStaysWhole

(* VmspliceGift: the file gets what was gifted, as it was then.            *)
FileAsGifted == Gift!FileAsGifted

(* VmspliceBench: bench.c never waits for itself.                          *)
PipeMatchesLoop == Bench!PipeMatchesLoop
=============================================================================
