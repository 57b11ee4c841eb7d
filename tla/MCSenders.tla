----------------------------- MODULE MCSenders -----------------------------
(***************************************************************************)
(* The two excerpts of readv-writev that send a stream in pieces, for one  *)
(* run of TLC: nginx's chain of buffers, APR's headers, file and trailers, *)
(* and APR's single calls that send and receive.  They share nothing: each *)
(* behaviour is one of one of them, while the others rest in one of their  *)
(* initial states.                                                         *)
(***************************************************************************)
EXTENDS Integers, SequencesExt

CONSTANTS Chains, Limits, Prealloc, MaxLimit   \* WritevChain
CONSTANTS MaxHeaders, MaxBody, MaxTrailers     \* Sendfile
CONSTANTS Cap, MaxLen                          \* SocketIo

(* A buffer of each kind; the first two in memory are neighbours there.    *)
Buffer(kind, pos, last) == [kind |-> kind, pos |-> pos, last |-> last]
InMemory ==
  {Buffer("memory", 1, 3), Buffer("memory", 3, 4), Buffer("memory", 6, 9)}
Buffers == InMemory \union {Buffer(k, 0, 0) : k \in {"special", "file", "bad"}}

(* All short chains, and all chains in memory that need one iovec more.    *)
ShortChains == SeqOf(Buffers, 3) \union [1..4 -> InMemory]

VARIABLES
  demo,                                              \* the one that runs
  pc, in, ready, limit, send, sent, wire, chain,     \* WritevChain
  at, headers, body, trailers, blocking, incomplete, \* Sendfile
  corked, nopush_set, acked, len, out, held,
  ioAt, op, timeout, flags, avail, ended, asked,     \* SocketIo
  ioLen, status, moved, waited

chainVars == <<pc, in, ready, limit, send, sent, wire, chain>>
fileVars == <<at, headers, body, trailers, blocking, incomplete,
              corked, nopush_set, acked, len, out, held>>
ioVars == <<ioAt, op, timeout, flags, avail, ended, asked, ioLen, status,
            moved, waited>>

Chain == INSTANCE WritevChain
File == INSTANCE Sendfile WITH pc <- at, wire <- out
Io == INSTANCE SocketIo WITH pc <- ioAt, incomplete <- flags, len <- ioLen

ASSUME ChainAssumption == Chain!ChainAssumption
ASSUME IoAssumption == Io!SocketAssumption

RestsChain == chain = <<>> /\ ready
RestsFile == headers + body + trailers = 0 /\ ~blocking
RestsIo == timeout = 0

Init ==
  /\ Chain!Init
  /\ File!Init
  /\ Io!Init
  /\ \/ demo = "chain" /\ RestsFile /\ RestsIo
     \/ demo = "file" /\ RestsChain /\ RestsIo
     \/ demo = "io" /\ RestsChain /\ RestsFile

Next ==
  /\ UNCHANGED demo
  /\ \/ demo = "chain" /\ Chain!Next /\ UNCHANGED <<fileVars, ioVars>>
     \/ demo = "file" /\ File!Next /\ UNCHANGED <<chainVars, ioVars>>
     \/ demo = "io" /\ Io!Next /\ UNCHANGED <<chainVars, fileVars>>

Spec == Init /\ [][Next]_<<demo, chainVars, fileVars, ioVars>>

(* WritevChain: what is on the wire and what is left make up the chain.    *)
ChainIsTheRest == Chain!ChainIsTheRest

(* WritevChain: a call neither stops early nor runs on.                    *)
LoopEndsForAReason == Chain!LoopEndsForAReason

(* Sendfile: the caller knows what is on the wire.                         *)
LenIsTruth == File!LenIsTruth

(* Sendfile: the three ways out that leave the socket corked.              *)
CorkHeldOnlyBy == File!CorkHeldOnlyBy

(* SocketIo: what a call that sends or receives returns is true.           *)
ResultIsTruth == Io!ResultIsTruth
=============================================================================
