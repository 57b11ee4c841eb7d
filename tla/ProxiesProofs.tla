--------------------------- MODULE ProxiesProofs ---------------------------
(***************************************************************************)
(* What MCProxies checks of the two broadcasters for small chunks, proved  *)
(* for chunks, pipes and inputs of any length.                             *)
(***************************************************************************)
EXTENDS MCProxies, StreamLemmas

(* What has been sent to the program has reached it unless the source      *)
(* resets the connection.                                                  *)
Arrival ==
  /\ taken <= reach
  /\ reach <= sent
  /\ source \in {"idle", "open", "closed"} => reach = sent

(* Subscriber 0 has the first a bytes of the input, subscriber 1 the first *)
(* b.                                                                      *)
Given(a, b) == out[0] = Upto(a) /\ out[1] = Upto(b)

AllGiven == Given(taken, taken)

Starting == pc \in {"bind", "accept", "connect"}

(* While a chunk of n bytes is copied, the last n bytes taken are in it.   *)
Before == taken - n

InChunk ==
  /\ n \in 1..Chunk
  /\ n <= taken

(* The steps of proxy.c; a failed splice() from the source leaves n = -1   *)
(* and nothing to copy.                                                    *)
SpliceForm ==
  /\ pc \in {"bind", "accept", "connect", "fill", "tee", "sub0", "sub1",
             "done", "aborted"}
  /\ main_p \in Seq(Nat)
  /\ sub_p \in Seq(Nat)
  /\ pc \notin {"sub0", "aborted"} => sub_p = <<>>
  /\ pc \in {"bind", "accept", "connect", "fill"} => main_p = <<>>
  /\ pc = "fill" \/ (pc = "tee" /\ n = -1) => AllGiven /\ main_p = <<>>
  /\ pc \in {"sub0", "sub1"} \/ (pc = "tee" /\ n # -1) =>
       /\ InChunk
       /\ n <= PipeCap
       /\ main_p = Slice(Before, taken)
  /\ pc = "tee" /\ n # -1 => Given(Before, Before)
  /\ pc = "sub0" => sub_p = main_p /\ Given(Before, Before)
  /\ pc = "sub1" => Given(taken, Before)

(* The steps of proxy_naive.c; after a failed read() with n = -1 both      *)
(* write() calls fail as well.                                             *)
NaiveForm ==
  /\ pc \in {"bind", "accept", "connect", "read", "write", "done", "aborted"}
  /\ buf \in Seq(Nat)
  /\ pc = "read" => AllGiven /\ cur = 0
  /\ pc = "write" /\ n = -1 => AllGiven
  /\ pc = "write" /\ n # -1 =>
       /\ InChunk
       /\ buf = Slice(Before, taken)
       /\ Given(IF cur = 1 THEN taken ELSE Before, Before)

IInv ==
  /\ demo \in {"naive", "splice"}
  /\ PeersTypeOK
  /\ n \in Nat \union {-1}
  /\ Arrival
  /\ Starting => taken = 0 /\ AllGiven
  /\ pc \in {"bind", "accept"} => cur = 0
  /\ pc = "done" => AllGiven /\ AtEnd
  /\ pc = "aborted" => SkewWithinOneChunk
  /\ demo = "splice" => SpliceForm
  /\ demo = "naive" => NaiveForm

-----------------------------------------------------------------------------
(* The two programs share these definitions. *)

LEMMA NaiveOthers == Naive!Others => Others
BY DEF Naive!Others, Naive!SourceConnect, Naive!SourceSend, Naive!SourceClose,
       Naive!SourceReset, Naive!PeerLeave, Naive!Running, Naive!Subscribers,
       Others, SourceConnect, SourceSend, SourceClose, SourceReset, PeerLeave,
       Running, Subscribers

LEMMA NaiveStart == ASSUME NEW first PROVE Naive!Start(first) => Start(first)
BY DEF Naive!Start, Naive!BindAndListen, Naive!Accept, Naive!ConnectTo,
       Naive!NextSubscriber, Start, BindAndListen, Accept, ConnectTo,
       NextSubscriber

LEMMA NaiveStreams ==
  /\ \A a, b : Naive!Slice(a, b) = Slice(a, b)
  /\ \A s, t : Naive!Joined(s, t) = Joined(s, t)
  /\ \A s, a, b : Naive!Part(s, a, b) = Part(s, a, b)
  /\ \A s, k : Naive!Accepted(s, k) = Accepted(s, k)
  /\ \A k : Naive!Arriving(k) = Arriving(k)
  /\ Naive!AtEnd = AtEnd
  /\ Naive!AtError = AtError
  /\ Naive!NextSubscriber = NextSubscriber
  /\ Naive!Status = Status
<1>1. \A a, b : Naive!Slice(a, b) = Slice(a, b)
  BY DEF Naive!Slice, Slice
<1>2. \A s, t : Naive!Joined(s, t) = Joined(s, t)
  BY DEF Naive!Joined, Joined
<1>3. \A s, a, b : Naive!Part(s, a, b) = Part(s, a, b)
  BY DEF Naive!Part, Part
<1>4. \A s, k : Naive!Accepted(s, k) = Accepted(s, k)
  BY DEF Naive!Accepted, Accepted
<1>5. \A k : Naive!Arriving(k) = Arriving(k)
  BY DEF Naive!Arriving, Arriving, Naive!Least, Least
<1>6. Naive!AtEnd = AtEnd
  BY DEF Naive!AtEnd, AtEnd
<1>7. Naive!AtError = AtError
  BY DEF Naive!AtError, AtError
<1>8. Naive!NextSubscriber = NextSubscriber
  BY DEF Naive!NextSubscriber, NextSubscriber
<1>9. Naive!Status = Status
  BY DEF Naive!Status, Status
<1> QED
  BY <1>1, <1>2, <1>3, <1>4, <1>5, <1>6, <1>7, <1>8, <1>9

(* What a call can take from the source, and hand to a subscriber. *)
LEMMA ArrivingBound ==
  ASSUME NEW limit \in Int, reach \in Nat, taken \in Nat,
         NEW m \in Arriving(limit)
  PROVE  m \in Nat \ {0} /\ m <= limit /\ taken + m <= reach
<1>1. reach - taken \in Int
  OBVIOUS
<1> QED
  BY <1>1, LeastProperties DEF Arriving

LEMMA AcceptedBound ==
  ASSUME NEW s, NEW k \in Nat, NEW r \in Accepted(s, k)
  PROVE  r \in Nat /\ r <= k
BY DEF Accepted

LEMMA GivenSkew ==
  ASSUME NEW a \in Nat, NEW b \in Nat, Given(a, b), b <= a, a - b <= Chunk
  PROVE  SkewWithinOneChunk
<1>1. Len(Upto(a)) = a /\ Len(Upto(b)) = b
  BY UptoType
<1> QED
  BY <1>1 DEF Given, SkewWithinOneChunk, Naive!SkewWithinOneChunk

-----------------------------------------------------------------------------
(* The invariant. *)

LEMMA InitIInv == ProxiesInit => IInv
<1> SUFFICES ASSUME ProxiesInit PROVE IInv
  OBVIOUS
<1> USE PeersAssumption DEF ProxiesInit, Init, Naive!Init, PeersInit
<1>1. PeersTypeOK
  BY DEF PeersTypeOK, SourceStates, PeerStates, Subscribers
<1>2. AllGiven
  BY UptoZero DEF AllGiven, Given, Subscribers
<1>3. Arrival
  BY DEF Arrival
<1>4. SpliceForm /\ NaiveForm
  BY DEF SpliceForm, NaiveForm
<1> QED
  BY <1>1, <1>2, <1>3, <1>4 DEF IInv

(* The steps of the source and of the subscribers. *)
LEMMA OthersIInv ==
  IInv /\ Others /\ UNCHANGED <<demo, buf, pipes>> => IInv'
<1> SUFFICES ASSUME IInv, Others, UNCHANGED <<demo, buf, pipes>> PROVE IInv'
  OBVIOUS
<1> USE PeersAssumption
<1>1. UNCHANGED <<pc, cur, taken, out, n, main_p, sub_p, buf, demo>>
  BY DEF pipes, Others, SourceConnect, SourceSend, SourceClose, SourceReset,
         PeerLeave
<1>2. PeersTypeOK' /\ Arrival'
  <2>1. PeersTypeOK /\ Arrival
    BY DEF IInv
  <2>2. CASE SourceConnect
    BY <2>1, <2>2 DEF SourceConnect, PeersTypeOK, Arrival, SourceStates
  <2>3. CASE SourceSend
    BY <2>1, <2>3 DEF SourceSend, PeersTypeOK, Arrival, SourceStates
  <2>4. CASE SourceClose
    BY <2>1, <2>4 DEF SourceClose, PeersTypeOK, Arrival, SourceStates
  <2>5. CASE SourceReset
    BY <2>1, <2>5 DEF SourceReset, PeersTypeOK, Arrival, SourceStates
  <2>6. ASSUME NEW s \in Subscribers, PeerLeave(s)
        PROVE  PeersTypeOK' /\ Arrival'
    BY <2>1, <2>6 DEF PeerLeave, PeersTypeOK, Arrival, PeerStates
  <2> QED
    BY <2>2, <2>3, <2>4, <2>5, <2>6 DEF Others
<1>3. /\ SpliceForm' = SpliceForm
      /\ NaiveForm' = NaiveForm
      /\ AllGiven' = AllGiven
      /\ Starting' = Starting
      /\ SkewWithinOneChunk' = SkewWithinOneChunk
  BY <1>1 DEF SpliceForm, NaiveForm, AllGiven, Given, InChunk, Before, Starting,
              SkewWithinOneChunk, Naive!SkewWithinOneChunk
<1>4. pc # "done"
  BY DEF Others, SourceConnect, SourceSend, SourceClose, SourceReset, PeerLeave,
         Running
<1> QED
  BY <1>1, <1>2, <1>3, <1>4 DEF IInv

(* bind(), accept() and the two connect() calls. *)
LEMMA StartIInv ==
  ASSUME IInv, UNCHANGED <<demo, buf, pipes>>,
         Start(IF demo = "splice" THEN "fill" ELSE "read")
  PROVE  IInv'
<1> DEFINE first == IF demo = "splice" THEN "fill" ELSE "read"
<1>1. /\ UNCHANGED <<source, sent, reach, taken, out, n, main_p, sub_p, buf, demo>>
      /\ Starting
      /\ pc' \in {"accept", "connect", first}
  BY DEF pipes, Start, BindAndListen, Accept, ConnectTo, Starting
<1>2. PeersTypeOK' /\ Arrival'
  <2>1. PeersTypeOK /\ Arrival
    BY DEF IInv
  <2>2. cur' \in Subscribers /\ bound' \in BOOLEAN
    BY <2>1 DEF Start, BindAndListen, Accept, ConnectTo, PeersTypeOK,
                NextSubscriber, Subscribers
  <2>3. peer' \in [Subscribers -> PeerStates]
    BY <2>1 DEF Start, BindAndListen, Accept, ConnectTo, PeersTypeOK, PeerStates
  <2> QED
    BY <1>1, <2>1, <2>2, <2>3 DEF PeersTypeOK, Arrival
<1>3. AllGiven' /\ taken' = 0
  BY <1>1 DEF IInv, AllGiven, Given
<1>4. pc' \in {"bind", "accept", "fill", "read"} => cur' = 0
  BY DEF IInv, PeersTypeOK, Start, BindAndListen, Accept, ConnectTo,
         NextSubscriber, Subscribers
<1>5. demo = "splice" => SpliceForm'
  BY <1>1, <1>3 DEF IInv, Starting, SpliceForm
<1>6. demo = "naive" => NaiveForm'
  BY <1>1, <1>3, <1>4 DEF IInv, Starting, NaiveForm
<1> QED
  BY <1>1, <1>2, <1>3, <1>4, <1>5, <1>6 DEF IInv, Starting

(* What the actions below leave alone. *)
LEMMA FrameIInv ==
  ASSUME IInv, UNCHANGED <<demo, sent, bound, peer, reach>>
  PROVE  /\ demo' \in {"naive", "splice"}
         /\ sent' \in Nat /\ reach' \in Nat
         /\ bound' \in BOOLEAN
         /\ peer' \in [Subscribers -> PeerStates]
BY DEF IInv, PeersTypeOK

-----------------------------------------------------------------------------
(* proxy.c *)

(* splice() of a chunk into the empty main_p. *)
LEMMA FillMainIInv ==
  IInv /\ demo = "splice" /\ FillMain /\ UNCHANGED <<demo, buf>> => IInv'
<1> SUFFICES ASSUME IInv, demo = "splice", FillMain, UNCHANGED <<demo, buf>>
             PROVE  IInv'
  OBVIOUS
<1> USE PeersAssumption, PipeAssumption
<1>1. /\ pc = "fill" /\ pc' = "tee"
      /\ UNCHANGED <<demo, cur, bound, source, sent, reach, peer, out, sub_p>>
  BY DEF FillMain
<1>2. /\ PeersTypeOK /\ Arrival /\ AllGiven
      /\ main_p = <<>> /\ sub_p = <<>>
  BY <1>1 DEF IInv, SpliceForm
<1>3. PICK m \in Arriving(Least(Chunk, Room(main_p))) :
        /\ n' = m
        /\ main_p' = Joined(main_p, Slice(taken, taken + m))
        /\ taken' = taken + m
  BY DEF FillMain
<1>4. m \in Nat \ {0} /\ m <= Chunk /\ m <= PipeCap /\ taken + m <= reach
  <2>1. Room(main_p) = PipeCap
    BY <1>2 DEF Room
  <2>2. /\ Least(Chunk, PipeCap) \in Int
        /\ Least(Chunk, PipeCap) <= Chunk
        /\ Least(Chunk, PipeCap) <= PipeCap
    BY LeastProperties
  <2>3. m \in Nat \ {0} /\ m <= Least(Chunk, PipeCap) /\ taken + m <= reach
    BY <1>2, <2>1, <2>2, ArrivingBound DEF PeersTypeOK
  <2> QED
    BY <2>2, <2>3
<1>5. taken \in Nat
  BY <1>2 DEF PeersTypeOK
<1>6. main_p' = Slice(taken, taken + m) /\ main_p' \in Seq(Nat)
  <2>1. Slice(taken, taken + m) \in Seq(Nat)
    BY <1>4, <1>5, ChunkType
  <2> QED
    BY <1>2, <1>3, <2>1, JoinedEmpty
<1>7. Before' = taken
  BY <1>3, <1>4, <1>5 DEF Before
<1>8. SpliceForm'
  <2>1. InChunk' /\ n' <= PipeCap /\ n' # -1
    BY <1>3, <1>4, <1>5 DEF InChunk
  <2>2. Given(Before, Before)'
    BY <1>1, <1>2, <1>7 DEF AllGiven, Given
  <2>3. main_p' = Slice(Before', taken')
    BY <1>3, <1>6, <1>7
  <2> QED
    BY <1>1, <1>2, <1>6, <2>1, <2>2, <2>3 DEF SpliceForm
<1>9. PeersTypeOK' /\ Arrival' /\ n' \in Nat
  BY <1>1, <1>2, <1>3, <1>4 DEF PeersTypeOK, Arrival
<1> QED
  BY <1>1, <1>8, <1>9 DEF IInv, Starting

(* splice() from the source fails or meets the end of the stream. *)
LEMMA FillNothingIInv ==
  IInv /\ demo = "splice" /\ (FillError \/ FillEof) /\ UNCHANGED <<demo, buf>>
    => IInv'
<1> SUFFICES ASSUME IInv, demo = "splice", FillError \/ FillEof,
                    UNCHANGED <<demo, buf>>
             PROVE  IInv'
  OBVIOUS
<1>1. /\ pc = "fill"
      /\ UNCHANGED <<demo, cur, bound, sent, reach, taken, peer, out, main_p, sub_p>>
  BY DEF FillError, FillEof
<1>2. /\ PeersTypeOK /\ Arrival /\ AllGiven
      /\ main_p = <<>> /\ sub_p = <<>>
  BY <1>1 DEF IInv, SpliceForm
<1>3. AllGiven'
  BY <1>1, <1>2 DEF AllGiven, Given
<1>4. CASE FillError
  <2>1. pc' = "tee" /\ n' = -1 /\ source' = "dead" /\ source = "reset"
    BY <1>4 DEF FillError, AtError
  <2>2. PeersTypeOK' /\ Arrival'
    BY <1>1, <1>2, <2>1 DEF PeersTypeOK, Arrival, SourceStates
  <2>3. SpliceForm'
    BY <1>1, <1>2, <1>3, <2>1, ContentTypes DEF SpliceForm
  <2> QED
    BY <1>1, <2>1, <2>2, <2>3 DEF IInv, Starting
<1>5. CASE FillEof
  <2>1. pc' = "done" /\ n' = 0 /\ source' = source /\ AtEnd
    BY <1>5 DEF FillEof
  <2>2. PeersTypeOK' /\ Arrival' /\ AtEnd'
    BY <1>1, <1>2, <2>1 DEF PeersTypeOK, Arrival, AtEnd
  <2>3. SpliceForm'
    BY <1>1, <1>2, <1>3, <2>1, ContentTypes DEF SpliceForm
  <2> QED
    BY <1>1, <1>3, <2>1, <2>2, <2>3 DEF IInv, Starting
<1> QED
  BY <1>4, <1>5

(* What the chunk is, seen from the step that copies it. *)
LEMMA ChunkFacts ==
  ASSUME taken \in Nat, InChunk
  PROVE  /\ n \in Nat \ {0} /\ n <= Chunk
         /\ Before \in Nat /\ Before <= taken /\ taken - Before = n
         /\ Before + n = taken
         /\ Slice(Before, taken) \in Seq(Nat)
         /\ Len(Slice(Before, taken)) = n
         /\ Part(Slice(Before, taken), 1, n) = Slice(Before, taken)
         /\ Rest(Slice(Before, taken), n) = <<>>
<1> USE PeersAssumption
<1>1. /\ n \in Nat \ {0} /\ n <= Chunk
      /\ Before \in Nat /\ Before <= taken /\ taken - Before = n
      /\ Before + n = taken /\ n <= taken - Before
  BY DEF InChunk, Before
<1> HIDE DEF Before
<1>2. /\ Slice(Before, taken) \in Seq(Nat)
      /\ Len(Slice(Before, taken)) = n
  BY <1>1, SliceType
<1>3. Part(Slice(Before, taken), 1, n) = Slice(Before, taken)
  BY <1>1, FrontOfSlice
<1>4. Rest(Slice(Before, taken), n) = <<>>
  BY <1>1, RestOfSlice, SliceEmpty
<1> QED
  BY <1>1, <1>2, <1>3, <1>4

(* In the state tee() is called in, it duplicates the whole chunk, and it  *)
(* waits for good when there is none.                                      *)
LEMMA TeedIsChunk ==
  ASSUME IInv, demo = "splice", pc = "tee"
  PROVE  IF n = -1 THEN Teed = 0 ELSE Teed = n /\ InChunk
<1> USE PipeAssumption
<1>1. sub_p = <<>> /\ Room(sub_p) = PipeCap /\ taken \in Nat
  BY DEF IInv, SpliceForm, PeersTypeOK, Room
<1>2. CASE n = -1
  <2>1. main_p = <<>>
    BY <1>2 DEF IInv, SpliceForm
  <2> QED
    BY <1>1, <1>2, <2>1 DEF Teed, TeeLength, Least
<1>3. CASE n # -1
  <2>1. InChunk /\ n <= PipeCap /\ main_p = Slice(Before, taken)
    BY <1>3 DEF IInv, SpliceForm
  <2>2. Len(main_p) = n /\ n \in Nat
    BY <1>1, <2>1, ChunkFacts
  <2>3. Teed = n
    BY <1>1, <1>3, <2>1, <2>2 DEF Teed, TeeLength, Least
  <2> QED
    BY <1>3, <2>1, <2>3
<1> QED
  BY <1>2, <1>3

LEMMA TeeChunkIInv ==
  IInv /\ demo = "splice" /\ TeeChunk /\ UNCHANGED <<demo, buf>> => IInv'
<1> SUFFICES ASSUME IInv, demo = "splice", TeeChunk, UNCHANGED <<demo, buf>>
             PROVE  IInv'
  OBVIOUS
<1>1. /\ pc = "tee" /\ Teed > 0
      /\ UNCHANGED <<demo, cur, bound, source, sent, reach, taken, peer, out, n, main_p>>
  BY DEF TeeChunk
<1>2. Teed = n /\ n # -1 /\ InChunk
  BY <1>1, TeedIsChunk
<1>3. pc' = "sub0" /\ sub_p' = Joined(sub_p, Part(main_p, 1, n))
  BY <1>2 DEF TeeChunk, Assert
<1>4. /\ PeersTypeOK /\ Arrival
      /\ main_p = Slice(Before, taken) /\ sub_p = <<>>
      /\ n <= PipeCap
      /\ Given(Before, Before)
  BY <1>1, <1>2 DEF IInv, SpliceForm
<1>5. sub_p' = main_p /\ main_p \in Seq(Nat)
  <2>1. Part(main_p, 1, n) = main_p /\ main_p \in Seq(Nat)
    BY <1>2, <1>4, ChunkFacts DEF PeersTypeOK
  <2> QED
    BY <1>3, <1>4, <2>1, JoinedEmpty
<1>6. InChunk' /\ Before' = Before /\ Given(Before, Before)'
  BY <1>1, <1>2, <1>4 DEF InChunk, Before, Given
<1>7. SpliceForm'
  BY <1>1, <1>3, <1>4, <1>5, <1>6 DEF SpliceForm
<1>8. PeersTypeOK' /\ Arrival'
  BY <1>1, <1>4 DEF PeersTypeOK, Arrival
<1> QED
  BY <1>1, <1>2, <1>3, <1>7, <1>8 DEF IInv, Starting

(* A subscriber that lacks the chunk gets the first r bytes of it. *)
LEMMA GiveFront ==
  ASSUME taken \in Nat, InChunk, out \in [Subscribers -> Seq(Nat)],
         NEW s \in Subscribers, out[s] = Upto(Before),
         NEW r \in Nat, r <= n,
         out' = [out EXCEPT ![s] = Joined(@, Part(Slice(Before, taken), 1, r))]
  PROVE  /\ out' = [out EXCEPT ![s] = Upto(Before + r)]
         /\ out' \in [Subscribers -> Seq(Nat)]
         /\ Before + r \in Nat /\ Before <= Before + r /\ Before + r <= taken
<1>1. /\ n \in Nat /\ Before \in Nat /\ Before <= taken /\ taken - Before = n
      /\ Before + n = taken
  BY ChunkFacts
<1>2. Joined(Upto(Before), Part(Slice(Before, taken), 1, r)) = Upto(Before + r)
  BY <1>1, UptoExtendByFront
<1>3. Before + r \in Nat /\ Before <= Before + r /\ Before + r <= taken
  BY <1>1
<1>4. Upto(Before + r) \in Seq(Nat)
  BY <1>3, UptoType
<1>5. out' = [out EXCEPT ![s] = Upto(Before + r)]
  BY <1>2
<1> QED
  BY <1>3, <1>4, <1>5

(* splice() of sub_p to subscriber 0. *)
LEMMA SpliceToSub0IInv ==
  IInv /\ demo = "splice" /\ SpliceToSub0 /\ UNCHANGED <<demo, buf>> => IInv'
<1> SUFFICES ASSUME IInv, demo = "splice", SpliceToSub0, UNCHANGED <<demo, buf>>
             PROVE  IInv'
  OBVIOUS
<1> USE PeersAssumption
<1>1. /\ pc = "sub0"
      /\ UNCHANGED <<demo, cur, bound, source, sent, reach, taken, peer, n, main_p>>
  BY DEF SpliceToSub0
<1>2. /\ PeersTypeOK /\ Arrival /\ InChunk /\ n <= PipeCap
      /\ main_p = Slice(Before, taken) /\ sub_p = Slice(Before, taken)
      /\ main_p \in Seq(Nat)
      /\ Given(Before, Before)
  BY <1>1 DEF IInv, SpliceForm
<1>3. /\ n \in Nat \ {0} /\ n <= Chunk
      /\ taken \in Nat /\ Before \in Nat /\ Before <= taken
      /\ taken - Before = n /\ Before + n = taken
      /\ Len(sub_p) = n /\ Rest(sub_p, n) = <<>>
  BY <1>2, ChunkFacts DEF PeersTypeOK
<1>4. PICK r \in Accepted(0, n) :
        /\ out' = [out EXCEPT ![0] = Joined(@, Part(sub_p, 1, r))]
        /\ sub_p' = Rest(sub_p, r)
        /\ pc' = IF r = n THEN "sub1" ELSE "aborted"
  <2>1. Least(n, Len(sub_p)) = n
    BY <1>3 DEF Least
  <2> QED
    BY <2>1 DEF SpliceToSub0, Assert
<1>5. r \in Nat /\ r <= n
  BY <1>3, <1>4, AcceptedBound
<1>6. /\ out' = [out EXCEPT ![0] = Upto(Before + r)]
      /\ out' \in [Subscribers -> Seq(Nat)]
      /\ Before + r \in Nat /\ Before <= Before + r
  <2>1. /\ out \in [Subscribers -> Seq(Nat)]
        /\ 0 \in Subscribers
        /\ out[0] = Upto(Before)
        /\ out' = [out EXCEPT ![0] = Joined(@, Part(Slice(Before, taken), 1, r))]
    BY <1>2, <1>4 DEF PeersTypeOK, Subscribers, Given
  <2> QED
    BY <1>2, <1>3, <1>5, <2>1, GiveFront
<1>7. Before' = Before /\ InChunk'
  BY <1>1, <1>2 DEF Before, InChunk
<1>8. out'[0] = Upto(Before + r) /\ out'[1] = Upto(Before)
  BY <1>2, <1>6 DEF Given, PeersTypeOK, Subscribers
<1>9. PeersTypeOK' /\ Arrival'
  BY <1>1, <1>2, <1>6 DEF PeersTypeOK, Arrival
<1>10. sub_p' \in Seq(Nat)
  BY <1>2, <1>3, <1>4, <1>5, RestType
<1>11. CASE r = n
  <2>1. pc' = "sub1" /\ sub_p' = <<>>
    BY <1>3, <1>4, <1>11
  <2>2. Given(taken, Before)'
    BY <1>1, <1>3, <1>7, <1>8, <1>11 DEF Given
  <2>3. SpliceForm'
    BY <1>1, <1>2, <1>7, <1>10, <2>1, <2>2 DEF SpliceForm
  <2> QED
    BY <1>1, <1>9, <2>1, <2>3 DEF IInv, Starting
<1>12. CASE r # n
  <2>1. pc' = "aborted"
    BY <1>4, <1>12
  <2>2. SkewWithinOneChunk'
    <3>1. Len(out'[0]) = Before + r /\ Len(out'[1]) = Before
      BY <1>3, <1>6, <1>8, UptoType
    <3> QED
      BY <1>3, <1>5, <1>6, <3>1
         DEF SkewWithinOneChunk, Naive!SkewWithinOneChunk
  <2>3. SpliceForm'
    BY <1>1, <1>2, <1>10, <2>1 DEF SpliceForm
  <2> QED
    BY <1>1, <1>9, <2>1, <2>2, <2>3 DEF IInv, Starting
<1> QED
  BY <1>11, <1>12

(* splice() of main_p to subscriber 1. *)
LEMMA SpliceToSub1IInv ==
  IInv /\ demo = "splice" /\ SpliceToSub1 /\ UNCHANGED <<demo, buf>> => IInv'
<1> SUFFICES ASSUME IInv, demo = "splice", SpliceToSub1, UNCHANGED <<demo, buf>>
             PROVE  IInv'
  OBVIOUS
<1> USE PeersAssumption
<1>1. /\ pc = "sub1"
      /\ UNCHANGED <<demo, cur, bound, source, sent, reach, taken, peer, n, sub_p>>
  BY DEF SpliceToSub1
<1>2. /\ PeersTypeOK /\ Arrival /\ InChunk
      /\ main_p = Slice(Before, taken) /\ sub_p = <<>>
      /\ main_p \in Seq(Nat)
      /\ Given(taken, Before)
  BY <1>1 DEF IInv, SpliceForm
<1>3. /\ n \in Nat \ {0} /\ n <= Chunk
      /\ taken \in Nat /\ Before \in Nat /\ Before <= taken
      /\ taken - Before = n /\ Before + n = taken
      /\ Len(main_p) = n /\ Rest(main_p, n) = <<>>
  BY <1>2, ChunkFacts DEF PeersTypeOK
<1>4. PICK r \in Accepted(1, n) :
        /\ out' = [out EXCEPT ![1] = Joined(@, Part(main_p, 1, r))]
        /\ main_p' = Rest(main_p, r)
        /\ pc' = IF r = n THEN "fill" ELSE "aborted"
  <2>1. Least(n, Len(main_p)) = n
    BY <1>3 DEF Least
  <2> QED
    BY <2>1 DEF SpliceToSub1, Assert
<1>5. r \in Nat /\ r <= n
  BY <1>3, <1>4, AcceptedBound
<1>6. /\ out' = [out EXCEPT ![1] = Upto(Before + r)]
      /\ out' \in [Subscribers -> Seq(Nat)]
      /\ Before + r \in Nat /\ Before + r <= taken
  <2>1. /\ out \in [Subscribers -> Seq(Nat)]
        /\ 1 \in Subscribers
        /\ out[1] = Upto(Before)
        /\ out' = [out EXCEPT ![1] = Joined(@, Part(Slice(Before, taken), 1, r))]
    BY <1>2, <1>4 DEF PeersTypeOK, Subscribers, Given
  <2> QED
    BY <1>2, <1>3, <1>5, <2>1, GiveFront
<1>7. out'[0] = Upto(taken) /\ out'[1] = Upto(Before + r)
  BY <1>2, <1>6 DEF Given, PeersTypeOK, Subscribers
<1>8. PeersTypeOK' /\ Arrival'
  BY <1>1, <1>2, <1>6 DEF PeersTypeOK, Arrival
<1>9. main_p' \in Seq(Nat)
  BY <1>2, <1>3, <1>4, <1>5, RestType
<1>10. CASE r = n
  <2>1. pc' = "fill" /\ main_p' = <<>>
    BY <1>3, <1>4, <1>10
  <2>2. AllGiven'
    BY <1>1, <1>3, <1>7, <1>10 DEF AllGiven, Given
  <2>3. SpliceForm'
    BY <1>1, <1>2, <1>9, <2>1, <2>2 DEF SpliceForm
  <2> QED
    BY <1>1, <1>8, <2>1, <2>3 DEF IInv, Starting
<1>11. CASE r # n
  <2>1. pc' = "aborted"
    BY <1>4, <1>11
  <2>2. SkewWithinOneChunk'
    <3>1. Len(out'[0]) = taken /\ Len(out'[1]) = Before + r
      BY <1>3, <1>6, <1>7, UptoType
    <3> QED
      BY <1>3, <1>5, <1>6, <3>1 DEF SkewWithinOneChunk, Naive!SkewWithinOneChunk
  <2>3. SpliceForm'
    BY <1>1, <1>2, <1>9, <2>1 DEF SpliceForm
  <2> QED
    BY <1>1, <1>8, <2>1, <2>2, <2>3 DEF IInv, Starting
<1> QED
  BY <1>10, <1>11

-----------------------------------------------------------------------------
(* proxy_naive.c *)

(* read() of a chunk. *)
LEMMA ReadSomeIInv ==
  IInv /\ demo = "naive" /\ Naive!ReadSome /\ UNCHANGED <<demo, main_p, sub_p>>
    => IInv'
<1> SUFFICES ASSUME IInv, demo = "naive", Naive!ReadSome,
                    UNCHANGED <<demo, main_p, sub_p>>
             PROVE  IInv'
  OBVIOUS
<1> USE PeersAssumption
<1>1. /\ pc = "read" /\ pc' = "write"
      /\ UNCHANGED <<demo, cur, bound, source, sent, reach, peer, out>>
  BY DEF Naive!ReadSome
<1>2. PeersTypeOK /\ Arrival /\ AllGiven /\ cur = 0
  BY <1>1 DEF IInv, NaiveForm
<1>3. PICK m \in Arriving(Chunk) :
        /\ n' = m
        /\ buf' = Slice(taken, taken + m)
        /\ taken' = taken + m
  BY NaiveStreams DEF Naive!ReadSome
<1>4. m \in Nat \ {0} /\ m <= Chunk /\ taken + m <= reach /\ taken \in Nat
  BY <1>2, <1>3, ArrivingBound DEF PeersTypeOK
<1>5. buf' \in Seq(Nat)
  BY <1>3, <1>4, ChunkType
<1>6. Before' = taken
  BY <1>3, <1>4 DEF Before
<1>7. NaiveForm'
  <2>1. InChunk' /\ n' # -1
    BY <1>3, <1>4 DEF InChunk
  <2>2. Given(Before, Before)' /\ cur' = 0
    BY <1>1, <1>2, <1>6 DEF AllGiven, Given
  <2>3. buf' = Slice(Before', taken')
    BY <1>3, <1>6
  <2> QED
    BY <1>1, <1>5, <2>1, <2>2, <2>3 DEF NaiveForm
<1>8. PeersTypeOK' /\ Arrival' /\ n' \in Nat
  BY <1>1, <1>2, <1>3, <1>4 DEF PeersTypeOK, Arrival
<1> QED
  BY <1>1, <1>7, <1>8 DEF IInv, Starting

(* read() fails or meets the end of the stream, or write() is given the    *)
(* length (size_t)-1.                                                      *)
LEMMA ReadNothingIInv ==
  /\ IInv /\ demo = "naive"
  /\ Naive!ReadError \/ Naive!ReadEof \/ Naive!WriteNothing
  /\ UNCHANGED <<demo, main_p, sub_p>>
  => IInv'
<1> SUFFICES ASSUME IInv, demo = "naive",
                    Naive!ReadError \/ Naive!ReadEof \/ Naive!WriteNothing,
                    UNCHANGED <<demo, main_p, sub_p>>
             PROVE  IInv'
  OBVIOUS
<1>1. /\ pc = "read" \/ (pc = "write" /\ n = -1)
      /\ UNCHANGED <<demo, bound, sent, reach, taken, peer, out, buf>>
  BY DEF Naive!ReadError, Naive!ReadEof, Naive!WriteNothing
<1>2. /\ PeersTypeOK /\ Arrival /\ AllGiven
      /\ buf \in Seq(Nat)
      /\ pc = "read" => cur = 0
  BY <1>1 DEF IInv, NaiveForm
<1>3. AllGiven'
  BY <1>1, <1>2 DEF AllGiven, Given
<1>4. CASE Naive!ReadError
  <2>1. /\ pc' = "write" /\ n' = -1 /\ source' = "dead" /\ source = "reset"
        /\ cur' = cur
    BY <1>4 DEF Naive!ReadError, Naive!AtError
  <2>2. PeersTypeOK' /\ Arrival'
    BY <1>1, <1>2, <2>1 DEF PeersTypeOK, Arrival, SourceStates
  <2>3. NaiveForm'
    BY <1>1, <1>2, <1>3, <2>1 DEF NaiveForm
  <2> QED
    BY <1>1, <2>1, <2>2, <2>3 DEF IInv, Starting
<1>5. CASE Naive!ReadEof
  <2>1. pc' = "done" /\ n' = 0 /\ source' = source /\ cur' = cur /\ AtEnd
    BY <1>5, NaiveStreams DEF Naive!ReadEof
  <2>2. PeersTypeOK' /\ Arrival' /\ AtEnd'
    BY <1>1, <1>2, <2>1 DEF PeersTypeOK, Arrival, AtEnd
  <2>3. NaiveForm'
    BY <1>1, <1>2, <1>3, <2>1 DEF NaiveForm
  <2> QED
    BY <1>1, <1>3, <2>1, <2>2, <2>3 DEF IInv, Starting
<1>6. CASE Naive!WriteNothing
  <2>1. /\ n = -1 /\ n' = n /\ source' = source
        /\ cur' = NextSubscriber
        /\ pc' = IF cur = 1 THEN "read" ELSE "write"
    BY <1>6, NaiveStreams DEF Naive!WriteNothing, Naive!Written, Naive!Assert
  <2>2. cur' \in Subscribers /\ (cur = 1 => cur' = 0)
    BY <2>1 DEF NextSubscriber, Subscribers
  <2>3. PeersTypeOK' /\ Arrival'
    BY <1>1, <1>2, <2>1, <2>2 DEF PeersTypeOK, Arrival
  <2>4. NaiveForm'
    BY <1>1, <1>2, <1>3, <2>1, <2>2 DEF NaiveForm
  <2> QED
    BY <1>1, <2>1, <2>3, <2>4 DEF IInv, Starting
<1> QED
  BY <1>4, <1>5, <1>6

(* write() of the chunk to subscriber cur. *)
LEMMA WriteChunkIInv ==
  IInv /\ demo = "naive" /\ Naive!WriteChunk /\ UNCHANGED <<demo, main_p, sub_p>>
    => IInv'
<1> SUFFICES ASSUME IInv, demo = "naive", Naive!WriteChunk,
                    UNCHANGED <<demo, main_p, sub_p>>
             PROVE  IInv'
  OBVIOUS
<1> USE PeersAssumption
<1>1. /\ pc = "write" /\ n > 0
      /\ UNCHANGED <<demo, bound, source, sent, reach, taken, peer, n, buf>>
  BY DEF Naive!WriteChunk
<1>2. /\ PeersTypeOK /\ Arrival /\ InChunk
      /\ buf = Slice(Before, taken) /\ buf \in Seq(Nat)
      /\ Given(IF cur = 1 THEN taken ELSE Before, Before)
  BY <1>1 DEF IInv, NaiveForm
<1>3. /\ n \in Nat \ {0} /\ n <= Chunk
      /\ taken \in Nat /\ Before \in Nat /\ Before <= taken
      /\ taken - Before = n /\ Before + n = taken
  BY <1>2, ChunkFacts DEF PeersTypeOK
<1>4. PICK w \in Accepted(cur, n) :
        /\ out' = [out EXCEPT ![cur] = Joined(@, Part(buf, 1, w))]
        /\ IF w = n THEN /\ cur' = NextSubscriber
                         /\ pc' = IF cur = 1 THEN "read" ELSE "write"
                    ELSE cur' = cur /\ pc' = "aborted"
  BY NaiveStreams DEF Naive!WriteChunk, Naive!Written, Naive!Assert
<1>5. w \in Nat /\ w <= n
  BY <1>3, <1>4, AcceptedBound
<1>6. cur \in {0, 1}
  BY <1>2 DEF PeersTypeOK, Subscribers
<1>7. /\ out' = [out EXCEPT ![cur] = Upto(Before + w)]
      /\ out' \in [Subscribers -> Seq(Nat)]
      /\ Before + w \in Nat /\ Before <= Before + w /\ Before + w <= taken
  <2>1. /\ out \in [Subscribers -> Seq(Nat)]
        /\ cur \in Subscribers
        /\ out[cur] = Upto(Before)
        /\ out' = [out EXCEPT ![cur] = Joined(@, Part(Slice(Before, taken), 1, w))]
    BY <1>2, <1>4, <1>6 DEF PeersTypeOK, Subscribers, Given
  <2> QED
    BY <1>2, <1>3, <1>5, <2>1, GiveFront
<1>8. /\ cur = 0 => out'[0] = Upto(Before + w) /\ out'[1] = Upto(Before)
      /\ cur = 1 => out'[0] = Upto(taken) /\ out'[1] = Upto(Before + w)
  BY <1>2, <1>7 DEF Given, PeersTypeOK, Subscribers
<1>9. Before' = Before /\ InChunk'
  BY <1>1, <1>2 DEF Before, InChunk
<1>10. PeersTypeOK' /\ Arrival'
  <2>1. cur' \in Subscribers
    BY <1>4, <1>6 DEF NextSubscriber, Subscribers
  <2> QED
    BY <1>1, <1>2, <1>7, <2>1 DEF PeersTypeOK, Arrival
<1>11. CASE w = n /\ cur = 0
  <2>1. pc' = "write" /\ cur' = 1
    BY <1>4, <1>11 DEF NextSubscriber
  <2>2. Given(taken, Before)'
    BY <1>1, <1>3, <1>8, <1>9, <1>11 DEF Given
  <2>3. NaiveForm'
    BY <1>1, <1>2, <1>3, <1>9, <2>1, <2>2 DEF NaiveForm
  <2> QED
    BY <1>1, <1>10, <2>1, <2>3 DEF IInv, Starting
<1>12. CASE w = n /\ cur = 1
  <2>1. pc' = "read" /\ cur' = 0
    BY <1>4, <1>12 DEF NextSubscriber
  <2>2. AllGiven'
    BY <1>1, <1>3, <1>8, <1>12 DEF AllGiven, Given
  <2>3. NaiveForm'
    BY <1>1, <1>2, <2>1, <2>2 DEF NaiveForm
  <2> QED
    BY <1>1, <1>10, <2>1, <2>3 DEF IInv, Starting
<1>13. CASE w # n
  <2>1. pc' = "aborted"
    BY <1>4, <1>13
  <2>2. SkewWithinOneChunk'
    <3>1. /\ Len(Upto(Before)) = Before /\ Len(Upto(taken)) = taken
          /\ Len(Upto(Before + w)) = Before + w
      BY <1>3, <1>7, UptoType
    <3>2. CASE cur = 0
      BY <1>3, <1>5, <1>7, <1>8, <3>1, <3>2
         DEF SkewWithinOneChunk, Naive!SkewWithinOneChunk
    <3>3. CASE cur = 1
      BY <1>3, <1>5, <1>7, <1>8, <3>1, <3>3
         DEF SkewWithinOneChunk, Naive!SkewWithinOneChunk
    <3> QED
      BY <1>6, <3>2, <3>3
  <2>3. NaiveForm'
    BY <1>1, <1>2, <2>1 DEF NaiveForm
  <2> QED
    BY <1>1, <1>10, <2>1, <2>2, <2>3 DEF IInv, Starting
<1> QED
  BY <1>6, <1>11, <1>12, <1>13

LEMMA NextIInv == IInv /\ [ProxiesNext]_proxiesVars => IInv'
<1> SUFFICES ASSUME IInv, [ProxiesNext]_proxiesVars PROVE IInv'
  OBVIOUS
<1>1. CASE demo = "naive" /\ Naive!Next /\ UNCHANGED <<demo, main_p, sub_p>>
  <2>1. CASE Naive!Start("read") /\ UNCHANGED <<n, buf>>
    BY <1>1, <2>1, NaiveStart, StartIInv DEF pipes
  <2>2. CASE Naive!Others /\ UNCHANGED <<n, buf>>
    BY <1>1, <2>2, NaiveOthers, OthersIInv DEF pipes
  <2> QED
    BY <1>1, <2>1, <2>2, ReadSomeIInv, ReadNothingIInv, WriteChunkIInv
       DEF Naive!Next, Naive!Program
<1>2. CASE demo = "splice" /\ Next /\ UNCHANGED <<demo, buf>>
  <2>1. CASE Start("fill") /\ UNCHANGED pipes
    BY <1>2, <2>1, StartIInv
  <2>2. CASE Others /\ UNCHANGED pipes
    BY <1>2, <2>2, OthersIInv
  <2> QED
    BY <1>2, <2>1, <2>2, FillMainIInv, FillNothingIInv, TeeChunkIInv,
       SpliceToSub0IInv, SpliceToSub1IInv
       DEF Next, Program
<1>3. CASE UNCHANGED proxiesVars
  <2>1. UNCHANGED <<pc, cur, bound, source, sent, reach, taken, peer, out, n,
                    main_p, sub_p, buf, demo>>
    BY <1>3 DEF proxiesVars, vars, pipes
  <2>2. /\ SpliceForm' = SpliceForm
        /\ NaiveForm' = NaiveForm
        /\ AllGiven' = AllGiven
        /\ AtEnd' = AtEnd
        /\ Starting' = Starting
        /\ SkewWithinOneChunk' = SkewWithinOneChunk
    BY <2>1 DEF SpliceForm, NaiveForm, AllGiven, Given, InChunk, Before, AtEnd,
                Starting, SkewWithinOneChunk, Naive!SkewWithinOneChunk
  <2>3. PeersTypeOK' = PeersTypeOK /\ Arrival' = Arrival
    BY <2>1 DEF PeersTypeOK, Arrival
  <2> QED
    BY <2>1, <2>2, <2>3 DEF IInv
<1> QED
  BY <1>1, <1>2, <1>3 DEF ProxiesNext

(* The inductive invariant holds in every state of both programs. *)
THEOREM Invariance == ProxiesSpec => []IInv
BY InitIInv, NextIInv, PTL DEF ProxiesSpec

(* The variables keep their types: proxy.c and proxy_naive.c each stay in  *)
(* the steps of their own loop.                                            *)
THEOREM TypeCorrect ==
  ProxiesSpec => [](/\ demo = "splice" => TypeOK
                    /\ demo = "naive" => Naive!TypeOK)
<1>1. IInv /\ demo = "splice" => TypeOK
  BY DEF IInv, SpliceForm, TypeOK
<1>2. IInv /\ demo = "naive" => Naive!TypeOK
  BY DEF IInv, NaiveForm, Naive!TypeOK, PeersTypeOK, Naive!PeersTypeOK,
         Naive!Subscribers, Subscribers, Naive!SourceStates, SourceStates,
         Naive!PeerStates, PeerStates
<1> QED
  BY <1>1, <1>2, Invariance, PTL

-----------------------------------------------------------------------------
(* Safety. *)

(* tee() never returns less than the chunk: assert(t == n) cannot fail.    *)
THEOREM TeeComplete == ProxiesSpec => []TeeNeverShort
<1>1. IInv => TeeNeverShort
  <2> SUFFICES ASSUME IInv PROVE TeeNeverShort
    OBVIOUS
  <2>1. demo = "naive" => pc \notin {"fill", "tee"}
    BY DEF IInv, NaiveForm
  <2>2. demo \in {"naive", "splice"}
    BY DEF IInv
  <2>3. pc = "fill" => main_p = <<>> /\ sub_p = <<>>
    BY <2>1, <2>2 DEF IInv, SpliceForm
  <2>4. pc = "tee" /\ n # -1 => Teed = n
    BY <2>1, <2>2, TeedIsChunk
  <2> QED
    BY <2>3, <2>4 DEF TeeNeverShort
<1> QED
  BY <1>1, Invariance, PTL

(* No byte is lost or repeated between the source, the two pipes and the   *)
(* two subscribers.                                                        *)
THEOREM PipesComplete == ProxiesSpec => []PipesHoldTheRest
<1>1. IInv => PipesHoldTheRest
  <2> SUFFICES ASSUME IInv, pc \in {"fill", "tee", "sub0", "sub1"}
               PROVE  /\ Joined(out[1], main_p) = Upto(taken)
                      /\ pc # "tee" => Joined(out[0], sub_p) = Upto(taken)
    BY DEF PipesHoldTheRest
  <2>1. demo = "splice" /\ SpliceForm /\ taken \in Nat
    BY DEF IInv, NaiveForm, PeersTypeOK
  <2>2. /\ Upto(taken) \in Seq(Nat)
        /\ Joined(Upto(taken), <<>>) = Upto(taken)
    BY <2>1, UptoType, JoinedEmpty
  <2>3. CASE pc = "fill" \/ (pc = "tee" /\ n = -1)
    BY <2>1, <2>2, <2>3 DEF SpliceForm, AllGiven, Given
  <2>4. CASE pc \in {"sub0", "sub1"} \/ (pc = "tee" /\ n # -1)
    <3>1. InChunk /\ main_p = Slice(Before, taken) /\ out[1] = Upto(Before)
      BY <2>1, <2>4 DEF SpliceForm, Given
    <3>2. Before \in Nat /\ Before <= taken
      BY <2>1, <3>1, ChunkFacts
    <3>3. Joined(Upto(Before), Slice(Before, taken)) = Upto(taken)
      BY <2>1, <3>2, UptoExtend
    <3>4. pc = "sub0" => out[0] = Upto(Before) /\ sub_p = Slice(Before, taken)
      BY <2>1, <3>1 DEF SpliceForm, Given
    <3>5. pc = "sub1" => out[0] = Upto(taken) /\ sub_p = <<>>
      BY <2>1 DEF SpliceForm, Given
    <3> QED
      BY <2>2, <2>4, <3>1, <3>3, <3>4, <3>5
  <2> QED
    BY <2>3, <2>4
<1> QED
  BY <1>1, Invariance, PTL

(* Subscriber 1 is behind subscriber 0, by one chunk at most, wherever an  *)
(* assert ends the program.                                                *)
THEOREM SkewBounded == ProxiesSpec => []SkewWithinOneChunk
<1>1. IInv => SkewWithinOneChunk
  <2> SUFFICES ASSUME IInv, pc # "aborted" PROVE SkewWithinOneChunk
    BY DEF IInv
  <2> USE PeersAssumption
  <2>1. taken \in Nat /\ demo \in {"naive", "splice"}
    BY DEF IInv, PeersTypeOK
  <2>2. AllGiven \/ (InChunk /\ (Given(Before, Before) \/ Given(taken, Before)))
    <3>1. CASE demo = "splice"
      BY <3>1 DEF IInv, SpliceForm, Starting
    <3>2. CASE demo = "naive"
      BY <3>2 DEF IInv, NaiveForm, Starting
    <3> QED
      BY <2>1, <3>1, <3>2
  <2>3. CASE AllGiven
    BY <2>1, <2>3, GivenSkew DEF AllGiven
  <2>4. CASE InChunk /\ (Given(Before, Before) \/ Given(taken, Before))
    <3>1. /\ Before \in Nat /\ Before <= taken /\ taken - Before <= Chunk
          /\ Before - Before <= Chunk
      BY <2>1, <2>4, ChunkFacts
    <3> QED
      BY <2>1, <2>4, <3>1, GivenSkew
  <2> QED
    BY <2>2, <2>3, <2>4
<1> QED
  BY <1>1, Invariance, PTL

-----------------------------------------------------------------------------
(* Refinement. *)

LEMMA AbsUpto == ASSUME NEW k PROVE Abs!Upto(k) = Upto(k)
BY DEF Abs!Upto, Abs!Slice, Upto, Slice

LEMMA InitRefines == ProxiesInit => Abs!Init
BY DEF ProxiesInit, Init, PeersInit, Abs!Init, Status

(* The calls that hand a chunk to a subscriber: whole, in part, or not at  *)
(* all.                                                                    *)
LEMMA TransferRefines ==
  ASSUME IInv, InChunk, NEW s \in Subscribers, out[s] = Upto(Before),
         NEW r \in Nat, r <= n,
         out' = [out EXCEPT ![s] = Joined(@, Part(Slice(Before, taken), 1, r))],
         UNCHANGED <<source, sent>>,
         Status = "running",
         IF r = n THEN Status' = "running" ELSE Status' = "aborted"
  PROVE  Abs!Next
<1>1. /\ taken \in Nat /\ sent \in Nat /\ reach \in Nat
      /\ taken <= sent /\ out \in [Subscribers -> Seq(Nat)]
  BY DEF IInv, PeersTypeOK, Arrival
<1>2. /\ out' = [out EXCEPT ![s] = Upto(Before + r)]
      /\ Before + r \in Nat /\ Before + r <= taken
      /\ Before \in Nat
  BY <1>1, GiveFront, ChunkFacts
<1>3. CASE r = 0
  <2>1. out' = out
    <3>1. Before + r = Before
      BY <1>2, <1>3
    <3> QED
      BY <1>1, <1>2, <3>1
  <2>2. Status' = "aborted"
    BY <1>1, <1>3, ChunkFacts
  <2> QED
    BY <2>1, <2>2 DEF Abs!Next, Abs!Abort
<1>4. CASE r > 0
  <2>1. Len(out[s]) = Before
    BY <1>2, UptoType
  <2>2. Before + r \in (Len(out[s]) + 1)..sent
    BY <1>1, <1>2, <1>4, <2>1
  <2>3. out' = [out EXCEPT ![s] = Abs!Upto(Before + r)]
    BY <1>2, AbsUpto
  <2>4. Status' \in {"running", "aborted"}
    OBVIOUS
  <2>5. Abs!Deliver(s)
    BY <2>2, <2>3, <2>4 DEF Abs!Deliver
  <2> QED
    BY <2>5 DEF Abs!Next
<1> QED
  BY <1>3, <1>4

LEMMA OthersRefine ==
  IInv /\ IInv' /\ Others => [Abs!Next]_Abs!vars
<1> SUFFICES ASSUME IInv, IInv', Others PROVE [Abs!Next]_Abs!vars
  OBVIOUS
<1>1. pc' = pc /\ out' = out /\ pc \notin {"done", "aborted"}
  BY DEF Others, SourceConnect, SourceSend, SourceClose, SourceReset, PeerLeave,
         Running
<1>2. Status = "running" /\ Status' = "running"
  BY <1>1 DEF Status
<1>3. CASE SourceSend
  <2>1. sent \in Nat /\ sent' \in Nat /\ sent' > sent
    <3>1. PICK k \in 1..(MaxBytes - sent) : sent' = sent + k
      BY <1>3 DEF SourceSend
    <3> QED
      BY <3>1, PeersAssumption DEF IInv, PeersTypeOK
  <2>2. source = "open" /\ source' = "open"
    BY <1>3 DEF SourceSend
  <2> QED
    BY <1>1, <1>2, <2>1, <2>2 DEF Abs!Next, Abs!Send
<1>4. CASE SourceClose
  BY <1>1, <1>2, <1>4 DEF SourceClose, Abs!Next, Abs!End
<1>5. ASSUME SourceConnect \/ SourceReset \/ \E s \in Subscribers : PeerLeave(s)
      PROVE  UNCHANGED Abs!vars
  <2>1. sent' = sent /\ source # "closed" <=> source' # "closed"
    BY <1>5 DEF SourceConnect, SourceReset, PeerLeave
  <2>2. (source' = "closed") = (source = "closed")
    BY <1>5 DEF SourceConnect, SourceReset, PeerLeave
  <2> QED
    BY <1>1, <1>2, <1>5, <2>2 DEF SourceConnect, SourceReset, PeerLeave, Abs!vars
<1> QED
  BY <1>3, <1>4, <1>5 DEF Others

(* The steps of either program that give no subscriber anything. *)
LEMMA QuietRefines ==
  ASSUME IInv, pc \notin {"done", "aborted"}, pc' # "aborted",
         UNCHANGED <<sent, out>>,
         source' = source \/ (source = "reset" /\ source' = "dead"),
         pc' = "done" => AllGiven /\ AtEnd /\ source' = source
  PROVE  [Abs!Next]_Abs!vars
<1>1. Status = "running"
  BY DEF Status
<1>2. (source' = "closed") = (source = "closed")
  OBVIOUS
<1>3. CASE pc' # "done"
  <2>1. Status' = "running"
    BY <1>3 DEF Status
  <2> QED
    BY <1>1, <1>2, <2>1 DEF Abs!vars
<1>4. CASE pc' = "done" /\ source # "closed"
  <2>1. Status' = "aborted"
    BY <1>4 DEF Status
  <2> QED
    BY <1>1, <1>2, <2>1 DEF Abs!Next, Abs!Abort
<1>5. CASE pc' = "done" /\ source = "closed"
  <2>1. Status' = "finished"
    BY <1>5 DEF Status
  <2>2. taken = sent
    BY <1>5 DEF IInv, Arrival, AtEnd
  <2>3. \A s \in Subscribers : out[s] = Abs!Upto(sent)
    BY <1>5, <2>2, AbsUpto DEF AllGiven, Given, Subscribers
  <2> QED
    BY <1>1, <1>2, <1>5, <2>1, <2>3 DEF Abs!Next, Abs!Finish
<1> QED
  BY <1>3, <1>4, <1>5

LEMMA SpliceRefines ==
  IInv /\ IInv' /\ demo = "splice" /\ Next => [Abs!Next]_Abs!vars
<1> SUFFICES ASSUME IInv, IInv', demo = "splice", Next
             PROVE  [Abs!Next]_Abs!vars
  OBVIOUS
<1>1. taken \in Nat
  BY DEF IInv, PeersTypeOK
<1>2. CASE Start("fill")
  BY <1>2, QuietRefines DEF Start, BindAndListen, Accept, ConnectTo
<1>3. CASE FillMain
  BY <1>3, QuietRefines DEF FillMain
<1>4. CASE FillError
  BY <1>4, QuietRefines DEF FillError, AtError
<1>5. CASE FillEof
  <2>1. AllGiven
    BY <1>5 DEF FillEof, IInv, SpliceForm
  <2> QED
    BY <1>5, <2>1, QuietRefines DEF FillEof
<1>6. CASE TeeChunk
  <2>1. Teed = n
    BY <1>6, TeedIsChunk DEF TeeChunk
  <2> QED
    BY <1>6, <2>1, QuietRefines DEF TeeChunk, Assert
<1>7. CASE SpliceToSub0
  <2>1. /\ InChunk /\ out[0] = Upto(Before)
        /\ sub_p = Slice(Before, taken) /\ pc = "sub0"
    BY <1>7 DEF SpliceToSub0, IInv, SpliceForm, Given
  <2>2. n \in Nat /\ Least(n, Len(sub_p)) = n
    BY <1>1, <2>1, ChunkFacts DEF Least
  <2>3. PICK r \in Accepted(0, n) :
          /\ out' = [out EXCEPT ![0] = Joined(@, Part(sub_p, 1, r))]
          /\ pc' = IF r = n THEN "sub1" ELSE "aborted"
    BY <1>7, <2>2 DEF SpliceToSub0, Assert
  <2>4. r \in Nat /\ r <= n
    BY <2>2, <2>3, AcceptedBound
  <2>5. Status = "running" /\ IF r = n THEN Status' = "running" ELSE Status' = "aborted"
    BY <2>1, <2>3 DEF Status
  <2>6. out' = [out EXCEPT ![0] = Joined(@, Part(Slice(Before, taken), 1, r))]
    BY <2>1, <2>3
  <2>7. 0 \in Subscribers /\ UNCHANGED <<source, sent>>
    BY <1>7 DEF SpliceToSub0, Subscribers
  <2> QED
    BY <2>1, <2>4, <2>5, <2>6, <2>7, TransferRefines
<1>8. CASE SpliceToSub1
  <2>1. /\ InChunk /\ out[1] = Upto(Before)
        /\ main_p = Slice(Before, taken) /\ pc = "sub1"
    BY <1>8 DEF SpliceToSub1, IInv, SpliceForm, Given
  <2>2. n \in Nat /\ Least(n, Len(main_p)) = n
    BY <1>1, <2>1, ChunkFacts DEF Least
  <2>3. PICK r \in Accepted(1, n) :
          /\ out' = [out EXCEPT ![1] = Joined(@, Part(main_p, 1, r))]
          /\ pc' = IF r = n THEN "fill" ELSE "aborted"
    BY <1>8, <2>2 DEF SpliceToSub1, Assert
  <2>4. r \in Nat /\ r <= n
    BY <2>2, <2>3, AcceptedBound
  <2>5. Status = "running" /\ IF r = n THEN Status' = "running" ELSE Status' = "aborted"
    BY <2>1, <2>3 DEF Status
  <2>6. out' = [out EXCEPT ![1] = Joined(@, Part(Slice(Before, taken), 1, r))]
    BY <2>1, <2>3
  <2>7. 1 \in Subscribers /\ UNCHANGED <<source, sent>>
    BY <1>8 DEF SpliceToSub1, Subscribers
  <2> QED
    BY <2>1, <2>4, <2>5, <2>6, <2>7, TransferRefines
<1> QED
  BY <1>2, <1>3, <1>4, <1>5, <1>6, <1>7, <1>8, OthersRefine DEF Next, Program

LEMMA NaiveRefines ==
  IInv /\ IInv' /\ demo = "naive" /\ Naive!Next => [Abs!Next]_Abs!vars
<1> SUFFICES ASSUME IInv, IInv', demo = "naive", Naive!Next
             PROVE  [Abs!Next]_Abs!vars
  OBVIOUS
<1>1. taken \in Nat /\ cur \in {0, 1}
  BY DEF IInv, PeersTypeOK, Subscribers
<1>2. CASE Naive!Start("read")
  BY <1>2, NaiveStart, QuietRefines DEF Start, BindAndListen, Accept, ConnectTo
<1>3. CASE Naive!ReadSome
  BY <1>3, QuietRefines DEF Naive!ReadSome
<1>4. CASE Naive!ReadError
  BY <1>4, QuietRefines DEF Naive!ReadError, Naive!AtError
<1>5. CASE Naive!ReadEof
  <2>1. AllGiven /\ AtEnd
    BY <1>5, NaiveStreams DEF Naive!ReadEof, IInv, NaiveForm
  <2> QED
    BY <1>5, <2>1, QuietRefines DEF Naive!ReadEof
<1>6. CASE Naive!WriteNothing
  BY <1>6, QuietRefines DEF Naive!WriteNothing, Naive!Written, Naive!Assert
<1>7. CASE Naive!WriteChunk
  <2>1. /\ InChunk /\ out[cur] = Upto(Before)
        /\ buf = Slice(Before, taken) /\ pc = "write"
    BY <1>1, <1>7 DEF Naive!WriteChunk, IInv, NaiveForm, Given
  <2>2. n \in Nat
    BY <1>1, <2>1, ChunkFacts
  <2>3. PICK w \in Accepted(cur, n) :
          /\ out' = [out EXCEPT ![cur] = Joined(@, Part(buf, 1, w))]
          /\ IF w = n THEN pc' \in {"read", "write"} ELSE pc' = "aborted"
    BY <1>7, NaiveStreams DEF Naive!WriteChunk, Naive!Written, Naive!Assert
  <2>4. w \in Nat /\ w <= n
    BY <2>2, <2>3, AcceptedBound
  <2>5. Status = "running" /\ IF w = n THEN Status' = "running" ELSE Status' = "aborted"
    BY <2>1, <2>3 DEF Status
  <2>6. out' = [out EXCEPT ![cur] = Joined(@, Part(Slice(Before, taken), 1, w))]
    BY <2>1, <2>3
  <2>7. cur \in Subscribers /\ UNCHANGED <<source, sent>>
    BY <1>1, <1>7 DEF Naive!WriteChunk, Subscribers
  <2> QED
    BY <2>1, <2>4, <2>5, <2>6, <2>7, TransferRefines
<1> QED
  BY <1>2, <1>3, <1>4, <1>5, <1>6, <1>7, NaiveOthers, OthersRefine
     DEF Naive!Next, Naive!Program

(* Both proxies implement Broadcast, however much a call transfers and     *)
(* wherever the source or a subscriber is lost: each subscriber has a      *)
(* prefix of the input, and all of it when the program ends normally.      *)
THEOREM Refinement == ProxiesSpec => ImplementsBroadcast
<1>1. IInv /\ IInv' /\ [ProxiesNext]_proxiesVars => [Abs!Next]_Abs!vars
  <2>1. UNCHANGED proxiesVars => UNCHANGED Abs!vars
    BY DEF proxiesVars, vars, Abs!vars, Status
  <2> QED
    BY <2>1, SpliceRefines, NaiveRefines DEF ProxiesNext
<1> QED
  BY <1>1, InitRefines, Invariance, PTL DEF ProxiesSpec, Abs!Spec, ImplementsBroadcast
=============================================================================
