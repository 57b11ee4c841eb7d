-------------------------- MODULE TracerouteProofs --------------------------
(***************************************************************************)
(* Proofs about Traceroute and Checksum: for every width of a word and     *)
(* every header, when checksum() is the Internet checksum; and for every   *)
(* MaxTtl, distance and amount of noise, what the rows of a trace show.    *)
(***************************************************************************)
EXTENDS Traceroute, SequenceTheorems, TLAPS

-----------------------------------------------------------------------------
(* checksum() *)

(* What division by Base leaves of a sum.                                  *)
LEMMA SumParts ==
  ASSUME NEW sum \in Nat
  PROVE  /\ sum % Base \in 0..(Base - 1)
         /\ sum \div Base \in Nat
         /\ sum = Base * (sum \div Base) + (sum % Base)
BY BaseAssumption

(* A receiver accepts the multiples of Base - 1.                           *)
LEMMA AcceptedMultiples ==
  ASSUME NEW total \in Nat
  PROVE  Accepted(total) <=> \E k \in Nat : total = k * (Base - 1)
<1> DEFINE m == Base - 1
           q == total \div m
           r == total % m
<1>1. m \in Nat /\ m > 1
  BY BaseAssumption
<1> HIDE DEF m
<1>2. q \in Nat /\ r \in 0..(m - 1) /\ total = m * q + r
  BY <1>1
<1> HIDE DEF q, r
<1>3. ASSUME r = 0
      PROVE  \E k \in Nat : total = k * m
  <2>1. total = q * m
    BY <1>1, <1>2, <1>3
  <2> QED BY <1>2, <2>1
<1>4. ASSUME NEW k \in Nat, total = k * m
      PROVE  r = 0
  <2>1. r = (k - q) * m
    BY <1>1, <1>2, <1>4
  <2>2. CASE k <= q
    <3>1. (k - q) * m <= 0
      BY <1>1, <1>2, <2>2
    <3> QED BY <1>1, <1>2, <2>1, <3>1
  <2>3. CASE k >= q + 1
    <3>1. (k - q) * m >= m
      BY <1>1, <1>2, <2>3
    <3> QED BY <1>1, <1>2, <2>1, <3>1
  <2> QED BY <1>2, <2>2, <2>3
<1> QED BY <1>3, <1>4 DEF Accepted, m, r

(* If the one fold does not carry again, a receiver accepts the header.    *)
THEOREM ChecksumAccepted ==
  ASSUME NEW sum \in Nat, Fold(sum) < Base
  PROVE  Accepted(sum + Result(sum))
<1> DEFINE lo == sum % Base
           hi == sum \div Base
<1>1. lo \in 0..(Base - 1) /\ hi \in Nat /\ sum = Base * hi + lo
  BY SumParts
<1>2. lo + hi \in 0..(Base - 1)
  BY <1>1, BaseAssumption DEF Fold
<1>3. Fold(sum) % Base = lo + hi
  BY <1>2, BaseAssumption DEF Fold
<1>4. Result(sum) = Base - 1 - (lo + hi)
  BY <1>3 DEF Result, Not
<1> HIDE DEF lo, hi
<1>5. sum + Result(sum) = (hi + 1) * (Base - 1)
  BY <1>1, <1>4, BaseAssumption
<1>6. sum + Result(sum) \in Nat /\ hi + 1 \in Nat
  BY <1>1, <1>2, <1>4, BaseAssumption
<1> QED BY <1>5, <1>6, AcceptedMultiples

(* If the fold carries again, the carry is lost and every receiver rejects *)
(* the header.  A header of fewer than Base words carries once at most.    *)
THEOREM ChecksumRejected ==
  ASSUME NEW sum \in Nat, sum \div Base < Base, Fold(sum) >= Base
  PROVE  ~Accepted(sum + Result(sum))
<1> DEFINE lo == sum % Base
           hi == sum \div Base
<1>1. lo \in 0..(Base - 1) /\ hi \in Nat /\ sum = Base * hi + lo
  BY SumParts
<1>2. lo + hi - Base \in 0..(Base - 1)
  BY <1>1, BaseAssumption DEF Fold
<1>3. Fold(sum) % Base = lo + hi - Base
  <2>1. Fold(sum) = Base + (lo + hi - Base)
    BY <1>1, BaseAssumption DEF Fold
  <2> QED BY <1>2, <2>1, BaseAssumption
<1>4. Result(sum) = 2 * Base - 1 - (lo + hi)
  BY <1>1, <1>3, BaseAssumption DEF Result, Not
<1> HIDE DEF lo, hi
<1>5. sum + Result(sum) = (hi + 2) * (Base - 1) + 1
  BY <1>1, <1>4, BaseAssumption
<1> SUFFICES ASSUME NEW k \in Nat, k * (Base - 1) = (hi + 2) * (Base - 1) + 1
             PROVE  FALSE
  <2>1. sum + Result(sum) \in Nat
    BY <1>1, <1>2, <1>4, BaseAssumption
  <2> QED BY <1>5, <2>1, AcceptedMultiples
<1>6. CASE k <= hi + 2
  <2>1. k * (Base - 1) <= (hi + 2) * (Base - 1)
    BY <1>1, <1>6, BaseAssumption
  <2> QED BY <2>1, <1>1, BaseAssumption
<1>7. CASE k >= hi + 3
  <2>1. k * (Base - 1) >= (hi + 3) * (Base - 1)
    BY <1>1, <1>7, BaseAssumption
  <2>2. (hi + 3) * (Base - 1) = (hi + 2) * (Base - 1) + (Base - 1)
    BY <1>1, BaseAssumption
  <2> QED BY <2>1, <2>2, <1>1, BaseAssumption
<1> QED BY <1>1, <1>6, <1>7

-----------------------------------------------------------------------------
(* The sum of the four words of a header.  SumFunction() takes them in an  *)
(* order of its own.                                                       *)

Words == 1..4

(* What is to be added for the words of s, in order. *)
InOrder(fn, s) ==
  (IF 1 \in s THEN fn[1] ELSE 0) + (IF 2 \in s THEN fn[2] ELSE 0) +
  (IF 3 \in s THEN fn[3] ELSE 0) + (IF 4 \in s THEN fn[4] ELSE 0)

Pick(s) == CHOOSE x \in s : TRUE

(* The recursive function that SumFunction() is defined by. *)
Iterates(iter, fn) ==
  iter = [s \in SUBSET Words |->
            IF s = {} THEN 0 ELSE fn[Pick(s)] + iter[s \ {Pick(s)}]]

LEMMA InOrderStep ==
  ASSUME NEW fn \in [Words -> Nat], NEW s \in SUBSET Words, NEW x \in s
  PROVE  InOrder(fn, s) = fn[x] + InOrder(fn, s \ {x})
<1>1. fn[1] \in Nat /\ fn[2] \in Nat /\ fn[3] \in Nat /\ fn[4] \in Nat
  BY DEF Words
<1>2. x = 1 \/ x = 2 \/ x = 3 \/ x = 4
  BY DEF Words
<1>3. CASE x = 1
  BY <1>1, <1>3 DEF InOrder
<1>4. CASE x = 2
  BY <1>1, <1>4 DEF InOrder
<1>5. CASE x = 3
  BY <1>1, <1>5 DEF InOrder
<1>6. CASE x = 4
  BY <1>1, <1>6 DEF InOrder
<1> QED
  BY <1>2, <1>3, <1>4, <1>5, <1>6

LEMMA PickIsIn == ASSUME NEW s, s # {} PROVE Pick(s) \in s
BY DEF Pick

LEMMA SumOfWords ==
  ASSUME NEW fn \in [Words -> Nat]
  PROVE  SumFunction(fn) = fn[1] + fn[2] + fn[3] + fn[4]
<1> DEFINE iter == CHOOSE iter : Iterates(iter, fn)
           W == [s \in SUBSET Words |-> InOrder(fn, s)]
<1>1. SumFunction(fn) = iter[Words]
  BY DEF SumFunction, SumFunctionOnSet, FoldFunctionOnSet, MapThenFoldSet,
         Iterates, Pick
<1>2. Iterates(W, fn)
  <2>1. ASSUME NEW s \in SUBSET Words
        PROVE  InOrder(fn, s) =
                 IF s = {} THEN 0 ELSE fn[Pick(s)] + W[s \ {Pick(s)}]
    <3>1. CASE s = {}
      BY <3>1 DEF InOrder
    <3>2. CASE s # {}
      <4>1. Pick(s) \in s /\ s \ {Pick(s)} \in SUBSET Words
        BY <3>2, PickIsIn
      <4>2. W[s \ {Pick(s)}] = InOrder(fn, s \ {Pick(s)})
        BY <4>1
      <4>3. InOrder(fn, s) = fn[Pick(s)] + InOrder(fn, s \ {Pick(s)})
        BY <4>1, InOrderStep
      <4> QED
        BY <3>2, <4>2, <4>3, Zenon
    <3> QED
      BY <3>1, <3>2
  <2> QED
    BY <2>1, Zenon DEF Iterates
<1>3. Iterates(iter, fn)
  <2>1. \E i : Iterates(i, fn)
    BY <1>2
  <2> QED
    BY <2>1, Zenon
<1> HIDE DEF iter
<1>4. ASSUME NEW s \in SUBSET Words, s # {},
             iter[s \ {Pick(s)}] = InOrder(fn, s \ {Pick(s)})
      PROVE  iter[s] = InOrder(fn, s)
  <2>1. Pick(s) \in s
    BY <1>4, PickIsIn
  <2>2. iter[s] = fn[Pick(s)] + iter[s \ {Pick(s)}]
    BY <1>3, <1>4 DEF Iterates
  <2>3. InOrder(fn, s) = fn[Pick(s)] + InOrder(fn, s \ {Pick(s)})
    BY <2>1, InOrderStep
  <2> QED
    BY <1>4, <2>2, <2>3, Zenon
<1>5. iter[{}] = InOrder(fn, {})
  <2>1. iter[{}] = 0
    BY <1>3 DEF Iterates
  <2> QED
    BY <2>1 DEF InOrder
<1> DEFINE Done(s) == iter[s] = InOrder(fn, s)
           s3 == Words \ {Pick(Words)}
           s2 == s3 \ {Pick(s3)}
           s1 == s2 \ {Pick(s2)}
           s0 == s1 \ {Pick(s1)}
<1>6. /\ s3 \in SUBSET Words /\ s2 \in SUBSET s3 /\ s1 \in SUBSET s2
      /\ s0 \in SUBSET s1
  OBVIOUS
<1>7. /\ Words # {} /\ Done(s3) => Done(Words)
      /\ s3 # {} /\ Done(s2) => Done(s3)
      /\ s2 # {} /\ Done(s1) => Done(s2)
      /\ s1 # {} /\ Done(s0) => Done(s1)
  BY <1>4, <1>6
<1>8. s3 = {} \/ s2 = {} \/ s1 = {} \/ s0 = {}
  <2> SUFFICES ASSUME s3 # {}, s2 # {}, s1 # {}
               PROVE  s0 = {}
    OBVIOUS
  <2>1. /\ Pick(Words) \in Words /\ Pick(s3) \in s3
        /\ Pick(s2) \in s2 /\ Pick(s1) \in s1
    <3>1. Words # {}
      BY DEF Words
    <3> HIDE DEF s3, s2, s1
    <3> QED
      BY <3>1, PickIsIn
  <2> DEFINE x4 == Pick(Words)
             x3 == Pick(s3)
             x2 == Pick(s2)
             x1 == Pick(s1)
  <2>2. /\ x4 \in Words /\ x3 \in Words \ {x4}
        /\ x2 \in Words \ {x4, x3} /\ x1 \in Words \ {x4, x3, x2}
    BY <2>1
  <2>3. s0 = Words \ {x4, x3, x2, x1}
    OBVIOUS
  <2> HIDE DEF x4, x3, x2, x1, s0
  <2> QED
    BY <2>2, <2>3 DEF Words
<1>9. Done(Words)
  <2>1. Words # {} /\ Done({})
    BY <1>5 DEF Words
  <2> HIDE DEF s3, s2, s1, s0, Done
  <2> QED
    BY <1>7, <1>8, <2>1
<1>10. InOrder(fn, Words) = fn[1] + fn[2] + fn[3] + fn[4]
  BY DEF InOrder, Words
<1> QED
  BY <1>1, <1>9, <1>10

(* The checksum of a probe is accepted: the sum of its words is no larger  *)
(* than a word, and nothing is carried.                                    *)
LEMMA SentVerifies ==
  ASSUME NEW t \in 1..MaxTtl
  PROVE  Accepted(SumFunction(Sent(t)))
<1> DEFINE h == Header(t)
           c == checksum(h)
           sum == 50 + t
<1>1. /\ h \in [Words -> Nat]
      /\ h[1] = 8 /\ h[2] = 0 /\ h[3] = 42 /\ h[4] = t
  BY DEF Header, Words
<1>2. Sent(t) = [h EXCEPT ![2] = c]
  BY DEF Sent
<1> HIDE DEF h
<1>3. SumFunction(h) = sum
  <2>1. SumFunction(h) = h[1] + h[2] + h[3] + h[4]
    BY <1>1, SumOfWords
  <2> QED
    BY <1>1, <2>1
<1>4. sum \in 0..(Base - 1) /\ Base \in Nat
  BY TracerouteAssumption, BaseAssumption
<1>5. sum % Base = sum /\ sum \div Base = 0
  BY <1>4
<1>6. c = Result(sum)
  BY <1>3 DEF checksum
<1>7. Fold(sum) < Base /\ Fold(sum) % Base = sum
  BY <1>4, <1>5 DEF Fold
<1>8. c \in Nat
  BY <1>4, <1>6, <1>7 DEF Result, Not
<1>9. Accepted(sum + c)
  BY <1>4, <1>6, <1>7, ChecksumAccepted
<1> HIDE DEF c
<1>10. /\ [h EXCEPT ![2] = c] \in [Words -> Nat]
       /\ [h EXCEPT ![2] = c][1] = 8 /\ [h EXCEPT ![2] = c][2] = c
       /\ [h EXCEPT ![2] = c][3] = 42 /\ [h EXCEPT ![2] = c][4] = t
  BY <1>1, <1>8 DEF Words
<1>11. SumFunction(Sent(t)) = 8 + c + 42 + t
  <2> DEFINE g == [h EXCEPT ![2] = c]
  <2>1. g \in [Words -> Nat] /\ g[1] = 8 /\ g[2] = c /\ g[3] = 42 /\ g[4] = t
    BY <1>10
  <2> HIDE DEF g
  <2>2. SumFunction(g) = g[1] + g[2] + g[3] + g[4]
    BY <2>1, SumOfWords
  <2> QED
    BY <1>2, <2>1, <2>2 DEF g
<1>12. 8 + c + 42 + t = sum + c
  BY <1>8
<1> QED
  BY <1>9, <1>11, <1>12

-----------------------------------------------------------------------------
(* The inductive invariant of a trace. *)

Row == Message \union {Timeout}

(* The loop has printed a row for each earlier ttl, and for this one once  *)
(* it broke out.                                                           *)
Rows ==
  /\ pc # "done" => ttl <= MaxTtl /\ Len(rows) = ttl - 1
  /\ (pc = "done" /\ ttl > MaxTtl) => Len(rows) = MaxTtl
  /\ (pc = "done" /\ ttl <= MaxTtl) => Len(rows) = ttl

(* A probe that was sent by now. *)
WasSent(probe) == probe <= ttl /\ (pc = "send" => probe < ttl)

Orderly ==
  /\ \A t \in wire : WasSent(t)
  /\ \A i \in 1..Len(sock) : WasSent(sock[i].probe)
  /\ \A t \in 1..Len(rows) : Own(rows[t]) => rows[t].probe <= t

(* An answer that is no copy is at one place: on its way, at one place in  *)
(* the socket's queue, or in one row.                                      *)
OnlyOnce ==
  /\ \A i \in 1..Len(sock) : Own(sock[i]) => sock[i].probe \notin wire
  /\ \A i, j \in 1..Len(sock) :
       Own(sock[i]) /\ Own(sock[j]) /\ i # j => sock[i].probe # sock[j].probe
  /\ \A t \in 1..Len(rows) : Own(rows[t]) => rows[t].probe \notin wire
  /\ \A t \in 1..Len(rows), i \in 1..Len(sock) :
       Own(rows[t]) /\ Own(sock[i]) => rows[t].probe # sock[i].probe
  /\ \A t, r \in 1..Len(rows) :
       Own(rows[t]) /\ Own(rows[r]) /\ t # r => rows[t].probe # rows[r].probe

(* Only the destination replies. *)
FromDestination(m) == m.type = "echo reply" /\ m.probe > 0 => Dist <= m.probe

IInv ==
  /\ TypeOK
  /\ Rows
  /\ Orderly
  /\ OnlyOnce
  /\ \A i \in 1..Len(sock) : FromDestination(sock[i])
  /\ RightUntilFirstMiss
  /\ StopsAtDestination

LEMMA InitIInv == Init => IInv
<1> SUFFICES ASSUME Init PROVE IInv
  OBVIOUS
<1>1. /\ pc = "send" /\ ttl = 1 /\ rows = <<>> /\ wire = {} /\ sock = <<>>
      /\ noise = 0
  BY DEF Init
<1>2. Len(rows) = 0 /\ Len(sock) = 0 /\ MaxTtl \in Nat \ {0} /\ MaxNoise \in Nat
  BY <1>1, TracerouteAssumption
<1>3. TypeOK
  BY <1>1, <1>2 DEF TypeOK
<1>4. Rows /\ Orderly
  BY <1>1, <1>2 DEF Rows, Orderly
<1>5. OnlyOnce
  BY <1>1, <1>2 DEF OnlyOnce
<1>6. RightUntilFirstMiss /\ StopsAtDestination
  BY <1>1, <1>2 DEF RightUntilFirstMiss, StopsAtDestination
<1> QED
  BY <1>1, <1>2, <1>3, <1>4, <1>5, <1>6 DEF IInv

LEMMA OwnProbe ==
  ASSUME NEW row \in Row, Own(row)
  PROVE  row \in Message /\ row.probe \in 1..MaxTtl
BY DEF Own, Row, Message

(* What is no answer to this program, or no first one. *)
LEMMA NotOwn ==
  /\ ~Own(Timeout)
  /\ \A type \in Types : ~Own(Foreign(type))
  /\ \A m \in Message : ~Own([m EXCEPT !.copy = TRUE])
<1>1. ~Own(Timeout)
  BY DEF Own
<1>2. ASSUME NEW type \in Types
      PROVE  ~Own(Foreign(type))
  BY DEF Own, Foreign
<1>3. ASSUME NEW m \in Message
      PROVE  ~Own([m EXCEPT !.copy = TRUE])
  <2>1. [m EXCEPT !.copy = TRUE].copy = TRUE
    BY DEF Message
  <2> QED
    BY <2>1, Zenon DEF Own
<1> QED
  BY <1>1, <1>2, <1>3

LEMMA StateTypes ==
  ASSUME IInv
  PROVE  /\ sock \in Seq(Message) /\ rows \in Seq(Row)
         /\ wire \subseteq 1..MaxTtl /\ Len(rows) <= MaxTtl
         /\ ttl \in 1..(MaxTtl + 1) /\ noise \in 0..MaxNoise
         /\ MaxTtl \in Nat /\ MaxNoise \in Nat /\ Dist \in Nat
BY TracerouteAssumption DEF IInv, TypeOK, Row

(* The network: a message reaches the socket, of a probe that is then not  *)
(* on its way any more if the message is its answer.                       *)
LEMMA Arrives ==
  ASSUME IInv, NEW m \in Message,
         sock' = Append(sock, m),
         wire' \subseteq wire,
         UNCHANGED <<pc, ttl, rows>>,
         noise' \in 0..MaxNoise,
         WasSent(m.probe), FromDestination(m),
         Own(m) => m.probe \in wire /\ m.probe \notin wire'
  PROVE  IInv'
<1>1. /\ sock \in Seq(Message) /\ rows \in Seq(Row)
      /\ wire \subseteq 1..MaxTtl /\ Len(rows) <= MaxTtl
  BY DEF IInv, TypeOK, Row
<1>2. pc' = pc /\ ttl' = ttl /\ rows' = rows
  OBVIOUS
<1>3. /\ sock' \in Seq(Message) /\ Len(sock') = Len(sock) + 1
      /\ \A i \in 1..Len(sock) : sock'[i] = sock[i]
      /\ sock'[Len(sock) + 1] = m
  BY <1>1
<1>4. Len(sock) \in Nat /\ \A i \in 1..Len(sock') :
        i \in 1..Len(sock) \/ i = Len(sock) + 1
  BY <1>1, <1>3
<1>5. TypeOK'
  BY <1>1, <1>2, <1>3 DEF IInv, TypeOK
<1>6. Rows' /\ RightUntilFirstMiss' /\ StopsAtDestination'
  BY <1>2 DEF IInv, Rows, RightUntilFirstMiss, StopsAtDestination
<1>7. Orderly'
  <2>1. \A i \in 1..Len(sock') : WasSent(sock'[i].probe)
    BY <1>3, <1>4 DEF IInv, Orderly
  <2> QED
    BY <1>2, <2>1 DEF IInv, Orderly, WasSent
<1>8. \A i \in 1..Len(sock') : FromDestination(sock'[i])
  BY <1>3, <1>4 DEF IInv
<1>9. OnlyOnce'
  <2>1. \A i \in 1..Len(sock') : Own(sock'[i]) => sock'[i].probe \notin wire'
    BY <1>3, <1>4 DEF IInv, OnlyOnce
  <2>2. \A i, j \in 1..Len(sock') :
          Own(sock'[i]) /\ Own(sock'[j]) /\ i # j
            => sock'[i].probe # sock'[j].probe
    BY <1>3, <1>4 DEF IInv, OnlyOnce
  <2>3. \A t \in 1..Len(rows) : Own(rows[t]) => rows[t].probe \notin wire'
    BY DEF IInv, OnlyOnce
  <2>4. \A t \in 1..Len(rows), i \in 1..Len(sock') :
          Own(rows[t]) /\ Own(sock'[i]) => rows[t].probe # sock'[i].probe
    BY <1>3, <1>4 DEF IInv, OnlyOnce
  <2>5. \A t, r \in 1..Len(rows) :
          Own(rows[t]) /\ Own(rows[r]) /\ t # r
            => rows[t].probe # rows[r].probe
    BY DEF IInv, OnlyOnce
  <2> QED
    BY <1>2, <2>1, <2>2, <2>3, <2>4, <2>5 DEF OnlyOnce
<1> QED
  BY <1>5, <1>6, <1>7, <1>8, <1>9 DEF IInv

LEMMA AnswerArrivesIInv ==
  ASSUME IInv, AnswerArrives
  PROVE  IInv'
<1>1. PICK p \in wire, type \in Types :
        /\ type \in AnswerTypes(p)
        /\ wire' = wire \ {p}
        /\ sock' = Append(sock, [type |-> type, probe |-> p, copy |-> FALSE])
        /\ UNCHANGED <<pc, ttl, rows, noise>>
  BY Zenon DEF AnswerArrives
<1> DEFINE m == [type |-> type, probe |-> p, copy |-> FALSE]
<1>2. p \in 1..MaxTtl /\ WasSent(p) /\ noise \in 0..MaxNoise
  BY DEF IInv, TypeOK, Orderly
<1>3. m \in Message /\ m.probe = p /\ m.type = type
  BY <1>2 DEF Message
<1>4. FromDestination(m)
  <2>1. p < Dist => type # "echo reply"
    BY <1>1 DEF AnswerTypes
  <2> HIDE DEF m
  <2>2. ASSUME m.type = "echo reply"
        PROVE  Dist <= m.probe
    <3>1. ~(p < Dist)
      BY <1>3, <2>1, <2>2
    <3>2. p \in Nat /\ Dist \in Nat
      BY <1>2, StateTypes
    <3> QED
      BY <1>3, <3>1, <3>2
  <2> QED
    BY <2>2 DEF FromDestination
<1>5. sock' = Append(sock, m)
  BY <1>1
<1> HIDE DEF m
<1>6. wire' \subseteq wire /\ (Own(m) => m.probe \in wire /\ m.probe \notin wire')
  BY <1>1, <1>3
<1> QED
  BY <1>1, <1>2, <1>3, <1>4, <1>5, <1>6, Arrives

LEMMA LoseIInv ==
  ASSUME IInv, Lose
  PROVE  IInv'
<1>1. PICK p \in wire :
        wire' = wire \ {p} /\ UNCHANGED <<pc, ttl, rows, sock, noise>>
  BY DEF Lose
<1>2. TypeOK' /\ Rows' /\ RightUntilFirstMiss' /\ StopsAtDestination'
  BY <1>1 DEF IInv, TypeOK, Rows, RightUntilFirstMiss, StopsAtDestination
<1>3. Orderly' /\ \A i \in 1..Len(sock') : FromDestination(sock'[i])
  BY <1>1 DEF IInv, Orderly, WasSent
<1>4. OnlyOnce'
  BY <1>1 DEF IInv, OnlyOnce
<1> QED
  BY <1>2, <1>3, <1>4 DEF IInv

LEMMA DuplicateIInv ==
  ASSUME IInv, Duplicate
  PROVE  IInv'
<1>1. PICK i \in DOMAIN sock :
        /\ noise < MaxNoise
        /\ noise' = noise + 1
        /\ sock' = Append(sock, [sock[i] EXCEPT !.copy = TRUE])
        /\ UNCHANGED <<pc, ttl, rows, wire>>
  BY DEF Duplicate
<1>2. i \in 1..Len(sock) /\ sock[i] \in Message
  BY StateTypes
<1> DEFINE m == [sock[i] EXCEPT !.copy = TRUE]
<1>3. m \in Message
  BY <1>2 DEF Message
<1>4. m.probe = sock[i].probe /\ m.type = sock[i].type
  BY <1>2 DEF Message
<1>5. ~Own(m)
  BY <1>2, NotOwn
<1>6. sock' = Append(sock, m)
  BY <1>1
<1> HIDE DEF m
<1>7. WasSent(m.probe) /\ FromDestination(m)
  BY <1>2, <1>4 DEF IInv, Orderly, FromDestination
<1>8. noise' \in 0..MaxNoise
  BY <1>1, StateTypes
<1> QED
  BY <1>1, <1>3, <1>5, <1>6, <1>7, <1>8, Arrives

LEMMA ForeignArrivesIInv ==
  ASSUME IInv, ForeignArrives
  PROVE  IInv'
<1>1. PICK type \in Types : sock' = Append(sock, Foreign(type))
  BY DEF ForeignArrives
<1>2. /\ noise < MaxNoise /\ noise' = noise + 1
      /\ UNCHANGED <<pc, ttl, rows, wire>>
  BY DEF ForeignArrives
<1> DEFINE m == Foreign(type)
<1>3. m \in Message /\ m.probe = 0
  BY TracerouteAssumption DEF Foreign, Message
<1>4. ~Own(m)
  BY NotOwn
<1> HIDE DEF m
<1>5. WasSent(m.probe) /\ FromDestination(m)
  BY <1>3, StateTypes DEF WasSent, FromDestination
<1>6. noise' \in 0..MaxNoise
  BY <1>2, StateTypes
<1>7. sock' = Append(sock, m)
  BY <1>1 DEF m
<1> QED
  BY <1>2, <1>3, <1>4, <1>5, <1>6, <1>7, Arrives

(* The program: a row for what was read from the front of the queue, if    *)
(* anything (d is 1) was.                                                  *)
LEMMA RowAdded ==
  ASSUME IInv, pc = "recv",
         NEW row \in Row, NEW d \in {0, 1},
         sock' \in Seq(Message), Len(sock') = Len(sock) - d,
         \A i \in 1..Len(sock') : sock'[i] = sock[i + d],
         Own(row) => d = 1 /\ Len(sock) > 0 /\ row = sock[1],
         rows' = Append(rows, row),
         wire' = wire
  PROVE  /\ rows' \in Seq(Row) /\ Len(rows') = ttl /\ rows'[ttl] = row
         /\ \A t \in 1..Len(rows') : Own(rows'[t]) => rows'[t].probe <= t
         /\ OnlyOnce'
         /\ \A i \in 1..Len(sock') : FromDestination(sock'[i])
         /\ RightUntilFirstMiss'
<1>1. /\ sock \in Seq(Message) /\ rows \in Seq(Row)
      /\ ttl \in Nat /\ Len(rows) = ttl - 1 /\ Len(rows) \in Nat
  BY StateTypes DEF IInv, Rows
<1>2. /\ rows' \in Seq(Row) /\ Len(rows') = ttl
      /\ \A t \in 1..Len(rows) : rows'[t] = rows[t]
      /\ rows'[ttl] = row
  BY <1>1
<1>3. \A t \in 1..Len(rows') : t \in 1..Len(rows) \/ t = ttl
  BY <1>1, <1>2
<1>4. \A i \in 1..Len(sock') : i + d \in 1..Len(sock)
  BY <1>1
<1>5. Own(row) => row.probe <= ttl
  BY <1>1 DEF IInv, Orderly, WasSent
<1>6. \A t \in 1..Len(rows') : Own(rows'[t]) => rows'[t].probe <= t
  BY <1>2, <1>3, <1>5 DEF IInv, Orderly
<1>7. \A t \in 1..Len(rows) : Own(rows[t]) /\ Own(row)
        => rows[t].probe # row.probe
  BY <1>1 DEF IInv, OnlyOnce
<1>8. OnlyOnce'
  <2>1. \A i \in 1..Len(sock') : Own(sock'[i]) => sock'[i].probe \notin wire'
    BY <1>4 DEF IInv, OnlyOnce
  <2>2. ASSUME NEW i \in 1..Len(sock'), NEW j \in 1..Len(sock'),
               Own(sock'[i]), Own(sock'[j]), i # j
        PROVE  sock'[i].probe # sock'[j].probe
    <3>1. i + d \in 1..Len(sock) /\ j + d \in 1..Len(sock) /\ i + d # j + d
      BY <1>4, <2>2
    <3>2. sock'[i] = sock[i + d] /\ sock'[j] = sock[j + d]
      OBVIOUS
    <3>3. Own(sock[i + d]) /\ Own(sock[j + d])
      BY <2>2, <3>2
    <3> QED
      BY <3>1, <3>2, <3>3 DEF IInv, OnlyOnce
  <2>3. ASSUME NEW t \in 1..Len(rows'), Own(rows'[t])
        PROVE  rows'[t].probe \notin wire'
    <3>1. CASE t \in 1..Len(rows)
      BY <1>2, <2>3, <3>1 DEF IInv, OnlyOnce
    <3>2. CASE t = ttl
      <4>1. Own(sock[1]) /\ 1 \in 1..Len(sock) /\ rows'[t] = sock[1]
        BY <1>1, <1>2, <2>3, <3>2
      <4> QED
        BY <4>1 DEF IInv, OnlyOnce
    <3> QED
      BY <1>3, <3>1, <3>2
  <2>4. ASSUME NEW t \in 1..Len(rows'), NEW i \in 1..Len(sock'),
               Own(rows'[t]), Own(sock'[i])
        PROVE  rows'[t].probe # sock'[i].probe
    <3>1. /\ i + d \in 1..Len(sock) /\ sock'[i] = sock[i + d]
          /\ Own(sock[i + d])
      BY <1>4, <2>4
    <3>2. CASE t \in 1..Len(rows)
      <4>1. rows'[t] = rows[t] /\ Own(rows[t])
        BY <1>2, <2>4, <3>2
      <4> QED
        BY <3>1, <3>2, <4>1 DEF IInv, OnlyOnce
    <3>3. CASE t = ttl
      <4>1. Own(sock[1]) /\ 1 \in 1..Len(sock) /\ rows'[t] = sock[1] /\ d = 1
        BY <1>1, <1>2, <2>4, <3>3
      <4>2. i + d # 1
        BY <4>1
      <4> QED
        BY <3>1, <4>1, <4>2 DEF IInv, OnlyOnce
    <3> QED
      BY <1>3, <3>2, <3>3
  <2>5. ASSUME NEW t \in 1..Len(rows'), NEW r \in 1..Len(rows'),
               Own(rows'[t]), Own(rows'[r]), t # r
        PROVE  rows'[t].probe # rows'[r].probe
    <3>1. CASE t \in 1..Len(rows) /\ r \in 1..Len(rows)
      BY <1>2, <2>5, <3>1 DEF IInv, OnlyOnce
    <3>2. CASE t \in 1..Len(rows) /\ r = ttl
      BY <1>2, <1>7, <2>5, <3>2
    <3>3. CASE t = ttl /\ r \in 1..Len(rows)
      BY <1>2, <1>7, <2>5, <3>3
    <3> QED
      BY <1>3, <2>5, <3>1, <3>2, <3>3
  <2> QED
    BY <2>1, <2>2, <2>3, <2>4, <2>5 DEF OnlyOnce
<1>9. \A i \in 1..Len(sock') : FromDestination(sock'[i])
  BY <1>4 DEF IInv
<1>10. RightUntilFirstMiss'
  <2> SUFFICES ASSUME NEW t \in 1..Len(rows'),
                      \A r \in 1..t : Own(rows'[r])
               PROVE  rows'[t].probe = t
    BY DEF RightUntilFirstMiss
  <2>1. CASE t \in 1..Len(rows)
    <3>1. \A r \in 1..t : r \in 1..Len(rows) /\ Own(rows[r])
      BY <1>1, <1>2, <2>1
    <3> QED
      BY <1>2, <2>1, <3>1 DEF IInv, RightUntilFirstMiss
  <2>2. CASE t = ttl
    <3>1. \A r \in 1..Len(rows) : r \in 1..t /\ Own(rows[r])
      BY <1>1, <1>2, <2>2
    <3>2. \A r \in 1..Len(rows) : rows[r].probe = r
      <4> SUFFICES ASSUME NEW r \in 1..Len(rows)
                   PROVE  rows[r].probe = r
        OBVIOUS
      <4>1. \A q \in 1..r : q \in 1..Len(rows)
        BY <1>1
      <4>2. \A q \in 1..r : Own(rows[q])
        BY <3>1, <4>1
      <4> QED
        BY <4>2 DEF IInv, RightUntilFirstMiss
    <3>3. t \in 1..t /\ Own(row) /\ rows'[t] = row
      BY <1>1, <1>2, <2>2
    <3>4. row.probe \in 1..MaxTtl /\ row.probe <= ttl
      BY <1>5, <3>3, OwnProbe
    <3>5. row.probe \notin 1..Len(rows)
      <4> SUFFICES ASSUME row.probe \in 1..Len(rows)
                   PROVE  FALSE
        OBVIOUS
      <4> DEFINE q == row.probe
      <4>1. q \in 1..Len(rows) /\ rows[q].probe = q /\ Own(rows[q])
        BY <3>1, <3>2
      <4> QED
        BY <1>7, <3>3, <4>1
    <3>6. row.probe = ttl
      BY <1>1, <3>4, <3>5
    <3> QED
      BY <2>2, <3>3, <3>6
  <2> QED
    BY <1>3, <2>1, <2>2
<1> QED
  BY <1>2, <1>6, <1>8, <1>9, <1>10

(* The loop goes on after a row. *)
LEMMA GoesOn ==
  ASSUME IInv, pc = "recv", Continue,
         rows' \in Seq(Row), Len(rows') = ttl,
         \A t \in 1..Len(rows') : Own(rows'[t]) => rows'[t].probe <= t,
         sock' \in Seq(Message),
         \A i \in 1..Len(sock') : WasSent(sock'[i].probe),
         \A i \in 1..Len(sock') : FromDestination(sock'[i]),
         wire' = wire, noise' = noise
  PROVE  TypeOK' /\ Rows' /\ Orderly' /\ StopsAtDestination'
<1>1. /\ ttl \in 1..MaxTtl /\ MaxTtl \in Nat /\ MaxNoise \in Nat
      /\ wire \subseteq 1..MaxTtl /\ noise \in 0..MaxNoise
  BY StateTypes DEF IInv, Rows
<1>2. /\ ttl' = ttl + 1
      /\ pc' = IF ttl + 1 > MaxTtl THEN "done" ELSE "send"
  BY DEF Continue, NextTtl
<1>3. pc' \in {"done", "send"} /\ (pc' = "done" <=> ttl = MaxTtl)
  BY <1>1, <1>2
<1>4. TypeOK'
  BY <1>1, <1>2, <1>3 DEF TypeOK, Row
<1>5. Rows'
  BY <1>1, <1>2, <1>3 DEF Rows
<1>6. Orderly'
  <2>1. \A t \in wire : t <= ttl
    BY DEF IInv, Orderly, WasSent
  <2>2. \A t \in wire' : WasSent(t)'
    BY <1>1, <1>2, <2>1 DEF WasSent
  <2>3. ASSUME NEW i \in 1..Len(sock')
        PROVE  sock'[i].probe \in Nat /\ sock'[i].probe <= ttl
    <3>1. sock'[i] \in Message
      OBVIOUS
    <3>2. sock'[i].probe \in 0..MaxTtl
      BY <3>1 DEF Message
    <3>3. WasSent(sock'[i].probe)
      OBVIOUS
    <3> QED
      BY <1>1, <3>2, <3>3 DEF WasSent
  <2>4. \A i \in 1..Len(sock') :
          sock'[i].probe <= ttl + 1 /\ sock'[i].probe < ttl + 1
    BY <1>1, <2>3
  <2> QED
    BY <1>2, <2>2, <2>4 DEF Orderly, WasSent
<1>7. StopsAtDestination'
  <2>1. ~(pc' = "done" /\ ttl' <= MaxTtl)
    BY <1>1, <1>2, <1>3
  <2> QED
    BY <2>1 DEF StopsAtDestination
<1> QED
  BY <1>4, <1>5, <1>6, <1>7

LEMMA TimesOutIInv ==
  ASSUME IInv, TimesOut
  PROVE  IInv'
<1>1. /\ pc = "recv" /\ sock = <<>>
      /\ rows' = Append(rows, Timeout)
      /\ Continue
      /\ wire' = wire /\ sock' = sock /\ noise' = noise
  BY DEF TimesOut
<1>2. /\ sock' \in Seq(Message) /\ Len(sock') = Len(sock) - 0
      /\ \A i \in 1..Len(sock') : sock'[i] = sock[i + 0]
  BY <1>1, StateTypes
<1>3. Timeout \in Row /\ ~Own(Timeout)
  BY NotOwn DEF Row
<1>4. /\ rows' \in Seq(Row) /\ Len(rows') = ttl
      /\ \A t \in 1..Len(rows') : Own(rows'[t]) => rows'[t].probe <= t
      /\ OnlyOnce'
      /\ \A i \in 1..Len(sock') : FromDestination(sock'[i])
      /\ RightUntilFirstMiss'
  <2>1. 0 \in {0, 1}
    OBVIOUS
  <2> QED
    BY <1>1, <1>2, <1>3, <2>1, RowAdded
<1>5. \A i \in 1..Len(sock') : WasSent(sock'[i].probe)
  BY <1>1 DEF IInv, Orderly
<1>6. TypeOK' /\ Rows' /\ Orderly' /\ StopsAtDestination'
  BY <1>1, <1>2, <1>4, <1>5, GoesOn
<1> QED
  BY <1>4, <1>6 DEF IInv

(* What is left of the queue. *)
LEMMA TailOfSock ==
  ASSUME IInv, sock # <<>>, sock' = Tail(sock)
  PROVE  /\ sock' \in Seq(Message) /\ Len(sock') = Len(sock) - 1
         /\ \A i \in 1..Len(sock') : sock'[i] = sock[i + 1]
         /\ \A i \in 1..Len(sock') : WasSent(sock'[i].probe)
         /\ \A i \in 1..Len(sock') : FromDestination(sock'[i])
         /\ Len(sock) \in Nat \ {0} /\ sock[1] \in Message
<1>1. sock \in Seq(Message)
  BY StateTypes
<1>2. /\ sock' \in Seq(Message) /\ Len(sock') = Len(sock) - 1
      /\ \A i \in 1..Len(sock') : sock'[i] = sock[i + 1]
      /\ Len(sock) \in Nat \ {0} /\ sock[1] \in Message
  BY <1>1
<1>3. \A i \in 1..Len(sock') : i + 1 \in 1..Len(sock)
  BY <1>2
<1> QED
  BY <1>2, <1>3 DEF IInv, Orderly

LEMMA IcmpRecvIInv ==
  ASSUME IInv, IcmpRecv
  PROVE  IInv'
<1> DEFINE ret == Recv(sock[1].type)
           row == IF ret = -1 THEN Timeout ELSE sock[1]
<1>1. /\ pc = "recv" /\ sock # <<>> /\ sock[1].type # "other"
      /\ rows' = Append(rows, row)
      /\ IF ret = -2 THEN pc' = "done" /\ UNCHANGED ttl ELSE Continue
      /\ sock' = Tail(sock)
      /\ wire' = wire /\ noise' = noise
  BY DEF IcmpRecv
<1>2. /\ sock' \in Seq(Message) /\ Len(sock') = Len(sock) - 1
      /\ \A i \in 1..Len(sock') : sock'[i] = sock[i + 1]
      /\ \A i \in 1..Len(sock') : WasSent(sock'[i].probe)
      /\ Len(sock) \in Nat \ {0} /\ sock[1] \in Message
  BY <1>1, TailOfSock
<1>3. row \in Row /\ (Own(row) => row = sock[1] /\ Len(sock) > 0)
  BY <1>2, NotOwn DEF Row
<1>4. ret = -2 => sock[1].type = "echo reply" /\ row = sock[1]
  <2>1. sock[1].type \in {"echo reply", "time exceeded", "dest unreach"}
    BY <1>1, <1>2 DEF Message, Types
  <2>2. /\ Recv("dest unreach") = -1 /\ Recv("time exceeded") = 0
        /\ Recv("echo reply") = -2
    BY DEF Recv
  <2>3. ret = Recv(sock[1].type)
    OBVIOUS
  <2>4. ret = -2 => row = sock[1]
    OBVIOUS
  <2> HIDE DEF ret, row
  <2>5. CASE sock[1].type = "dest unreach"
    <3>1. ret = -1
      BY <2>2, <2>3, <2>5, Zenon
    <3>2. -1 # -2
      OBVIOUS
    <3>3. ret # -2
      BY <3>1, <3>2, Zenon
    <3> QED
      BY <3>3, Zenon
  <2>6. CASE sock[1].type = "time exceeded"
    <3>1. ret = 0
      BY <2>2, <2>3, <2>6, Zenon
    <3>2. 0 # -2
      OBVIOUS
    <3>3. ret # -2
      BY <3>1, <3>2, Zenon
    <3> QED
      BY <3>3, Zenon
  <2> QED
    BY <2>1, <2>4, <2>5, <2>6
<1> HIDE DEF ret, row
<1>5. /\ rows' \in Seq(Row) /\ Len(rows') = ttl /\ rows'[ttl] = row
      /\ \A t \in 1..Len(rows') : Own(rows'[t]) => rows'[t].probe <= t
      /\ OnlyOnce'
      /\ \A i \in 1..Len(sock') : FromDestination(sock'[i])
      /\ RightUntilFirstMiss'
  <2>1. 1 \in {0, 1}
    OBVIOUS
  <2> QED
    BY <1>1, <1>2, <1>3, <2>1, RowAdded
<1>6. CASE ret # -2
  <2>1. Continue
    BY <1>1, <1>6
  <2>2. TypeOK' /\ Rows' /\ Orderly' /\ StopsAtDestination'
    BY <1>1, <1>2, <1>5, <2>1, GoesOn
  <2> QED
    BY <1>5, <2>2 DEF IInv
<1>7. CASE ret = -2
  <2>1. pc' = "done" /\ ttl' = ttl
    BY <1>1, <1>7
  <2>2. /\ ttl \in 1..MaxTtl /\ MaxTtl \in Nat /\ MaxNoise \in Nat
        /\ wire \subseteq 1..MaxTtl /\ noise \in 0..MaxNoise
    BY <1>1, StateTypes DEF IInv, Rows
  <2>3. TypeOK'
    BY <1>1, <1>2, <1>5, <2>1, <2>2 DEF TypeOK, Row
  <2>4. Rows'
    BY <1>5, <2>1, <2>2 DEF Rows
  <2>5. Orderly'
    <3>1. \A t \in wire' : WasSent(t)'
      <4>1. \A t \in wire : t <= ttl
        BY DEF IInv, Orderly, WasSent
      <4> QED
        BY <1>1, <2>1, <4>1 DEF WasSent
    <3>2. \A i \in 1..Len(sock') :
            sock'[i].probe <= ttl' /\ (pc' = "send" => sock'[i].probe < ttl')
      <4>1. \A i \in 1..Len(sock') : sock'[i].probe <= ttl
        BY <1>1, <1>2 DEF WasSent
      <4> QED
        BY <2>1, <4>1
    <3> QED
      BY <1>5, <3>1, <3>2 DEF Orderly, WasSent
  <2>6. StopsAtDestination'
    <3>1. row.type = "echo reply" /\ rows'[Len(rows')] = row
      BY <1>4, <1>5, <1>7
    <3>2. ASSUME row.probe > 0
          PROVE  Dist <= row.probe /\ row.probe <= Len(rows')
      <4>1. 1 \in 1..Len(sock) /\ row = sock[1]
        <5>1. row = sock[1]
          BY <1>4, <1>7
        <5>2. 1 \in 1..Len(sock)
          BY <1>2
        <5> QED
          BY <5>1, <5>2
      <4>2. FromDestination(sock[1]) /\ WasSent(sock[1].probe)
        BY <4>1 DEF IInv, Orderly
      <4> QED
        BY <1>5, <3>1, <3>2, <4>1, <4>2 DEF FromDestination, WasSent
    <3> QED
      BY <3>1, <3>2 DEF StopsAtDestination
  <2> QED
    BY <1>5, <2>3, <2>4, <2>5, <2>6 DEF IInv
<1> QED
  BY <1>6, <1>7

LEMMA UnknownTypeIInv ==
  ASSUME IInv, UnknownType
  PROVE  IInv'
<1>1. /\ pc = "recv" /\ sock # <<>> /\ pc' = "unknown type"
      /\ sock' = Tail(sock)
      /\ ttl' = ttl /\ rows' = rows /\ wire' = wire /\ noise' = noise
  BY DEF UnknownType
<1>2. /\ sock' \in Seq(Message) /\ Len(sock') = Len(sock) - 1
      /\ \A i \in 1..Len(sock') : sock'[i] = sock[i + 1]
      /\ \A i \in 1..Len(sock') : WasSent(sock'[i].probe)
      /\ \A i \in 1..Len(sock') : FromDestination(sock'[i])
      /\ Len(sock) \in Nat
  BY <1>1, TailOfSock
<1>3. \A i \in 1..Len(sock') : i + 1 \in 1..Len(sock)
  BY <1>2
<1>4. TypeOK' /\ Rows' /\ RightUntilFirstMiss' /\ StopsAtDestination'
  BY <1>1, <1>2 DEF IInv, TypeOK, Rows, RightUntilFirstMiss,
                    StopsAtDestination
<1>5. Orderly'
  BY <1>1, <1>2 DEF IInv, Orderly, WasSent
<1>6. OnlyOnce'
  <2>1. \A i \in 1..Len(sock') : Own(sock'[i]) => sock'[i].probe \notin wire'
    BY <1>1, <1>2, <1>3 DEF IInv, OnlyOnce
  <2>2. ASSUME NEW i \in 1..Len(sock'), NEW j \in 1..Len(sock'),
               Own(sock'[i]), Own(sock'[j]), i # j
        PROVE  sock'[i].probe # sock'[j].probe
    <3>1. i + 1 \in 1..Len(sock) /\ j + 1 \in 1..Len(sock) /\ i + 1 # j + 1
      BY <1>3, <2>2
    <3> QED
      BY <1>2, <2>2, <3>1 DEF IInv, OnlyOnce
  <2>3. \A t \in 1..Len(rows), i \in 1..Len(sock') :
          Own(rows[t]) /\ Own(sock'[i]) => rows[t].probe # sock'[i].probe
    BY <1>2, <1>3 DEF IInv, OnlyOnce
  <2> QED
    BY <1>1, <2>1, <2>2, <2>3, ZenonT(60) DEF IInv, OnlyOnce
<1> QED
  BY <1>2, <1>4, <1>5, <1>6 DEF IInv

LEMMA IcmpSendIInv ==
  ASSUME IInv, IcmpSend
  PROVE  IInv'
<1>1. /\ pc = "send" /\ pc' = "recv" /\ wire' = wire \union {ttl}
      /\ ttl' = ttl /\ rows' = rows /\ sock' = sock /\ noise' = noise
  BY DEF IcmpSend
<1>2. /\ ttl \in 1..MaxTtl /\ Len(rows) = ttl - 1
      /\ wire \subseteq 1..MaxTtl /\ MaxTtl \in Nat
      /\ rows \in Seq(Row) /\ sock \in Seq(Message)
  BY <1>1, StateTypes DEF IInv, Rows
<1>3. TypeOK' /\ Rows' /\ RightUntilFirstMiss' /\ StopsAtDestination'
  BY <1>1, <1>2 DEF IInv, TypeOK, Rows, RightUntilFirstMiss,
                    StopsAtDestination
<1>4. Orderly'
  <2>1. \A t \in wire' : WasSent(t)'
    BY <1>1, <1>2 DEF IInv, Orderly, WasSent
  <2> QED
    BY <1>1, <2>1 DEF IInv, Orderly, WasSent
<1>5. \A i \in 1..Len(sock') : FromDestination(sock'[i])
  BY <1>1 DEF IInv
<1>6. OnlyOnce'
  <2>1. ASSUME NEW i \in 1..Len(sock), Own(sock[i])
        PROVE  sock[i].probe \notin wire'
    <3>1. sock[i].probe < ttl
      BY <1>1, <1>2 DEF IInv, Orderly, WasSent
    <3>2. sock[i].probe # ttl
      BY <1>2, <3>1
    <3> QED
      BY <1>1, <2>1, <3>2 DEF IInv, OnlyOnce
  <2>2. ASSUME NEW t \in 1..Len(rows), Own(rows[t])
        PROVE  rows[t].probe \notin wire'
    <3>1. rows[t].probe <= t /\ rows[t] \in Row
      BY <1>2, <2>2 DEF IInv, Orderly
    <3>2. rows[t].probe \in 1..MaxTtl
      BY <2>2, <3>1, OwnProbe
    <3>3. rows[t].probe # ttl
      BY <1>2, <3>1, <3>2
    <3> QED
      BY <1>1, <2>2, <3>3 DEF IInv, OnlyOnce
  <2> QED
    BY <1>1, <2>1, <2>2 DEF IInv, OnlyOnce
<1> QED
  BY <1>3, <1>4, <1>5, <1>6 DEF IInv

LEMMA NextIInv ==
  ASSUME IInv, [Next]_vars
  PROVE  IInv'
<1>1. CASE SendFails
  <2>1. /\ pc = "send" /\ pc' = "send failed"
        /\ UNCHANGED <<ttl, rows, wire, sock, noise>>
    BY <1>1 DEF SendFails
  <2>2. TypeOK' /\ Rows' /\ RightUntilFirstMiss' /\ StopsAtDestination'
    BY <2>1 DEF IInv, TypeOK, Rows, RightUntilFirstMiss, StopsAtDestination
  <2>3. Orderly' /\ OnlyOnce'
    BY <2>1, ZenonT(60) DEF IInv, Orderly, OnlyOnce, WasSent
  <2> QED
    BY <2>1, <2>2, <2>3 DEF IInv
<1>2. CASE UNCHANGED vars
  BY <1>2, ZenonT(60) DEF vars, IInv, TypeOK, Rows, Orderly, OnlyOnce, WasSent,
              RightUntilFirstMiss, StopsAtDestination
<1>3. CASE Program
  BY <1>1, <1>3, IcmpSendIInv, TimesOutIInv, IcmpRecvIInv, UnknownTypeIInv
     DEF Program
<1>4. CASE Network
  BY <1>4, AnswerArrivesIInv, LoseIInv, DuplicateIInv, ForeignArrivesIInv
     DEF Network
<1> QED
  BY <1>2, <1>3, <1>4 DEF Next

(* The inductive invariant holds in every reachable state.                 *)
THEOREM Invariance == Spec => []IInv
BY InitIInv, NextIInv, PTL DEF Spec

(* The variables keep their types: no ttl is beyond the one after MaxTtl   *)
(* and no more than MaxTtl rows are printed.                               *)
THEOREM TypeCorrect == Spec => []TypeOK
BY Invariance, PTL DEF IInv

(* Every probe carries a checksum that its receiver accepts.               *)
THEOREM ProbesAreAccepted == Spec => []ProbesVerify
<1>1. IInv => ProbesVerify
  BY SentVerifies DEF IInv, TypeOK, ProbesVerify
<1> QED
  BY <1>1, Invariance, PTL

(* Up to the first timeout or message of another program, each row shows   *)
(* the answer to the probe of its ttl.                                     *)
THEOREM TrustedUntilFirstMiss == Spec => []RightUntilFirstMiss
BY Invariance, PTL DEF IInv

(* No answer is shown in the row of an earlier probe, or in two rows.      *)
THEOREM AnswersOnlyMoveDown == Spec => []AnswersMoveDownOnly
<1>1. IInv => AnswersMoveDownOnly
  <2> SUFFICES ASSUME IInv,
                      NEW t \in 1..Len(rows), Own(rows[t]),
                      NEW r \in 1..(t - 1)
               PROVE  rows[t].probe <= t /\ rows[r] # rows[t]
    <3>1. ASSUME IInv, NEW t \in 1..Len(rows), Own(rows[t])
          PROVE  rows[t].probe <= t
      BY <3>1 DEF IInv, Orderly
    <3> QED
      BY <3>1 DEF AnswersMoveDownOnly
  <2>1. rows[t].probe <= t
    BY DEF IInv, Orderly
  <2>2. r \in 1..Len(rows) /\ r # t
    BY StateTypes
  <2>3. Own(rows[r]) => rows[r].probe # rows[t].probe
    BY <2>2 DEF IInv, OnlyOnce
  <2>4. rows[r] # rows[t]
    BY <2>3
  <2> QED
    BY <2>1, <2>4
<1> QED
  BY <1>1, Invariance, PTL

(* The trace stops early only at an echo reply, and if the reply is one to *)
(* this program, the destination is no further than the last row.          *)
THEOREM StopsOnlyThere == Spec => []StopsAtDestination
BY Invariance, PTL DEF IInv
=============================================================================
