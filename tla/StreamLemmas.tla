---------------------------- MODULE StreamLemmas ----------------------------
(***************************************************************************)
(* Facts about the byte streams of module Streams, for all lengths.        *)
(***************************************************************************)
EXTENDS Streams, SequenceTheorems, TLAPS

(* A slice of the input is a sequence of bytes of the expected length.     *)
LEMMA SliceType ==
  ASSUME NEW a \in Nat, NEW b \in Nat, a <= b
  PROVE  /\ Slice(a, b) \in Seq(Nat)
         /\ Len(Slice(a, b)) = b - a
         /\ \A k \in 1..(b - a) : Slice(a, b)[k] = a + k
BY DEF Slice

(* The next n bytes of the input. *)
LEMMA ChunkType ==
  ASSUME NEW a \in Nat, NEW n \in Nat
  PROVE  /\ Slice(a, a + n) \in Seq(Nat)
         /\ Len(Slice(a, a + n)) = n
<1>1. a + n \in Nat /\ a <= a + n /\ (a + n) - a = n
  OBVIOUS
<1>2. /\ Slice(a, a + n) \in Seq(Nat)
      /\ Len(Slice(a, a + n)) = (a + n) - a
  BY <1>1, SliceType
<1> QED
  BY <1>1, <1>2

LEMMA UptoType ==
  ASSUME NEW a \in Nat
  PROVE  /\ Upto(a) \in Seq(Nat)
         /\ Len(Upto(a)) = a
         /\ \A k \in 1..a : Upto(a)[k] = k
BY DEF Upto, Slice

LEMMA UptoZero == Upto(0) = <<>>
BY UptoType

(* What Joined, Part and Rest return. *)
LEMMA JoinedType ==
  ASSUME NEW s \in Seq(Nat), NEW t \in Seq(Nat)
  PROVE  /\ Joined(s, t) \in Seq(Nat)
         /\ Len(Joined(s, t)) = Len(s) + Len(t)
         /\ \A k \in 1..(Len(s) + Len(t)) :
              Joined(s, t)[k] = IF k <= Len(s) THEN s[k] ELSE t[k - Len(s)]
BY ConcatProperties DEF Joined

LEMMA PartType ==
  ASSUME NEW s \in Seq(Nat),
         NEW m \in Nat \ {0}, NEW n \in Nat, m <= n + 1, n <= Len(s)
  PROVE  /\ Part(s, m, n) \in Seq(Nat)
         /\ Len(Part(s, m, n)) = n - m + 1
         /\ \A k \in 1..(n - m + 1) : Part(s, m, n)[k] = s[m + k - 1]
<1>1. \A k \in m..n : s[k] \in Nat
  OBVIOUS
<1> QED
  BY <1>1, SubSeqProperties DEF Part

LEMMA RestType ==
  ASSUME NEW s \in Seq(Nat), NEW n \in Nat, n <= Len(s)
  PROVE  /\ Rest(s, n) \in Seq(Nat)
         /\ Len(Rest(s, n)) = Len(s) - n
         /\ Rest(s, n) = Part(s, n + 1, Len(s))
<1>1. Rest(s, n) = Part(s, n + 1, Len(s))
  BY DEF Rest, Part
<1>2. n + 1 \in Nat \ {0} /\ Len(s) \in Nat
  OBVIOUS
<1> QED
  BY <1>1, <1>2, PartType

(* Slices that follow one another join to a slice. *)
LEMMA JoinedSlices ==
  ASSUME NEW a \in Nat, NEW b \in Nat, NEW c \in Nat, a <= b, b <= c
  PROVE  Joined(Slice(a, b), Slice(b, c)) = Slice(a, c)
<1> DEFINE u == Slice(a, b)
           v == Slice(b, c)
           w == Slice(a, c)
           j == Joined(u, v)
<1>1. /\ u \in Seq(Nat) /\ Len(u) = b - a
      /\ \A k \in 1..(b - a) : u[k] = a + k
  BY SliceType
<1>2. /\ v \in Seq(Nat) /\ Len(v) = c - b
      /\ \A k \in 1..(c - b) : v[k] = b + k
  BY SliceType
<1>3. /\ w \in Seq(Nat) /\ Len(w) = c - a
      /\ \A k \in 1..(c - a) : w[k] = a + k
  BY SliceType
<1> HIDE DEF u, v, w
<1>4. /\ j \in Seq(Nat) /\ Len(j) = Len(u) + Len(v)
      /\ \A k \in 1..(Len(u) + Len(v)) :
           j[k] = IF k <= Len(u) THEN u[k] ELSE v[k - Len(u)]
  BY <1>1, <1>2, JoinedType
<1> HIDE DEF j
<1>5. Len(u) + Len(v) = c - a
  BY <1>1, <1>2
<1>6. ASSUME NEW k \in 1..(c - a)
      PROVE  j[k] = w[k]
  <2>1. k \in 1..(Len(u) + Len(v)) /\ Len(u) = b - a
    BY <1>1, <1>5
  <2>2. j[k] = IF k <= b - a THEN u[k] ELSE v[k - (b - a)]
    BY <1>4, <2>1
  <2>3. CASE k <= b - a
    BY <1>1, <1>3, <2>2, <2>3
  <2>4. CASE k > b - a
    <3>1. k - (b - a) \in 1..(c - b) /\ b + (k - (b - a)) = a + k
      BY <2>4
    <3>2. v[k - (b - a)] = a + k
      BY <1>2, <3>1
    <3> QED
      BY <1>3, <2>2, <2>4, <3>2
  <2> QED
    BY <2>3, <2>4
<1>7. j = w
  BY <1>3, <1>4, <1>5, <1>6, SeqEqual
<1> QED
  BY <1>7 DEF j, u, v, w

(* Appending what follows it to a prefix of the input gives a longer one.  *)
LEMMA UptoExtend ==
  ASSUME NEW a \in Nat, NEW b \in Nat, a <= b
  PROVE  Joined(Upto(a), Slice(a, b)) = Upto(b)
BY JoinedSlices DEF Upto

(* A part of a slice is a slice. *)
LEMMA PartOfSlice ==
  ASSUME NEW a \in Nat, NEW b \in Nat, a <= b,
         NEW m \in Nat \ {0}, NEW n \in Nat, m <= n + 1, n <= b - a
  PROVE  Part(Slice(a, b), m, n) = Slice(a + m - 1, a + n)
<1> DEFINE s == Slice(a, b)
           t == Part(s, m, n)
           u == Slice(a + m - 1, a + n)
<1>1. /\ s \in Seq(Nat) /\ Len(s) = b - a
      /\ \A k \in 1..(b - a) : s[k] = a + k
  BY SliceType
<1> HIDE DEF s
<1>2. /\ t \in Seq(Nat) /\ Len(t) = n - m + 1
      /\ \A k \in 1..(n - m + 1) : t[k] = s[m + k - 1]
  BY <1>1, PartType
<1> HIDE DEF t
<1>3. /\ u \in Seq(Nat) /\ Len(u) = n - m + 1
      /\ \A k \in 1..(n - m + 1) : u[k] = a + m - 1 + k
  BY DEF Slice
<1> HIDE DEF u
<1>4. \A k \in 1..(n - m + 1) : t[k] = u[k]
  <2> SUFFICES ASSUME NEW k \in 1..(n - m + 1)
               PROVE  t[k] = u[k]
    OBVIOUS
  <2>1. m + k - 1 \in 1..(b - a) /\ a + (m + k - 1) = a + m - 1 + k
    OBVIOUS
  <2> QED
    BY <1>1, <1>2, <1>3, <2>1
<1>5. t = u
  BY <1>2, <1>3, <1>4, SeqEqual
<1> QED
  BY <1>5 DEF s, t, u

(* A sink that has the first p input bytes still has a prefix of the input *)
(* when it gets a part of a chunk that starts with the byte after these.   *)
LEMMA UptoExtendByPart ==
  ASSUME NEW a \in Nat, NEW b \in Nat, a <= b,
         NEW p \in Nat, a <= p,
         NEW m \in Nat, NEW n \in Nat,
         m = p - a + 1, m <= n + 1, n <= b - a
  PROVE  Joined(Upto(p), Part(Slice(a, b), m, n)) = Upto(a + n)
<1>1. /\ m \in Nat \ {0}
      /\ a + n \in Nat
      /\ p <= a + n
      /\ a + m - 1 = p
  OBVIOUS
<1>2. Part(Slice(a, b), m, n) = Slice(p, a + n)
  <2>1. Part(Slice(a, b), m, n) = Slice(a + m - 1, a + n)
    BY <1>1, PartOfSlice
  <2> QED
    BY <1>1, <2>1
<1> QED
  BY <1>1, <1>2, UptoExtend

(* Two prefixes of the input are equal only if they have the same length.  *)
LEMMA UptoInjective ==
  ASSUME NEW a \in Nat, NEW b \in Nat, Upto(a) = Upto(b)
  PROVE  a = b
BY UptoType

(* A file with its old contents holds no prefix of the input. *)
LEMMA StaleIsNoPrefix ==
  ASSUME NEW a \in Nat
  PROVE  Upto(a) # Stale
<1>1. CASE a = 0
  BY <1>1, UptoZero DEF Stale
<1>2. CASE a > 0
  BY <1>2, UptoType DEF Stale
<1> QED
  BY <1>1, <1>2

(* The input bytes of a sink with a message at its end, and of others. *)
LEMMA InputInFacts ==
  ASSUME NEW n \in Nat
  PROVE  /\ InputIn(Upto(n)) = Upto(n)
         /\ InputIn(Joined(Upto(n), Message)) = Upto(n)
         /\ InputIn(<<>>) = <<>> /\ InputIn(Stale) = <<>>
<1> DEFINE u == Upto(n)
           j == Joined(u, Message)
<1>1. u \in Seq(Nat) /\ Len(u) = n /\ \A k \in 1..n : u[k] = k
  BY UptoType
<1>2. Message \in Seq(Nat) /\ Len(Message) = 1 /\ Message[1] = 0
  BY DEF Message
<1> HIDE DEF u
<1>3. /\ j \in Seq(Nat) /\ Len(j) = n + 1
      /\ \A k \in 1..(n + 1) : j[k] = IF k <= n THEN u[k] ELSE Message[k - n]
  <2>1. /\ j \in Seq(Nat) /\ Len(j) = Len(u) + Len(Message)
        /\ \A k \in 1..(Len(u) + Len(Message)) :
             j[k] = IF k <= Len(u) THEN u[k] ELSE Message[k - Len(u)]
    BY <1>1, <1>2, JoinedType
  <2> HIDE DEF j
  <2> QED
    BY <1>1, <1>2, <2>1
<1> HIDE DEF j
<1>4. InputIn(u) = u
  <2>1. u # <<>> => n > 0
    BY <1>1
  <2> QED
    BY <1>1, <2>1 DEF InputIn
<1>5. InputIn(j) = Part(j, 1, n)
  <2>1. j # <<>> /\ (n + 1) - n = 1 /\ (n + 1) - 1 = n
    BY <1>3
  <2>2. j[Len(j)] = 0
    BY <1>2, <1>3, <2>1
  <2> QED
    BY <1>3, <2>1, <2>2 DEF InputIn
<1>6. Part(j, 1, n) = u
  <2>1. /\ 1 \in Nat \ {0} /\ 1 <= n + 1 /\ n <= Len(j)
        /\ n - 1 + 1 = n /\ j \in Seq(Nat)
    BY <1>3
  <2> DEFINE p == Part(j, 1, n)
  <2>2. /\ p \in Seq(Nat) /\ Len(p) = n - 1 + 1
        /\ \A k \in 1..(n - 1 + 1) : p[k] = j[1 + k - 1]
    BY <2>1, PartType
  <2> HIDE DEF p
  <2>3. \A k \in 1..n : j[1 + k - 1] = u[k]
    BY <1>3
  <2> QED
    <3>1. p = u
      BY <1>1, <2>1, <2>2, <2>3, SeqEqual
    <3> QED
      BY <3>1 DEF p
<1>7. InputIn(<<>>) = <<>>
  BY DEF InputIn
<1>8. InputIn(Stale) = <<>>
  BY DEF InputIn, Stale, Part
<1> QED
  BY <1>4, <1>5, <1>6, <1>7, <1>8 DEF j, u

LEMMA ContentTypes ==
  <<>> \in Seq(Nat) /\ Stale \in Seq(Nat) /\ Message \in Seq(Nat)
BY DEF Stale, Message

(* An empty stream. *)
LEMMA SliceEmpty == ASSUME NEW a \in Nat PROVE Slice(a, a) = <<>>
BY SliceType, EmptySeq

LEMMA JoinedEmpty ==
  ASSUME NEW s \in Seq(Nat)
  PROVE  Joined(s, <<>>) = s /\ Joined(<<>>, s) = s
BY DEF Joined

LEMMA JoinedAssociative ==
  ASSUME NEW s \in Seq(Nat), NEW t \in Seq(Nat), NEW u \in Seq(Nat)
  PROVE  Joined(Joined(s, t), u) = Joined(s, Joined(t, u))
BY ConcatAssociative, SMTT(30) DEF Joined

(* Nothing is lost between the bytes read and those left. *)
LEMMA PartThenRest ==
  ASSUME NEW s \in Seq(Nat), NEW k \in Nat, k <= Len(s)
  PROVE  Joined(Part(s, 1, k), Rest(s, k)) = s
<1>1. /\ 1 \in 1..(Len(s) + 1)
      /\ k \in (1 - 1)..Len(s)
      /\ Len(s) \in k..Len(s)
  OBVIOUS
<1>2. SubSeq(s, 1, k) \o SubSeq(s, k + 1, Len(s)) = SubSeq(s, 1, Len(s))
  BY <1>1, ConcatAdjacentSubSeq
<1>3. SubSeq(s, 1, Len(s)) = s
  BY SubSeqFull
<1> QED
  BY <1>2, <1>3 DEF Joined, Part, Rest

(* Reading k bytes of a slice returns its first ones and leaves the rest.  *)
LEMMA FrontOfSlice ==
  ASSUME NEW a \in Nat, NEW b \in Nat, a <= b,
         NEW k \in Nat, k <= b - a
  PROVE  Part(Slice(a, b), 1, k) = Slice(a, a + k)
<1>1. 1 \in Nat \ {0} /\ 1 <= k + 1 /\ a + 1 - 1 = a
  OBVIOUS
<1>2. Part(Slice(a, b), 1, k) = Slice(a + 1 - 1, a + k)
  BY <1>1, PartOfSlice
<1> QED
  BY <1>1, <1>2

LEMMA RestOfSlice ==
  ASSUME NEW a \in Nat, NEW b \in Nat, a <= b,
         NEW k \in Nat, k <= b - a
  PROVE  Rest(Slice(a, b), k) = Slice(a + k, b)
<1>1. /\ Slice(a, b) \in Seq(Nat)
      /\ Len(Slice(a, b)) = b - a
  BY SliceType
<1>2. Rest(Slice(a, b), k) = Part(Slice(a, b), k + 1, Len(Slice(a, b)))
  BY <1>1, RestType
<1>3. Rest(Slice(a, b), k) = Part(Slice(a, b), k + 1, b - a)
  BY <1>1, <1>2
<1>4. /\ k + 1 \in Nat \ {0} /\ b - a \in Nat /\ k + 1 <= (b - a) + 1
      /\ a + (k + 1) - 1 = a + k /\ a + (b - a) = b
  OBVIOUS
<1>5. Part(Slice(a, b), k + 1, b - a) = Slice(a + (k + 1) - 1, a + (b - a))
  BY <1>4, PartOfSlice
<1> QED
  BY <1>3, <1>4, <1>5

(* A sink that has all the input before a slice gets the first k bytes of  *)
(* the slice.                                                              *)
LEMMA UptoExtendByFront ==
  ASSUME NEW a \in Nat, NEW b \in Nat, a <= b,
         NEW k \in Nat, k <= b - a
  PROVE  Joined(Upto(a), Part(Slice(a, b), 1, k)) = Upto(a + k)
<1>1. a + k \in Nat /\ a <= a + k
  OBVIOUS
<1> QED
  BY <1>1, FrontOfSlice, UptoExtend

LEMMA LeastProperties ==
  ASSUME NEW a \in Int, NEW b \in Int
  PROVE  /\ Least(a, b) \in {a, b}
         /\ Least(a, b) <= a
         /\ Least(a, b) <= b
BY DEF Least

-----------------------------------------------------------------------------
(* Prefixes of sequences, and of streams that are joined.                  *)

(* The first k elements of a sequence. *)
First(s, k) == SubSeq(s, 1, k)

LEMMA FirstGrows ==
  ASSUME NEW S, NEW s \in Seq(S), NEW k \in Nat, k + 1 <= Len(s)
  PROVE  /\ First(s, k) \in Seq(S) /\ Len(First(s, k)) = k
         /\ s[k + 1] \in S
         /\ First(s, k + 1) = Append(First(s, k), s[k + 1])
<1>1. /\ 1 \in 1..Len(s) /\ k + 1 \in 1..Len(s) /\ (k + 1) - 1 = k
      /\ 1 \in Int /\ k \in Int /\ Len(s) \in Nat
  OBVIOUS
<1>2. \A i \in 1..k : s[i] \in S
  BY <1>1
<1>3. First(s, k) \in Seq(S) /\ Len(First(s, k)) = k
  <2>1. Len(SubSeq(s, 1, k)) = IF 1 <= k THEN k - 1 + 1 ELSE 0
    BY <1>1, <1>2, SubSeqProperties
  <2>2. SubSeq(s, 1, k) \in Seq(S)
    BY <1>1, <1>2, SubSeqProperties
  <2> QED BY <2>1, <2>2 DEF First
<1>4. s[k + 1] \in S
  BY <1>1
<1>5. SubSeq(s, 1, k + 1) = SubSeq(s, 1, (k + 1) - 1) \o <<s[k + 1]>>
  <2>1. k + 1 \in 1..Len(s)
    BY <1>1
  <2> QED BY <1>1, <2>1, SubSeqRecursiveSecond
<1>6. Append(First(s, k), s[k + 1]) = First(s, k) \o <<s[k + 1]>>
  BY <1>3, <1>4, AppendIsConcat
<1> QED BY <1>1, <1>3, <1>4, <1>5, <1>6 DEF First

LEMMA FirstAll ==
  ASSUME NEW S, NEW s \in Seq(S)
  PROVE  First(s, 0) = <<>> /\ First(s, Len(s)) = s
BY SubSeqEmpty, SubSeqFull DEF First

(* The front of what is joined. *)
LEMMA FrontOfJoined ==
  ASSUME NEW s \in Seq(Nat), NEW t \in Seq(Nat), NEW n \in 0..Len(s)
  PROVE  Part(Joined(s, t), 1, n) = Part(s, 1, n)
<1> DEFINE j == Joined(s, t)
           p == Part(j, 1, n)
           q == Part(s, 1, n)
<1>1. /\ j \in Seq(Nat) /\ Len(j) = Len(s) + Len(t)
      /\ \A k \in 1..(Len(s) + Len(t)) :
           j[k] = IF k <= Len(s) THEN s[k] ELSE t[k - Len(s)]
  BY JoinedType
<1> HIDE DEF j
<1>2. /\ 1 \in Nat \ {0} /\ n \in Nat /\ 1 <= n + 1 /\ n <= Len(s)
      /\ n <= Len(j) /\ Len(s) \in Nat /\ Len(t) \in Nat
  BY <1>1
<1>3. /\ p \in Seq(Nat) /\ Len(p) = n - 1 + 1
      /\ \A k \in 1..(n - 1 + 1) : p[k] = j[1 + k - 1]
  BY <1>1, <1>2, PartType
<1>4. /\ q \in Seq(Nat) /\ Len(q) = n - 1 + 1
      /\ \A k \in 1..(n - 1 + 1) : q[k] = s[1 + k - 1]
  BY <1>2, PartType
<1> HIDE DEF p, q
<1>5. \A k \in 1..n : p[k] = q[k]
  <2> SUFFICES ASSUME NEW k \in 1..n PROVE p[k] = q[k]
    OBVIOUS
  <2>1. /\ k \in 1..(n - 1 + 1) /\ 1 + k - 1 = k
        /\ k \in 1..(Len(s) + Len(t)) /\ k <= Len(s)
    BY <1>2
  <2> QED BY <1>1, <1>3, <1>4, <2>1
<1>6. Len(p) = n /\ Len(q) = n
  BY <1>2, <1>3, <1>4
<1>7. p = q
  BY <1>3, <1>4, <1>5, <1>6, SeqEqual
<1> QED BY <1>7 DEF p, q, j

LEMMA FrontPastJoined ==
  ASSUME NEW s \in Seq(Nat), NEW t \in Seq(Nat), NEW m \in 0..Len(t)
  PROVE  Part(Joined(s, t), 1, Len(s) + m) = Joined(s, Part(t, 1, m))
<1> DEFINE j == Joined(s, t)
           n == Len(s) + m
           p == Part(j, 1, n)
           f == Part(t, 1, m)
           q == Joined(s, f)
<1>1. /\ j \in Seq(Nat) /\ Len(j) = Len(s) + Len(t)
      /\ \A k \in 1..(Len(s) + Len(t)) :
           j[k] = IF k <= Len(s) THEN s[k] ELSE t[k - Len(s)]
  BY JoinedType
<1> HIDE DEF j
<1>2. /\ 1 \in Nat \ {0} /\ n \in Nat /\ 1 <= n + 1 /\ n <= Len(j)
      /\ Len(s) \in Nat /\ Len(t) \in Nat
      /\ m \in Nat /\ 1 <= m + 1 /\ m <= Len(t)
  BY <1>1
<1>3. /\ p \in Seq(Nat) /\ Len(p) = n - 1 + 1
      /\ \A k \in 1..(n - 1 + 1) : p[k] = j[1 + k - 1]
  BY <1>1, <1>2, PartType, ZenonT(60)
<1>4. /\ f \in Seq(Nat) /\ Len(f) = m - 1 + 1
      /\ \A k \in 1..(m - 1 + 1) : f[k] = t[1 + k - 1]
  BY <1>2, PartType
<1> HIDE DEF p, f
<1>5. /\ q \in Seq(Nat) /\ Len(q) = Len(s) + Len(f)
      /\ \A k \in 1..(Len(s) + Len(f)) :
           q[k] = IF k <= Len(s) THEN s[k] ELSE f[k - Len(s)]
  BY <1>4, JoinedType
<1> HIDE DEF q
<1>6. Len(f) = m /\ Len(p) = n /\ Len(q) = n /\ n = Len(s) + m
  BY <1>2, <1>3, <1>4, <1>5
<1> HIDE DEF n
<1>7. \A k \in 1..n : p[k] = q[k]
  <2> SUFFICES ASSUME NEW k \in 1..n PROVE p[k] = q[k]
    OBVIOUS
  <2>1. /\ k \in 1..(n - 1 + 1) /\ 1 + k - 1 = k
        /\ k \in 1..(Len(s) + Len(t)) /\ k \in 1..(Len(s) + Len(f))
    BY <1>2, <1>6
  <2>2. p[k] = IF k <= Len(s) THEN s[k] ELSE t[k - Len(s)]
    BY <1>1, <1>3, <2>1
  <2>3. q[k] = IF k <= Len(s) THEN s[k] ELSE f[k - Len(s)]
    BY <1>5, <2>1
  <2>4. CASE k <= Len(s)
    BY <2>2, <2>3, <2>4
  <2>5. CASE ~(k <= Len(s))
    <3>1. /\ k - Len(s) \in 1..(m - 1 + 1)
          /\ 1 + (k - Len(s)) - 1 = k - Len(s)
      BY <1>2, <1>6, <2>5
    <3>2. f[k - Len(s)] = t[k - Len(s)]
      BY <1>4, <3>1
    <3> QED BY <2>2, <2>3, <2>5, <3>2
  <2> QED BY <2>4, <2>5
<1>8. p = q
  BY <1>3, <1>5, <1>6, <1>7, SeqEqual
<1> QED BY <1>8 DEF p, q, f, j, n

LEMMA JoinedCancels ==
  ASSUME NEW s \in Seq(Nat), NEW t \in Seq(Nat), NEW u \in Seq(Nat),
         Joined(s, t) = Joined(s, u)
  PROVE  t = u
<1>1. s \o t = s \o u
  BY DEF Joined
<1> QED BY <1>1, ConcatSimplifications, Zenon

LEMMA RestOfJoined ==
  ASSUME NEW s \in Seq(Nat), NEW t \in Seq(Nat), NEW n \in 0..Len(s)
  PROVE  Rest(Joined(s, t), n) = Joined(Rest(s, n), t)
<1> DEFINE j == Joined(s, t)
           a == Part(s, 1, n)
           b == Rest(s, n)
           c == Part(j, 1, n)
           d == Rest(j, n)
<1>1. j \in Seq(Nat) /\ Len(j) = Len(s) + Len(t)
  BY JoinedType
<1>2. n \in Nat /\ n <= Len(s) /\ n <= Len(j) /\ 1 \in Nat \ {0} /\ 1 <= n + 1
  BY <1>1
<1>3. a \in Seq(Nat) /\ b \in Seq(Nat) /\ Joined(a, b) = s
  BY <1>2, PartType, RestType, PartThenRest
<1>4. c \in Seq(Nat) /\ d \in Seq(Nat) /\ Joined(c, d) = j
  BY <1>1, <1>2, PartType, RestType, PartThenRest
<1>5. c = a
  BY FrontOfJoined
<1>6. Joined(b, t) \in Seq(Nat)
  BY <1>3, JoinedType
<1>7. Joined(a, Joined(b, t)) = j
  <2>1. Joined(Joined(a, b), t) = Joined(a, Joined(b, t))
    BY <1>3, JoinedAssociative
  <2> QED BY <1>3, <2>1
<1> HIDE DEF a, b, c, d, j
<1>8. Joined(a, d) = Joined(a, Joined(b, t))
  BY <1>4, <1>5, <1>7
<1>9. d = Joined(b, t)
  BY <1>3, <1>4, <1>6, <1>8, JoinedCancels
<1> QED BY <1>9 DEF b, d, j

LEMMA RestPastJoined ==
  ASSUME NEW s \in Seq(Nat), NEW t \in Seq(Nat), NEW m \in 0..Len(t)
  PROVE  Rest(Joined(s, t), Len(s) + m) = Rest(t, m)
<1> DEFINE j == Joined(s, t)
           n == Len(s) + m
           f == Part(t, 1, m)
           b == Rest(t, m)
           c == Part(j, 1, n)
           d == Rest(j, n)
<1>1. j \in Seq(Nat) /\ Len(j) = Len(s) + Len(t)
  BY JoinedType
<1>2. /\ m \in Nat /\ m <= Len(t) /\ n \in Nat /\ n <= Len(j)
      /\ 1 \in Nat \ {0} /\ 1 <= n + 1 /\ 1 <= m + 1
  BY <1>1
<1>3. f \in Seq(Nat) /\ b \in Seq(Nat) /\ Joined(f, b) = t
  BY <1>2, PartType, RestType, PartThenRest
<1>4. c \in Seq(Nat) /\ d \in Seq(Nat) /\ Joined(c, d) = j
  BY <1>1, <1>2, PartType, RestType, PartThenRest
<1>5. c = Joined(s, f)
  BY FrontPastJoined
<1>6. Joined(Joined(s, f), b) = Joined(s, Joined(f, b))
  BY <1>3, JoinedAssociative
<1> HIDE DEF b, c, d, f, j
<1>7. Joined(c, d) = Joined(c, b)
  BY <1>3, <1>4, <1>5, <1>6 DEF j
<1>8. d = b
  BY <1>3, <1>4, <1>7, JoinedCancels
<1> QED BY <1>8 DEF b, d, j
=============================================================================
