--------------------------- MODULE BuffersProofs ---------------------------
(***************************************************************************)
(* Proofs about the four demonstrations of MCBuffers: Vec for every        *)
(* SizeMax and HeapMax, SmallString for any number of strings and any size *)
(* of the union, VmspliceGift for every Size, VmspliceBench for any chunk, *)
(* pipe and socket.                                                        *)
(***************************************************************************)
EXTENDS MCBuffers, SequenceTheorems, TLAPS

-----------------------------------------------------------------------------
(* Vec. *)

(* A value below the modulus is not changed by it. *)
LEMMA WrapSmall ==
  ASSUME NEW n \in Nat, n <= SizeMax
  PROVE  Wrap(n) = n
BY VecAssumption DEF Wrap

(* Wrapped values are size_t values. *)
LEMMA WrapType ==
  ASSUME NEW n \in Nat
  PROVE  Wrap(n) \in 0..SizeMax
BY VecAssumption DEF Wrap

(* The size that is asked for is the size that is needed, while that is a  *)
(* size_t value.                                                           *)
LEMMA BytesExact ==
  ASSUME NEW n \in Nat, Header + Item * n <= SizeMax
  PROVE  Bytes(n) = Header + Item * n
<1>1. n * Item \in Nat /\ n * Item <= SizeMax
  BY VecAssumption DEF Item, Header
<1>2. Wrap(n * Item) = n * Item
  BY <1>1, WrapSmall
<1>3. Header + n * Item \in Nat /\ Header + n * Item <= SizeMax
  BY VecAssumption DEF Item, Header
<1>4. Wrap(Header + n * Item) = Header + n * Item
  BY <1>3, WrapSmall
<1> QED BY <1>2, <1>4 DEF Bytes, Item, Header

(* The inductive invariant: a sensible vector has a block of exactly the   *)
(* size that its capacity needs, and its elements fit.                     *)
VecInv ==
  /\ TypeOK
  /\ CallerHasBlock
  /\ pc = "new" => ~stray /\ length = 0
  /\ (Sensible /\ pc = "use") =>
       /\ 0 < capacity
       /\ length <= capacity
       /\ size = Header + Item * capacity
  /\ NeverStray

-----------------------------------------------------------------------------
LEMMA VecStart == Init => VecInv
<1> SUFFICES ASSUME Init PROVE VecInv
  OBVIOUS
<1>1. TypeOK
  <2>1. stray \in BOOLEAN
    BY Zenon DEF Init
  <2>2. /\ pc = "new" /\ asked \in 0..SizeMax
        /\ capacity = 0 /\ length = 0 /\ size = 0
        /\ block = 0 /\ super_v = 0
    BY Zenon DEF Init
  <2> QED BY <2>1, <2>2, VecAssumption DEF TypeOK
<1>2. pc # "use" /\ length = 0 /\ ~stray /\ CallerHasBlock
  BY DEF Init, CallerHasBlock
<1> QED BY <1>1, <1>2 DEF VecInv, NeverStray

(* vec_new(): of a sensible capacity neither size computation wraps.       *)
LEMMA VecNewKeeps ==
  ASSUME VecInv, VecNew
  PROVE  VecInv'
<1> USE DEF VecInv, VecNew
<1>1. TypeOK'
  <2>1. size' \in 0..HeapMax
    <3>1. asked * Item \in Nat
      BY DEF TypeOK, Item
    <3>2. Header + Wrap(asked * Item) \in Nat
      BY <3>1, WrapType DEF Header
    <3>3. Bytes(asked) \in 0..SizeMax
      BY <3>2, WrapType DEF Bytes
    <3> QED BY <3>3, VecAssumption
  <2> QED BY <2>1 DEF TypeOK
<1>2. CallerHasBlock'
  BY DEF CallerHasBlock
<1>3. Sensible' =>
        /\ 0 < capacity'
        /\ length' <= capacity'
        /\ size' = Header + Item * capacity'
        /\ ~stray'
  <2> SUFFICES ASSUME Sensible
               PROVE  /\ 0 < capacity'
                      /\ length' <= capacity'
                      /\ size' = Header + Item * capacity'
                      /\ ~stray'
    BY DEF Sensible
  <2>1. asked \in Nat /\ Header + Item * asked <= SizeMax
    BY DEF Sensible, TypeOK
  <2>2. size' = Header + Item * asked
    BY <2>1, BytesExact
  <2>3. length = 0 /\ length' = 0
    OBVIOUS
  <2>4. capacity' = asked /\ 0 < asked /\ asked \in Int
    BY <2>1 DEF Sensible
  <2>5. ~(size' < Header)
    BY <2>2, <2>4 DEF Item, Header
  <2>6. ~stray'
    BY <2>5, Zenon
  <2> QED BY <2>1, <2>2, <2>3, <2>4, <2>6
<1> QED BY <1>1, <1>2, <1>3 DEF NeverStray

(* vec_push() into a block that has room.                                  *)
LEMMA VecPushKeeps ==
  ASSUME VecInv, VecPush
  PROVE  VecInv'
<1>1. /\ pc = "use" /\ pc' = "use" /\ ~stray /\ length # capacity
      /\ length' = length + 1
      /\ UNCHANGED <<asked, capacity, size, block>>
      /\ super_v' = block'
      /\ stray' = (stray \/ Header + Item * (length + 1) > size)
  BY DEF VecPush, InUse, Full, Put, SetSuper
<1>2. TypeOK'
  BY <1>1 DEF VecInv, TypeOK
<1>3. ASSUME Sensible'
      PROVE  /\ 0 < capacity'
             /\ length' <= capacity'
             /\ size' = Header + Item * capacity'
             /\ ~stray'
  <2>1. Sensible
    BY <1>1, <1>3 DEF Sensible
  <2>2. /\ 0 < capacity /\ length < capacity
        /\ size = Header + Item * capacity
        /\ capacity \in Nat /\ length \in Nat
    BY <1>1, <2>1 DEF VecInv, TypeOK
  <2>3. ~(Header + Item * (length + 1) > size)
    BY <2>2 DEF Header, Item
  <2>4. ~stray'
    BY <1>1, <2>3, Zenon
  <2> QED BY <1>1, <2>2, <2>4
<1> QED BY <1>1, <1>2, <1>3 DEF VecInv, CallerHasBlock, NeverStray

(* vec_push() into a full block: the doubled size is a size_t, because the *)
(* block that is full already is at most HeapMax.                          *)
LEMMA VecGrowKeeps ==
  ASSUME VecInv, VecGrowAndPush
  PROVE  VecInv'
<1>1. /\ pc = "use" /\ pc' = "use" /\ ~stray /\ length = capacity
      /\ Bytes(Grown) <= HeapMax
      /\ capacity' = Grown /\ size' = Bytes(Grown)
      /\ length' = length + 1
      /\ asked' = asked
      /\ block' \in {block, 1 - block} /\ super_v' = block'
      /\ stray' = (stray \/ Header + Item * (length + 1) > size')
  BY DEF VecGrowAndPush, InUse, Full, Put, SetSuper
<1>2. capacity \in Nat /\ length \in Nat /\ block \in 0..1
  BY DEF VecInv, TypeOK
<1>3. Grown \in 0..SizeMax
  BY <1>2, WrapType DEF Grown
<1>4. size' \in 0..HeapMax
  <2>1. Grown * Item \in Nat
    BY <1>3, VecAssumption DEF Item
  <2>2. Header + Wrap(Grown * Item) \in Nat
    BY <2>1, WrapType DEF Header
  <2>3. Bytes(Grown) \in 0..SizeMax
    BY <2>2, WrapType DEF Bytes
  <2> QED BY <1>1, <2>3, VecAssumption
<1>5. TypeOK'
  <2>1. block' \in 0..1
    BY <1>1, <1>2
  <2> QED BY <1>1, <1>2, <1>3, <1>4, <2>1 DEF VecInv, TypeOK
<1>6. ASSUME Sensible'
      PROVE  /\ 0 < capacity'
             /\ length' <= capacity'
             /\ size' = Header + Item * capacity'
             /\ ~stray'
  <2>1. Sensible
    BY <1>1, <1>6 DEF Sensible
  <2>2. 0 < capacity /\ size = Header + Item * capacity /\ size <= HeapMax
    BY <1>1, <2>1 DEF VecInv, TypeOK
  <2>3. 2 * capacity \in Nat /\ Header + Item * (2 * capacity) <= SizeMax
    BY <1>2, <2>2, VecAssumption DEF Header, Item
  <2>4. 2 * capacity <= SizeMax
    BY <1>2, <2>3, VecAssumption DEF Header, Item
  <2>5. Grown = 2 * capacity
    BY <2>3, <2>4, WrapSmall DEF Grown
  <2>6. size' = Header + Item * capacity'
    BY <1>1, <2>3, <2>5, BytesExact
  <2>7. 0 < capacity' /\ length' <= capacity'
    BY <1>1, <1>2, <2>2, <2>5
  <2>8. ~(Header + Item * (length + 1) > size')
    BY <1>1, <1>2, <2>2, <2>5, <2>6 DEF Header, Item
  <2> QED BY <1>1, <2>6, <2>7, <2>8
<1> QED BY <1>1, <1>5, <1>6 DEF VecInv, CallerHasBlock, NeverStray

(* Every step keeps the inductive invariant.                               *)
LEMMA VecStep ==
  ASSUME VecInv, [Next]_vars
  PROVE  VecInv'
<1>1. CASE VecNew
  BY <1>1, VecNewKeeps
<1>2. CASE VecPush
  BY <1>2, VecPushKeeps
<1>3. CASE VecGrowAndPush
  BY <1>3, VecGrowKeeps
<1>4. CASE NoMemory
  <2>1. /\ pc' = "null"
        /\ UNCHANGED <<asked, capacity, length, size, block, super_v, stray>>
    BY <1>4 DEF NoMemory
  <2>2. TypeOK' /\ CallerHasBlock' /\ NeverStray'
    BY <2>1 DEF VecInv, TypeOK, CallerHasBlock, NeverStray, Sensible
  <2> QED BY <2>1, <2>2 DEF VecInv
<1>5. CASE UNCHANGED vars
  BY <1>5 DEF vars, VecInv, TypeOK, CallerHasBlock, NeverStray, Sensible
<1> QED BY <1>1, <1>2, <1>3, <1>4, <1>5 DEF Next

-----------------------------------------------------------------------------
(* SmallString: buffers. *)

Cells == Chars \union {Nul, Junk}

(* A buffer of n bytes holds the characters of t and a NUL behind them.    *)
Shows(buffer, n, t) ==
  /\ Len(t) < n
  /\ \A k \in 1..Len(t) : buffer[k] = t[k]
  /\ buffer[Len(t) + 1] = Nul

LEMMA BlockType ==
  ASSUME NEW n \in Nat
  PROVE  String!Block(n) \in [1..n -> Cells]
BY DEF String!Block, Cells

(* memcpy() of a whole buffer into one that is no smaller.                 *)
LEMMA MemcpyType ==
  ASSUME NEW m \in Nat, NEW n \in Nat, m <= n,
         NEW buffer \in [1..n -> Cells], NEW src \in [1..m -> Cells]
  PROVE  /\ String!Memcpy(buffer, src) \in [1..n -> Cells]
         /\ \A k \in 1..m : String!Memcpy(buffer, src)[k] = src[k]
BY DEF String!Memcpy

LEMMA MemcpyShows ==
  ASSUME NEW m \in Nat, NEW n \in Nat, m <= n,
         NEW buffer \in [1..n -> Cells], NEW src \in [1..m -> Cells],
         NEW t \in Seq(Chars), Shows(src, m, t)
  PROVE  Shows(String!Memcpy(buffer, src), n, t)
<1>1. Len(t) \in Nat /\ Len(t) < m
  BY DEF Shows
<1>2. \A k \in 1..m : String!Memcpy(buffer, src)[k] = src[k]
  BY MemcpyType
<1>3. Len(t) + 1 \in 1..m /\ \A k \in 1..Len(t) : k \in 1..m
  BY <1>1
<1> QED
  BY <1>1, <1>2, <1>3, SMTT(30) DEF Shows

LEMMA StoreType ==
  ASSUME NEW n \in Nat, NEW buffer \in [1..n -> Cells], NEW l \in Nat,
         NEW c \in Chars
  PROVE  String!Store(buffer, l, c) \in [1..n -> Cells]
<1>1. \A b \in 1..n :
        (CASE b = l + 1 -> c [] b = l + 2 -> Nul [] OTHER -> buffer[b])
          \in Cells
  BY DEF Cells
<1> QED
  BY <1>1 DEF String!Store

(* A character and the NUL stored behind those that a buffer shows.        *)
LEMMA StoreShows ==
  ASSUME NEW n \in Nat, NEW buffer \in [1..n -> Cells],
         NEW t \in Seq(Chars), NEW c \in Chars,
         Len(t) + 2 <= n,
         \A k \in 1..Len(t) : buffer[k] = t[k]
  PROVE  Shows(String!Store(buffer, Len(t), c), n, Append(t, c))
<1> DEFINE l == Len(t)
           u == Append(t, c)
           stored == String!Store(buffer, l, c)
<1>1. l \in Nat /\ l + 2 <= n
  OBVIOUS
<1>2. /\ Len(u) = l + 1
      /\ \A k \in 1..l : u[k] = t[k]
      /\ u[l + 1] = c
  OBVIOUS
<1>3. \A k \in 1..n :
        stored[k] = CASE k = l + 1 -> c
                      [] k = l + 2 -> Nul
                      [] OTHER -> buffer[k]
  BY DEF String!Store
<1>4. \A k \in 1..l : stored[k] = buffer[k]
  BY <1>1, <1>3
<1>5. stored[l + 1] = c /\ stored[l + 2] = Nul
  BY <1>1, <1>3
<1> HIDE DEF l, u, stored
<1>6. \A k \in 1..Len(u) : stored[k] = u[k]
  <2> SUFFICES ASSUME NEW k \in 1..(l + 1)
               PROVE  stored[k] = u[k]
    BY <1>2
  <2>1. CASE k = l + 1
    BY <1>2, <1>5, <2>1
  <2>2. CASE k # l + 1
    <3>1. k \in 1..l
      BY <1>1, <2>2
    <3>2. buffer[k] = t[k]
      BY <3>1 DEF l
    <3> QED
      BY <1>2, <1>4, <3>1, <3>2
  <2> QED
    BY <2>1, <2>2
<1>7. Len(u) < n /\ stored[Len(u) + 1] = Nul
  BY <1>1, <1>2, <1>5
<1> QED
  BY <1>6, <1>7 DEF Shows, l, u, stored

-----------------------------------------------------------------------------
(* SmallString: what is true of one string. *)

SmallRecords == [data : [1..Small -> Cells], length : Nat, capacity : Nat]
LargeRecords == [data : String!Addresses, length : Nat, capacity : Nat]
Origins == {"own", "copy", "pushed"}

(* A string r in the union, with text t. *)
SmallSound(r, t, o) ==
  /\ r \in SmallRecords
  /\ r.capacity = Small - 1
  /\ r.length = Len(t)
  /\ o = "own"
  /\ Shows(r.data, Small, t)

(* A string r with the given block, of which its length tells more than    *)
(* the length of its text once it is a copy.                               *)
LargeSound(r, block_, t, o) ==
  /\ r \in LargeRecords
  /\ r.capacity >= Small
  /\ block_ \in [1..r.capacity -> Cells]
  /\ r.length <= r.capacity
  /\ o = "own" => r.length = Len(t)
  /\ o # "pushed" => Shows(block_, r.capacity, t)

LEMMA RecordsAreSet ==
  ASSUME NEW r, r \in SmallRecords \/ r \in LargeRecords
  PROVE  r # Unset
<1>1. CASE r \in SmallRecords
  BY <1>1, StringAssumption DEF SmallRecords, Cells
<1>2. CASE r \in LargeRecords
  <2>1. String!Addresses \subseteq Nat
    BY DEF String!Addresses
  <2>2. r \in [data : Nat, length : Nat, capacity : Nat]
    BY <1>2, <2>1 DEF LargeRecords
  <2> QED
    BY <2>2, StringAssumption
<1> QED
  BY <1>1, <1>2

LEMMA BlocksAreUsed ==
  ASSUME NEW n \in Nat, NEW b \in [1..n -> Cells]
  PROVE  b # Free /\ b \in Seq(Cells) /\ Len(b) = n
<1>1. b \in Seq(Cells) /\ Len(b) = n
  OBVIOUS
<1>2. Free \notin Seq(Cells)
  BY StringAssumption DEF Cells
<1> QED
  BY <1>1, <1>2

(* string_new() *)
LEMMA NewSound ==
  SmallSound([data |-> String!Memcpy(String!Block(Small), <<Nul>>),
              length |-> 0, capacity |-> Small - 1], <<>>, "own")
<1> DEFINE w == <<Nul>>
           u == String!Memcpy(String!Block(Small), w)
<1>1. Small \in Nat /\ Small >= 2 /\ 1 <= Small
  BY StringAssumption
<1>2. w \in [1..1 -> Cells] /\ w[1] = Nul /\ 1 \in 1..1
  BY DEF Cells
<1> HIDE DEF w
<1>3. String!Block(Small) \in [1..Small -> Cells]
  BY <1>1, BlockType
<1>4. u \in [1..Small -> Cells] /\ u[1] = Nul
  <2>1. u \in [1..Small -> Cells] /\ \A k \in 1..1 : u[k] = w[k]
    <3>1. 1 \in Nat
      OBVIOUS
    <3> QED
      BY <1>1, <1>2, <1>3, <3>1, MemcpyType
  <2> QED
    BY <1>2, <2>1
<1> HIDE DEF u
<1>5. Len(<<>>) = 0 /\ \A k \in 1..0 : FALSE
  OBVIOUS
<1>6. Shows(u, Small, <<>>)
  BY <1>1, <1>4, <1>5 DEF Shows
<1> QED
  BY <1>1, <1>4, <1>6 DEF SmallSound, SmallRecords, u, w

(* string_push_char() that leaves the text in the union: the NUL fits.     *)
LEMMA PushSmallSound ==
  ASSUME NEW r, NEW t \in Seq(Chars), NEW o, NEW c \in Chars,
         SmallSound(r, t, o), ~String!Overflows(r)
  PROVE  /\ SmallSound([data |-> String!Store(r.data, r.length, c),
                     length |-> r.length + 1, capacity |-> r.capacity],
                    Append(t, c), o)
         /\ ~(r.length + 2 > Small)
<1>1. /\ Small \in Nat /\ Len(t) \in Nat
      /\ r.length = Len(t) /\ r.capacity = Small - 1
      /\ r.data \in [1..Small -> Cells]
      /\ r \in SmallRecords /\ o = "own"
  BY StringAssumption DEF SmallSound, SmallRecords
<1>2. Len(t) + 2 <= Small
  BY <1>1 DEF String!Overflows
<1>3. \A k \in 1..Len(t) : r.data[k] = t[k]
  BY DEF SmallSound, Shows
<1> DEFINE u == String!Store(r.data, r.length, c)
<1>4. Shows(u, Small, Append(t, c))
  BY <1>1, <1>2, <1>3, StoreShows
<1>5. u \in [1..Small -> Cells]
  BY <1>1, StoreType
<1> HIDE DEF u
<1>6. Len(Append(t, c)) = Len(t) + 1
  OBVIOUS
<1> DEFINE x == [data |-> u, length |-> r.length + 1,
                 capacity |-> r.capacity]
<1>7. /\ x \in SmallRecords
      /\ x.data = u /\ x.length = r.length + 1 /\ x.capacity = r.capacity
  BY <1>1, <1>5 DEF SmallRecords
<1> HIDE DEF x
<1>8. SmallSound(x, Append(t, c), o)
  BY <1>1, <1>4, <1>6, <1>7 DEF SmallSound
<1> QED
  BY <1>1, <1>2, <1>8 DEF u, x

(* grow_for() that moves the text to the heap, and the push there.         *)
LEMMA PushMovesSound ==
  ASSUME NEW r, NEW t \in Seq(Chars), NEW o, NEW c \in Chars,
         NEW a \in String!Addresses, NEW cap, cap = r.length + Small,
         SmallSound(r, t, o)
  PROVE  /\ LargeSound(
              [data |-> a, length |-> r.length + 1, capacity |-> cap],
              String!Store(String!Memcpy(String!Block(cap), r.data),
                           r.length, c),
              Append(t, c), o)
         /\ ~(r.length + 2 > cap)
<1>1. /\ Small \in Nat /\ Small >= 2 /\ Len(t) \in Nat
      /\ r.length = Len(t)
      /\ r.data \in [1..Small -> Cells]
      /\ Shows(r.data, Small, t)
      /\ o = "own"
  BY StringAssumption DEF SmallSound, SmallRecords
<1>2. cap \in Nat /\ Len(t) + 2 <= cap /\ Small <= cap
  BY <1>1
<1> DEFINE v == String!Memcpy(String!Block(cap), r.data)
           u == String!Store(v, r.length, c)
<1>3. String!Block(cap) \in [1..cap -> Cells]
  BY <1>2, BlockType
<1>4. v \in [1..cap -> Cells] /\ Shows(v, cap, t)
  BY <1>1, <1>2, <1>3, MemcpyType, MemcpyShows
<1> HIDE DEF v
<1>5. u \in [1..cap -> Cells]
  BY <1>1, <1>2, <1>4, StoreType
<1>6. Shows(u, cap, Append(t, c))
  <2>1. \A k \in 1..Len(t) : v[k] = t[k]
    BY <1>4 DEF Shows
  <2> QED
    BY <1>1, <1>2, <1>4, <2>1, StoreShows
<1> HIDE DEF u
<1>7. Len(Append(t, c)) = Len(t) + 1
  OBVIOUS
<1>8. LargeSound([data |-> a, length |-> r.length + 1, capacity |-> cap],
                 u, Append(t, c), o)
  BY <1>1, <1>2, <1>5, <1>6, <1>7 DEF LargeSound, LargeRecords
<1> QED
  BY <1>1, <1>2, <1>8 DEF u, v

(* string_push_char() onto a block: its NUL fits but behind a copy.        *)
LEMMA PushLargeSound ==
  ASSUME NEW r, NEW t \in Seq(Chars), NEW o \in Origins, NEW c \in Chars,
         NEW a \in String!Addresses, NEW b, NEW cap, cap = r.capacity + 1,
         LargeSound(r, b, t, o)
  PROVE  /\ LargeSound(
              [data |-> a, length |-> r.length + 1, capacity |-> cap],
              String!Store(String!Memcpy(String!Block(cap), b), r.length, c),
              Append(t, c), IF o = "own" THEN o ELSE "pushed")
         /\ o = "own" => ~(r.length + 2 > cap)
<1>1. /\ Small \in Nat /\ Len(t) \in Nat
      /\ r.length \in Nat /\ r.capacity \in Nat
      /\ r.length <= r.capacity /\ Small <= r.capacity
      /\ b \in [1..r.capacity -> Cells]
  BY StringAssumption DEF LargeSound, LargeRecords
<1>2. cap \in Nat /\ r.capacity <= cap
  BY <1>1
<1> DEFINE v == String!Memcpy(String!Block(cap), b)
           u == String!Store(v, r.length, c)
           q == IF o = "own" THEN o ELSE "pushed"
           x == [data |-> a, length |-> r.length + 1, capacity |-> cap]
<1>3. String!Block(cap) \in [1..cap -> Cells]
  BY <1>2, BlockType
<1>4. v \in [1..cap -> Cells]
  BY <1>1, <1>2, <1>3, MemcpyType
<1>5. u \in [1..cap -> Cells]
  <2> HIDE DEF v
  <2> QED
    BY <1>1, <1>2, <1>4, StoreType
<1>6. x \in LargeRecords
  BY <1>1, <1>2 DEF LargeRecords
<1>7. CASE o = "own"
  <2>1. r.length = Len(t) /\ Shows(b, r.capacity, t)
    BY <1>7 DEF LargeSound
  <2>2. Len(t) + 2 <= cap
    BY <1>1, <2>1 DEF Shows
  <2>3. Shows(v, cap, t)
    BY <1>1, <1>2, <1>3, <2>1, MemcpyShows
  <2>4. Shows(u, cap, Append(t, c))
    <3> HIDE DEF v
    <3>1. \A k \in 1..Len(t) : v[k] = t[k]
      BY <2>3 DEF Shows
    <3> QED
      BY <1>2, <1>4, <2>1, <2>2, <3>1, StoreShows
  <2>5. Len(Append(t, c)) = Len(t) + 1
    OBVIOUS
  <2> HIDE DEF u, v
  <2>6. LargeSound(x, u, Append(t, c), q)
    BY <1>1, <1>2, <1>5, <1>6, <1>7, <2>1, <2>4, <2>5 DEF LargeSound
  <2> QED
    BY <1>1, <2>1, <2>2, <2>6 DEF u, v
<1>8. CASE o # "own"
  <2>1. q = "pushed"
    BY <1>8
  <2> HIDE DEF u, v, q
  <2>2. LargeSound(x, u, Append(t, c), q)
    BY <1>1, <1>2, <1>5, <1>6, <2>1 DEF LargeSound
  <2> QED
    BY <1>8, <2>2 DEF u, v, q
<1> QED
  BY <1>7, <1>8

(* string_copy() of a block. *)
LEMMA CopyLargeSound ==
  ASSUME NEW r, NEW t \in Seq(Chars), NEW o \in Origins,
         NEW a \in String!Addresses, NEW b,
         LargeSound(r, b, t, o)
  PROVE  LargeSound(
           [data |-> a, length |-> r.capacity, capacity |-> r.capacity],
           String!Memcpy(String!Block(r.capacity), b),
           t, IF o = "pushed" THEN "pushed" ELSE "copy")
<1> DEFINE cap == r.capacity
           u == String!Memcpy(String!Block(cap), b)
           q == IF o = "pushed" THEN "pushed" ELSE "copy"
           x == [data |-> a, length |-> cap, capacity |-> cap]
<1>1. cap \in Nat /\ cap >= Small /\ b \in [1..cap -> Cells]
  BY DEF LargeSound, LargeRecords
<1>2. String!Block(cap) \in [1..cap -> Cells]
  BY <1>1, BlockType
<1>3. u \in [1..cap -> Cells]
  BY <1>1, <1>2, MemcpyType, SMTT(30)
<1>4. o # "pushed" => Shows(u, cap, t)
  BY <1>1, <1>2, MemcpyShows, SMTT(30) DEF LargeSound
<1>5. x \in LargeRecords
  BY <1>1 DEF LargeRecords
<1>6. q # "own" /\ (q # "pushed" => o # "pushed")
  OBVIOUS
<1> HIDE DEF u, q
<1> QED
  BY <1>1, <1>3, <1>4, <1>5, <1>6 DEF LargeSound, u, q

-----------------------------------------------------------------------------
(* SmallString: the inductive invariant. *)

IsLarge(s) == str[s] # Unset /\ ~String!IsSmall(str[s])

StringTypes ==
  /\ str = [s \in Strings |-> str[s]]
  /\ heap \in [String!Addresses -> {Free} \union Seq(Cells)]
  /\ strayed \in BOOLEAN
  /\ text \in [Strings -> Seq(Chars)]
  /\ origin \in [Strings -> Origins]

Sound(s) ==
  /\ str[s] = Unset => text[s] = <<>> /\ origin[s] = "own"
  /\ (str[s] # Unset /\ ~IsLarge(s)) =>
       SmallSound(str[s], text[s], origin[s])
  /\ IsLarge(s) =>
       LargeSound(str[s], heap[str[s].data], text[s], origin[s])

(* Different strings have different blocks, and every block has a string.  *)
Owned ==
  /\ \A s, x \in Strings :
       IsLarge(s) /\ IsLarge(x) /\ str[s].data = str[x].data => s = x
  /\ \A a \in String!Addresses :
       heap[a] # Free => \E s \in Strings : IsLarge(s) /\ str[s].data = a

StraysOnlyPushed == strayed => \E s \in Strings : origin[s] = "pushed"

(* Every string is sound for the history that it has: the length of an     *)
(* "own" one is that of its text, and it has room for the NUL.             *)
StringInv ==
  /\ StringTypes
  /\ \A s \in Strings : Sound(s)
  /\ Owned
  /\ StraysOnlyPushed

LEMMA StringStart == String!Init => StringInv
<1> SUFFICES ASSUME String!Init PROVE StringInv
  OBVIOUS
<1>1. /\ str = [s \in Strings |-> Unset]
      /\ heap = [a \in String!Addresses |-> Free]
      /\ text = [s \in Strings |-> <<>>]
      /\ origin = [s \in Strings |-> "own"]
  BY DEF String!Init
<1>2. strayed = FALSE
  BY Zenon DEF String!Init
<1>3. StringTypes
  <2>1. strayed \in BOOLEAN
    BY <1>2, Zenon
  <2> QED
    BY <1>1, <2>1 DEF StringTypes, Origins
<1>4. \A s \in Strings : Sound(s) /\ ~IsLarge(s)
  BY <1>1 DEF Sound, IsLarge
<1>5. Owned
  BY <1>1, <1>4 DEF Owned
<1>6. StraysOnlyPushed
  BY <1>2, Zenon DEF StraysOnlyPushed
<1> QED
  BY <1>3, <1>4, <1>5, <1>6 DEF StringInv

(* A large string has a block in use. *)
LEMMA LargeHasBlock ==
  ASSUME StringInv, NEW s \in Strings, IsLarge(s)
  PROVE  /\ LargeSound(str[s], heap[str[s].data], text[s], origin[s])
         /\ str[s].data \in String!Addresses
         /\ heap[str[s].data] # Free
         /\ heap[str[s].data] \in Seq(Cells)
         /\ Len(heap[str[s].data]) = str[s].capacity
<1>1. LargeSound(str[s], heap[str[s].data], text[s], origin[s])
  BY DEF StringInv, Sound
<1>2. /\ str[s].data \in String!Addresses
      /\ str[s].capacity \in Nat
      /\ heap[str[s].data] \in [1..str[s].capacity -> Cells]
  BY <1>1 DEF LargeSound, LargeRecords
<1> QED
  BY <1>1, <1>2, BlocksAreUsed

(* A step of one string, given what it leaves to the others.               *)
LEMMA OneString ==
  ASSUME StringInv,
         NEW s \in Strings, NEW r, NEW t \in Seq(Chars), NEW o \in Origins,
         str' = [str EXCEPT ![s] = r],
         text' = [text EXCEPT ![s] = t],
         origin' = [origin EXCEPT ![s] = o],
         heap' \in [String!Addresses -> {Free} \union Seq(Cells)],
         strayed' \in BOOLEAN,
         Sound(s)',
         \A x \in Strings \ {s} : IsLarge(x) =>
           heap'[str[x].data] = heap[str[x].data],
         \A x \in Strings \ {s} :
           IsLarge(x) /\ IsLarge(s)' => str[x].data # r.data,
         \A a \in String!Addresses : heap'[a] # Free =>
           \/ IsLarge(s)' /\ r.data = a
           \/ \E x \in Strings \ {s} : IsLarge(x) /\ str[x].data = a,
         strayed' => strayed \/ o = "pushed",
         origin[s] = "pushed" => o = "pushed"
  PROVE  StringInv'
<1>1. /\ str = [x \in Strings |-> str[x]]
      /\ text \in [Strings -> Seq(Chars)]
      /\ origin \in [Strings -> Origins]
  BY DEF StringInv, StringTypes
<1>2. /\ str'[s] = r
      /\ \A x \in Strings \ {s} : str'[x] = str[x]
      /\ str' = [x \in Strings |-> str'[x]]
  BY <1>1
<1>3. /\ text'[s] = t
      /\ \A x \in Strings \ {s} : text'[x] = text[x]
      /\ text' \in [Strings -> Seq(Chars)]
  BY <1>1
<1>4. /\ origin'[s] = o
      /\ \A x \in Strings \ {s} : origin'[x] = origin[x]
      /\ origin' \in [Strings -> Origins]
  BY <1>1
<1>5. StringTypes'
  BY <1>2, <1>3, <1>4 DEF StringTypes
<1>6. \A x \in Strings \ {s} : IsLarge(x)' <=> IsLarge(x)
  BY <1>2 DEF IsLarge
<1>7. ASSUME NEW x \in Strings
      PROVE  Sound(x)'
  <2>1. CASE x = s
    BY <2>1
  <2>2. CASE x # s
    <3>1. /\ str'[x] = str[x] /\ text'[x] = text[x]
          /\ origin'[x] = origin[x]
      BY <2>2, <1>2, <1>3, <1>4
    <3>2. IsLarge(x)' <=> IsLarge(x)
      BY <2>2, <1>6
    <3>3. IsLarge(x) => heap'[str[x].data] = heap[str[x].data]
      BY <2>2
    <3>4. Sound(x)
      BY DEF StringInv
    <3> QED
      BY <3>1, <3>2, <3>3, <3>4 DEF Sound
  <2> QED
    BY <2>1, <2>2
<1>8. Owned'
  <2>1. Owned
    BY DEF StringInv
  <2>2. ASSUME NEW x \in Strings, NEW y \in Strings,
               IsLarge(x)', IsLarge(y)', str'[x].data = str'[y].data
        PROVE  x = y
    <3>1. CASE x # s /\ y # s
      BY <3>1, <2>1, <2>2, <1>2, <1>6 DEF Owned
    <3>2. CASE x = s /\ y # s
      <4>1. IsLarge(y) /\ IsLarge(s)' /\ str[y].data = r.data
        BY <3>2, <2>2, <1>2, <1>6
      <4> QED
        BY <3>2, <4>1
    <3>3. CASE x # s /\ y = s
      <4>1. IsLarge(x) /\ IsLarge(s)' /\ str[x].data = r.data
        BY <3>3, <2>2, <1>2, <1>6
      <4> QED
        BY <3>3, <4>1
    <3> QED
      BY <3>1, <3>2, <3>3
  <2>3. ASSUME NEW a \in String!Addresses, heap'[a] # Free
        PROVE  \E x \in Strings : IsLarge(x)' /\ str'[x].data = a
    <3>1. CASE IsLarge(s)' /\ r.data = a
      BY <3>1, <1>2
    <3>2. CASE \E x \in Strings \ {s} : IsLarge(x) /\ str[x].data = a
      BY <3>2, <1>2, <1>6
    <3> QED
      BY <2>3, <3>1, <3>2
  <2> QED
    BY <2>2, <2>3 DEF Owned
<1>9. StraysOnlyPushed'
  <2> SUFFICES ASSUME strayed'
               PROVE  \E x \in Strings : origin'[x] = "pushed"
    BY DEF StraysOnlyPushed
  <2>1. CASE o = "pushed"
    BY <2>1, <1>4
  <2>2. CASE strayed
    <3>1. PICK x \in Strings : origin[x] = "pushed"
      BY <2>2 DEF StringInv, StraysOnlyPushed
    <3>2. origin'[x] = "pushed"
      BY <3>1, <1>4
    <3> QED
      BY <3>2
  <2> QED
    BY <2>1, <2>2
<1> QED
  BY <1>5, <1>7, <1>8, <1>9 DEF StringInv

(* A step that leaves the string in the union. *)
LEMMA SettlesSmall ==
  ASSUME StringInv,
         NEW s \in Strings, NEW r, NEW t \in Seq(Chars), NEW o \in Origins,
         ~IsLarge(s),
         SmallSound(r, t, o),
         str' = [str EXCEPT ![s] = r],
         text' = [text EXCEPT ![s] = t],
         origin' = [origin EXCEPT ![s] = o],
         heap' = heap,
         strayed' \in BOOLEAN, strayed' => strayed,
         origin[s] # "pushed"
  PROVE  StringInv'
<1>1. /\ heap \in [String!Addresses -> {Free} \union Seq(Cells)]
      /\ str = [x \in Strings |-> str[x]]
      /\ text \in [Strings -> Seq(Chars)]
      /\ origin \in [Strings -> Origins]
  BY DEF StringInv, StringTypes
<1>2. str'[s] = r /\ text'[s] = t /\ origin'[s] = o
  BY <1>1
<1>3. r # Unset /\ r.capacity < Small
  <2>1. r # Unset
    BY RecordsAreSet DEF SmallSound
  <2>2. r.capacity < Small
    BY StringAssumption DEF SmallSound
  <2> QED
    BY <2>1, <2>2
<1>4. ~IsLarge(s)'
  BY <1>2, <1>3 DEF IsLarge, String!IsSmall
<1>5. Sound(s)'
  BY <1>2, <1>3, <1>4 DEF Sound
<1>6. \A x \in Strings \ {s} : IsLarge(x) =>
        heap'[str[x].data] = heap[str[x].data]
  OBVIOUS
<1>7. \A a \in String!Addresses : heap'[a] # Free =>
        \E x \in Strings \ {s} : IsLarge(x) /\ str[x].data = a
  BY DEF StringInv, Owned
<1> QED
  BY <1>1, <1>4, <1>5, <1>6, <1>7, OneString

(* malloc() *)
LEMMA SettlesLarge ==
  ASSUME StringInv,
         NEW s \in Strings, NEW r, NEW t \in Seq(Chars), NEW o \in Origins,
         NEW a \in String!Addresses, NEW b,
         ~IsLarge(s), heap[a] = Free, r.data = a,
         LargeSound(r, b, t, o),
         str' = [str EXCEPT ![s] = r],
         text' = [text EXCEPT ![s] = t],
         origin' = [origin EXCEPT ![s] = o],
         heap' = [heap EXCEPT ![a] = b],
         strayed' \in BOOLEAN, strayed' => strayed,
         origin[s] # "pushed"
  PROVE  StringInv'
<1>1. /\ heap \in [String!Addresses -> {Free} \union Seq(Cells)]
      /\ str = [x \in Strings |-> str[x]]
      /\ text \in [Strings -> Seq(Chars)]
      /\ origin \in [Strings -> Origins]
  BY DEF StringInv, StringTypes
<1>2. str'[s] = r /\ text'[s] = t /\ origin'[s] = o
  BY <1>1
<1>3. /\ r \in LargeRecords /\ r.capacity \in Nat /\ r.capacity >= Small
      /\ b \in [1..r.capacity -> Cells]
  BY DEF LargeSound, LargeRecords
<1>4. b \in Seq(Cells)
  BY <1>3, BlocksAreUsed
<1>5. /\ heap' \in [String!Addresses -> {Free} \union Seq(Cells)]
      /\ heap'[a] = b
      /\ \A d \in String!Addresses \ {a} : heap'[d] = heap[d]
  BY <1>1, <1>4
<1>6. r # Unset /\ ~(r.capacity < Small)
  <2>1. r # Unset
    BY <1>3, RecordsAreSet
  <2> QED
    BY <1>3, <2>1, StringAssumption
<1>7. IsLarge(s)'
  BY <1>2, <1>6 DEF IsLarge, String!IsSmall
<1>8. Sound(s)'
  BY <1>2, <1>5, <1>6, <1>7 DEF Sound
<1>9. \A x \in Strings \ {s} : IsLarge(x) =>
        str[x].data # a /\ heap'[str[x].data] = heap[str[x].data]
  BY <1>5, LargeHasBlock
<1>10. \A d \in String!Addresses : heap'[d] # Free =>
         \/ r.data = d
         \/ \E x \in Strings \ {s} : IsLarge(x) /\ str[x].data = d
  BY <1>5 DEF StringInv, Owned
<1>11. \A x \in Strings \ {s} : IsLarge(x) =>
         heap'[str[x].data] = heap[str[x].data]
  BY <1>9
<1>12. \A x \in Strings \ {s} :
         IsLarge(x) /\ IsLarge(s)' => str[x].data # r.data
  BY <1>9
<1>13. \A d \in String!Addresses : heap'[d] # Free =>
         \/ IsLarge(s)' /\ r.data = d
         \/ \E x \in Strings \ {s} : IsLarge(x) /\ str[x].data = d
  BY <1>7, <1>10
<1>14. /\ strayed' => strayed \/ o = "pushed"
       /\ origin[s] = "pushed" => o = "pushed"
  BY Zenon
<1> QED
  BY <1>5, <1>8, <1>11, <1>12, <1>13, <1>14, OneString, Zenon

(* realloc() *)
LEMMA SettlesElsewhere ==
  ASSUME StringInv,
         NEW s \in Strings, NEW r, NEW t \in Seq(Chars), NEW o \in Origins,
         NEW a \in String!Addresses, NEW b,
         IsLarge(s), heap[a] = Free \/ a = str[s].data, r.data = a,
         LargeSound(r, b, t, o),
         str' = [str EXCEPT ![s] = r],
         text' = [text EXCEPT ![s] = t],
         origin' = [origin EXCEPT ![s] = o],
         heap' = [heap EXCEPT ![str[s].data] = Free, ![a] = b],
         strayed' \in BOOLEAN, strayed' => strayed \/ o = "pushed",
         origin[s] = "pushed" => o = "pushed"
  PROVE  StringInv'
<1> DEFINE e == str[s].data
<1>1. /\ heap \in [String!Addresses -> {Free} \union Seq(Cells)]
      /\ str = [x \in Strings |-> str[x]]
      /\ text \in [Strings -> Seq(Chars)]
      /\ origin \in [Strings -> Origins]
  BY DEF StringInv, StringTypes
<1>2. str'[s] = r /\ text'[s] = t /\ origin'[s] = o
  BY <1>1
<1>3. /\ r \in LargeRecords /\ r.capacity \in Nat /\ r.capacity >= Small
      /\ b \in [1..r.capacity -> Cells]
  BY DEF LargeSound, LargeRecords
<1>4. b \in Seq(Cells)
  BY <1>3, BlocksAreUsed
<1>5. e \in String!Addresses
  BY LargeHasBlock
<1>6. \A x \in Strings \ {s} : IsLarge(x) =>
        /\ str[x].data # a /\ str[x].data # e
        /\ str[x].data \in String!Addresses
  <2>1. \A x \in Strings \ {s} : IsLarge(x) => str[x].data # e
    BY DEF StringInv, Owned
  <2>2. \A x \in Strings \ {s} : IsLarge(x) =>
          heap[str[x].data] # Free /\ str[x].data \in String!Addresses
    BY LargeHasBlock
  <2> QED
    BY <2>1, <2>2
<1>7. \A d \in String!Addresses : heap[d] # Free =>
        d = e \/ \E x \in Strings \ {s} : IsLarge(x) /\ str[x].data = d
  BY DEF StringInv, Owned
<1> HIDE DEF e
<1>8. heap' = [heap EXCEPT ![e] = Free, ![a] = b]
  BY DEF e
<1>9. /\ heap' \in [String!Addresses -> {Free} \union Seq(Cells)]
      /\ heap'[a] = b
      /\ \A d \in String!Addresses \ {a, e} : heap'[d] = heap[d]
      /\ e # a => heap'[e] = Free
  <2>1. heap' \in [String!Addresses -> {Free} \union Seq(Cells)]
    BY <1>1, <1>4, <1>5, <1>8
  <2>2. heap'[a] = b
    BY <1>1, <1>8
  <2>3. \A d \in String!Addresses \ {a, e} : heap'[d] = heap[d]
    BY <1>1, <1>8
  <2>4. e # a => heap'[e] = Free
    BY <1>1, <1>5, <1>8
  <2> QED
    BY <2>1, <2>2, <2>3, <2>4
<1>10. r # Unset /\ ~(r.capacity < Small)
  <2>1. r # Unset
    BY <1>3, RecordsAreSet
  <2> QED
    BY <1>3, <2>1, StringAssumption
<1>11. IsLarge(s)'
  BY <1>2, <1>10 DEF IsLarge, String!IsSmall
<1>12. Sound(s)'
  BY <1>2, <1>9, <1>10, <1>11 DEF Sound
<1>13. \A x \in Strings \ {s} : IsLarge(x) =>
         heap'[str[x].data] = heap[str[x].data]
  BY <1>6, <1>9
<1>14. \A x \in Strings \ {s} :
         IsLarge(x) /\ IsLarge(s)' => str[x].data # r.data
  BY <1>6
<1>15. \A d \in String!Addresses : heap'[d] # Free =>
         \/ IsLarge(s)' /\ r.data = d
         \/ \E x \in Strings \ {s} : IsLarge(x) /\ str[x].data = d
  BY <1>7, <1>9, <1>11
<1> QED
  BY <1>9, <1>12, <1>13, <1>14, <1>15, OneString, Zenon

LEMMA StringNewKeeps ==
  ASSUME StringInv, NEW s \in Strings, String!StringNew(s)
  PROVE  StringInv'
<1> DEFINE r == [data |-> String!Memcpy(String!Block(Small), <<Nul>>),
                 length |-> 0, capacity |-> Small - 1]
<1>1. /\ str[s] = Unset
      /\ str' = [str EXCEPT ![s] = r]
      /\ heap' = heap /\ text' = text /\ origin' = origin
  BY DEF String!StringNew
<1>2. strayed' = strayed
  BY Zenon DEF String!StringNew
<1>3. SmallSound(r, <<>>, "own")
  BY NewSound
<1> HIDE DEF r
<1>4. /\ text[s] = <<>> /\ origin[s] = "own"
      /\ text \in [Strings -> Seq(Chars)] /\ origin \in [Strings -> Origins]
  BY <1>1 DEF StringInv, StringTypes, Sound
<1>5. /\ text' = [text EXCEPT ![s] = <<>>]
      /\ origin' = [origin EXCEPT ![s] = "own"]
  BY <1>1, <1>4
<1>6. strayed' \in BOOLEAN /\ (strayed' => strayed)
  BY <1>2, Zenon DEF StringInv, StringTypes
<1>7. ~IsLarge(s)
  BY <1>1 DEF IsLarge
<1>8. <<>> \in Seq(Chars) /\ "own" \in Origins /\ origin[s] # "pushed"
  BY <1>4 DEF Origins
<1> QED
  BY <1>1, <1>3, <1>5, <1>6, <1>7, <1>8, SettlesSmall

LEMMA StringPushCharKeeps ==
  ASSUME StringInv, NEW s \in Strings, NEW c \in Chars,
         String!StringPushChar(s, c)
  PROVE  StringInv'
<1> DEFINE r == str[s]
           t == text[s]
           q == IF origin[s] = "own" THEN origin[s] ELSE "pushed"
<1>1. /\ str[s] # Unset
      /\ text' = [text EXCEPT ![s] = Append(t, c)]
      /\ origin' = [origin EXCEPT ![s] = q]
  BY DEF String!StringPushChar
<1>2. /\ t \in Seq(Chars) /\ Append(t, c) \in Seq(Chars)
      /\ origin[s] \in Origins /\ q \in Origins
      /\ origin[s] = "pushed" => q = "pushed"
  <2>1. t \in Seq(Chars) /\ origin[s] \in Origins
    BY DEF StringInv, StringTypes
  <2> HIDE DEF t
  <2> QED
    BY <2>1 DEF Origins
<1>3. strayed \in BOOLEAN
  BY DEF StringInv, StringTypes
<1>4. CASE String!PushSmall(s, c)
  <2> DEFINE x == [data |-> String!Store(r.data, r.length, c),
                   length |-> r.length + 1, capacity |-> r.capacity]
  <2>1. /\ String!IsSmall(r) /\ ~String!Overflows(r)
        /\ str' = [str EXCEPT ![s] = x]
        /\ heap' = heap
    BY <1>4 DEF String!PushSmall
  <2>2. strayed' = (strayed \/ r.length + 2 > Small)
    BY <1>4, Zenon DEF String!PushSmall
  <2>3. ~IsLarge(s) /\ SmallSound(r, t, origin[s])
    BY <1>1, <2>1 DEF StringInv, Sound, IsLarge
  <2>4. origin[s] = "own" /\ q = origin[s]
    BY <2>3 DEF SmallSound
  <2>5. SmallSound(x, Append(t, c), origin[s]) /\ ~(r.length + 2 > Small)
    BY <1>2, <2>1, <2>3, PushSmallSound
  <2>6. strayed' \in BOOLEAN /\ (strayed' => strayed)
    BY <1>3, <2>2, <2>5, Zenon
  <2>7. origin[s] # "pushed"
    BY <2>4
  <2> HIDE DEF x, r, t, q
  <2>8. SmallSound(x, Append(t, c), q)
    BY <2>4, <2>5
  <2> QED
    BY <1>1, <1>2, <2>1, <2>3, <2>6, <2>7, <2>8, SettlesSmall, Zenon
<1>5. CASE String!PushMoves(s, c)
  <2> DEFINE cap == r.length + Small
             b == String!Store(String!Memcpy(String!Block(cap), r.data),
                               r.length, c)
  <2>1. String!IsSmall(r)
    BY <1>5 DEF String!PushMoves
  <2>2. PICK a \in String!Addresses :
          /\ heap[a] = Free
          /\ heap' = [heap EXCEPT ![a] = b]
          /\ str' = [str EXCEPT ![s] =
               [data |-> a, length |-> r.length + 1, capacity |-> cap]]
          /\ strayed' = (strayed \/ r.length + 2 > cap)
    BY <1>5, Zenon DEF String!PushMoves
  <2> DEFINE x == [data |-> a, length |-> r.length + 1, capacity |-> cap]
  <2>3. ~IsLarge(s) /\ SmallSound(r, t, origin[s])
    BY <1>1, <2>1 DEF StringInv, Sound, IsLarge
  <2>4. origin[s] = "own" /\ q = origin[s]
    BY <2>3 DEF SmallSound
  <2>5. LargeSound(x, b, Append(t, c), origin[s]) /\ ~(r.length + 2 > cap)
    BY <1>2, <2>3, PushMovesSound
  <2>6. strayed' \in BOOLEAN /\ (strayed' => strayed)
    BY <1>3, <2>2, <2>5, Zenon
  <2>7. origin[s] # "pushed" /\ x.data = a
    BY <2>4
  <2>8. str' = [str EXCEPT ![s] = x]
    BY <2>2
  <2> HIDE DEF x, b, r, t, q
  <2>9. LargeSound(x, b, Append(t, c), q)
    BY <2>4, <2>5
  <2> QED
    BY <1>1, <1>2, <2>2, <2>3, <2>6, <2>7, <2>8, <2>9, SettlesLarge, Zenon
<1>6. CASE String!PushLarge(s, c)
  <2> DEFINE cap == r.capacity + 1
             b == String!Store(
                    String!Memcpy(String!Block(cap), heap[r.data]),
                    r.length, c)
  <2>1. ~String!IsSmall(r)
    BY <1>6 DEF String!PushLarge
  <2>2. PICK a \in String!Addresses :
          /\ heap[a] = Free \/ a = r.data
          /\ heap' = [heap EXCEPT ![r.data] = Free, ![a] = b]
          /\ str' = [str EXCEPT ![s] =
               [data |-> a, length |-> r.length + 1, capacity |-> cap]]
          /\ strayed' = (strayed \/ r.length + 2 > cap)
    BY <1>6, Zenon DEF String!PushLarge
  <2> DEFINE x == [data |-> a, length |-> r.length + 1, capacity |-> cap]
  <2>3. IsLarge(s) /\ LargeSound(r, heap[r.data], t, origin[s])
    BY <1>1, <2>1 DEF StringInv, Sound, IsLarge
  <2>4. /\ LargeSound(x, b, Append(t, c), q)
        /\ origin[s] = "own" => ~(r.length + 2 > cap)
    BY <1>2, <2>3, PushLargeSound
  <2>5. origin[s] # "own" => q = "pushed"
    OBVIOUS
  <2>6. strayed' \in BOOLEAN /\ (strayed' => strayed \/ q = "pushed")
    <3> HIDE DEF q, r, cap
    <3> QED
      BY <1>3, <2>2, <2>4, <2>5, Zenon
  <2>7. x.data = a
    OBVIOUS
  <2>8. str' = [str EXCEPT ![s] = x]
    BY <2>2
  <2>9. heap[a] = Free \/ a = str[s].data
    BY <2>2
  <2>10. heap' = [heap EXCEPT ![str[s].data] = Free, ![a] = b]
    BY <2>2
  <2> HIDE DEF x, b, r, t, q
  <2> QED
    BY <1>1, <1>2, <2>3, <2>4, <2>6, <2>7, <2>8, <2>9, <2>10,
       SettlesElsewhere, Zenon
<1> QED
  BY <1>4, <1>5, <1>6 DEF String!StringPushChar

LEMMA StringCopyKeeps ==
  ASSUME StringInv, NEW s \in Strings, NEW x \in Strings,
         String!StringCopy(s, x)
  PROVE  StringInv'
<1> DEFINE r == str[s]
           t == text[s]
<1>1. /\ str[s] # Unset /\ str[x] = Unset
      /\ text' = [text EXCEPT ![x] = t]
  BY DEF String!StringCopy
<1>2. t \in Seq(Chars) /\ origin[s] \in Origins
  BY DEF StringInv, StringTypes
<1>3. strayed \in BOOLEAN
  BY DEF StringInv, StringTypes
<1>4. ~IsLarge(x) /\ origin[x] # "pushed"
  BY <1>1 DEF StringInv, Sound, IsLarge
<1>5. CASE String!CopySmall(s, x)
  <2>1. /\ String!IsSmall(r)
        /\ str' = [str EXCEPT ![x] = r]
        /\ origin' = [origin EXCEPT ![x] = origin[s]]
        /\ heap' = heap
    BY <1>5 DEF String!CopySmall
  <2>2. strayed' = strayed
    BY <1>5, Zenon DEF String!CopySmall
  <2>3. SmallSound(r, t, origin[s])
    BY <1>1, <2>1 DEF StringInv, Sound, IsLarge
  <2>4. strayed' \in BOOLEAN /\ (strayed' => strayed)
    BY <1>3, <2>2, Zenon
  <2> QED
    BY <1>1, <1>2, <1>4, <2>1, <2>3, <2>4, SettlesSmall, Zenon
<1>6. CASE String!CopyLarge(s, x)
  <2> DEFINE cap == r.capacity
             b == String!Memcpy(String!Block(cap), heap[r.data])
             q == IF origin[s] = "pushed" THEN "pushed" ELSE "copy"
  <2>1. /\ ~String!IsSmall(r)
        /\ origin' = [origin EXCEPT ![x] = q]
    BY <1>6 DEF String!CopyLarge
  <2>2. PICK a \in String!Addresses :
          /\ heap[a] = Free
          /\ heap' = [heap EXCEPT ![a] = b]
          /\ str' = [str EXCEPT ![x] =
               [data |-> a, length |-> cap, capacity |-> cap]]
    BY <1>6, Zenon DEF String!CopyLarge
  <2> DEFINE y == [data |-> a, length |-> cap, capacity |-> cap]
  <2>3. strayed' = strayed
    BY <1>6, Zenon DEF String!CopyLarge
  <2>4. LargeSound(r, heap[r.data], t, origin[s])
    BY <1>1, <2>1 DEF StringInv, Sound, IsLarge
  <2>5. LargeSound(y, b, t, q)
    BY <1>2, <2>4, CopyLargeSound
  <2>6. strayed' \in BOOLEAN /\ (strayed' => strayed)
    BY <1>3, <2>3, Zenon
  <2>7. y.data = a /\ q \in Origins
    BY DEF Origins
  <2>8. str' = [str EXCEPT ![x] = y]
    BY <2>2
  <2> HIDE DEF y, b, r, t, q
  <2> QED
    BY <1>1, <1>2, <1>4, <2>1, <2>2, <2>5, <2>6, <2>7, <2>8,
       SettlesLarge, Zenon
<1> QED
  BY <1>5, <1>6 DEF String!StringCopy

LEMMA StringStep ==
  ASSUME StringInv, String!Next
  PROVE  StringInv'
<1>1. PICK s \in Strings :
        \/ String!StringNew(s)
        \/ \E c \in Chars : String!StringPushChar(s, c)
        \/ \E x \in Strings : String!StringCopy(s, x)
  BY Zenon DEF String!Next
<1>2. CASE String!StringNew(s)
  BY <1>2, StringNewKeeps
<1>3. CASE \E c \in Chars : String!StringPushChar(s, c)
  BY <1>3, StringPushCharKeeps
<1>4. CASE \E x \in Strings : String!StringCopy(s, x)
  BY <1>4, StringCopyKeeps
<1> QED
  BY <1>1, <1>2, <1>3, <1>4

LEMMA StringRests ==
  ASSUME StringInv, UNCHANGED stringVars
  PROVE  StringInv'
<1>1. /\ str' = str /\ heap' = heap /\ text' = text /\ origin' = origin
  BY DEF stringVars
<1>2. strayed' = strayed
  BY Zenon DEF stringVars
<1>3. StringTypes' /\ StraysOnlyPushed'
  BY <1>1, <1>2, Zenon DEF StringInv, StringTypes, StraysOnlyPushed
<1>4. (\A s \in Strings : Sound(s))' /\ Owned'
  BY <1>1, Zenon DEF StringInv, Sound, Owned, IsLarge
<1> QED
  BY <1>3, <1>4 DEF StringInv

-----------------------------------------------------------------------------
(* SmallString: what the invariant says. *)

LEMMA ShowsText ==
  ASSUME NEW n \in Nat, NEW buffer \in [1..n -> Cells],
         NEW t \in Seq(Chars), Shows(buffer, n, t)
  PROVE  /\ Len(t) < Len(buffer)
         /\ SubSeq(buffer, 1, Len(t)) = t
         /\ buffer[Len(t) + 1] = Nul
<1> DEFINE k == Len(t)
           u == SubSeq(buffer, 1, k)
<1>1. k \in Nat /\ k < n /\ \A i \in 1..k : buffer[i] = t[i]
  BY DEF Shows
<1>2. buffer \in Seq(Cells) /\ Len(buffer) = n
  OBVIOUS
<1>3. \A i \in 1..k : buffer[i] \in Cells
  BY <1>1
<1>4. /\ u \in Seq(Cells) /\ Len(u) = k
      /\ \A i \in 1..k : u[i] = buffer[i]
  BY <1>1, <1>2
<1> HIDE DEF u
<1>5. t \in Seq(Cells)
  BY DEF Cells
<1>6. u = t
  BY <1>1, <1>4, <1>5, SeqEqual
<1> QED
  BY <1>1, <1>2, <1>6 DEF u, Shows

LEMMA InvOwnsItsBlock ==
  ASSUME StringInv
  PROVE  String!OwnsItsBlock
<1>1. \A s \in Strings : s \in String!Large <=> IsLarge(s)
  BY DEF String!Large, String!Live, IsLarge
<1>2. String!Large \subseteq Strings
  BY DEF String!Large, String!Live
<1>3. \A s, x \in String!Large : str[s].data = str[x].data => s = x
  BY <1>1, <1>2 DEF StringInv, Owned
<1>4. \A a \in String!Used : \E s \in String!Large : str[s].data = a
  BY <1>1 DEF StringInv, Owned, String!Used
<1>5. \A s \in String!Large : Len(heap[str[s].data]) = str[s].capacity
  BY <1>1, <1>2, LargeHasBlock
<1> QED
  BY <1>3, <1>4, <1>5 DEF String!OwnsItsBlock

LEMMA InvTextStaysWhole ==
  ASSUME StringInv
  PROVE  String!TextStaysWhole
<1>1. ASSUME NEW s \in String!Live, origin[s] # "pushed"
      PROVE  /\ Len(text[s]) < Len(String!StringData(s))
             /\ SubSeq(String!StringData(s), 1, Len(text[s])) = text[s]
             /\ String!StringData(s)[Len(text[s]) + 1] = Nul
  <2>1. s \in Strings /\ str[s] # Unset
    BY DEF String!Live
  <2>2. text[s] \in Seq(Chars)
    BY <2>1 DEF StringInv, StringTypes
  <2>3. CASE ~IsLarge(s)
    <3>1. SmallSound(str[s], text[s], origin[s])
      BY <2>1, <2>3 DEF StringInv, Sound
    <3>2. String!StringData(s) = str[s].data
      BY <2>1, <2>3 DEF String!StringData, IsLarge
    <3>3. /\ Small \in Nat /\ str[s].data \in [1..Small -> Cells]
          /\ Shows(str[s].data, Small, text[s])
      BY <3>1, StringAssumption DEF SmallSound, SmallRecords
    <3> QED
      BY <2>2, <3>2, <3>3, ShowsText
  <2>4. CASE IsLarge(s)
    <3>1. LargeSound(str[s], heap[str[s].data], text[s], origin[s])
      BY <2>1, <2>4, LargeHasBlock
    <3>2. String!StringData(s) = heap[str[s].data]
      BY <2>4 DEF String!StringData, IsLarge
    <3>3. /\ str[s].capacity \in Nat
          /\ heap[str[s].data] \in [1..str[s].capacity -> Cells]
          /\ Shows(heap[str[s].data], str[s].capacity, text[s])
      BY <1>1, <3>1 DEF LargeSound, LargeRecords
    <3> QED
      BY <2>2, <3>2, <3>3, ShowsText
  <2> QED
    BY <2>3, <2>4
<1>2. strayed => \E s \in Strings : origin[s] = "pushed"
  BY DEF StringInv, StraysOnlyPushed
<1> QED
  BY <1>1, <1>2 DEF String!TextStaysWhole

-----------------------------------------------------------------------------
(* VmspliceGift. *)

Letters == {"a", "#"}

Early == at \in {"vmsplice1", "splice1"}
Between == at \in {"memset", "vmsplice2"}

(* The first Size bytes gifted are of the first kind, and so are the bytes *)
(* of the file up to where the first splice() stopped.                     *)
GiftInv ==
  /\ at \in {"vmsplice1", "splice1", "memset", "vmsplice2", "splice2", "done"}
  /\ data = IF Early \/ at = "memset" THEN "a" ELSE "#"
  /\ p \in Nat /\ left \in 0..Size
  /\ file \in Seq(Letters) /\ gifted \in Seq(Letters)
  /\ Len(file) + p = Len(gifted)
  /\ \A b \in 1..Len(gifted) : gifted[b] = IF b <= Size THEN "a" ELSE "#"
  /\ \A b \in 1..Len(file) : file[b] = IF b <= Size - left THEN "a" ELSE "#"
  /\ Early => file = <<>> /\ left = 0 /\ Len(gifted) \in {0, Size}
  /\ at = "vmsplice1" => gifted = <<>>
  /\ Between => Len(gifted) = Size /\ left = p
  /\ at = "splice2" =>
       Len(gifted) \in {Size, 2 * Size} /\ Len(file) = Size - left

LEMMA FillJoins ==
  ASSUME NEW f \in Seq(Letters), NEW n \in Nat, NEW v \in Letters
  PROVE  /\ f \o Gift!Fill(v, n) \in Seq(Letters)
         /\ Len(f \o Gift!Fill(v, n)) = Len(f) + n
         /\ \A b \in 1..(Len(f) + n) :
              (f \o Gift!Fill(v, n))[b] = IF b <= Len(f) THEN f[b] ELSE v
<1> DEFINE g == Gift!Fill(v, n)
<1>1. /\ g \in Seq(Letters) /\ Len(g) = n
      /\ \A b \in 1..n : g[b] = v
  BY DEF Gift!Fill
<1> HIDE DEF g
<1>2. /\ f \o g \in Seq(Letters)
      /\ Len(f \o g) = Len(f) + Len(g)
      /\ \A b \in 1..(Len(f) + Len(g)) :
           (f \o g)[b] = IF b <= Len(f) THEN f[b] ELSE g[b - Len(f)]
  BY <1>1, ConcatProperties
<1>3. ASSUME NEW b \in 1..(Len(f) + n)
      PROVE  (f \o g)[b] = IF b <= Len(f) THEN f[b] ELSE v
  <2>1. Len(f) \in Nat /\ b \in Nat
    OBVIOUS
  <2>2. (f \o g)[b] = IF b <= Len(f) THEN f[b] ELSE g[b - Len(f)]
    BY <1>1, <1>2
  <2>3. CASE b <= Len(f)
    BY <2>2, <2>3
  <2>4. CASE ~(b <= Len(f))
    <3>1. b - Len(f) \in 1..n
      BY <2>1, <2>4
    <3>2. g[b - Len(f)] = v
      BY <1>1, <3>1
    <3> QED
      BY <2>2, <2>4, <3>2
  <2> QED
    BY <2>3, <2>4
<1> QED
  BY <1>1, <1>2, <1>3 DEF g

LEMMA GiftStart == Gift!Init => GiftInv
<1> SUFFICES ASSUME Gift!Init PROVE GiftInv
  OBVIOUS
<1>1. /\ at = "vmsplice1" /\ data = "a" /\ p = 0 /\ left = 0
      /\ file = <<>> /\ gifted = <<>>
  BY DEF Gift!Init
<1>2. Size \in Nat
  BY GiftAssumption
<1> QED
  BY <1>1, <1>2 DEF GiftInv, Early, Between, Letters

LEMMA VmspliceKeeps ==
  ASSUME GiftInv, Gift!Vmsplice
  PROVE  GiftInv'
<1>1. PICK n \in {0, Size} :
        p' = p + n /\ gifted' = gifted \o Gift!Fill(data, n)
  BY DEF Gift!Vmsplice
<1>2. \/ at = "vmsplice1" /\ at' = "splice1"
      \/ at = "vmsplice2" /\ at' = "splice2"
  <2>1. at \in {"vmsplice1", "vmsplice2"} /\ at' = Gift!After[at]
    BY DEF Gift!Vmsplice
  <2>2. /\ Gift!After["vmsplice1"] = "splice1"
        /\ Gift!After["vmsplice2"] = "splice2"
    BY DEF Gift!After
  <2>3. CASE at = "vmsplice1"
    <3>1. at' = Gift!After["vmsplice1"]
      BY <2>1, <2>3, Zenon
    <3> QED
      BY <2>2, <2>3, <3>1
  <2>4. CASE at = "vmsplice2"
    <3>1. at' = Gift!After["vmsplice2"]
      BY <2>1, <2>4, Zenon
    <3> QED
      BY <2>2, <2>4, <3>1
  <2> QED
    BY <2>1, <2>3, <2>4
<1>3. data' = data /\ file' = file /\ left' = left
  BY DEF Gift!Vmsplice
<1>4. /\ n \in Nat /\ Size \in Nat /\ p \in Nat /\ left \in 0..Size
      /\ file \in Seq(Letters) /\ gifted \in Seq(Letters)
      /\ Len(file) + p = Len(gifted)
      /\ data \in Letters
  BY GiftAssumption DEF GiftInv, Letters
<1>5. /\ gifted' \in Seq(Letters)
      /\ Len(gifted') = Len(gifted) + n
      /\ \A b \in 1..(Len(gifted) + n) :
           gifted'[b] = IF b <= Len(gifted) THEN gifted[b] ELSE data
  BY <1>1, <1>4, FillJoins, ZenonT(60)
<1>6. p' \in Nat /\ Len(file') + p' = Len(gifted')
  <2>1. Len(file) \in Nat /\ Len(gifted) \in Nat /\ Len(file') = Len(file)
    BY <1>3, <1>4
  <2>2. n \in Nat /\ p \in Nat /\ Len(file) + p = Len(gifted)
    BY <1>4
  <2>3. p' = p + n /\ Len(gifted') = Len(gifted) + n
    BY <1>1, <1>5
  <2> QED
    BY ONLY <2>1, <2>2, <2>3
<1>7. \A b \in 1..Len(gifted) : gifted[b] = IF b <= Size THEN "a" ELSE "#"
  BY DEF GiftInv
<1>8. \A b \in 1..Len(file') :
        file'[b] = IF b <= Size - left' THEN "a" ELSE "#"
  BY <1>3 DEF GiftInv
<1>9. CASE at = "vmsplice1"
  <2>1. /\ gifted = <<>> /\ file = <<>> /\ left = 0 /\ data = "a"
        /\ at' = "splice1"
    BY <1>2, <1>9 DEF GiftInv, Early
  <2>2. Len(gifted) = 0
    BY <2>1
  <2>3. Len(gifted') \in {0, Size}
    BY <1>4, <1>5, <2>2
  <2>4. \A b \in 1..Len(gifted') :
          gifted'[b] = IF b <= Size THEN "a" ELSE "#"
    BY <1>4, <1>5, <2>1, <2>2
  <2> QED
    BY <1>3, <1>4, <1>5, <1>6, <1>8, <2>1, <2>3, <2>4
       DEF GiftInv, Early, Between
<1>10. CASE at = "vmsplice2"
  <2>1. /\ Len(gifted) = Size /\ left = p /\ data = "#"
        /\ at' = "splice2"
    BY <1>2, <1>10 DEF GiftInv, Early, Between
  <2>2. Len(gifted') \in {Size, 2 * Size}
    BY <1>4, <1>5, <2>1
  <2>3. Len(file') = Size - left'
    <3>1. Len(file) \in Nat
      BY <1>4
    <3> QED
      BY <1>3, <1>4, <2>1, <3>1
  <2>4. \A b \in 1..Len(gifted') :
          gifted'[b] = IF b <= Size THEN "a" ELSE "#"
    BY <1>4, <1>5, <1>7, <2>1
  <2> QED
    BY <1>3, <1>4, <1>5, <1>6, <1>8, <2>1, <2>2, <2>3, <2>4
       DEF GiftInv, Early, Between
<1> QED
  BY <1>2, <1>9, <1>10

LEMMA SpliceKeeps ==
  ASSUME GiftInv, Gift!Splice
  PROVE  GiftInv'
<1>1. /\ Size \in Nat /\ p \in Nat /\ left \in 0..Size
      /\ file \in Seq(Letters) /\ gifted \in Seq(Letters)
      /\ Len(file) + p = Len(gifted)
      /\ data \in Letters
  BY GiftAssumption DEF GiftInv, Letters
<1>2. PICK m \in 0..Gift!Least(Size, p) :
        p' = p - m /\ file' = file \o Gift!Fill(data, m)
  BY DEF Gift!Splice
<1>3. m \in Nat /\ m <= Size /\ m <= p
  BY <1>1, <1>2 DEF Gift!Least
<1>4. data' = data /\ gifted' = gifted /\ p > 0
  BY DEF Gift!Splice
<1>5. \/ at = "splice1" /\ at' = "memset" /\ left' = p'
      \/ at = "splice2" /\ at' = "done" /\ left' = left
  BY DEF Gift!Splice, Gift!After
<1>6. /\ file' \in Seq(Letters)
      /\ Len(file') = Len(file) + m
      /\ \A b \in 1..(Len(file) + m) :
           file'[b] = IF b <= Len(file) THEN file[b] ELSE data
  <2>1. file' = file \o Gift!Fill(data, m)
    BY <1>2
  <2>2. /\ file \o Gift!Fill(data, m) \in Seq(Letters)
        /\ Len(file \o Gift!Fill(data, m)) = Len(file) + m
        /\ \A b \in 1..(Len(file) + m) :
             (file \o Gift!Fill(data, m))[b] =
               IF b <= Len(file) THEN file[b] ELSE data
    BY <1>1, <1>3, FillJoins, ZenonT(60)
  <2> QED
    BY <2>1, <2>2, Zenon
<1>7. p' \in Nat /\ Len(file') + p' = Len(gifted')
  <2>1. Len(file) \in Nat /\ Len(gifted) \in Nat
        /\ Len(gifted') = Len(gifted)
    BY <1>1, <1>4
  <2>2. p \in Nat /\ Len(file) + p = Len(gifted) /\ m \in Nat /\ m <= p
    BY <1>1, <1>3
  <2>3. p' = p - m /\ Len(file') = Len(file) + m
    BY <1>2, <1>6
  <2> QED
    BY ONLY <2>1, <2>2, <2>3
<1>8. \A b \in 1..Len(gifted') :
        gifted'[b] = IF b <= Size THEN "a" ELSE "#"
  BY <1>4 DEF GiftInv
<1>9. CASE at = "splice1"
  <2>1. /\ file = <<>> /\ data = "a" /\ Len(gifted) \in {0, Size}
        /\ at' = "memset" /\ left' = p'
    BY <1>5, <1>9 DEF GiftInv, Early
  <2>2. Len(file) = 0
    BY <2>1
  <2>3. Len(gifted) = Size /\ Len(file') = m /\ m + p' = Size
    BY <1>1, <1>2, <1>3, <1>4, <1>6, <2>1, <2>2
  <2>4. left' \in 0..Size /\ Size - left' = m
    <3>1. m + p' = Size /\ p' \in Nat
      BY <1>7, <2>3
    <3>2. PICK i \in Nat : p' = i
      BY <3>1
    <3>3. m + i = Size
      BY <3>1, <3>2, Zenon
    <3>4. i \in 0..Size /\ Size - i = m
      BY <1>1, <1>3, <3>3
    <3>5. left' = i
      BY <2>1, <3>2, Zenon
    <3> QED
      BY <3>4, <3>5, Zenon
  <2>5. \A b \in 1..Len(file') :
          file'[b] = IF b <= Size - left' THEN "a" ELSE "#"
    BY <1>3, <1>6, <2>1, <2>2, <2>3, <2>4
  <2> QED
    BY <1>1, <1>4, <1>6, <1>7, <1>8, <2>1, <2>3, <2>4, <2>5
       DEF GiftInv, Early, Between
<1>10. CASE at = "splice2"
  <2>1. /\ data = "#" /\ Len(file) = Size - left
        /\ at' = "done" /\ left' = left
    BY <1>5, <1>10 DEF GiftInv, Early
  <2>2. \A b \in 1..Len(file) :
          file[b] = IF b <= Size - left THEN "a" ELSE "#"
    BY DEF GiftInv
  <2>3. \A b \in 1..Len(file') :
          file'[b] = IF b <= Size - left' THEN "a" ELSE "#"
    BY <1>1, <1>3, <1>6, <2>1, <2>2
  <2> QED
    BY <1>1, <1>4, <1>6, <1>7, <1>8, <2>1, <2>3 DEF GiftInv, Early, Between
<1> QED
  BY <1>5, <1>9, <1>10

LEMMA GiftStep ==
  ASSUME GiftInv, Gift!Next
  PROVE  GiftInv'
<1>1. CASE Gift!Vmsplice
  BY <1>1, VmspliceKeeps
<1>2. CASE Gift!Splice
  BY <1>2, SpliceKeeps
<1>3. CASE Gift!Memset
  <2>1. /\ at = "memset" /\ at' = "vmsplice2" /\ data' = "#"
        /\ p' = p /\ file' = file /\ gifted' = gifted /\ left' = left
    BY <1>3 DEF Gift!Memset
  <2> QED
    BY <2>1 DEF GiftInv, Early, Between
<1> QED
  BY <1>1, <1>2, <1>3 DEF Gift!Next

LEMMA GiftRests ==
  ASSUME GiftInv, UNCHANGED giftVars
  PROVE  GiftInv'
BY DEF giftVars, GiftInv, Early, Between

LEMMA InvFileAsGifted ==
  ASSUME GiftInv
  PROVE  Gift!FileAsGifted
<1> SUFFICES ASSUME NEW b \in 1..Len(file), file[b] # gifted[b]
             PROVE  b \in (Size - left + 1)..Size
  BY DEF Gift!FileAsGifted
<1>1. /\ Size \in Nat /\ left \in 0..Size /\ p \in Nat
      /\ Len(file) \in Nat /\ Len(gifted) \in Nat
      /\ Len(file) + p = Len(gifted)
  BY GiftAssumption DEF GiftInv
<1>2. b \in 1..Len(gifted)
  BY <1>1
<1>3. /\ file[b] = IF b <= Size - left THEN "a" ELSE "#"
      /\ gifted[b] = IF b <= Size THEN "a" ELSE "#"
  BY <1>2 DEF GiftInv
<1> QED
  BY <1>1, <1>3

-----------------------------------------------------------------------------
(* VmspliceBench: the pipe holds what the inner loop has still to drain,   *)
(* which is within the mapping and within TOTAL.                           *)

BenchTypeOK ==
  /\ loopAt \in {"connect", "send", "splice", "done", "failed"}
  /\ sent \in Nat /\ queue \in Nat /\ got \in Nat
  /\ conn \in {"none", "open", "closed", "served"}
  /\ server \in {"accept", "recv", "dead"}
  /\ pipe \in Nat /\ in_pipe \in Nat /\ drained \in Nat

BenchInv ==
  /\ BenchTypeOK
  /\ pipe <= PipeCap /\ in_pipe <= Chunk /\ drained <= Chunk
  /\ sent + drained <= Total
  /\ loopAt \in {"connect", "send"} => pipe = 0 /\ drained = 0
  /\ loopAt = "splice" =>
       /\ pipe = in_pipe - drained /\ pipe > 0
       /\ sent + in_pipe <= Total

LEMMA BenchConstants ==
  /\ Total \in Nat /\ Chunk \in Nat \ {0} /\ PipeCap \in Nat \ {0}
  /\ SockCap \in Nat \ {0} /\ Scratch \in Nat \ {0}
BY BenchAssumption

LEMMA BenchLeast ==
  ASSUME NEW i \in Int, NEW j \in Int
  PROVE  /\ Bench!Least(i, j) \in Int
         /\ Bench!Least(i, j) <= i /\ Bench!Least(i, j) <= j
         /\ \A m \in Int : m <= i /\ m <= j => m <= Bench!Least(i, j)
BY DEF Bench!Least

LEMMA BenchStart == Bench!Init => BenchInv
<1> SUFFICES ASSUME Bench!Init PROVE BenchInv
  OBVIOUS
<1>1. /\ loopAt = "connect" /\ sent = 0 /\ conn = "none" /\ queue = 0
      /\ got = 0 /\ server \in {"accept", "dead"}
      /\ pipe = 0 /\ in_pipe = 0 /\ drained = 0
  BY DEF Bench!Init, Bench!PeersInit
<1> QED
  BY <1>1, BenchConstants DEF BenchInv, BenchTypeOK

(* vmsplice() maps no more than remains, and never waits for room. *)
LEMMA VmspliceKeepsBench ==
  ASSUME BenchInv, Bench!Vmsplice
  PROVE  BenchInv'
<1>1. /\ loopAt = "send" /\ loopAt' = "splice" /\ drained' = 0
      /\ sent' = sent /\ conn' = conn /\ queue' = queue /\ got' = got
      /\ server' = server
  BY DEF Bench!Vmsplice, Bench!serverVars
<1>2. PICK n \in 1..Bench!Least(Bench!Want, PipeCap - pipe) :
        pipe' = pipe + n /\ in_pipe' = n
  BY Zenon DEF Bench!Vmsplice
<1>3. /\ sent \in Nat /\ pipe = 0 /\ drained = 0 /\ sent <= Total
  BY <1>1 DEF BenchInv, BenchTypeOK
<1>4. /\ Bench!Want \in Int /\ Bench!Want <= Total - sent
      /\ Bench!Want <= Chunk
  BY <1>3, BenchConstants, BenchLeast DEF Bench!Want
<1>5. /\ Bench!Least(Bench!Want, PipeCap - pipe) \in Int
      /\ Bench!Least(Bench!Want, PipeCap - pipe) <= Bench!Want
      /\ Bench!Least(Bench!Want, PipeCap - pipe) <= PipeCap - pipe
  BY <1>3, <1>4, BenchConstants, BenchLeast
<1>6. /\ n \in Nat /\ n > 0 /\ n <= Total - sent /\ n <= Chunk
      /\ n <= PipeCap
  BY <1>2, <1>3, <1>4, <1>5, BenchConstants
<1>7. BenchTypeOK'
  BY <1>1, <1>2, <1>3, <1>6 DEF BenchInv, BenchTypeOK
<1> QED
  BY <1>1, <1>2, <1>3, <1>6, <1>7, BenchConstants DEF BenchInv

(* splice() takes m bytes from the pipe to the socket. *)
LEMMA SpliceTakes ==
  ASSUME BenchInv, Bench!SpliceSome
  PROVE  \E m \in Nat \ {0} :
           /\ loopAt = "splice" /\ m <= in_pipe - drained /\ m <= pipe
           /\ m <= Bench!Room
           /\ pipe' = pipe - m /\ queue' = queue + m
           /\ conn' = conn /\ got' = got /\ server' = server
           /\ in_pipe' = in_pipe
           /\ \/ /\ drained + m = in_pipe /\ sent' = sent + in_pipe
                 /\ loopAt' = "send" /\ drained' = 0
              \/ /\ drained + m < in_pipe /\ drained' = drained + m
                 /\ sent' = sent /\ loopAt' = "splice"
<1>1. /\ loopAt = "splice" /\ conn' = conn /\ got' = got
      /\ server' = server /\ in_pipe' = in_pipe
  BY DEF Bench!SpliceSome
<1>2. PICK m \in 1..Bench!Least(in_pipe - drained,
                                Bench!Least(pipe, Bench!Room)) :
        /\ pipe' = pipe - m /\ queue' = queue + m
        /\ IF Bench!Drained(drained + m)
             THEN sent' = Bench!Sent /\ loopAt' = "send" /\ drained' = 0
             ELSE drained' = drained + m /\ UNCHANGED <<sent, loopAt>>
  BY Zenon DEF Bench!SpliceSome
<1>3. /\ in_pipe \in Nat /\ drained \in Nat /\ pipe \in Nat
      /\ queue \in Nat
  BY DEF BenchInv, BenchTypeOK
<1>4. Bench!Room \in Int
  BY <1>3, BenchConstants DEF Bench!Room
<1>5. /\ Bench!Least(pipe, Bench!Room) \in Int
      /\ Bench!Least(pipe, Bench!Room) <= pipe
      /\ Bench!Least(pipe, Bench!Room) <= Bench!Room
  BY <1>3, <1>4, BenchLeast
<1>6. LET least == Bench!Least(in_pipe - drained,
                               Bench!Least(pipe, Bench!Room))
      IN /\ least \in Int /\ least <= in_pipe - drained
         /\ least <= Bench!Least(pipe, Bench!Room)
  BY <1>3, <1>5, BenchLeast
<1>7. /\ m \in Nat \ {0} /\ m <= in_pipe - drained /\ m <= pipe
      /\ m <= Bench!Room
  BY <1>3, <1>4, <1>5, <1>6
<1>8. \/ /\ drained + m = in_pipe /\ sent' = sent + in_pipe
         /\ loopAt' = "send" /\ drained' = 0
      \/ /\ drained + m < in_pipe /\ drained' = drained + m
         /\ sent' = sent /\ loopAt' = "splice"
  BY <1>1, <1>2, <1>3, <1>7 DEF Bench!Drained, Bench!Sent
<1> QED
  BY <1>1, <1>2, <1>7, <1>8

LEMMA SpliceKeepsBench ==
  ASSUME BenchInv, Bench!SpliceSome
  PROVE  BenchInv'
<1>1. PICK m \in Nat \ {0} :
           /\ loopAt = "splice" /\ m <= in_pipe - drained /\ m <= pipe
           /\ pipe' = pipe - m /\ queue' = queue + m
           /\ conn' = conn /\ got' = got /\ server' = server
           /\ in_pipe' = in_pipe
           /\ \/ /\ drained + m = in_pipe /\ sent' = sent + in_pipe
                 /\ loopAt' = "send" /\ drained' = 0
              \/ /\ drained + m < in_pipe /\ drained' = drained + m
                 /\ sent' = sent /\ loopAt' = "splice"
  BY SpliceTakes
<1>2. /\ in_pipe \in Nat /\ drained \in Nat /\ pipe \in Nat
      /\ queue \in Nat /\ sent \in Nat /\ pipe <= PipeCap
      /\ pipe = in_pipe - drained /\ sent + in_pipe <= Total
      /\ in_pipe <= Chunk
  BY <1>1 DEF BenchInv, BenchTypeOK
<1>3. /\ pipe' \in Nat /\ pipe' <= PipeCap /\ queue' \in Nat
      /\ sent' \in Nat /\ drained' \in Nat
  BY <1>1, <1>2, BenchConstants
<1>4. BenchTypeOK'
  BY <1>1, <1>2, <1>3 DEF BenchInv, BenchTypeOK
<1>5. /\ sent' + drained' <= Total /\ in_pipe' <= Chunk
      /\ drained' <= Chunk
      /\ loopAt' = "send" => pipe' = 0 /\ drained' = 0
      /\ loopAt' = "splice" =>
           /\ pipe' = in_pipe' - drained' /\ pipe' > 0
           /\ sent' + in_pipe' <= Total
  BY <1>1, <1>2, BenchConstants
<1>6. loopAt' # "connect"
  BY <1>1
<1> QED
  BY <1>3, <1>4, <1>5, <1>6 DEF BenchInv

(* What leaves the pipe alone. *)
LEMMA PeersKeepBench ==
  ASSUME BenchInv,
         \/ (Bench!Connect \/ Bench!Close \/ Bench!PeerGone \/ Bench!DieIf
               \/ Bench!Server \/ Bench!ServerDies)
            /\ UNCHANGED Bench!pipeVars
         \/ UNCHANGED benchVars
  PROVE  BenchInv'
<1>1. /\ pipe' = pipe /\ in_pipe' = in_pipe /\ drained' = drained
      /\ sent' = sent
  BY DEF Bench!pipeVars, benchVars, Bench!Connect, Bench!Close,
         Bench!PeerGone, Bench!DieIf, Bench!Server, Bench!ServerDies,
         Bench!Accept, Bench!Recv, Bench!RecvEnd
<1>2. \/ loopAt' = loopAt
      \/ loopAt = "connect" /\ loopAt' = "send"
      \/ loopAt' \in {"done", "failed"}
  BY DEF benchVars, Bench!Connect, Bench!Close, Bench!PeerGone,
         Bench!DieIf, Bench!Server, Bench!ServerDies, Bench!Accept,
         Bench!Recv, Bench!RecvEnd
<1>3. /\ conn' \in {"none", "open", "closed", "served"}
      /\ server' \in {"accept", "recv", "dead"}
  BY DEF benchVars, Bench!Connect, Bench!Close, Bench!PeerGone,
         Bench!DieIf, Bench!Server, Bench!ServerDies, Bench!Accept,
         Bench!Recv, Bench!RecvEnd, Bench!serverVars, BenchInv, BenchTypeOK
<1>4. queue' \in Nat /\ got' \in Nat
  <2>1. queue \in Nat /\ got \in Nat
    BY DEF BenchInv, BenchTypeOK
  <2>2. CASE Bench!Recv
    <3>1. PICK n \in 1..Bench!Least(queue, Scratch) :
            queue' = queue - n /\ got' = got + n
      BY <2>2, Zenon DEF Bench!Recv
    <3>2. /\ Bench!Least(queue, Scratch) \in Int
          /\ Bench!Least(queue, Scratch) <= queue
      BY <2>1, BenchConstants, BenchLeast
    <3> QED BY <2>1, <3>1, <3>2
  <2>3. CASE ~Bench!Recv
    <3>1. queue' = queue /\ got' = got
      BY <2>3 DEF benchVars, Bench!Connect, Bench!Close, Bench!PeerGone,
         Bench!DieIf, Bench!Server, Bench!ServerDies, Bench!Accept,
         Bench!RecvEnd, Bench!serverVars
    <3> QED BY <2>1, <3>1
  <2> QED BY <2>2, <2>3
<1>5. BenchTypeOK'
  BY <1>1, <1>2, <1>3, <1>4 DEF BenchInv, BenchTypeOK
<1> QED
  BY <1>1, <1>2, <1>5 DEF BenchInv

LEMMA BenchSteps ==
  ASSUME [Bench!Next]_benchVars
  PROVE  \/ Bench!Vmsplice
         \/ Bench!SpliceSome
         \/ (Bench!Connect \/ Bench!Close \/ Bench!PeerGone \/ Bench!DieIf
               \/ Bench!Server \/ Bench!ServerDies)
            /\ UNCHANGED Bench!pipeVars
         \/ UNCHANGED benchVars
BY Zenon DEF Bench!Next, Bench!Program

LEMMA BenchStep == BenchInv /\ [Bench!Next]_benchVars => BenchInv'
BY BenchSteps, VmspliceKeepsBench, SpliceKeepsBench, PeersKeepBench, Zenon

LEMMA InvPipeMatchesLoop == BenchInv => Bench!PipeMatchesLoop /\ Bench!TypeOK
<1> SUFFICES ASSUME BenchInv
             PROVE  Bench!PipeMatchesLoop /\ Bench!TypeOK
  OBVIOUS
<1>1. /\ BenchTypeOK /\ pipe <= PipeCap /\ in_pipe <= Chunk
      /\ drained <= Chunk /\ sent + drained <= Total
  BY DEF BenchInv
<1>2. Bench!PipeMatchesLoop
  BY DEF BenchInv, Bench!PipeMatchesLoop
<1>3. /\ sent \in 0..Total /\ pipe \in 0..PipeCap
      /\ in_pipe \in 0..Chunk /\ drained \in 0..Chunk
  BY <1>1, BenchConstants DEF BenchTypeOK
<1>4. Bench!TypeOK
  BY <1>1, <1>3 DEF BenchTypeOK, Bench!TypeOK, Bench!PeersTypeOK
<1> QED
  BY <1>2, <1>4

(* A splice() of m bytes is a write() of m bytes. *)
LEMMA SpliceWrites ==
  ASSUME BenchInv, Bench!SpliceSome
  PROVE  Bench!Write!WriteSome
<1>1. PICK m \in Nat \ {0} :
           /\ loopAt = "splice" /\ m <= in_pipe - drained
           /\ m <= Bench!Room
           /\ queue' = queue + m
           /\ conn' = conn /\ got' = got /\ server' = server
           /\ \/ /\ drained + m = in_pipe /\ sent' = sent + in_pipe
                 /\ loopAt' = "send" /\ drained' = 0
              \/ /\ drained + m < in_pipe /\ drained' = drained + m
                 /\ sent' = sent /\ loopAt' = "splice"
  BY SpliceTakes
<1>2. /\ in_pipe \in Nat /\ drained \in Nat /\ sent \in Nat
      /\ queue \in Nat /\ sent + in_pipe <= Total /\ in_pipe <= Chunk
  BY <1>1 DEF BenchInv, BenchTypeOK
<1>3. sent' + drained' = (sent + drained) + m
  BY <1>1, <1>2
<1>4. /\ m <= Total - (sent + drained) /\ m <= Chunk
      /\ Total - (sent + drained) \in Int
  BY <1>1, <1>2, BenchConstants
<1>5. Bench!Room \in Int /\ Bench!Write!Room = Bench!Room
  BY <1>2, BenchConstants DEF Bench!Room, Bench!Write!Room
<1>6. Bench!Write!Want \in Int /\ m <= Bench!Write!Want
  BY <1>4, BenchConstants DEF Bench!Write!Want, Bench!Write!Least
<1>7. m \in 1..Bench!Write!Least(Bench!Write!Want, Bench!Write!Room)
  BY <1>1, <1>5, <1>6 DEF Bench!Write!Least
<1>8. /\ (IF loopAt = "splice" THEN "send" ELSE loopAt) = "send"
      /\ (IF loopAt = "splice" THEN "send" ELSE loopAt)'
           = (IF loopAt = "splice" THEN "send" ELSE loopAt)
  BY <1>1
<1> QED
  BY <1>1, <1>3, <1>7, <1>8 DEF Bench!Write!WriteSome

(* What the peers and the calls on the socket do is the same in both. *)
LEMMA PeersRefine ==
  ASSUME BenchInv,
         Bench!Connect \/ Bench!Close \/ Bench!PeerGone \/ Bench!DieIf
           \/ Bench!Server \/ Bench!ServerDies,
         UNCHANGED Bench!pipeVars
  PROVE  Bench!Write!Next
<1> DEFINE at2 == IF loopAt = "splice" THEN "send" ELSE loopAt
<1>1. drained' = drained
  BY DEF Bench!pipeVars
<1>2. sent' = sent => (sent + drained)' = sent + drained
  BY <1>1
<1>3. loopAt' = loopAt => at2' = at2
  OBVIOUS
<1>4. CASE Bench!Connect
  <2>1. at2 = "connect" /\ at2' = "send"
    BY <1>4 DEF Bench!Connect
  <2>2. Bench!Write!Connect
    BY <1>2, <1>4, <2>1 DEF Bench!Connect, Bench!Write!Connect,
       Bench!serverVars, Bench!Write!serverVars
  <2> QED BY <2>2 DEF Bench!Write!Next, Bench!Write!Program
<1>5. CASE Bench!Close
  <2>1. at2 = "send" /\ at2' = "done"
    BY <1>5 DEF Bench!Close
  <2>2. sent + drained >= Total
    <3>1. drained = 0 /\ sent \in Nat /\ sent >= Total
      BY <1>5 DEF BenchInv, BenchTypeOK, Bench!Close
    <3> QED BY <3>1, BenchConstants
  <2>3. Bench!Write!Close
    BY <1>2, <1>5, <2>1, <2>2 DEF Bench!Close, Bench!Write!Close,
       Bench!serverVars, Bench!Write!serverVars
  <2> QED BY <2>3 DEF Bench!Write!Next, Bench!Write!Program
<1>6. CASE Bench!PeerGone \/ Bench!DieIf
  <2>1. Bench!DieIf
    BY <1>6 DEF Bench!PeerGone
  <2>2. at2 \notin {"done", "failed"} /\ at2' = "failed"
    BY <2>1 DEF Bench!DieIf, Bench!Running
  <2>3. Bench!Write!DieIf
    BY <1>2, <2>1, <2>2 DEF Bench!DieIf, Bench!Write!DieIf,
       Bench!Write!Running, Bench!serverVars, Bench!Write!serverVars
  <2> QED BY <2>3 DEF Bench!Write!Next
<1>7. CASE Bench!Server \/ Bench!ServerDies
  <2>1. sent' = sent /\ loopAt' = loopAt
    BY <1>7 DEF Bench!Server, Bench!ServerDies, Bench!Accept, Bench!Recv,
       Bench!RecvEnd
  <2>2. at2' = at2 /\ (sent + drained)' = sent + drained
    BY <1>2, <1>3, <2>1
  <2>3. Bench!Write!Server \/ Bench!Write!ServerDies
    BY <1>7, <2>2 DEF Bench!Server, Bench!ServerDies, Bench!Accept,
       Bench!Recv, Bench!RecvEnd, Bench!EndOfStream, Bench!Least,
       Bench!Write!Server, Bench!Write!ServerDies, Bench!Write!Accept,
       Bench!Write!Recv, Bench!Write!RecvEnd, Bench!Write!EndOfStream,
       Bench!Write!Least
  <2> QED BY <2>3 DEF Bench!Write!Next
<1> QED
  BY <1>4, <1>5, <1>6, <1>7

LEMMA BenchRefines ==
  BenchInv /\ [Bench!Next]_benchVars => [Bench!Write!Next]_Bench!Write!vars
<1> SUFFICES ASSUME BenchInv, [Bench!Next]_benchVars
             PROVE  [Bench!Write!Next]_Bench!Write!vars
  OBVIOUS
<1>1. CASE Bench!Vmsplice
  <2>1. /\ loopAt = "send" /\ loopAt' = "splice" /\ drained' = 0
        /\ sent' = sent /\ conn' = conn /\ queue' = queue /\ got' = got
        /\ server' = server
    BY <1>1 DEF Bench!Vmsplice, Bench!serverVars
  <2>2. drained = 0
    BY <2>1 DEF BenchInv
  <2> QED
    BY <2>1, <2>2 DEF Bench!Write!vars, Bench!Write!serverVars
<1>2. CASE Bench!SpliceSome
  BY <1>2, SpliceWrites DEF Bench!Write!Next, Bench!Write!Program
<1>3. CASE UNCHANGED benchVars
  BY <1>3 DEF benchVars, Bench!Write!vars, Bench!Write!serverVars
<1>4. CASE /\ Bench!Connect \/ Bench!Close \/ Bench!PeerGone
                \/ Bench!DieIf \/ Bench!Server \/ Bench!ServerDies
           /\ UNCHANGED Bench!pipeVars
  BY <1>4, PeersRefine
<1> QED
  BY <1>1, <1>2, <1>3, <1>4, BenchSteps

LEMMA BenchInitRefines == Bench!Init => Bench!Write!Init
BY DEF Bench!Init, Bench!PeersInit, Bench!Write!Init, Bench!Write!PeersInit

-----------------------------------------------------------------------------
(* VmspliceBench: no byte is lost between the benchmark and recv.c.        *)
BenchCount ==
  /\ got + queue = sent + drained
  /\ loopAt = "connect" => conn = "none"
  /\ loopAt \in {"send", "splice"} => conn = "open"
  /\ conn = "served" => queue = 0
  /\ loopAt = "done" => sent = Total /\ drained = 0

LEMMA CountStart == Bench!Init => BenchCount
<1> SUFFICES ASSUME Bench!Init PROVE BenchCount
  OBVIOUS
<1>1. /\ loopAt = "connect" /\ sent = 0 /\ conn = "none" /\ queue = 0
      /\ got = 0 /\ drained = 0
  BY DEF Bench!Init, Bench!PeersInit
<1> QED
  BY <1>1 DEF BenchCount

LEMMA SpliceCounts ==
  ASSUME BenchInv, BenchCount, Bench!SpliceSome
  PROVE  BenchCount'
<1>1. PICK m \in Nat \ {0} :
        /\ loopAt = "splice" /\ m <= in_pipe - drained
        /\ queue' = queue + m /\ conn' = conn /\ got' = got
        /\ \/ /\ drained + m = in_pipe /\ sent' = sent + in_pipe
              /\ loopAt' = "send" /\ drained' = 0
           \/ /\ drained + m < in_pipe /\ drained' = drained + m
              /\ sent' = sent /\ loopAt' = "splice"
  BY SpliceTakes
<1>2. /\ in_pipe \in Nat /\ drained \in Nat /\ queue \in Nat
      /\ sent \in Nat /\ got \in Nat
  BY DEF BenchInv, BenchTypeOK
<1>3. got + queue = sent + drained /\ conn = "open"
  BY <1>1 DEF BenchCount
<1>4. got' + queue' = sent' + drained'
  BY <1>1, <1>2, <1>3
<1>5. conn' = "open" /\ loopAt' \in {"send", "splice"}
  BY <1>1, <1>3
<1> QED
  BY <1>4, <1>5 DEF BenchCount

LEMMA VmspliceCounts ==
  ASSUME BenchInv, BenchCount, Bench!Vmsplice
  PROVE  BenchCount'
<1>1. /\ loopAt = "send" /\ loopAt' = "splice" /\ drained' = 0
      /\ sent' = sent /\ conn' = conn /\ queue' = queue /\ got' = got
  BY DEF Bench!Vmsplice, Bench!serverVars
<1>2. drained = 0
  BY <1>1 DEF BenchInv
<1> QED
  BY <1>1, <1>2 DEF BenchCount

(* recv.c gets what was queued, and goes on when there is no more to come. *)
LEMMA ServerCounts ==
  ASSUME BenchInv, BenchCount, Bench!Server \/ Bench!ServerDies,
         UNCHANGED Bench!pipeVars
  PROVE  BenchCount'
<1>1. /\ loopAt' = loopAt /\ sent' = sent /\ drained' = drained
  BY DEF Bench!pipeVars, Bench!Server, Bench!ServerDies, Bench!Accept,
         Bench!Recv, Bench!RecvEnd
<1>2. CASE Bench!Recv
  <2>1. PICK n \in 1..Bench!Least(queue, Scratch) :
          queue' = queue - n /\ got' = got + n
    BY <1>2, Zenon DEF Bench!Recv
  <2>2. conn' = conn
    BY <1>2 DEF Bench!Recv
  <2>3. queue \in Nat /\ got \in Nat
    BY DEF BenchInv, BenchTypeOK
  <2>4. n \in Nat /\ n > 0 /\ n <= queue
    BY <2>1, <2>3, BenchConstants, BenchLeast
  <2>5. got' + queue' = got + queue
    BY <2>1, <2>3, <2>4
  <2>6. conn' # "served"
    BY <2>2, <2>3, <2>4 DEF BenchCount
  <2> QED
    BY <1>1, <2>2, <2>5, <2>6 DEF BenchCount
<1>3. CASE Bench!RecvEnd
  <2>1. /\ conn = "closed" /\ conn' = "served" /\ queue = 0
        /\ queue' = queue /\ got' = got
    BY <1>3 DEF Bench!RecvEnd, Bench!EndOfStream
  <2> QED
    BY <1>1, <2>1 DEF BenchCount
<1>4. CASE Bench!Accept \/ Bench!ServerDies
  <2>1. conn' = conn /\ queue' = queue /\ got' = got
    BY <1>4 DEF Bench!Accept, Bench!ServerDies
  <2> QED
    BY <1>1, <2>1 DEF BenchCount
<1> QED
  BY <1>2, <1>3, <1>4 DEF Bench!Server

(* The benchmark has sent TOTAL when it closes the connection. *)
LEMMA ProgramCounts ==
  ASSUME BenchInv, BenchCount,
         Bench!Connect \/ Bench!Close \/ Bench!PeerGone \/ Bench!DieIf,
         UNCHANGED Bench!pipeVars
  PROVE  BenchCount'
<1>1. /\ sent' = sent /\ drained' = drained /\ queue' = queue /\ got' = got
  BY DEF Bench!pipeVars, Bench!serverVars, Bench!Connect, Bench!Close,
         Bench!PeerGone, Bench!DieIf
<1>2. CASE Bench!Connect
  <2>1. loopAt' = "send" /\ conn' = "open"
    BY <1>2 DEF Bench!Connect
  <2> QED
    BY <1>1, <2>1 DEF BenchCount
<1>3. CASE Bench!Close
  <2>1. /\ loopAt = "send" /\ loopAt' = "done" /\ conn' = "closed"
        /\ sent >= Total
    BY <1>3 DEF Bench!Close
  <2>2. drained = 0 /\ sent \in Nat /\ sent + drained <= Total
    BY <2>1 DEF BenchInv, BenchTypeOK
  <2>3. sent = Total
    BY <2>1, <2>2, BenchConstants
  <2> QED
    BY <1>1, <2>1, <2>2, <2>3 DEF BenchCount
<1>4. CASE Bench!PeerGone \/ Bench!DieIf
  <2>1. Bench!DieIf
    BY <1>4 DEF Bench!PeerGone
  <2>2. loopAt' = "failed" /\ (conn' = "closed" \/ conn' = conn)
    BY <2>1 DEF Bench!DieIf
  <2> QED
    BY <1>1, <2>2 DEF BenchCount
<1> QED
  BY <1>2, <1>3, <1>4

LEMMA CountStep ==
  BenchInv /\ BenchCount /\ [Bench!Next]_benchVars => BenchCount'
<1> SUFFICES ASSUME BenchInv, BenchCount, [Bench!Next]_benchVars
             PROVE  BenchCount'
  OBVIOUS
<1>1. CASE UNCHANGED benchVars
  BY <1>1 DEF benchVars, BenchCount
<1> QED
  BY <1>1, BenchSteps, SpliceCounts, VmspliceCounts, ServerCounts,
     ProgramCounts

-----------------------------------------------------------------------------
(* The four together.  *)

BuffersInv == VecInv /\ StringInv /\ GiftInv /\ BenchInv /\ BenchCount

LEMMA BuffersSteps ==
  ASSUME [BuffersNext]_<<demo, vars, stringVars, giftVars, benchVars>>
  PROVE  /\ [Next]_vars
         /\ String!Next \/ UNCHANGED stringVars
         /\ Gift!Next \/ UNCHANGED giftVars
         /\ [Bench!Next]_benchVars
BY Zenon DEF BuffersNext

(* A demonstration steps while the others rest.    *)
THEOREM Invariance == BuffersSpec => []BuffersInv
<1>1. BuffersInit => BuffersInv
  BY VecStart, StringStart, GiftStart, BenchStart, CountStart
     DEF BuffersInit, BuffersInv
<1>2. BuffersInv
        /\ [BuffersNext]_<<demo, vars, stringVars, giftVars, benchVars>>
        => BuffersInv'
  <2> SUFFICES
        ASSUME BuffersInv,
               [BuffersNext]_<<demo, vars, stringVars, giftVars, benchVars>>
        PROVE  BuffersInv'
    OBVIOUS
  <2>1. /\ [Next]_vars
        /\ String!Next \/ UNCHANGED stringVars
        /\ Gift!Next \/ UNCHANGED giftVars
        /\ [Bench!Next]_benchVars
    BY BuffersSteps
  <2>2. VecInv'
    BY <2>1, VecStep DEF BuffersInv
  <2>3. StringInv'
    BY <2>1, StringStep, StringRests DEF BuffersInv
  <2>4. GiftInv'
    BY <2>1, GiftStep, GiftRests DEF BuffersInv
  <2>5. BenchInv'
    BY <2>1, BenchStep DEF BuffersInv
  <2>6. BenchCount'
    BY <2>1, CountStep DEF BuffersInv
  <2> QED
    BY <2>2, <2>3, <2>4, <2>5, <2>6 DEF BuffersInv
<1> QED
  BY <1>1, <1>2, PTL DEF BuffersSpec

(* The members of a vector are size_t values and its block never exceeds   *)
(* what malloc() provides.                                                 *)
THEOREM VecTypeCorrect == BuffersSpec => []TypeOK
BY Invariance, PTL DEF BuffersInv, VecInv

(* For every width of size_t, a vector made with a capacity above zero     *)
(* whose size is a size_t never writes outside of its block.               *)
THEOREM VecNeverStray == BuffersSpec => []NeverStray
BY Invariance, PTL DEF BuffersInv, VecInv

(* Each large string has a block of its capacity to itself, no block is    *)
(* lost, and vec_push() hands its caller the block that the elements moved *)
(* to.                                                                     *)
THEOREM BlocksAreOwned == BuffersSpec => []OwnsItsBlock
<1>1. BuffersInv => OwnsItsBlock
  BY InvOwnsItsBlock DEF BuffersInv, VecInv, OwnsItsBlock
<1> QED
  BY <1>1, Invariance, PTL

(* The text of a string survives every move between union and heap, for    *)
(* any number of pushes onto any number of strings; and no byte is written *)
(* outside of a block but by a push onto a copy of a large string.         *)
THEOREM TextSurvives == BuffersSpec => []TextStaysWhole
<1>1. BuffersInv => TextStaysWhole
  BY InvTextStaysWhole DEF BuffersInv, TextStaysWhole
<1> QED
  BY <1>1, Invariance, PTL

(* Only the bytes that a short first splice() leaves in the pipe reach the *)
(* file otherwise than they were gifted.                                   *)
THEOREM OnlyLeftoversChange == BuffersSpec => []FileAsGifted
<1>1. BuffersInv => FileAsGifted
  BY InvFileAsGifted DEF BuffersInv, FileAsGifted
<1> QED
  BY <1>1, Invariance, PTL

(* For any sizes of the chunk, the pipe and the socket, bench.c never      *)
(* waits for itself: the pipe is empty when vmsplice() fills it and holds  *)
(* exactly what the inner loop has still to drain.                         *)
THEOREM PipeIsTheLoop == BuffersSpec => []PipeMatchesLoop
<1>1. BuffersInv => PipeMatchesLoop
  BY InvPipeMatchesLoop DEF BuffersInv, PipeMatchesLoop
<1> QED
  BY <1>1, Invariance, PTL

(* The variables of bench.c and recv.c keep their types: no call reads     *)
(* beyond the CHUNK bytes that are mapped, none sends more than TOTAL.     *)
THEOREM BenchTypeCorrect == BuffersSpec => []Bench!TypeOK
<1>1. BuffersInv => Bench!TypeOK
  BY InvPipeMatchesLoop DEF BuffersInv
<1> QED
  BY <1>1, Invariance, PTL

(* On the socket bench.c does nothing but what bench_naive.c could do,     *)
(* with the bytes drained counted as sent, for any TOTAL and any sizes and *)
(* whoever dies when.                                                      *)
THEOREM BenchImplementsWrite == BuffersSpec => Bench!Write!Spec
<1>1. BuffersInit => Bench!Write!Init
  BY BenchInitRefines DEF BuffersInit
<1>2. BuffersInv
        /\ [BuffersNext]_<<demo, vars, stringVars, giftVars, benchVars>>
        => [Bench!Write!Next]_Bench!Write!vars
  BY BuffersSteps, BenchRefines DEF BuffersInv
<1> QED
  BY <1>1, <1>2, Invariance, PTL DEF BuffersSpec, Bench!Write!Spec

(* When bench.c prints a result and recv.c has read the connection to its  *)
(* end, all of TOTAL has got through, in whatever portions it went.        *)
THEOREM ResultsMeanTotal == BuffersSpec => []Bench!Write!ResultMeansTotal
<1>1. BuffersInv => Bench!Write!ResultMeansTotal
  <2> SUFFICES ASSUME BuffersInv, conn = "served", loopAt = "done"
               PROVE  got = Total
    BY DEF Bench!Write!ResultMeansTotal
  <2>1. got + queue = sent + drained /\ queue = 0 /\ sent = Total /\ drained = 0
    BY DEF BuffersInv, BenchCount
  <2>2. got \in Nat /\ sent \in Nat
    BY DEF BuffersInv, BenchInv, BenchTypeOK
  <2> QED BY <2>1, <2>2
<1> QED
  BY <1>1, Invariance, PTL
=============================================================================
