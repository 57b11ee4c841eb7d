--------------------------- MODULE TeeNaiveProofs ---------------------------
(***************************************************************************)
(* What TeeNaive checks for two files, proved for any number of files,     *)
(* any buffer size and inputs of any length.                               *)
(***************************************************************************)
EXTENDS TeeNaive, StreamLemmas

(* While the files are opened nothing is copied: o is what the sinks hold. *)
Opening(o) ==
  /\ cur \in Files
  /\ taken = 0
  /\ o = [s \in Sinks |-> IF s >= cur THEN Stale ELSE <<>>]

(* Between two chunks each sink has all the input taken. *)
Between(o) == \A s \in Sinks : o[s] = Upto(taken)

(* Bytes taken before the chunk in buf. *)
Start == taken - Len(buf)

(* Bytes of the chunk that sink s has: the sinks before cur have all of    *)
(* them, cur has the first off and the sinks after cur have none.          *)
Has(s) == IF s < cur THEN Len(buf) ELSE IF s = cur THEN off ELSE 0

Writing(o) ==
  /\ cur \in Sinks
  /\ Len(buf) <= taken
  /\ Len(buf) <= BufSize
  /\ off < Len(buf)
  /\ buf = Slice(Start, taken)
  /\ \A s \in Sinks : o[s] = Upto(Start + Has(s))

Form(o) == Opening(o) \/ Between(o) \/ Writing(o)

(* The sinks once die_if has left its message on stdout. *)
Reported(o) == [o EXCEPT ![0] = Joined(@, Message)]

IInv ==
  /\ TypeOK
  /\ taken <= sent
  /\ pc = "open" => Opening(out)
  /\ pc \in {"read", "done"} => Between(out)
  /\ pc = "write" => Writing(out)
  /\ pc = "failed" =>
       \E o \in [Sinks -> Seq(Nat)] : Form(o) /\ out \in {o, Reported(o)}
  /\ pc = "done" => closed /\ sent = taken

-----------------------------------------------------------------------------

(* Initially no file is open. *)
LEMMA InitIInv == Init => IInv
<1> SUFFICES ASSUME Init PROVE IInv
  OBVIOUS
<1> USE ConstantsAssumption DEF Init
<1>1. TypeOK
  BY DEF TypeOK, Sinks, Files, Stale
<1>2. Opening(out)
  BY DEF Opening, Sinks, Files
<1> QED
  BY <1>1, <1>2 DEF IInv

(* open() of the next file, or of the last one. *)
LEMMA OpenFileIInv == IInv /\ OpenFile => IInv'
<1> SUFFICES ASSUME IInv, OpenFile PROVE IInv'
  OBVIOUS
<1> USE ConstantsAssumption
<1>1. /\ TypeOK
      /\ Opening(out)
      /\ taken <= sent
  BY DEF IInv, OpenFile
<1>2. /\ cur' = cur + 1
      /\ out' = [s \in Sinks |-> IF s >= cur + 1 THEN Stale ELSE <<>>]
  <2>1. /\ FileCount \in Nat /\ cur \in 1..FileCount
        /\ out = [s \in Sinks |-> IF s >= cur THEN Stale ELSE <<>>]
    BY <1>1 DEF Opening, Files
  <2>2. out' = [s \in Sinks |-> IF s = cur THEN <<>> ELSE out[s]]
    BY <2>1 DEF OpenFile
  <2>3. \A s \in Sinks : s # cur => (s >= cur <=> s >= cur + 1)
    BY <2>1 DEF Sinks
  <2>4. ~(cur >= cur + 1)
    BY <2>1
  <2> QED
    BY <2>1, <2>2, <2>3, <2>4 DEF OpenFile
<1>3. TypeOK'
  <2>1. out' \in [Sinks -> Seq(Nat)]
    BY <1>2, ContentTypes
  <2> QED
    BY <1>1, <1>2, <2>1 DEF TypeOK, OpenFile, Opening, Files
<1>4. CASE cur = FileCount
  <2>1. pc' = "read" /\ taken' = 0
    BY <1>1, <1>4 DEF OpenFile, OpenedAll, Opening
  <2>2. out' = [s \in Sinks |-> <<>>]
    BY <1>2, <1>4 DEF Sinks
  <2>3. Between(out)'
    BY <2>1, <2>2, UptoZero DEF Between
  <2> QED
    BY <1>1, <1>3, <2>1, <2>3 DEF IInv, OpenFile
<1>5. CASE cur # FileCount
  <2>1. pc' = "open"
    BY <1>5 DEF OpenFile, OpenedAll
  <2>2. Opening(out)'
    BY <1>1, <1>2, <1>5 DEF OpenFile, Opening, Files
  <2> QED
    BY <1>1, <1>3, <2>1, <2>2 DEF IInv, OpenFile
<1> QED
  BY <1>4, <1>5

(* read() of a chunk. *)
LEMMA ReadChunkIInv == IInv /\ ReadChunk => IInv'
<1> SUFFICES ASSUME IInv, ReadChunk PROVE IInv'
  OBVIOUS
<1> USE ConstantsAssumption
<1>1. /\ TypeOK
      /\ Between(out)
      /\ pc' = "write"
      /\ cur' = 0 /\ off' = 0
      /\ UNCHANGED <<sent, closed, out>>
  BY DEF IInv, ReadChunk
<1>2. PICK n \in 1..Least(sent - taken, BufSize) :
        /\ buf' = Slice(taken, taken + n)
        /\ taken' = taken + n
  BY DEF ReadChunk
<1>3. n \in Nat /\ n > 0 /\ n <= BufSize /\ taken + n <= sent
  BY <1>1, LeastProperties, SMTT(30) DEF TypeOK
<1>4. /\ buf' \in Seq(Nat)
      /\ Len(buf') = n
      /\ Start' = taken
      /\ taken' \in Nat
  <2>1. /\ Slice(taken, taken + n) \in Seq(Nat)
        /\ Len(Slice(taken, taken + n)) = n
    BY <1>1, <1>3, ChunkType DEF TypeOK
  <2>2. buf' \in Seq(Nat) /\ Len(buf') = n
    BY <1>2, <2>1
  <2>3. Start' = taken' - Len(buf')
    BY DEF Start
  <2> QED
    BY <1>1, <1>2, <1>3, <2>2, <2>3 DEF TypeOK
<1>5. TypeOK'
  BY <1>1, <1>2, <1>3, <1>4 DEF TypeOK
<1>6. \A s \in Sinks : Has(s)' = 0
  BY <1>1 DEF Has, Sinks
<1>7. \A s \in Sinks : out'[s] = Upto(Start' + Has(s)')
  <2>1. Start' + 0 = taken
    BY <1>1, <1>4 DEF TypeOK
  <2> QED
    BY <1>1, <1>6, <2>1 DEF Between
<1>8. Writing(out)'
  BY <1>1, <1>2, <1>3, <1>4, <1>7 DEF Writing, Sinks, TypeOK
<1> QED
  BY <1>1, <1>2, <1>3, <1>5, <1>8 DEF IInv

(* write() of a part of the chunk: the sink it goes to still holds a       *)
(* prefix of the input, and the others are not touched.                    *)
LEMMA WriteSomeIInv == IInv /\ WriteSome => IInv'
<1> SUFFICES ASSUME IInv, WriteSome PROVE IInv'
  OBVIOUS
<1> USE ConstantsAssumption
<1>1. /\ TypeOK
      /\ Writing(out)
      /\ taken <= sent
      /\ UNCHANGED <<buf, taken, sent, closed>>
  BY DEF IInv, WriteSome
<1>2. /\ Len(buf) \in Nat /\ Start \in Nat /\ off \in Nat /\ taken \in Nat
      /\ Start <= taken /\ taken - Start = Len(buf)
      /\ off < Len(buf)
      /\ cur \in 0..FileCount /\ FileCount \in Nat
  BY <1>1 DEF Writing, Start, Sinks, TypeOK
<1>3. PICK w \in 1..(Len(buf) - off) :
        LET count == Len(buf) - off - w IN
        /\ out' = [out EXCEPT ![cur] = Joined(@, Part(buf, off + 1, off + w))]
        /\ off' = IF WrittenAll(count) THEN 0 ELSE off + w
        /\ cur' = IF WrittenAll(count) THEN cur + 1 ELSE cur
        /\ pc' = IF WrittenAll(count) /\ LastSink(cur) THEN "read" ELSE "write"
  BY DEF WriteSome
<1>4. /\ w \in Nat /\ off + w \in Nat /\ off + w <= Len(buf)
      /\ off <= off + w
  BY <1>2
<1>5. Start' = Start /\ Len(buf') = Len(buf)
  BY <1>1 DEF Start
<1> DEFINE After(s) == IF s = cur THEN off + w ELSE Has(s)
<1>6. \A s \in Sinks : out'[s] = Upto(Start + After(s))
  <2>1. /\ Start \in Nat /\ taken \in Nat /\ Start <= taken
        /\ Start + off \in Nat /\ Start <= Start + off
        /\ off + 1 \in Nat /\ off + w \in Nat
        /\ off + 1 = (Start + off) - Start + 1
        /\ off + 1 <= off + w + 1
        /\ off + w <= taken - Start
    BY <1>2, <1>4
  <2>2. Joined(Upto(Start + off), Part(Slice(Start, taken), off + 1, off + w))
          = Upto(Start + (off + w))
    BY <2>1, UptoExtendByPart
  <2>3. out[cur] = Upto(Start + off)
    BY <1>1, <1>2 DEF Writing, Has, Sinks
  <2>4. out' = [out EXCEPT ![cur] = Joined(out[cur], Part(buf, off + 1, off + w))]
    BY <1>3
  <2>5. out' = [out EXCEPT ![cur] = Upto(Start + (off + w))]
    BY <1>1, <2>2, <2>3, <2>4 DEF Writing
  <2> QED
    BY <1>1, <2>5 DEF Writing, TypeOK
<1>7. out' \in [Sinks -> Seq(Nat)]
  <2>1. \A s \in Sinks : After(s) \in Nat
    BY <1>2, <1>4 DEF Has
  <2>2. \A s \in Sinks : Start + After(s) \in Nat
    BY <1>2, <2>1
  <2>3. \A s \in Sinks : out'[s] \in Seq(Nat)
    BY <1>6, <2>2, UptoType, ZenonT(60)
  <2>4. out' = [s \in Sinks |-> out'[s]]
    BY <1>1, <1>3 DEF TypeOK
  <2> QED
    BY <2>3, <2>4
<1>8. CASE off + w < Len(buf)
  <2>1. /\ off' = off + w /\ cur' = cur /\ pc' = "write"
    BY <1>2, <1>3, <1>4, <1>8 DEF WrittenAll
  <2>2. TypeOK'
    BY <1>1, <1>4, <1>7, <2>1 DEF TypeOK
  <2>3. \A s \in Sinks : Has(s)' = After(s)
    BY <1>2, <1>5, <2>1 DEF Has, Sinks
  <2>4. \A s \in Sinks : out'[s] = Upto(Start' + Has(s)')
    BY <1>5, <1>6, <2>3
  <2>5. buf' = Slice(Start', taken')
    BY <1>1, <1>5 DEF Writing
  <2>6. Writing(out)'
    BY <1>1, <1>8, <2>1, <2>4, <2>5 DEF Writing
  <2> QED
    BY <1>1, <2>1, <2>2, <2>6 DEF IInv
<1>9. CASE off + w = Len(buf) /\ cur = FileCount
  <2>1. /\ off' = 0 /\ cur' = cur + 1 /\ pc' = "read"
    BY <1>2, <1>3, <1>4, <1>9 DEF WrittenAll, LastSink
  <2>2. TypeOK'
    BY <1>1, <1>2, <1>7, <2>1 DEF TypeOK
  <2>3. \A s \in Sinks : Start + After(s) = taken
    BY <1>2, <1>9 DEF Sinks, Has
  <2>4. Between(out)'
    BY <1>1, <1>6, <2>3 DEF Between
  <2> QED
    BY <1>1, <2>1, <2>2, <2>4 DEF IInv
<1>10. CASE off + w = Len(buf) /\ cur # FileCount
  <2>1. /\ off' = 0 /\ cur' = cur + 1 /\ pc' = "write"
    BY <1>2, <1>3, <1>4, <1>10 DEF WrittenAll, LastSink
  <2>2. TypeOK'
    BY <1>1, <1>2, <1>7, <2>1 DEF TypeOK
  <2>3. \A s \in Sinks : Has(s)' = After(s)
    BY <1>2, <1>5, <1>10, <2>1 DEF Has, Sinks
  <2>4. \A s \in Sinks : out'[s] = Upto(Start' + Has(s)')
    BY <1>5, <1>6, <2>3
  <2>5. buf' = Slice(Start', taken')
    BY <1>1, <1>5 DEF Writing
  <2>6. cur' \in Sinks
    BY <1>2, <1>10, <2>1 DEF Sinks
  <2>7. Writing(out)'
    BY <1>1, <1>2, <2>1, <2>4, <2>5, <2>6 DEF Writing
  <2> QED
    BY <1>1, <2>1, <2>2, <2>7 DEF IInv
<1> QED
  BY <1>2, <1>4, <1>8, <1>9, <1>10

(* die_if adds to stdout alone. *)
LEMMA DieIfFacts ==
  ASSUME TypeOK, DieIf
  PROVE  /\ Running /\ pc' = "failed"
         /\ UNCHANGED <<cur, buf, off, taken, sent, closed>>
         /\ out' \in [Sinks -> Seq(Nat)]
         /\ out' \in {out, Reported(out)}
         /\ \A f \in Files : out'[f] = out[f]
<1> USE ConstantsAssumption
<1>1. PICK prefix \in {<<>>, Message} :
        out' = [out EXCEPT ![0] = Joined(out[0], prefix)]
  BY DEF DieIf
<1>2. 0 \in Sinks /\ out[0] \in Seq(Nat) /\ prefix \in Seq(Nat)
  <2>1. 0 \in Sinks
    BY DEF Sinks
  <2>2. prefix \in Seq(Nat)
    BY ContentTypes, Zenon
  <2> QED
    BY <2>1, <2>2 DEF TypeOK
<1>3. Joined(out[0], <<>>) = out[0] /\ Joined(out[0], prefix) \in Seq(Nat)
  BY <1>2, JoinedEmpty, JoinedType
<1>4. out' \in [Sinks -> Seq(Nat)]
  BY <1>1, <1>2, <1>3 DEF TypeOK
<1>5. out' \in {out, Reported(out)}
  <2>1. CASE prefix = <<>>
    BY <1>1, <1>2, <1>3, <2>1 DEF TypeOK
  <2>2. CASE prefix = Message
    BY <1>1, <2>2 DEF Reported
  <2> QED
    BY <2>1, <2>2
<1>6. \A f \in Files : out'[f] = out[f]
  <2>1. \A f \in Files : f \in Sinks /\ f # 0
    BY DEF Files, Sinks
  <2> QED
    BY <1>1, <2>1 DEF TypeOK
<1> QED
  BY <1>4, <1>5, <1>6 DEF DieIf

(* The program dies in one of the three forms. *)
LEMMA DieIfIInv == IInv /\ DieIf => IInv'
<1> SUFFICES ASSUME IInv, DieIf PROVE IInv'
  OBVIOUS
<1>1. /\ TypeOK /\ taken <= sent
      /\ Running /\ pc' = "failed"
      /\ UNCHANGED <<cur, buf, off, taken, sent, closed>>
      /\ out' \in [Sinks -> Seq(Nat)]
      /\ out' \in {out, Reported(out)}
  BY DieIfFacts DEF IInv
<1>2. TypeOK'
  BY <1>1 DEF TypeOK
<1>3. Form(out)
  BY <1>1 DEF IInv, TypeOK, Running, Form
<1>4. \E o \in [Sinks -> Seq(Nat)] : Form(o)' /\ out' \in {o, Reported(o)}
  <2> DEFINE o == out
  <2>1. o \in [Sinks -> Seq(Nat)] /\ Form(o) /\ out' \in {o, Reported(o)}
    BY <1>1, <1>3 DEF TypeOK
  <2> SUFFICES ASSUME NEW p \in [Sinks -> Seq(Nat)], Form(p),
                      out' \in {p, Reported(p)}
               PROVE  \E q \in [Sinks -> Seq(Nat)] :
                        Form(q)' /\ out' \in {q, Reported(q)}
    BY <2>1
  <2>2. Start' = Start /\ \A s : Has(s)' = Has(s)
    BY <1>1 DEF Start, Has
  <2>3. Form(p)'
    BY <1>1, <2>2 DEF Form, Opening, Between, Writing
  <2> QED
    BY <2>3
<1> QED
  BY <1>1, <1>2, <1>4 DEF IInv, Reported

(* The other steps change no sink. *)
LEMMA OthersIInv ==
  IInv /\ (Produce \/ CloseInput \/ ReadEof \/ UNCHANGED vars) => IInv'
<1> SUFFICES ASSUME IInv, Produce \/ CloseInput \/ ReadEof \/ UNCHANGED vars
             PROVE  IInv'
  OBVIOUS
<1>1. TypeOK'
  <2>1. TypeOK
    BY DEF IInv
  <2>2. CASE Produce
    BY <2>1, <2>2, ConstantsAssumption DEF Produce, TypeOK
  <2>3. CASE CloseInput
    BY <2>1, <2>3 DEF CloseInput, TypeOK
  <2>4. CASE ReadEof
    BY <2>1, <2>4 DEF ReadEof, TypeOK
  <2>5. CASE UNCHANGED vars
    BY <2>1, <2>5 DEF vars, TypeOK
  <2> QED
    BY <2>2, <2>3, <2>4, <2>5
<1>2. UNCHANGED <<cur, buf, off, taken, out>>
  BY DEF Produce, CloseInput, ReadEof, vars
<1>3. \A o : /\ Opening(o)' <=> Opening(o)
             /\ Between(o)' <=> Between(o)
             /\ Writing(o)' <=> Writing(o)
             /\ Form(o)' <=> Form(o)
  BY <1>2 DEF Opening, Between, Writing, Start, Has, Form
<1>4. taken' <= sent'
  BY ConstantsAssumption DEF IInv, TypeOK, Produce, CloseInput, ReadEof, vars
<1>5. pc' = "open" => Opening(out)'
  BY <1>2 DEF IInv, Produce, CloseInput, ReadEof, vars, Opening
<1>6. pc' \in {"read", "done"} => Between(out)'
  BY <1>2 DEF IInv, Produce, CloseInput, ReadEof, vars, Between
<1>7. pc' = "write" => Writing(out)'
  BY <1>2 DEF IInv, Produce, CloseInput, ReadEof, vars, Writing, Start, Has
<1>8. pc' = "failed" =>
        \E o \in [Sinks -> Seq(Nat)] : Form(o)' /\ out' \in {o, Reported(o)}
  <2> SUFFICES ASSUME pc' = "failed"
               PROVE  \E o \in [Sinks -> Seq(Nat)] :
                        Form(o)' /\ out' \in {o, Reported(o)}
    OBVIOUS
  <2>1. pc = "failed"
    BY DEF Produce, CloseInput, ReadEof, Running, vars
  <2>2. PICK o \in [Sinks -> Seq(Nat)] : Form(o) /\ out \in {o, Reported(o)}
    BY <2>1 DEF IInv
  <2> QED
    BY <1>2, <1>3, <2>2
<1>9. pc' = "done" => closed' /\ sent' = taken'
  BY DEF IInv, Produce, CloseInput, ReadEof, Running, vars
<1> QED
  BY <1>1, <1>4, <1>5, <1>6, <1>7, <1>8, <1>9 DEF IInv, Reported

(* The inductive invariant holds in every state. *)
THEOREM Invariance == Spec => []IInv
<1>1. IInv /\ [Next]_vars => IInv'
  BY OpenFileIInv, ReadChunkIInv, WriteSomeIInv, DieIfIInv, OthersIInv
     DEF Next, Program
<1> QED
  BY <1>1, InitIInv, PTL DEF Spec

(* The variables keep their types. *)
THEOREM TypeCorrect == Spec => []TypeOK
<1>1. IInv => TypeOK
  BY DEF IInv
<1> QED
  BY <1>1, Invariance, PTL

-----------------------------------------------------------------------------
(* Safety. *)

(* Every sink has what it has been given, and stdout perhaps the message. *)
LEMMA Forms ==
  ASSUME IInv
  PROVE  \E o \in [Sinks -> Seq(Nat)] :
           /\ Form(o)
           /\ out = o \/ (pc = "failed" /\ out = Reported(o))
<1>1. CASE pc = "failed"
  BY <1>1 DEF IInv
<1>2. CASE pc # "failed"
  <2>1. Form(out) /\ out \in [Sinks -> Seq(Nat)]
    BY <1>2 DEF IInv, TypeOK, Form
  <2> QED
    BY <2>1
<1> QED
  BY <1>1, <1>2

(* What a sink has been given, in each of the three forms. *)
LEMMA GivenForms ==
  ASSUME TypeOK, NEW o \in [Sinks -> Seq(Nat)], NEW s \in Sinks
  PROVE  /\ Opening(o) => /\ o[s] = <<>> \/ (s \in Files /\ o[s] = Stale)
                          /\ InputIn(o[s]) = Upto(0)
         /\ Between(o) => o[s] = Upto(taken) /\ o[s] # Stale
         /\ Writing(o) => /\ Start + Has(s) \in Nat
                          /\ o[s] = Upto(Start + Has(s))
                          /\ o[s] # Stale
<1> USE ConstantsAssumption
<1>1. ASSUME Opening(o)
      PROVE  /\ o[s] = <<>> \/ (s \in Files /\ o[s] = Stale)
             /\ InputIn(o[s]) = Upto(0)
  <2>1. o[s] = IF s >= cur THEN Stale ELSE <<>>
    BY <1>1 DEF Opening
  <2>2. s >= cur => s \in Files
    BY <1>1 DEF Opening, Files, Sinks
  <2>3. InputIn(<<>>) = <<>> /\ InputIn(Stale) = <<>> /\ Upto(0) = <<>>
    BY InputInFacts, UptoZero
  <2> QED
    BY <2>1, <2>2, <2>3
<1>2. Between(o) => o[s] = Upto(taken) /\ o[s] # Stale
  BY StaleIsNoPrefix DEF Between, TypeOK
<1>3. Writing(o) => Start + Has(s) \in Nat
  BY DEF Writing, Start, Has, Sinks, TypeOK
<1>4. Writing(o) => o[s] = Upto(Start + Has(s)) /\ o[s] # Stale
  BY <1>3, StaleIsNoPrefix DEF Writing
<1> QED
  BY <1>1, <1>2, <1>3, <1>4

(* The input bytes a sink holds: the message is none of them. *)
LEMMA InputForms ==
  ASSUME IInv
  PROVE  \E o \in [Sinks -> Seq(Nat)] :
           /\ Form(o)
           /\ \A s \in Sinks :
                /\ Opening(o) => InputIn(out[s]) = Upto(0)
                /\ Between(o) => InputIn(out[s]) = Upto(taken)
                /\ Writing(o) => InputIn(out[s]) = Upto(Start + Has(s))
<1> USE ConstantsAssumption
<1>1. TypeOK
  BY DEF IInv
<1>2. PICK o \in [Sinks -> Seq(Nat)] :
        /\ Form(o)
        /\ out = o \/ (pc = "failed" /\ out = Reported(o))
  BY Forms
<1>3. ASSUME NEW n \in Nat, NEW s \in Sinks, o[s] = Upto(n)
      PROVE  InputIn(out[s]) = Upto(n)
  <2>1. out[s] = Upto(n) \/ out[s] = Joined(Upto(n), Message)
    BY <1>2, <1>3 DEF Reported
  <2> QED
    BY <2>1, InputInFacts
<1>4. ASSUME NEW s \in Sinks, Opening(o)
      PROVE  InputIn(out[s]) = Upto(0)
  <2>1. o[s] = <<>> \/ (s \in Files /\ o[s] = Stale)
    BY <1>1, <1>4, GivenForms
  <2>2. CASE o[s] = <<>>
    BY <1>3, <2>2, UptoZero
  <2>3. CASE s \in Files /\ o[s] = Stale
    <3>1. out[s] = Stale
      BY <1>2, <2>3 DEF Reported, Files
    <3> QED
      BY <3>1, InputInFacts, UptoZero
  <2> QED
    BY <2>1, <2>2, <2>3
<1>5. ASSUME NEW s \in Sinks, Between(o)
      PROVE  InputIn(out[s]) = Upto(taken)
  BY <1>1, <1>3, <1>5 DEF Between, TypeOK
<1>6. ASSUME NEW s \in Sinks, Writing(o)
      PROVE  InputIn(out[s]) = Upto(Start + Has(s))
  <2>1. Start + Has(s) \in Nat /\ o[s] = Upto(Start + Has(s))
    BY <1>1, <1>6, GivenForms
  <2> QED
    BY <1>3, <2>1
<1> QED
  BY <1>2, <1>4, <1>5, <1>6

LEMMA SkewInIInv == IInv => SkewWithinOneBuffer
<1> SUFFICES ASSUME IInv, NEW s \in Sinks, NEW t \in Sinks, s < t
             PROVE  Len(InputIn(out[s])) - Len(InputIn(out[t])) \in 0..BufSize
  BY DEF SkewWithinOneBuffer
<1> USE ConstantsAssumption
<1>1. TypeOK /\ taken \in Nat /\ BufSize \in Nat
  BY DEF IInv, TypeOK
<1>2. PICK o \in [Sinks -> Seq(Nat)] :
        /\ Form(o)
        /\ \A q \in Sinks :
             /\ Opening(o) => InputIn(out[q]) = Upto(0)
             /\ Between(o) => InputIn(out[q]) = Upto(taken)
             /\ Writing(o) => InputIn(out[q]) = Upto(Start + Has(q))
  BY InputForms
<1>3. ASSUME NEW n \in Nat, InputIn(out[s]) = Upto(n), InputIn(out[t]) = Upto(n)
      PROVE  Len(InputIn(out[s])) - Len(InputIn(out[t])) \in 0..BufSize
  BY <1>1, <1>3, UptoType
<1>4. CASE Opening(o)
  BY <1>2, <1>3, <1>4
<1>5. CASE Between(o)
  BY <1>1, <1>2, <1>3, <1>5
<1>6. CASE Writing(o)
  <2>1. /\ Start + Has(s) \in Nat /\ InputIn(out[s]) = Upto(Start + Has(s))
        /\ Start + Has(t) \in Nat /\ InputIn(out[t]) = Upto(Start + Has(t))
    BY <1>1, <1>2, <1>6, GivenForms
  <2>2. /\ Len(InputIn(out[s])) = Start + Has(s)
        /\ Len(InputIn(out[t])) = Start + Has(t)
    BY <2>1, UptoType
  <2>3. /\ Start \in Int /\ Has(s) \in Nat /\ Has(t) \in Nat
        /\ Has(t) <= Has(s) /\ Has(s) - Has(t) <= BufSize
    BY <1>1, <1>6 DEF Writing, Start, Has, Sinks, TypeOK
  <2> QED
    BY <1>1, <2>2, <2>3
<1> QED
  BY <1>2, <1>4, <1>5, <1>6 DEF Form

(* The sinks advance in order and are a buffer of input apart at most; the *)
(* message of a failure on stdout is not counted.                          *)
THEOREM SkewBounded == Spec => []SkewWithinOneBuffer
BY SkewInIInv, Invariance, PTL

(* A failed open() leaves no partial copy, only its message on stdout. *)
THEOREM OpenBeforeCopy == Spec => []NothingCopiedBeforeAllOpen
<1>1. IInv => NothingCopiedBeforeAllOpen
  <2> SUFFICES ASSUME IInv, NEW f \in Files, out[f] = Stale
               PROVE  /\ \A g \in Files : out[g] \in {<<>>, Stale}
                      /\ out[0] = <<>> \/ (out[0] = Message /\ pc = "failed")
    BY DEF NothingCopiedBeforeAllOpen
  <2>1. TypeOK /\ 0 \in Sinks /\ \A g \in Files : g \in Sinks /\ g # 0
    BY ConstantsAssumption DEF IInv, Files, Sinks
  <2>2. PICK o \in [Sinks -> Seq(Nat)] :
          /\ Form(o)
          /\ out = o \/ (pc = "failed" /\ out = Reported(o))
    BY Forms
  <2>3. \A g \in Files : out[g] = o[g]
    BY <2>1, <2>2 DEF Reported
  <2>4. Opening(o)
    <3>1. o[f] = Stale /\ f \in Sinks
      BY <2>1, <2>3
    <3> QED
      BY <2>1, <2>2, <3>1, GivenForms DEF Form
  <2>5. \A g \in Files : o[g] \in {<<>>, Stale}
    BY <2>1, <2>4, GivenForms
  <2>6. o[0] = <<>>
    BY <2>1, <2>4, GivenForms DEF Files
  <2>7. Joined(<<>>, Message) = Message
    BY ContentTypes DEF Joined
  <2>8. out[0] = <<>> \/ (out[0] = Message /\ pc = "failed")
    BY <2>1, <2>2, <2>6, <2>7 DEF Reported
  <2> QED
    BY <2>3, <2>5, <2>8
<1> QED
  BY <1>1, Invariance, PTL

-----------------------------------------------------------------------------
(* Refinement. *)

LEMMA AbsUpto == ASSUME NEW n PROVE Abs!Upto(n) = Upto(n)
BY DEF Abs!Upto, Abs!Slice, Upto, Slice

LEMMA InitRefines == Init => Abs!Init
<1> SUFFICES ASSUME Init PROVE Abs!Init
  OBVIOUS
<1>1. Delivered = [s \in Sinks |-> <<>>]
  BY DEF Init, Delivered
<1>2. Status = "running"
  BY DEF Init, Status
<1> QED
  BY <1>1, <1>2 DEF Init, Abs!Init

(* A write() delivers the next bytes to one sink. *)
LEMMA WriteSomeRefines == IInv /\ IInv' /\ WriteSome => Abs!Next
<1> SUFFICES ASSUME IInv, IInv', WriteSome PROVE Abs!Next
  OBVIOUS
<1> USE ConstantsAssumption
<1>1. /\ TypeOK
      /\ TypeOK'
      /\ Writing(out)
      /\ taken <= sent
      /\ UNCHANGED <<buf, taken, sent, closed>>
  BY DEF IInv, WriteSome
<1>2. /\ Len(buf) \in Nat /\ Start \in Nat /\ off \in Nat /\ taken \in Nat
      /\ sent \in Nat
      /\ taken - Start = Len(buf) /\ Start <= taken
      /\ cur \in Sinks
  BY <1>1 DEF Writing, Start, TypeOK
<1>3. PICK w \in 1..(Len(buf) - off) :
        out' = [out EXCEPT ![cur] = Joined(@, Part(buf, off + 1, off + w))]
  BY DEF WriteSome
<1> DEFINE n == Start + (off + w)
<1>4. /\ n \in Nat /\ n > Start + off /\ n <= taken
      /\ Start + off \in Nat
  BY <1>2
<1>5. out[cur] = Upto(Start + off)
  BY <1>1, <1>2 DEF Writing, Has, Sinks
<1>6. Joined(out[cur], Part(buf, off + 1, off + w)) = Upto(n)
  <2>1. /\ Start \in Nat /\ taken \in Nat /\ Start <= taken
        /\ Start + off \in Nat /\ Start <= Start + off
        /\ off + 1 \in Nat /\ off + w \in Nat
        /\ off + 1 = (Start + off) - Start + 1
        /\ off + 1 <= off + w + 1
        /\ off + w <= taken - Start
    BY <1>2
  <2>2. Joined(Upto(Start + off), Part(Slice(Start, taken), off + 1, off + w))
          = Upto(n)
    BY <2>1, UptoExtendByPart
  <2> QED
    BY <1>1, <1>5, <2>2 DEF Writing
<1> HIDE DEF n
<1>7. out' = [out EXCEPT ![cur] = Upto(n)]
  BY <1>3, <1>6
<1>8. Delivered' = [Delivered EXCEPT ![cur] = Upto(n)]
  <2>1. \A s \in Sinks : out[s] # Stale
    BY <1>1, GivenForms DEF TypeOK
  <2>2. Upto(n) # Stale
    BY <1>4, StaleIsNoPrefix
  <2>3. \A s \in Sinks : out'[s] = IF s = cur THEN Upto(n) ELSE out[s]
    BY <1>1, <1>7 DEF TypeOK
  <2>4. \A s \in Sinks :
          (IF s \in Files /\ out'[s] = Stale THEN <<>> ELSE out'[s])
            = IF s = cur THEN Upto(n)
              ELSE IF s \in Files /\ out[s] = Stale THEN <<>> ELSE out[s]
    BY <2>1, <2>2, <2>3
  <2> QED
    BY <2>4 DEF Delivered
<1>9. n \in (Len(Delivered[cur]) + 1)..sent
  <2>1. Delivered[cur] = Upto(Start + off)
    BY <1>2, <1>4, <1>5, StaleIsNoPrefix DEF Delivered
  <2>2. Len(Delivered[cur]) = Start + off
    BY <1>4, <2>1, UptoType
  <2> QED
    BY <1>1, <1>2, <1>4, <2>2
<1>10. Status = "running" /\ Status' = "running"
  BY <1>1 DEF WriteSome, Status, TypeOK
<1>11. Abs!Deliver(cur)
  BY <1>1, <1>8, <1>9, <1>10, AbsUpto DEF Abs!Deliver
<1> QED
  BY <1>2, <1>11 DEF Abs!Next

(* The steps that move no byte to a sink. *)
LEMMA OthersRefine ==
  IInv /\ IInv' /\ [Next]_vars /\ ~WriteSome => [Abs!Next]_Abs!vars
<1> SUFFICES ASSUME IInv, IInv', [Next]_vars, ~WriteSome
             PROVE  [Abs!Next]_Abs!vars
  OBVIOUS
<1> USE ConstantsAssumption
<1>1. TypeOK /\ TypeOK'
  BY DEF IInv
<1>2. out' = out => Delivered' = Delivered
  BY DEF Delivered
<1>3. CASE Produce
  <2>1. sent' \in Nat /\ sent' > sent
    BY <1>1, <1>3 DEF Produce, TypeOK
  <2>2. UNCHANGED <<closed, Delivered, Status>> /\ ~closed
    BY <1>2, <1>3 DEF Produce, Status
  <2> QED
    BY <2>1, <2>2 DEF Abs!Next, Abs!Send
<1>4. CASE CloseInput
  <2>1. UNCHANGED <<sent, Delivered, Status>>
    BY <1>2, <1>4 DEF CloseInput, Status
  <2> QED
    BY <1>4, <2>1 DEF CloseInput, Abs!Next, Abs!End
<1>5. CASE DieIf
  <2>1. Status = "running" /\ Status' = "aborted"
    BY <1>5 DEF DieIf, Running, Status
  <2>2. UNCHANGED <<sent, closed>> /\ out' \in {out, Reported(out)}
    BY <1>1, <1>5, DieIfFacts
  <2>3. CASE out' = out
    BY <1>2, <2>1, <2>2, <2>3 DEF Abs!Next, Abs!Abort
  <2>4. CASE out' = Reported(out)
    <3>1. 0 \in Sinks /\ 0 \notin Files
      BY DEF Sinks, Files
    <3>2. \A s \in Sinks :
            out'[s] = IF s = 0 THEN Joined(out[0], Message) ELSE out[s]
      BY <1>1, <2>4, <3>1 DEF Reported, TypeOK
    <3>3. Delivered' = [Delivered EXCEPT ![0] = Joined(Delivered[0], Message)]
      BY <3>1, <3>2 DEF Delivered
    <3>4. Abs!Joined(Delivered[0], Abs!Message) = Joined(Delivered[0], Message)
      BY DEF Abs!Joined, Abs!Message, Joined, Message
    <3> QED
      BY <2>1, <2>2, <3>3, <3>4 DEF Abs!Next, Abs!Abort
  <2> QED
    BY <2>2, <2>3, <2>4
<1>6. CASE OpenFile
  <2>1. Opening(out) /\ (Opening(out)' \/ Between(out)') /\ taken' = 0
    BY <1>6 DEF IInv, OpenFile, Opening
  <2>2. \A s \in Sinks : Delivered[s] = <<>>
    BY <1>1, <2>1, GivenForms DEF Delivered, TypeOK
  <2>3. \A s \in Sinks : Delivered'[s] = <<>>
    <3>1. CASE Opening(out)'
      <4>1. PICK c \in Files :
              out' = [s \in Sinks |-> IF s >= c THEN Stale ELSE <<>>]
        BY <3>1 DEF Opening
      <4>2. \A s \in Sinks : s >= c => s \in Files
        BY DEF Files, Sinks
      <4> QED
        BY <4>1, <4>2 DEF Delivered
    <3>2. CASE Between(out)'
      BY <2>1, <3>2, UptoZero DEF Between, Delivered
    <3> QED
      BY <2>1, <3>1, <3>2
  <2>4. Delivered' = Delivered
    BY <2>2, <2>3 DEF Delivered
  <2>5. UNCHANGED <<sent, closed, Status>>
    BY <1>6 DEF OpenFile, Status
  <2> QED
    BY <2>4, <2>5 DEF Abs!vars
<1>7. CASE ReadChunk
  <2>1. UNCHANGED <<sent, closed, Delivered, Status>>
    BY <1>2, <1>7 DEF ReadChunk, Status
  <2> QED
    BY <2>1 DEF Abs!vars
<1>8. CASE ReadEof
  <2>1. Between(out) /\ closed /\ sent = taken
    BY <1>8 DEF IInv, ReadEof
  <2>2. \A s \in Sinks : Delivered[s] = Upto(sent)
    BY <1>1, <2>1, GivenForms DEF Delivered, TypeOK
  <2>3. Status = "running" /\ Status' = "finished"
    BY <1>8 DEF ReadEof, Status
  <2>4. UNCHANGED <<sent, closed, Delivered>>
    BY <1>2, <1>8 DEF ReadEof
  <2> QED
    BY <2>1, <2>2, <2>3, <2>4, AbsUpto DEF Abs!Next, Abs!Finish
<1>9. CASE UNCHANGED vars
  <2>1. UNCHANGED <<sent, closed, Delivered, Status>>
    BY <1>2, <1>9 DEF vars, Status
  <2> QED
    BY <2>1 DEF Abs!vars
<1> QED
  BY <1>3, <1>4, <1>5, <1>6, <1>7, <1>8, <1>9 DEF Next, Program

(* Whatever lengths read() and write() return: each sink holds a prefix of *)
(* the input, and all of it at a normal end; wherever the program dies,    *)
(* die_if's message may follow the prefix on stdout, and on stdout alone.  *)
THEOREM Refinement == Spec => ImplementsBroadcast
<1>1. IInv /\ IInv' /\ [Next]_vars => [Abs!Next]_Abs!vars
  BY WriteSomeRefines, OthersRefine
<1> QED
  BY <1>1, InitRefines, Invariance, PTL DEF Spec, Abs!Spec, ImplementsBroadcast
=============================================================================
