--------------------------- MODULE SendersProofs ---------------------------
(***************************************************************************)
(* What MCSenders checks of nginx's and of APR's calls, proved for chains  *)
(* and streams of any length and whatever the socket can take.  What the   *)
(* recursive functions over a chain return is proved by induction on how   *)
(* many of its buffers they have gone through.                             *)
(***************************************************************************)
EXTENDS MCSenders, StreamLemmas, WellFoundedInduction

-----------------------------------------------------------------------------
(* Sendfile: what the caller was told, and what the call that is under way *)
(* has written, is what is on the wire; and a call that corked the socket  *)
(* still has it corked, while one that did not leaves the cork to the      *)
(* reason that is held.                                                    *)

Reasons == {"headers failed", "wait failed", "no trailers"}

FileTypeOK ==
  /\ at \in {"idle", "headers", "file", "trailers", "end"}
  /\ headers \in Nat /\ body \in Nat /\ trailers \in Nat
  /\ acked \in Nat /\ len \in Nat
  /\ blocking \in BOOLEAN /\ incomplete \in BOOLEAN
  /\ incomplete => blocking

Told ==
  /\ acked + len <= File!Total
  /\ out = Upto(acked + len)
  /\ at \in {"idle", "headers", "end"} => len = 0

CorkForm ==
  /\ corked \in BOOLEAN /\ nopush_set \in BOOLEAN
  /\ at \in {"idle", "end"} \/ ~nopush_set => (corked <=> held \in Reasons)
  /\ at \in {"headers", "file", "trailers"} /\ nopush_set => corked

FileInv == FileTypeOK /\ Told /\ CorkForm

-----------------------------------------------------------------------------
(* SocketIo: a call moves nothing before it returns, and one that waited   *)
(* does so because of the flag or of a timeout, and tries again only when  *)
(* the socket is ready.                                                    *)

IoTypeOK ==
  /\ ioAt \in {"idle", "try", "wait"}
  /\ op \in Io!Ops
  /\ timeout \in Io!Timeouts
  /\ flags \subseteq Io!Ops
  /\ avail \in [Io!Ops -> Nat]
  /\ asked \in Nat
  /\ ended \in BOOLEAN /\ waited \in BOOLEAN

IoInv ==
  /\ IoTypeOK
  /\ ioAt \in {"try", "wait"} => moved = 0 /\ op \notin flags
  /\ ioAt = "try" /\ waited => Io!Ready(op)
  /\ ioAt = "wait" => waited \/ timeout > 0
  /\ Io!ResultIsTruth

-----------------------------------------------------------------------------
(* Sendfile.                                                               *)

LEMMA FileStart == File!Init => FileInv
<1> SUFFICES ASSUME File!Init PROVE FileInv
  OBVIOUS
<1>1. /\ at = "idle" /\ headers \in Nat /\ body \in Nat /\ trailers \in Nat
      /\ acked = 0 /\ len = 0 /\ out = <<>> /\ held = "no"
  BY DEF File!Init
<1>2. /\ blocking \in BOOLEAN /\ incomplete = FALSE /\ corked = FALSE
      /\ nopush_set = FALSE
  BY DEF File!Init
<1>3. FileTypeOK
  BY <1>1, <1>2 DEF FileTypeOK
<1>4. Told
  <2>1. acked + len = 0 /\ File!Total >= 0
    BY <1>1 DEF File!Total
  <2> QED BY <1>1, <2>1, UptoZero DEF Told
<1>5. CorkForm
  BY <1>1, <1>2 DEF CorkForm, Reasons
<1> QED BY <1>3, <1>4, <1>5 DEF FileInv

LEMMA FileTypes ==
  ASSUME FileInv
  PROVE  /\ headers \in Nat /\ body \in Nat /\ trailers \in Nat
         /\ acked \in Nat /\ len \in Nat /\ acked + len \in Nat
         /\ acked + len <= File!Total /\ File!Total \in Nat
         /\ out = Upto(acked + len)
         /\ at \in {"idle", "headers", "end"} => len = 0
BY DEF FileInv, FileTypeOK, Told, File!Total

(* What is left of a part is within the part. *)
LEMMA LeftOfPart ==
  ASSUME FileInv, NEW from \in Nat, NEW size \in Nat
  PROVE  /\ File!Left(from, size) \in 0..size
         /\ acked + len + File!Left(from, size) <= acked + len \/
            acked + len + File!Left(from, size) <= from + size
BY FileTypes DEF File!Left

LEMMA LeftOfAll ==
  ASSUME FileInv
  PROVE  /\ File!HeadersLeft \in Nat /\ File!BodyLeft \in Nat
         /\ File!TrailersLeft \in Nat
         /\ acked + len + File!HeadersLeft <= File!Total
         /\ acked + len + File!BodyLeft <= File!Total
         /\ acked + len + File!TrailersLeft <= File!Total
<1>1. /\ headers \in Nat /\ body \in Nat /\ trailers \in Nat
      /\ acked \in Nat /\ len \in Nat /\ acked + len <= File!Total
      /\ File!Total = headers + body + trailers
  BY FileTypes DEF File!Total
<1>2. /\ File!HeadersLeft \in Nat
      /\ acked + len + File!HeadersLeft <= File!Total
  <2>1. File!HeadersLeft = File!Left(0, headers)
    BY DEF File!HeadersLeft
  <2>2. /\ File!HeadersLeft \in 0..headers
        /\ acked + len + File!HeadersLeft <= acked + len \/
           acked + len + File!HeadersLeft <= 0 + headers
    BY <1>1, <2>1, LeftOfPart
  <2> QED BY <1>1, <2>2
<1>3. /\ File!BodyLeft \in Nat
      /\ acked + len + File!BodyLeft <= File!Total
  <2>1. File!BodyLeft = File!Left(headers, body)
    BY DEF File!BodyLeft
  <2>2. /\ File!BodyLeft \in 0..body
        /\ acked + len + File!BodyLeft <= acked + len \/
           acked + len + File!BodyLeft <= headers + body
    BY <1>1, <2>1, LeftOfPart
  <2> QED BY <1>1, <2>2
<1>4. /\ File!TrailersLeft \in Nat
      /\ acked + len + File!TrailersLeft <= File!Total
  <2>1. File!TrailersLeft = File!Left(headers + body, trailers)
    BY DEF File!TrailersLeft
  <2>2. headers + body \in Nat
    BY <1>1
  <2>3. /\ File!TrailersLeft \in 0..trailers
        /\ acked + len + File!TrailersLeft <= acked + len \/
           acked + len + File!TrailersLeft <= (headers + body) + trailers
    BY <1>1, <2>1, <2>2, LeftOfPart
  <2> QED BY <1>1, <2>3
<1> QED BY <1>2, <1>3, <1>4

(* The socket takes the next k bytes. *)
LEMMA WireGrows ==
  ASSUME FileInv, NEW k \in Nat
  PROVE  /\ acked + len + k \in Nat
         /\ out \o File!Slice(acked + len, acked + len + k)
              = Upto(acked + len + k)
<1>1. /\ acked + len \in Nat /\ acked + len + k \in Nat
      /\ acked + len <= acked + len + k /\ out = Upto(acked + len)
  BY FileTypes
<1>2. Joined(Upto(acked + len), Slice(acked + len, acked + len + k))
        = Upto(acked + len + k)
  BY <1>1, UptoExtend
<1>3. File!Slice(acked + len, acked + len + k)
        = Slice(acked + len, acked + len + k)
  BY DEF File!Slice, Slice
<1> QED BY <1>1, <1>2, <1>3 DEF Joined

(* A return after k bytes more. *)
Returned(k) ==
  acked' = acked + len + k /\ len' = 0 /\ at' \in {"idle", "end"}

LEMMA ReturnsToCaller ==
  ASSUME FileInv, NEW k \in Nat, Returned(k),
         acked + len + k <= File!Total, out' = Upto(acked + len + k),
         UNCHANGED <<headers, body, trailers, blocking>>,
         incomplete' \in BOOLEAN, incomplete' => blocking
  PROVE  FileTypeOK' /\ Told' /\ at' \in {"idle", "end"}
<1>1. /\ acked' = acked + len + k /\ len' = 0 /\ at' \in {"idle", "end"}
      /\ headers' = headers /\ body' = body /\ trailers' = trailers
  BY DEF Returned
<1>2. blocking' = blocking
  OBVIOUS
<1>3. acked + len + k \in Nat
  BY FileTypes
<1>4. FileTypeOK'
  BY <1>1, <1>2, <1>3 DEF FileInv, FileTypeOK
<1>5. File!Total' = File!Total
  BY <1>1 DEF File!Total
<1>6. acked' + len' = acked + len + k
  BY <1>1, <1>3
<1>7. Told'
  BY <1>1, <1>5, <1>6 DEF Told
<1> QED BY <1>1, <1>4, <1>7

(* The two ways to leave the cork behind. *)
LEMMA UncorkKeepsCork ==
  ASSUME FileInv, at \in {"headers", "file", "trailers"}, File!Uncork,
         nopush_set' = nopush_set, at' \in {"idle", "end"}
  PROVE  CorkForm'
<1>1. /\ corked' = (corked /\ ~nopush_set)
      /\ held' = IF corked' THEN held ELSE "no"
  BY DEF File!Uncork
<1>2. /\ corked \in BOOLEAN /\ nopush_set \in BOOLEAN
      /\ ~nopush_set => (corked <=> held \in Reasons)
  BY DEF FileInv, CorkForm
<1>3. "no" \notin Reasons
  BY DEF Reasons
<1>4. corked' \in BOOLEAN /\ (corked' => corked /\ ~nopush_set)
      /\ (corked /\ ~nopush_set => corked')
  BY <1>1, <1>2, Zenon
<1>5. corked' <=> held' \in Reasons
  BY <1>1, <1>2, <1>3, <1>4
<1>6. nopush_set' \in BOOLEAN
  BY <1>2
<1> QED BY <1>4, <1>5, <1>6 DEF CorkForm

LEMMA KeepKeepsCork ==
  ASSUME FileInv, at \in {"headers", "file", "trailers"},
         NEW reason \in Reasons, File!Keep(reason),
         nopush_set' = nopush_set, at' \in {"idle", "end"}
  PROVE  CorkForm'
<1>1. held' = IF nopush_set THEN reason ELSE held
  BY DEF File!Keep
<1>2. corked' = corked
  BY DEF File!Keep
<1>3. /\ corked \in BOOLEAN /\ nopush_set \in BOOLEAN
      /\ nopush_set => corked
      /\ ~nopush_set => (corked <=> held \in Reasons)
  BY DEF FileInv, CorkForm
<1>4. corked' <=> held' \in Reasons
  BY <1>1, <1>2, <1>3
<1>5. corked' \in BOOLEAN /\ nopush_set' \in BOOLEAN
  BY <1>2, <1>3
<1> QED BY <1>4, <1>5 DEF CorkForm

LEMMA CorkKeepsFile == ASSUME FileInv, File!Cork PROVE FileInv'
<1>1. /\ at = "idle" /\ at' \in {"headers", "file"}
      /\ headers' = headers /\ body' = body /\ trailers' = trailers
      /\ acked' = acked /\ len' = len /\ out' = out /\ held' = held
  BY DEF File!Cork, File!given
<1>2. blocking' = blocking /\ incomplete' = incomplete
  BY DEF File!Cork, File!given
<1>3. \/ ~corked /\ corked' = TRUE /\ nopush_set' = TRUE
      \/ corked' = corked /\ nopush_set' = FALSE
  BY DEF File!Cork
<1>4. FileTypeOK'
  BY <1>1, <1>2 DEF FileInv, FileTypeOK
<1>5. Told'
  BY <1>1 DEF FileInv, Told, File!Total
<1>6. corked \in BOOLEAN /\ (corked <=> held \in Reasons)
  BY <1>1 DEF FileInv, CorkForm
<1>7. CorkForm'
  <2>1. CASE ~corked /\ corked' = TRUE /\ nopush_set' = TRUE
    BY <1>1, <2>1 DEF CorkForm
  <2>2. CASE corked' = corked /\ nopush_set' = FALSE
    <3>1. corked' \in BOOLEAN /\ (corked' <=> held' \in Reasons)
      BY <1>1, <1>6, <2>2
    <3>2. nopush_set' \in BOOLEAN /\ ~nopush_set'
      BY <2>2
    <3> QED BY <3>1, <3>2 DEF CorkForm
  <2> QED BY <1>3, <2>1, <2>2
<1> QED BY <1>4, <1>5, <1>7 DEF FileInv

LEMMA CorkFailsKeepsFile == ASSUME FileInv, File!CorkFails PROVE FileInv'
<1>1. /\ at = "idle" /\ Returned(0) /\ out' = out /\ held' = held
      /\ UNCHANGED <<headers, body, trailers, blocking>>
  BY DEF File!CorkFails, File!given, File!Return, Returned
<1>2. incomplete' = incomplete /\ corked' = corked /\ nopush_set' = nopush_set
  BY DEF File!CorkFails
<1>3. incomplete' \in BOOLEAN /\ (incomplete' => blocking)
  BY <1>2 DEF FileInv, FileTypeOK
<1>4. FileTypeOK' /\ Told' /\ at' \in {"idle", "end"}
  <2>1. acked + len + 0 = acked + len /\ acked + len <= File!Total
        /\ out = Upto(acked + len)
    BY FileTypes
  <2> QED BY <1>1, <1>3, <2>1, ReturnsToCaller
<1>5. CorkForm'
  BY <1>1, <1>2, <1>4 DEF FileInv, CorkForm
<1> QED BY <1>4, <1>5 DEF FileInv

(* What a step inside of a call does: k bytes more in *len. *)
LEMMA PutKeepsFile ==
  ASSUME FileInv, NEW k \in Nat, File!Put(k), acked + len + k <= File!Total,
         at \in {"headers", "file"}, at' \in {"file", "trailers"},
         incomplete' = FALSE,
         UNCHANGED <<headers, body, trailers, blocking, corked, nopush_set,
                     acked, held>>
  PROVE  FileInv'
<1>1. /\ len' = len + k /\ out' = Upto(acked + len + k)
      /\ headers' = headers /\ body' = body /\ trailers' = trailers
      /\ acked' = acked /\ held' = held
  BY WireGrows DEF File!Put
<1>2. blocking' = blocking /\ corked' = corked /\ nopush_set' = nopush_set
  OBVIOUS
<1>3. /\ acked \in Nat /\ len \in Nat /\ len + k \in Nat
      /\ acked + (len + k) = acked + len + k
  BY FileTypes
<1>4. FileTypeOK'
  BY <1>1, <1>2, <1>3 DEF FileInv, FileTypeOK
<1>5. Told'
  <2>1. File!Total' = File!Total /\ acked' + len' = acked + len + k
    BY <1>1, <1>3 DEF File!Total
  <2> QED BY <1>1, <2>1 DEF Told
<1>6. CorkForm'
  BY <1>1, <1>2 DEF FileInv, CorkForm
<1> QED BY <1>4, <1>5, <1>6 DEF FileInv

LEMMA HeadersKeepFile ==
  ASSUME FileInv, File!SendHeaders \/ File!ShortHeaders \/ File!HeadersError
  PROVE  FileInv'
<1>1. CASE File!SendHeaders
  <2>1. /\ at = "headers" /\ at' = "file" /\ incomplete' = FALSE
        /\ File!Put(File!HeadersLeft)
        /\ UNCHANGED <<headers, body, trailers, blocking, corked, nopush_set,
                       acked, held>>
    BY <1>1 DEF File!SendHeaders, File!given
  <2> QED BY <2>1, LeftOfAll, PutKeepsFile
<1>2. CASE File!ShortHeaders
  <2>1. PICK k \in 1..(File!HeadersLeft - 1) :
          /\ out' = out \o File!Slice(acked, acked + k)
          /\ incomplete' = File!Short(k, File!HeadersLeft)
          /\ Returned(k)
    BY <1>2 DEF File!ShortHeaders, File!Return, Returned
  <2>2. /\ at = "headers" /\ File!Uncork /\ nopush_set' = nopush_set
        /\ UNCHANGED <<headers, body, trailers, blocking>>
    BY <1>2 DEF File!ShortHeaders, File!given
  <2>3. /\ k \in Nat /\ acked + len + k <= File!Total
        /\ acked + len = acked /\ acked + k = acked + len + k
    BY <2>2, FileTypes, LeftOfAll
  <2>4. out' = Upto(acked + len + k)
    BY <2>1, <2>3, WireGrows
  <2>5. incomplete' \in BOOLEAN /\ (incomplete' => blocking)
    BY <2>1 DEF FileInv, FileTypeOK, File!Short
  <2>6. FileTypeOK' /\ Told' /\ at' \in {"idle", "end"}
    BY <2>1, <2>2, <2>3, <2>4, <2>5, ReturnsToCaller
  <2>7. CorkForm'
    BY <2>2, <2>6, UncorkKeepsCork
  <2> QED BY <2>6, <2>7 DEF FileInv
<1>3. CASE File!HeadersError
  <2>1. Returned(0)
    BY <1>3 DEF File!HeadersError, File!Return, Returned
  <2>2. /\ at = "headers" /\ File!Keep("headers failed") /\ out' = out
        /\ nopush_set' = nopush_set /\ incomplete' = FALSE
        /\ UNCHANGED <<headers, body, trailers, blocking>>
    BY <1>3 DEF File!HeadersError, File!given
  <2>3. acked + len + 0 = acked + len /\ acked + len <= File!Total
        /\ out = Upto(acked + len)
    BY FileTypes
  <2>4. FileTypeOK' /\ Told' /\ at' \in {"idle", "end"}
    BY <2>1, <2>2, <2>3, ReturnsToCaller
  <2>5. CorkForm'
    BY <2>2, <2>4, KeepKeepsCork DEF Reasons
  <2> QED BY <2>4, <2>5 DEF FileInv
<1> QED BY <1>1, <1>2, <1>3

LEMMA SendFileKeepsFile == ASSUME FileInv, File!SendFile PROVE FileInv'
<1>1. /\ at = "file" /\ incomplete' = FALSE /\ nopush_set' = nopush_set
      /\ UNCHANGED <<headers, body, trailers, blocking>>
  BY DEF File!SendFile, File!given
<1>2. File!BodyLeft \in Nat /\ acked + len + File!BodyLeft <= File!Total
  BY LeftOfAll
<1>3. CASE File!TrailersLeft > 0
  <2>1. /\ File!Put(File!BodyLeft) /\ at' = "trailers"
        /\ UNCHANGED <<corked, acked, held>>
    BY <1>3 DEF File!SendFile
  <2> QED BY <1>1, <1>2, <2>1, PutKeepsFile
<1>4. CASE ~(File!TrailersLeft > 0)
  <2>1. /\ out' = out \o File!Slice(acked + len, acked + len + File!BodyLeft)
        /\ Returned(File!BodyLeft) /\ File!Keep("no trailers")
    BY <1>4 DEF File!SendFile, File!Return, Returned
  <2>2. out' = Upto(acked + len + File!BodyLeft)
    BY <1>2, <2>1, WireGrows
  <2>3. FileTypeOK' /\ Told' /\ at' \in {"idle", "end"}
    BY <1>1, <1>2, <2>1, <2>2, ReturnsToCaller
  <2>4. CorkForm'
    BY <1>1, <2>1, <2>3, KeepKeepsCork DEF Reasons
  <2> QED BY <2>3, <2>4 DEF FileInv
<1> QED BY <1>3, <1>4

(* A return from the file or the trailers after k bytes that uncorks. *)
LEMMA PartKeepsFile ==
  ASSUME FileInv, NEW k \in Nat, at \in {"file", "trailers"},
         acked + len + k <= File!Total,
         out' = out \o File!Slice(acked + len, acked + len + k),
         Returned(k), File!Uncork,
         UNCHANGED <<headers, body, trailers, blocking, nopush_set>>,
         incomplete' \in BOOLEAN, incomplete' => blocking
  PROVE  FileInv'
<1>1. out' = Upto(acked + len + k)
  BY WireGrows
<1>2. FileTypeOK' /\ Told' /\ at' \in {"idle", "end"}
  BY <1>1, ReturnsToCaller
<1>3. CorkForm'
  BY <1>2, UncorkKeepsCork
<1> QED BY <1>2, <1>3 DEF FileInv

LEMMA PartsKeepFile ==
  ASSUME FileInv, File!ShortFile \/ File!SendTrailers
  PROVE  FileInv'
<1>1. CASE File!ShortFile
  <2>1. PICK k \in 0..(File!BodyLeft - 1) :
          /\ out' = out \o File!Slice(acked + len, acked + len + k)
          /\ incomplete' = (File!Short(k, File!BodyLeft) /\ k > 0)
          /\ Returned(k)
    BY <1>1 DEF File!ShortFile, File!Return, Returned
  <2>2. /\ at = "file" /\ File!Uncork
        /\ UNCHANGED <<headers, body, trailers, blocking, nopush_set>>
    BY <1>1 DEF File!ShortFile, File!given
  <2>3. k \in Nat /\ acked + len + k <= File!Total
    BY FileTypes, LeftOfAll
  <2>4. incomplete' \in BOOLEAN /\ (incomplete' => blocking)
    BY <2>1 DEF FileInv, FileTypeOK, File!Short
  <2> QED BY <2>1, <2>2, <2>3, <2>4, PartKeepsFile
<1>2. CASE File!SendTrailers
  <2>1. PICK k \in 1..File!TrailersLeft :
          /\ out' = out \o File!Slice(acked + len, acked + len + k)
          /\ incomplete' = File!Short(k, File!TrailersLeft)
          /\ Returned(k)
    BY <1>2 DEF File!SendTrailers, File!Return, Returned
  <2>2. /\ at = "trailers" /\ File!Uncork
        /\ UNCHANGED <<headers, body, trailers, blocking, nopush_set>>
    BY <1>2 DEF File!SendTrailers, File!given
  <2>3. k \in Nat /\ acked + len + k <= File!Total
    BY FileTypes, LeftOfAll
  <2>4. incomplete' \in BOOLEAN /\ (incomplete' => blocking)
    BY <2>1 DEF FileInv, FileTypeOK, File!Short
  <2> QED BY <2>1, <2>2, <2>3, <2>4, PartKeepsFile
<1> QED BY <1>1, <1>2

LEMMA ErrorsKeepFile ==
  ASSUME FileInv, File!FileError \/ File!WaitFails \/ File!TrailersError
  PROVE  FileInv'
<1>1. Returned(0)
  BY DEF File!FileError, File!WaitFails, File!TrailersError, File!Return,
         Returned
<1>2. /\ at \in {"file", "trailers"} /\ incomplete' = FALSE /\ out' = out
      /\ nopush_set' = nopush_set
      /\ UNCHANGED <<headers, body, trailers, blocking>>
      /\ File!Uncork \/ File!Keep("wait failed")
  BY DEF File!FileError, File!WaitFails, File!TrailersError, File!given
<1>3. acked + len + 0 = acked + len /\ acked + len <= File!Total
      /\ out = Upto(acked + len)
  BY FileTypes
<1>4. FileTypeOK' /\ Told' /\ at' \in {"idle", "end"}
  BY <1>1, <1>2, <1>3, ReturnsToCaller
<1>5. CorkForm'
  BY <1>2, <1>4, UncorkKeepsCork, KeepKeepsCork DEF Reasons
<1> QED BY <1>4, <1>5 DEF FileInv

LEMMA FileStep == FileInv /\ [File!Next]_fileVars => FileInv'
<1> SUFFICES ASSUME FileInv, [File!Next]_fileVars PROVE FileInv'
  OBVIOUS
<1>1. CASE File!Next
  BY <1>1, CorkKeepsFile, CorkFailsKeepsFile, HeadersKeepFile,
     SendFileKeepsFile, PartsKeepFile, ErrorsKeepFile DEF File!Next
<1>2. CASE UNCHANGED fileVars
  BY <1>2 DEF fileVars, FileInv, FileTypeOK, Told, CorkForm, File!Total
<1> QED BY <1>1, <1>2

LEMMA FileTruths == FileInv => LenIsTruth /\ CorkHeldOnlyBy
<1> SUFFICES ASSUME FileInv PROVE LenIsTruth /\ CorkHeldOnlyBy
  OBVIOUS
<1>1. \A k : File!Upto(k) = Upto(k)
  BY DEF File!Upto, Upto, File!Slice, Slice
<1>2. LenIsTruth
  BY <1>1, FileTypes DEF LenIsTruth, File!LenIsTruth
<1>3. CorkHeldOnlyBy
  BY DEF FileInv, CorkForm, CorkHeldOnlyBy, File!CorkHeldOnlyBy, Reasons
<1> QED BY <1>2, <1>3

LEMMA FileTypesHold == FileInv => File!TypeOK
<1> SUFFICES ASSUME FileInv PROVE File!TypeOK
  OBVIOUS
<1>1. acked + len \in 0..File!Total
  BY FileTypes
<1>2. out \in Seq(1..File!Total)
  <2>1. /\ out \in Seq(Nat) /\ Len(out) = acked + len
        /\ \A k \in 1..(acked + len) : out[k] = k
    BY FileTypes, UptoType
  <2>2. Len(out) \in Nat /\ DOMAIN out = 1..Len(out)
    BY <2>1
  <2>3. \A k \in 1..Len(out) : out[k] \in 1..File!Total
    BY <1>1, <2>1, FileTypes
  <2>4. out \in [1..Len(out) -> 1..File!Total]
    BY <2>1, <2>2, <2>3, LenProperties
  <2> QED BY <2>2, <2>4, SeqDef
<1>3. {incomplete, corked, nopush_set, blocking} \subseteq BOOLEAN
  BY DEF FileInv, FileTypeOK, CorkForm
<1> QED BY <1>1, <1>2, <1>3 DEF FileInv, FileTypeOK, File!TypeOK

-----------------------------------------------------------------------------
(* SocketIo.                                                               *)

LEMMA IoStart == Io!Init => IoInv
<1> SUFFICES ASSUME Io!Init PROVE IoInv
  OBVIOUS
<1>1. /\ ioAt = "idle" /\ op = "send" /\ timeout \in Io!Timeouts
      /\ flags = {} /\ avail = [o \in Io!Ops |-> 0] /\ asked = 0
      /\ ioLen = 0 /\ status = "success" /\ moved = 0
  BY DEF Io!Init
<1>2. ended = FALSE /\ waited = FALSE
  BY DEF Io!Init
<1>3. IoTypeOK
  BY <1>1, <1>2 DEF IoTypeOK, Io!Ops
<1>4. Io!ResultIsTruth
  BY <1>1 DEF Io!ResultIsTruth
<1> QED BY <1>1, <1>3, <1>4 DEF IoInv

(* The peer makes more available, or ends the stream: no result that was   *)
(* true becomes false.                                                     *)
LEMMA PeerKeepsIo ==
  ASSUME IoInv, Io!MoreAvailable \/ Io!PeerCloses PROVE IoInv'
<1>1. /\ ioAt' = ioAt /\ op' = op /\ timeout' = timeout /\ flags' = flags
      /\ asked' = asked /\ ioLen' = ioLen /\ status' = status
      /\ moved' = moved
  BY DEF Io!MoreAvailable, Io!PeerCloses
<1>2. waited' = waited
  BY DEF Io!MoreAvailable, Io!PeerCloses
<1>3. ended' \in BOOLEAN /\ (ended => ended')
  BY DEF Io!MoreAvailable, Io!PeerCloses, IoInv, IoTypeOK
<1>4. /\ avail' \in [Io!Ops -> Nat]
      /\ \A o \in Io!Ops : avail'[o] >= avail[o]
      /\ ended => avail'["recv"] = avail["recv"]
  <2>1. avail \in [Io!Ops -> Nat] /\ "recv" \in Io!Ops
    BY DEF IoInv, IoTypeOK, Io!Ops
  <2>2. CASE avail' = avail
    BY <2>1, <2>2
  <2>3. CASE Io!MoreAvailable
    <3>1. PICK o \in Io!Ops :
            /\ ended => o = "send"
            /\ avail' = [avail EXCEPT ![o] = avail[o] + 1]
      BY <2>3 DEF Io!MoreAvailable
    <3>2. avail[o] + 1 \in Nat
      BY <2>1
    <3>3. avail' \in [Io!Ops -> Nat]
      BY <2>1, <3>1, <3>2
    <3>4. \A p \in Io!Ops : avail'[p] = IF p = o THEN avail[o] + 1 ELSE avail[p]
      BY <2>1, <3>1
    <3> QED BY <2>1, <3>1, <3>3, <3>4
  <2> QED BY <2>2, <2>3 DEF Io!MoreAvailable, Io!PeerCloses
<1>5. IoTypeOK'
  BY <1>1, <1>2, <1>3, <1>4 DEF IoInv, IoTypeOK
<1>6. ioAt' = "try" /\ waited' => Io!Ready(op)'
  <2> SUFFICES ASSUME ioAt' = "try", waited' PROVE avail'[op] > 0 \/ ended'
    BY <1>1 DEF Io!Ready
  <2>1. avail[op] > 0 \/ ended
    BY <1>1, <1>2 DEF IoInv, Io!Ready
  <2>2. /\ op \in Io!Ops /\ avail[op] \in Nat /\ avail'[op] \in Nat
        /\ avail'[op] >= avail[op]
    BY <1>4 DEF IoInv, IoTypeOK
  <2> QED BY <1>3, <2>1, <2>2
<1>7. Io!ResultIsTruth'
  <2> SUFFICES ASSUME ioAt' = "idle"
               PROVE  /\ ioLen' = moved'
                      /\ status' = "again" => timeout' = 0 /\ ~waited'
                      /\ status' = "timeup" =>
                           \/ timeout' > 0
                           \/ timeout' = 0 /\ waited' /\ op' \notin flags'
                      /\ status' = "eof" =>
                           asked' = 0 \/ (ended' /\ avail'["recv"] = 0)
    BY DEF Io!ResultIsTruth
  <2>1. /\ ioLen = moved
        /\ status = "again" => timeout = 0 /\ ~waited
        /\ status = "timeup" =>
             timeout > 0 \/ (timeout = 0 /\ waited /\ op \notin flags)
        /\ status = "eof" => asked = 0 \/ (ended /\ avail["recv"] = 0)
    BY <1>1 DEF IoInv, Io!ResultIsTruth
  <2>2. status = "eof" => asked = 0 \/ (ended' /\ avail'["recv"] = 0)
    BY <1>3, <1>4, <2>1
  <2> QED BY <1>1, <1>2, <2>1, <2>2
<1>8. /\ ioAt' \in {"try", "wait"} => moved' = 0 /\ op' \notin flags'
      /\ ioAt' = "wait" => waited' \/ timeout' > 0
  BY <1>1, <1>2 DEF IoInv
<1> QED BY <1>5, <1>6, <1>7, <1>8 DEF IoInv

(* A call takes the flag of its direction, and waits first because of it.  *)
LEMMA CallKeepsIo == ASSUME IoInv, Io!Call PROVE IoInv'
<1>1. /\ op' \in Io!Ops /\ asked' \in Nat /\ timeout' \in Io!Timeouts
      /\ flags' = flags \ {op'} /\ avail' = avail /\ moved' = 0
  BY DEF Io!Call
<1>2. waited' = (op' \in flags) /\ ended' = ended
  BY DEF Io!Call
<1>3. ioAt' = IF waited' THEN "wait" ELSE "try"
  BY DEF Io!Call
<1>4. waited' \in BOOLEAN
  BY <1>2
<1>5. IoTypeOK'
  BY <1>1, <1>2, <1>3, <1>4 DEF IoInv, IoTypeOK
<1>6. /\ ioAt' = "wait" => waited'
      /\ ioAt' = "try" => ~waited'
      /\ ioAt' # "idle"
  BY <1>3
<1>7. Io!ResultIsTruth'
  BY <1>6 DEF Io!ResultIsTruth
<1>8. op' \notin flags'
  BY <1>1
<1> QED BY <1>1, <1>5, <1>6, <1>7, <1>8 DEF IoInv

(* A return that moves nothing. *)
LEMMA ReturnKeepsIo ==
  ASSUME IoInv, ioAt \in {"try", "wait"},
         NEW result, Io!Return(result, 0),
         flags' \subseteq Io!Ops, avail' = avail, moved' = moved,
         result = "again" => timeout = 0 /\ ~waited,
         result = "timeup" =>
           timeout > 0 \/ (timeout = 0 /\ waited /\ op \notin flags'),
         result = "eof" => asked = 0 \/ (ended /\ avail["recv"] = 0)
  PROVE  IoInv'
<1>1. /\ ioAt' = "idle" /\ status' = result /\ ioLen' = 0 /\ op' = op
      /\ timeout' = timeout /\ asked' = asked
  BY DEF Io!Return
<1>2. ended' = ended /\ waited' = waited
  BY DEF Io!Return
<1>3. moved' = 0
  BY DEF IoInv
<1>4. IoTypeOK'
  BY <1>1, <1>2 DEF IoInv, IoTypeOK
<1>5. Io!ResultIsTruth'
  BY <1>1, <1>2, <1>3 DEF Io!ResultIsTruth
<1> QED BY <1>1, <1>4, <1>5 DEF IoInv

(* The flag that a short call leaves is that of its direction. *)
LEMMA FlagsStay ==
  ASSUME IoInv, NEW k PROVE flags \union Io!Flagged(k) \subseteq Io!Ops
BY DEF IoInv, IoTypeOK, Io!Flagged

LEMMA MoveKeepsIo == ASSUME IoInv, Io!Move PROVE IoInv'
<1>1. PICK k \in 1..asked :
        /\ k <= avail[op]
        /\ avail' = [avail EXCEPT ![op] = avail[op] - k]
        /\ moved' = k
        /\ flags' = flags \union Io!Flagged(k)
        /\ Io!Return("success", k)
  BY DEF Io!Move
<1>2. /\ ioAt' = "idle" /\ status' = "success" /\ ioLen' = k /\ op' = op
      /\ timeout' = timeout /\ asked' = asked
  BY <1>1 DEF Io!Return
<1>3. ended' = ended /\ waited' = waited
  BY <1>1 DEF Io!Return
<1>4. avail' \in [Io!Ops -> Nat]
  <2>1. avail \in [Io!Ops -> Nat] /\ op \in Io!Ops /\ asked \in Nat
    BY DEF IoInv, IoTypeOK
  <2>2. avail[op] - k \in Nat
    BY <1>1, <2>1
  <2> QED BY <1>1, <2>1, <2>2
<1>5. flags' \subseteq Io!Ops
  BY <1>1, FlagsStay
<1>6. IoTypeOK'
  BY <1>2, <1>3, <1>4, <1>5 DEF IoInv, IoTypeOK
<1>7. Io!ResultIsTruth'
  BY <1>1, <1>2 DEF Io!ResultIsTruth
<1> QED BY <1>2, <1>6, <1>7 DEF IoInv

LEMMA NothingKeepsIo ==
  ASSUME IoInv,
         Io!ReadNothing \/ Io!WriteNothing \/ Io!Fails \/ Io!Again
           \/ Io!WaitTimesOut
  PROVE  IoInv'
<1>1. flags \subseteq Io!Ops
  BY DEF IoInv, IoTypeOK
<1>2. CASE Io!ReadNothing
  <2>1. /\ ioAt = "try" /\ op = "recv" /\ Io!Return("eof", 0)
        /\ flags' = flags \union Io!Flagged(0)
        /\ avail' = avail /\ moved' = moved
        /\ asked = 0 \/ (ended /\ avail["recv"] = 0)
    BY <1>2 DEF Io!ReadNothing
  <2> QED BY <2>1, FlagsStay, ReturnKeepsIo
<1>3. CASE Io!WriteNothing
  <2>1. /\ ioAt = "try" /\ Io!Return("success", 0) /\ flags' = flags
        /\ avail' = avail /\ moved' = moved
    BY <1>3 DEF Io!WriteNothing
  <2> QED BY <1>1, <2>1, ReturnKeepsIo
<1>4. CASE Io!Fails
  <2>1. /\ ioAt = "try" /\ Io!Return("error", 0) /\ flags' = flags
        /\ avail' = avail /\ moved' = moved
    BY <1>4 DEF Io!Fails
  <2> QED BY <1>1, <2>1, ReturnKeepsIo
<1>5. CASE Io!Again
  <2>1. /\ ioAt = "try" /\ Io!Return("again", 0) /\ flags' = flags
        /\ avail' = avail /\ moved' = moved
        /\ ~Io!Ready(op) /\ timeout = 0
    BY <1>5 DEF Io!Again
  <2>2. ~waited
    BY <2>1 DEF IoInv
  <2> QED BY <1>1, <2>1, <2>2, ReturnKeepsIo
<1>6. CASE Io!WaitTimesOut
  <2>1. /\ ioAt = "wait" /\ Io!Return("timeup", 0) /\ flags' = flags
        /\ avail' = avail /\ moved' = moved /\ timeout >= 0
    BY <1>6 DEF Io!WaitTimesOut
  <2>2. timeout \in {-1, 0, 1} /\ op \notin flags /\ (waited \/ timeout > 0)
    BY <2>1 DEF IoInv, IoTypeOK, Io!Timeouts
  <2>3. timeout > 0 \/ (timeout = 0 /\ waited /\ op \notin flags)
    BY <2>1, <2>2
  <2> QED BY <1>1, <2>1, <2>3, ReturnKeepsIo
<1> QED BY <1>2, <1>3, <1>4, <1>5, <1>6

LEMMA WaitKeepsIo ==
  ASSUME IoInv, Io!AgainWaits \/ Io!WaitSucceeds PROVE IoInv'
<1>1. /\ op' = op /\ timeout' = timeout /\ flags' = flags
      /\ asked' = asked /\ avail' = avail /\ moved' = moved
      /\ ioAt \in {"try", "wait"}
      /\ \/ ioAt' = "wait" /\ timeout > 0
         \/ ioAt' = "try" /\ Io!Ready(op)
  BY DEF Io!AgainWaits, Io!WaitSucceeds
<1>2. ended' = ended /\ waited' = waited
  BY DEF Io!AgainWaits, Io!WaitSucceeds
<1>3. IoTypeOK'
  BY <1>1, <1>2 DEF IoInv, IoTypeOK
<1>4. Io!ResultIsTruth'
  BY <1>1 DEF Io!ResultIsTruth
<1>5. ioAt' = "try" => Io!Ready(op)'
  BY <1>1, <1>2 DEF Io!Ready
<1>6. moved' = 0 /\ op' \notin flags'
  BY <1>1 DEF IoInv
<1>7. ioAt' = "wait" => timeout' > 0
  BY <1>1
<1> QED BY <1>3, <1>4, <1>5, <1>6, <1>7 DEF IoInv

LEMMA IoStep == IoInv /\ [Io!Next]_ioVars => IoInv'
<1> SUFFICES ASSUME IoInv, [Io!Next]_ioVars PROVE IoInv'
  OBVIOUS
<1>1. CASE Io!Next
  BY <1>1, PeerKeepsIo, CallKeepsIo, MoveKeepsIo, NothingKeepsIo, WaitKeepsIo
     DEF Io!Next
<1>2. CASE UNCHANGED ioVars
  BY <1>2 DEF ioVars, IoInv, IoTypeOK, Io!Ready, Io!ResultIsTruth
<1> QED BY <1>1, <1>2

-----------------------------------------------------------------------------
(* WritevChain: what its recursive definitions return, by induction on the *)
(* number of elements they have gone through.                              *)

LEMMA Induction ==
  ASSUME NEW T, 0 \in T, \A n \in Nat : n \in T => n + 1 \in T
  PROVE  Nat \subseteq T
<1> DEFINE R == OpToRel(<, Nat)
           B == Nat \ T
<1> SUFFICES ASSUME B # {} PROVE FALSE
  OBVIOUS
<1>1. \A x, y \in Nat : x < y => <<x, y>> \in R
  BY DEF OpToRel
<1>2. IsWellFoundedOn(R, Nat)
  BY NatLessThanWellFounded
<1>3. B \subseteq Nat
  OBVIOUS
<1> HIDE DEF R, B
<1>4. PICK x \in B : \A y \in B : ~(<<y, x>> \in R)
  BY <1>2, <1>3, WFMin
<1>5. x # 0 /\ x \in Nat
  BY DEF B
<1>6. x - 1 \in Nat /\ x - 1 < x /\ (x - 1) + 1 = x
  BY <1>5
<1>7. x - 1 \notin B
  BY <1>1, <1>4, <1>5, <1>6
<1> QED
  BY <1>5, <1>6, <1>7 DEF B

(* The sequences that FlattenSeq joins. *)
Flat(seqs, n) ==
  CHOOSE f : f = [i \in 1..n |->
                    IF i = 1 THEN seqs[i] ELSE f[i - 1] \o seqs[i]]

FlatForm(f, seqs, n) ==
  f = [i \in 1..n |-> IF i = 1 THEN seqs[i] ELSE f[i - 1] \o seqs[i]]

LEMMA FlatExists ==
  ASSUME NEW seqs, NEW n \in Nat
  PROVE  FlatForm(Flat(seqs, n), seqs, n)
<1> DEFINE T == {m \in Nat : \E f : FlatForm(f, seqs, m)}
<1>1. 0 \in T
  <2>1. FlatForm([i \in 1..0 |-> 0], seqs, 0)
    BY DEF FlatForm
  <2> QED BY <2>1
<1>2. ASSUME NEW m \in Nat, m \in T
      PROVE  m + 1 \in T
  <2>1. PICK f : FlatForm(f, seqs, m)
    BY <1>2
  <2>2. f = [i \in 1..m |-> IF i = 1 THEN seqs[i] ELSE f[i - 1] \o seqs[i]]
    BY <2>1 DEF FlatForm
  <2> DEFINE g == [i \in 1..(m + 1) |->
                     IF i = m + 1
                       THEN IF i = 1 THEN seqs[i] ELSE f[m] \o seqs[i]
                       ELSE f[i]]
             h == [i \in 1..(m + 1) |->
                     IF i = 1 THEN seqs[i] ELSE g[i - 1] \o seqs[i]]
  <2>3. ASSUME NEW i \in 1..(m + 1)
        PROVE  g[i] = h[i]
    <3>1. CASE i = 1
      <4>1. h[i] = seqs[i]
        BY <3>1
      <4>2. g[i] = seqs[i]
        BY <2>2, <3>1
      <4> QED BY <4>1, <4>2
    <3>2. CASE i # 1 /\ i = m + 1
      <4>1. m \in 1..(m + 1) /\ m # m + 1 /\ i - 1 = m
        BY <3>2
      <4>2. g[m] = f[m] /\ g[i] = f[m] \o seqs[i]
        BY <3>2, <4>1
      <4>3. h[i] = g[i - 1] \o seqs[i]
        BY <3>2
      <4> QED BY <4>1, <4>2, <4>3
    <3>3. CASE i # 1 /\ i # m + 1
      <4>1. i \in 1..m /\ i - 1 \in 1..(m + 1) /\ i - 1 # m + 1
        BY <3>3
      <4>2. g[i] = f[i] /\ g[i - 1] = f[i - 1]
        BY <4>1, <3>3
      <4>3. f[i] = f[i - 1] \o seqs[i]
        BY <2>2, <3>3, <4>1
      <4>4. h[i] = g[i - 1] \o seqs[i]
        BY <3>3
      <4> QED BY <4>2, <4>3, <4>4
    <3> QED BY <3>1, <3>2, <3>3
  <2>4. g = h
    BY <2>3
  <2>5. FlatForm(g, seqs, m + 1)
    BY <2>4 DEF FlatForm
  <2> QED BY <2>5
<1>3. Nat \subseteq T
  BY <1>1, <1>2, Induction
<1>4. \E f : FlatForm(f, seqs, n)
  BY <1>3
<1> QED BY <1>4 DEF FlatForm, Flat

LEMMA FlattenIsFlat ==
  ASSUME NEW seqs, Len(seqs) \in Nat \ {0}
  PROVE  Chain!FlattenSeq(seqs) = Flat(seqs, Len(seqs))[Len(seqs)]
BY DEF Chain!FlattenSeq, Flat

LEMMA FlatSteps ==
  ASSUME NEW seqs, NEW n \in Nat
  PROVE  /\ n > 0 => Flat(seqs, n)[1] = seqs[1]
         /\ \A i \in 2..n : Flat(seqs, n)[i] = Joined(Flat(seqs, n)[i - 1], seqs[i])
<1> DEFINE f == Flat(seqs, n)
<1>1. f = [i \in 1..n |-> IF i = 1 THEN seqs[i] ELSE f[i - 1] \o seqs[i]]
  BY FlatExists DEF FlatForm
<1> HIDE DEF f
<1>2. n > 0 => f[1] = seqs[1]
  <2> SUFFICES ASSUME n > 0 PROVE f[1] = seqs[1]
    OBVIOUS
  <2>1. 1 \in 1..n
    OBVIOUS
  <2> QED BY <1>1, <2>1
<1>3. ASSUME NEW i \in 2..n
      PROVE  f[i] = Joined(f[i - 1], seqs[i])
  <2>1. i \in 1..n /\ i # 1
    OBVIOUS
  <2>2. f[i] = f[i - 1] \o seqs[i]
    BY <1>1, <2>1
  <2> QED BY <2>2 DEF Joined
<1> QED BY <1>2, <1>3 DEF f

LEMMA FlatAgrees ==
  ASSUME NEW s, NEW t, NEW m \in Nat, NEW n \in Nat, m <= n,
         \A i \in 1..m : s[i] = t[i]
  PROVE  \A i \in 1..m : Flat(s, m)[i] = Flat(t, n)[i]
<1> DEFINE T == {k \in Nat : k \in 1..m => Flat(s, m)[k] = Flat(t, n)[k]}
<1>1. 0 \in T
  OBVIOUS
<1>2. ASSUME NEW k \in Nat, k \in T
      PROVE  k + 1 \in T
  <2> SUFFICES ASSUME k + 1 \in 1..m
               PROVE  Flat(s, m)[k + 1] = Flat(t, n)[k + 1]
    OBVIOUS
  <2>1. CASE k = 0
    <3>1. Flat(s, m)[1] = s[1] /\ Flat(t, n)[1] = t[1] /\ s[1] = t[1]
      BY <2>1, FlatSteps
    <3> QED BY <2>1, <3>1
  <2>2. CASE k # 0
    <3>1. /\ k + 1 \in 2..m /\ k + 1 \in 2..n /\ (k + 1) - 1 = k /\ k \in 1..m
      BY <2>2
    <3>2. Flat(s, m)[k + 1] = Joined(Flat(s, m)[(k + 1) - 1], s[k + 1])
      BY <3>1, FlatSteps
    <3>3. Flat(t, n)[k + 1] = Joined(Flat(t, n)[(k + 1) - 1], t[k + 1])
      BY <3>1, FlatSteps
    <3>4. Flat(s, m)[k] = Flat(t, n)[k] /\ s[k + 1] = t[k + 1]
      BY <1>2, <3>1
    <3> QED BY <3>1, <3>2, <3>3, <3>4
  <2> QED BY <2>1, <2>2
<1>3. Nat \subseteq T
  BY <1>1, <1>2, Induction
<1> QED BY <1>3

LEMMA FlatType ==
  ASSUME NEW seqs, NEW n \in Nat, \A i \in 1..n : seqs[i] \in Seq(Nat)
  PROVE  \A i \in 1..n : Flat(seqs, n)[i] \in Seq(Nat)
<1> DEFINE T == {k \in Nat : k \in 1..n => Flat(seqs, n)[k] \in Seq(Nat)}
<1>1. 0 \in T
  OBVIOUS
<1>2. ASSUME NEW k \in Nat, k \in T
      PROVE  k + 1 \in T
  <2> SUFFICES ASSUME k + 1 \in 1..n
               PROVE  Flat(seqs, n)[k + 1] \in Seq(Nat)
    OBVIOUS
  <2>1. CASE k = 0
    <3>1. Flat(seqs, n)[1] = seqs[1]
      BY <2>1, FlatSteps
    <3> QED BY <2>1, <3>1
  <2>2. CASE k # 0
    <3>1. k + 1 \in 2..n /\ (k + 1) - 1 = k /\ k \in 1..n
      BY <2>2
    <3>2. Flat(seqs, n)[k + 1] = Joined(Flat(seqs, n)[(k + 1) - 1], seqs[k + 1])
      BY <3>1, FlatSteps
    <3>3. Flat(seqs, n)[(k + 1) - 1] \in Seq(Nat) /\ seqs[k + 1] \in Seq(Nat)
      BY <1>2, <3>1
    <3>4. Joined(Flat(seqs, n)[(k + 1) - 1], seqs[k + 1]) \in Seq(Nat)
      BY <3>3, JoinedType
    <3> QED BY <3>2, <3>4
  <2> QED BY <2>1, <2>2
<1>3. Nat \subseteq T
  BY <1>1, <1>2, Induction
<1> QED BY <1>3

LEMMA FlattenEmpty == Chain!FlattenSeq(<<>>) = <<>>
BY DEF Chain!FlattenSeq

LEMMA FlattenType ==
  ASSUME NEW seqs \in Seq(Seq(Nat))
  PROVE  Chain!FlattenSeq(seqs) \in Seq(Nat)
<1>1. CASE seqs = <<>>
  <2>1. Chain!FlattenSeq(seqs) = <<>>
    BY <1>1, FlattenEmpty, Zenon
  <2> QED BY <2>1
<1>2. CASE seqs # <<>>
  <2>1. /\ Len(seqs) \in Nat \ {0} /\ Len(seqs) \in 1..Len(seqs)
        /\ \A i \in 1..Len(seqs) : seqs[i] \in Seq(Nat)
    BY <1>2
  <2>2. Flat(seqs, Len(seqs))[Len(seqs)] \in Seq(Nat)
    BY <2>1, FlatType
  <2> QED BY <2>1, <2>2, FlattenIsFlat
<1> QED BY <1>1, <1>2

(* FlattenSeq joins one sequence more. *)
LEMMA FlattenAppend ==
  ASSUME NEW seqs \in Seq(Seq(Nat)), NEW s \in Seq(Nat)
  PROVE  Chain!FlattenSeq(Append(seqs, s)) = Joined(Chain!FlattenSeq(seqs), s)
<1> DEFINE more == Append(seqs, s)
           n == Len(seqs)
<1>1. /\ n \in Nat /\ Len(more) = n + 1 /\ more[n + 1] = s
      /\ \A i \in 1..n : more[i] = seqs[i]
  OBVIOUS
<1> HIDE DEF more, n
<1>2. Chain!FlattenSeq(more) = Flat(more, n + 1)[n + 1]
  <2>1. Len(more) \in Nat \ {0}
    BY <1>1
  <2> QED BY <1>1, <2>1, FlattenIsFlat
<1>3. CASE n = 0
  <2>1. seqs = <<>>
    BY <1>3 DEF n
  <2>2. Flat(more, n + 1)[1] = more[1]
    BY <1>1, FlatSteps
  <2>3. Joined(<<>>, s) = s
    BY JoinedEmpty
  <2> QED BY <1>1, <1>2, <1>3, <2>1, <2>2, <2>3, FlattenEmpty DEF more
<1>4. CASE n # 0
  <2>1. /\ n + 1 \in Nat /\ n + 1 \in 2..(n + 1) /\ (n + 1) - 1 = n
        /\ n <= n + 1 /\ n \in 1..n
    BY <1>1, <1>4
  <2>2. Flat(more, n + 1)[n + 1] = Joined(Flat(more, n + 1)[(n + 1) - 1], more[n + 1])
    BY <2>1, FlatSteps
  <2>3. \A i \in 1..n : seqs[i] = more[i]
    BY <1>1
  <2>4. \A i \in 1..n : Flat(seqs, n)[i] = Flat(more, n + 1)[i]
    BY <1>1, <2>1, <2>3, FlatAgrees
  <2>5. Flat(seqs, n)[n] = Flat(more, n + 1)[n]
    BY <2>1, <2>4
  <2>6. Chain!FlattenSeq(seqs) = Flat(seqs, n)[n]
    <3>1. Len(seqs) \in Nat \ {0}
      BY <1>1, <1>4 DEF n
    <3> QED BY <3>1, FlattenIsFlat DEF n
  <2> QED BY <1>1, <1>2, <2>1, <2>2, <2>5, <2>6 DEF more
<1> QED BY <1>3, <1>4

(* Bytes of memory are slices like those of a stream, one place further.   *)
LEMMA StretchIsSlice ==
  ASSUME NEW a \in Nat \ {0}, NEW n \in Nat
  PROVE  Chain!Stretch(a, n) = Slice(a - 1, (a - 1) + n)
<1>1. ((a - 1) + n) - (a - 1) = n
  OBVIOUS
<1>2. \A b \in 1..n : a + b - 1 = (a - 1) + b
  OBVIOUS
<1> QED BY <1>1, <1>2 DEF Chain!Stretch, Slice

LEMMA StretchEmpty ==
  ASSUME NEW a \in Nat
  PROVE  Chain!Stretch(a, 0) = <<>>
<1> DEFINE s == Chain!Stretch(a, 0)
<1>1. s \in Seq(Nat) /\ Len(s) = 0
  BY DEF Chain!Stretch
<1> HIDE DEF s
<1>2. s = <<>>
  BY <1>1, EmptySeq
<1> QED BY <1>2 DEF s

LEMMA StretchType ==
  ASSUME NEW a \in Nat, NEW n \in Nat, n > 0 => a > 0
  PROVE  /\ Chain!Stretch(a, n) \in Seq(Nat)
         /\ Len(Chain!Stretch(a, n)) = n
<1>1. CASE n = 0
  <2>1. Chain!Stretch(a, n) = <<>>
    BY <1>1, StretchEmpty
  <2>2. <<>> \in Seq(Nat) /\ Len(<<>>) = 0
    OBVIOUS
  <2> QED BY <1>1, <2>1, <2>2
<1>2. CASE n > 0
  <2>1. a - 1 \in Nat /\ a \in Nat \ {0}
    BY <1>2
  <2>2. /\ Slice(a - 1, (a - 1) + n) \in Seq(Nat)
        /\ Len(Slice(a - 1, (a - 1) + n)) = n
    BY <2>1, ChunkType
  <2>3. Chain!Stretch(a, n) = Slice(a - 1, (a - 1) + n)
    BY <2>1, StretchIsSlice
  <2> QED BY <2>2, <2>3
<1> QED BY <1>1, <1>2

LEMMA StretchesJoin ==
  ASSUME NEW a \in Nat \ {0}, NEW m \in Nat, NEW n \in Nat
  PROVE  Joined(Chain!Stretch(a, m), Chain!Stretch(a + m, n))
           = Chain!Stretch(a, m + n)
<1> DEFINE p == a - 1
<1>1. /\ p \in Nat /\ p + m \in Nat /\ (p + m) + n \in Nat
      /\ p <= p + m /\ p + m <= (p + m) + n /\ p + (m + n) = (p + m) + n
      /\ a + m \in Nat \ {0} /\ (a + m) - 1 = p + m /\ m + n \in Nat
  OBVIOUS
<1>2. Chain!Stretch(a, m) = Slice(p, p + m)
  BY StretchIsSlice
<1>3. Chain!Stretch(a + m, n) = Slice((a + m) - 1, ((a + m) - 1) + n)
  BY <1>1, StretchIsSlice
<1>4. Chain!Stretch(a, m + n) = Slice(p, p + (m + n))
  BY <1>1, StretchIsSlice
<1>5. Joined(Slice(p, p + m), Slice(p + m, (p + m) + n))
        = Slice(p, (p + m) + n)
  BY <1>1, JoinedSlices
<1> QED BY <1>1, <1>2, <1>3, <1>4, <1>5

LEMMA StretchFront ==
  ASSUME NEW a \in Nat \ {0}, NEW n \in Nat, NEW m \in 0..n
  PROVE  Part(Chain!Stretch(a, n), 1, m) = Chain!Stretch(a, m)
<1> DEFINE p == a - 1
<1>1. p \in Nat /\ p + n \in Nat /\ p <= p + n /\ m \in Nat /\ m <= (p + n) - p
  OBVIOUS
<1>2. Part(Slice(p, p + n), 1, m) = Slice(p, p + m)
  BY <1>1, FrontOfSlice
<1> QED BY <1>1, <1>2, StretchIsSlice

LEMMA StretchRest ==
  ASSUME NEW a \in Nat \ {0}, NEW n \in Nat, NEW m \in 0..n
  PROVE  Rest(Chain!Stretch(a, n), m) = Chain!Stretch(a + m, n - m)
<1> DEFINE p == a - 1
<1>1. /\ p \in Nat /\ p + n \in Nat /\ p <= p + n /\ m \in Nat
      /\ m <= (p + n) - p /\ n - m \in Nat /\ a + m \in Nat \ {0}
      /\ (a + m) - 1 = p + m /\ (p + m) + (n - m) = p + n
  OBVIOUS
<1>2. Rest(Slice(p, p + n), m) = Slice(p + m, p + n)
  BY <1>1, RestOfSlice
<1>3. Chain!Stretch(a, n) = Slice(p, p + n)
  BY StretchIsSlice
<1>4. Chain!Stretch(a + m, n - m)
        = Slice((a + m) - 1, ((a + m) - 1) + (n - m))
  BY <1>1, StretchIsSlice
<1> QED BY <1>1, <1>2, <1>3, <1>4

(* A buffer, and the bytes of one. *)
InBuf(buf) == Chain!Stretch(buf.pos, Chain!Size(buf))

LEMMA BufferType ==
  ASSUME NEW buf \in Chain!Buffer
  PROVE  /\ buf.pos \in Nat /\ buf.last \in Nat /\ Chain!Size(buf) \in Nat
         /\ buf.kind \in {"memory", "special", "file", "bad"}
         /\ buf.kind = "memory" =>
              buf.pos > 0 /\ Chain!Size(buf) > 0
                /\ buf.last = buf.pos + Chain!Size(buf)
         /\ buf.kind # "memory" =>
              buf.pos = 0 /\ buf.last = 0 /\ Chain!Size(buf) = 0
         /\ InBuf(buf) \in Seq(Nat) /\ Len(InBuf(buf)) = Chain!Size(buf)
<1>1. /\ buf.pos \in Nat /\ buf.last \in Nat
      /\ buf.kind \in {"memory", "special", "file", "bad"}
      /\ buf.kind = "memory" => 0 < buf.pos /\ buf.pos < buf.last
      /\ buf.kind # "memory" => buf.pos = 0 /\ buf.last = 0
  BY DEF Chain!Buffer
<1>2. /\ Chain!Size(buf) \in Nat
      /\ buf.kind = "memory" =>
           Chain!Size(buf) > 0 /\ buf.last = buf.pos + Chain!Size(buf)
      /\ buf.kind # "memory" => Chain!Size(buf) = 0
  BY <1>1 DEF Chain!Size
<1>3. Chain!Size(buf) > 0 => buf.pos > 0
  BY <1>1, <1>2
<1>4. InBuf(buf) \in Seq(Nat) /\ Len(InBuf(buf)) = Chain!Size(buf)
  BY <1>1, <1>2, <1>3, StretchType DEF InBuf
<1> QED BY <1>1, <1>2, <1>4

LEMMA BytesEmpty == Chain!BytesOf(<<>>) = <<>>
<1> DEFINE s == [b \in DOMAIN <<>> |->
                   Chain!Stretch(<<>>[b].pos, Chain!Size(<<>>[b]))]
<1>1. s \in Seq(Nat) /\ Len(s) = 0
  OBVIOUS
<1>2. s = <<>>
  BY <1>1, EmptySeq
<1>3. Chain!BytesOf(<<>>) = Chain!FlattenSeq(s)
  BY DEF Chain!BytesOf
<1> QED BY <1>2, <1>3, FlattenEmpty

(* What is made of the elements of a sequence, joined. *)
Mapped(f, s) == [b \in DOMAIN s |-> f[s[b]]]

LEMMA MappedType ==
  ASSUME NEW S, NEW f \in [S -> Seq(Nat)], NEW s \in Seq(S)
  PROVE  Mapped(f, s) \in Seq(Seq(Nat)) /\ Len(Mapped(f, s)) = Len(s)
<1> DEFINE n == Len(s)
<1>1. n \in Nat /\ DOMAIN s = 1..n
  OBVIOUS
<1>2. \A b \in 1..n : f[s[b]] \in Seq(Nat)
  OBVIOUS
<1> HIDE DEF n
<1>3. Mapped(f, s) = [b \in 1..n |-> f[s[b]]]
  BY <1>1 DEF Mapped
<1>4. Mapped(f, s) \in Seq(Seq(Nat)) /\ Len(Mapped(f, s)) = n
  BY <1>1, <1>2, <1>3
<1> QED BY <1>4 DEF n

LEMMA MappedAppend ==
  ASSUME NEW S, NEW f \in [S -> Seq(Nat)], NEW s \in Seq(S), NEW x \in S
  PROVE  Mapped(f, Append(s, x)) = Append(Mapped(f, s), f[x])
<1> DEFINE more == Append(s, x)
           t == Mapped(f, more)
           m == Mapped(f, s)
           y == f[x]
           u == Append(m, y)
           n == Len(s)
<1>1. /\ n \in Nat /\ more \in Seq(S) /\ Len(more) = n + 1
      /\ \A b \in 1..n : more[b] = s[b]
      /\ more[n + 1] = x
  OBVIOUS
<1>2. y \in Seq(Nat) /\ m \in Seq(Seq(Nat)) /\ Len(m) = n
  BY MappedType
<1> HIDE DEF more
<1>3. t \in Seq(Seq(Nat)) /\ Len(t) = n + 1
  BY <1>1, MappedType
<1>4. /\ \A b \in 1..n : t[b] = m[b]
      /\ t[n + 1] = y
  BY <1>1 DEF Mapped
<1> HIDE DEF t, m, n, y
<1>5. /\ u \in Seq(Seq(Nat)) /\ Len(u) = n + 1
      /\ \A b \in 1..n : u[b] = m[b]
      /\ u[n + 1] = y
  BY <1>2, AppendProperties
<1> HIDE DEF u
<1>6. \A b \in 1..(n + 1) : b \in 1..n \/ b = n + 1
  BY <1>1
<1>7. \A b \in 1..(n + 1) : t[b] = u[b]
  BY <1>4, <1>5, <1>6
<1>8. t = u
  BY <1>3, <1>5, <1>7, SeqEqual
<1> QED BY <1>8 DEF t, u, m, y, more

LEMMA FlattenMapped ==
  ASSUME NEW S, NEW f \in [S -> Seq(Nat)], NEW s \in Seq(S), NEW x \in S
  PROVE  /\ Chain!FlattenSeq(Mapped(f, s)) \in Seq(Nat)
         /\ Chain!FlattenSeq(Mapped(f, Append(s, x)))
              = Joined(Chain!FlattenSeq(Mapped(f, s)), f[x])
<1>1. Mapped(f, s) \in Seq(Seq(Nat))
  BY MappedType
<1>2. f[x] \in Seq(Nat)
  OBVIOUS
<1>3. Chain!FlattenSeq(Append(Mapped(f, s), f[x]))
        = Joined(Chain!FlattenSeq(Mapped(f, s)), f[x])
  BY <1>1, <1>2, FlattenAppend
<1>4. Mapped(f, Append(s, x)) = Append(Mapped(f, s), f[x])
  BY MappedAppend
<1> QED BY <1>1, <1>3, <1>4, FlattenType

(* The bytes of buffers. *)
LEMMA BytesAppend ==
  ASSUME NEW bufs \in Seq(Chain!Buffer), NEW buf \in Chain!Buffer
  PROVE  /\ Chain!BytesOf(bufs) \in Seq(Nat)
         /\ Chain!BytesOf(Append(bufs, buf))
              = Joined(Chain!BytesOf(bufs), InBuf(buf))
<1> DEFINE f == [b \in Chain!Buffer |-> InBuf(b)]
<1>1. f \in [Chain!Buffer -> Seq(Nat)] /\ f[buf] = InBuf(buf)
  BY BufferType
<1>2. ASSUME NEW s \in Seq(Chain!Buffer)
      PROVE  Chain!BytesOf(s) = Chain!FlattenSeq(Mapped(f, s))
  <2>1. \A b \in DOMAIN s : s[b] \in Chain!Buffer
    OBVIOUS
  <2>2. Mapped(f, s) = [b \in DOMAIN s |->
                          Chain!Stretch(s[b].pos, Chain!Size(s[b]))]
    BY <2>1 DEF Mapped, InBuf
  <2> QED BY <2>2 DEF Chain!BytesOf
<1> HIDE DEF f
<1>3. Append(bufs, buf) \in Seq(Chain!Buffer)
  OBVIOUS
<1>4. /\ Chain!BytesOf(bufs) = Chain!FlattenSeq(Mapped(f, bufs))
      /\ Chain!BytesOf(Append(bufs, buf))
           = Chain!FlattenSeq(Mapped(f, Append(bufs, buf)))
  BY <1>2, <1>3
<1> QED BY <1>1, <1>4, FlattenMapped, SMTT(30)

LEMMA BytesType ==
  ASSUME NEW bufs \in Seq(Chain!Buffer)
  PROVE  Chain!BytesOf(bufs) \in Seq(Nat)
<1> DEFINE f == [b \in Chain!Buffer |-> InBuf(b)]
<1>1. f \in [Chain!Buffer -> Seq(Nat)]
  BY BufferType
<1>2. \A b \in DOMAIN bufs : bufs[b] \in Chain!Buffer
  OBVIOUS
<1>3. Mapped(f, bufs) = [b \in DOMAIN bufs |->
                           Chain!Stretch(bufs[b].pos, Chain!Size(bufs[b]))]
  BY <1>2 DEF Mapped, InBuf
<1>4. Chain!BytesOf(bufs) = Chain!FlattenSeq(Mapped(f, bufs))
  BY <1>3 DEF Chain!BytesOf
<1> HIDE DEF f
<1>5. Mapped(f, bufs) \in Seq(Seq(Nat))
  BY <1>1, MappedType
<1> QED BY <1>4, <1>5, FlattenType

(* What writev() is given. *)
Iovec == [base : Nat \ {0}, size : Nat \ {0}]

InIovec(iov) == Chain!Stretch(iov.base, iov.size)

LEMMA IovecType ==
  ASSUME NEW iov \in Iovec
  PROVE  InIovec(iov) \in Seq(Nat) /\ Len(InIovec(iov)) = iov.size
<1>1. iov.base \in Nat /\ iov.size \in Nat /\ iov.base > 0
  BY DEF Iovec
<1> QED BY <1>1, StretchType DEF InIovec

LEMMA GatherEmpty == Chain!Gather(<<>>) = <<>>
<1> DEFINE s == [k \in DOMAIN <<>> |->
                   Chain!Stretch(<<>>[k].base, <<>>[k].size)]
<1>1. s \in Seq(Nat) /\ Len(s) = 0
  OBVIOUS
<1>2. s = <<>>
  BY <1>1, EmptySeq
<1>3. Chain!Gather(<<>>) = Chain!FlattenSeq(s)
  BY DEF Chain!Gather
<1> QED BY <1>2, <1>3, FlattenEmpty

LEMMA GatherAppend ==
  ASSUME NEW iovs \in Seq(Iovec), NEW iov \in Iovec
  PROVE  /\ Chain!Gather(iovs) \in Seq(Nat)
         /\ Chain!Gather(Append(iovs, iov))
              = Joined(Chain!Gather(iovs), InIovec(iov))
<1> DEFINE f == [k \in Iovec |-> InIovec(k)]
<1>1. f \in [Iovec -> Seq(Nat)] /\ f[iov] = InIovec(iov)
  BY IovecType
<1>2. ASSUME NEW s \in Seq(Iovec)
      PROVE  Chain!Gather(s) = Chain!FlattenSeq(Mapped(f, s))
  <2>1. \A k \in DOMAIN s : s[k] \in Iovec
    OBVIOUS
  <2>2. Mapped(f, s) = [k \in DOMAIN s |->
                          Chain!Stretch(s[k].base, s[k].size)]
    BY <2>1 DEF Mapped, InIovec
  <2> QED BY <2>2 DEF Chain!Gather
<1> HIDE DEF f
<1>3. Append(iovs, iov) \in Seq(Iovec)
  OBVIOUS
<1>4. /\ Chain!Gather(iovs) = Chain!FlattenSeq(Mapped(f, iovs))
      /\ Chain!Gather(Append(iovs, iov))
           = Chain!FlattenSeq(Mapped(f, Append(iovs, iov)))
  BY <1>2, <1>3
<1> QED BY <1>1, <1>4, FlattenMapped, SMTT(30)

-----------------------------------------------------------------------------
(* WritevChain: the iovecs hold the front of the chain.                    *)

Vecs == [iovs : Seq(Iovec), prev : Nat, total : Nat, cl : Nat,
         stop : {"no", "yes", "error"}]

(* Where the array of iovecs ends in memory; 0 while it is empty. *)
EndsAt(v) ==
  /\ v.iovs = <<>> => v.total = 0 /\ v.prev = 0
  /\ v.iovs # <<>> =>
       /\ v.total > 0
       /\ v.prev = v.iovs[Len(v.iovs)].base + v.iovs[Len(v.iovs)].size

(* What stopped it before there was anything to write. *)
NothingYet(v, k) ==
  /\ v.stop = "no" => \A i \in 1..k : in[i].kind = "special"
  /\ v.stop = "yes" => v.cl \in 1..Len(in) /\ in[v.cl].kind = "file"

(* After k buffers, for room bytes. *)
Built(v, k, room) ==
  /\ v \in Vecs
  /\ v.total <= room /\ v.total <= Len(Chain!BytesOf(First(in, k)))
  /\ Chain!Gather(v.iovs) = Part(Chain!BytesOf(First(in, k)), 1, v.total)
  /\ v.stop = "no" /\ v.total < room =>
       v.cl = k + 1 /\ v.total = Len(Chain!BytesOf(First(in, k)))
  /\ EndsAt(v)
  /\ v.total = 0 => NothingYet(v, k)

LEMMA VecsType ==
  ASSUME NEW v \in Vecs
  PROVE  /\ v.iovs \in Seq(Iovec) /\ v.prev \in Nat /\ v.total \in Nat
         /\ v.cl \in Nat /\ v.stop \in {"no", "yes", "error"}
BY DEF Vecs

LEMMA CoalescedType ==
  ASSUME NEW iovs \in Seq(Iovec), iovs # <<>>, NEW m \in Nat \ {0}
  PROVE  LET n == Len(iovs)
             last == iovs[n]
             more == Chain!Coalesced(iovs, m)
         IN /\ more \in Seq(Iovec) /\ more # <<>> /\ Len(more) = n
            /\ more[n].base + more[n].size = last.base + last.size + m
            /\ Chain!Gather(more)
                 = Joined(Chain!Gather(iovs),
                          Chain!Stretch(last.base + last.size, m))
<1> DEFINE n == Len(iovs)
           last == iovs[n]
           l == [base |-> last.base, size |-> last.size + m]
           f == First(iovs, n - 1)
           more == Chain!Coalesced(iovs, m)
<1>1. /\ n \in Nat \ {0} /\ n - 1 \in Nat /\ (n - 1) + 1 = n /\ n <= Len(iovs)
      /\ n \in 1..n
  OBVIOUS
<1>2. last \in Iovec
  BY <1>1
<1>3. /\ last.base \in Nat \ {0} /\ last.size \in Nat \ {0}
      /\ last.size + m \in Nat \ {0}
  BY <1>2 DEF Iovec
<1>4. l \in Iovec /\ l.base = last.base /\ l.size = last.size + m
  BY <1>3 DEF Iovec
<1>5. more = [iovs EXCEPT ![n] = l]
  BY DEF Chain!Coalesced
<1> HIDE DEF l, last, n, more
<1>6. /\ more \in Seq(Iovec) /\ Len(more) = n /\ more[n] = l
      /\ \A i \in 1..n : i # n => more[i] = iovs[i]
  <2>1. Len(iovs) = n /\ n \in 1..Len(iovs)
    BY <1>1 DEF n
  <2>2. /\ [iovs EXCEPT ![n] = l] \in Seq(Iovec)
        /\ Len([iovs EXCEPT ![n] = l]) = Len(iovs)
        /\ \A i \in 1..Len(iovs) :
             [iovs EXCEPT ![n] = l][i] = IF i = n THEN l ELSE iovs[i]
    BY <1>4, <2>1, ExceptSeq
  <2> QED BY <1>5, <2>1, <2>2
<1>7. /\ f \in Seq(Iovec) /\ Len(f) = n - 1
      /\ iovs = Append(f, last)
  <2>1. /\ First(iovs, n - 1) \in Seq(Iovec) /\ Len(First(iovs, n - 1)) = n - 1
        /\ First(iovs, (n - 1) + 1) = Append(First(iovs, n - 1), iovs[(n - 1) + 1])
    BY <1>1, FirstGrows
  <2>2. First(iovs, n) = iovs
    BY FirstAll DEF n
  <2> QED BY <1>1, <2>1, <2>2 DEF last
<1> HIDE DEF f
<1>8. more = Append(f, l)
  <2> DEFINE u == Append(f, l)
  <2>1. /\ u \in Seq(Iovec) /\ Len(u) = Len(f) + 1
        /\ \A i \in 1..Len(f) : u[i] = f[i]
        /\ u[Len(f) + 1] = l
    BY <1>4, <1>7, AppendProperties
  <2>2. \A i \in 1..Len(f) : iovs[i] = f[i]
    BY <1>2, <1>7, AppendProperties
  <2> HIDE DEF u
  <2>3. \A i \in 1..n : more[i] = u[i]
    <3> SUFFICES ASSUME NEW i \in 1..n PROVE more[i] = u[i]
      OBVIOUS
    <3>1. CASE i = n
      BY <1>1, <1>6, <1>7, <2>1, <3>1
    <3>2. CASE i # n
      <4>1. i \in 1..Len(f)
        BY <1>1, <1>7, <3>2
      <4> QED BY <1>6, <2>1, <2>2, <3>2, <4>1
    <3> QED BY <3>1, <3>2
  <2>4. Len(u) = n
    BY <1>1, <1>7, <2>1
  <2>5. more = u
    BY <1>6, <2>1, <2>3, <2>4, SeqEqual
  <2> QED BY <2>5 DEF u
<1>9. /\ Chain!Gather(f) \in Seq(Nat)
      /\ Chain!Gather(iovs) = Joined(Chain!Gather(f), InIovec(last))
      /\ Chain!Gather(more) = Joined(Chain!Gather(f), InIovec(l))
  BY <1>2, <1>4, <1>7, <1>8, GatherAppend
<1> DEFINE a == last.base + last.size
           t == Chain!Stretch(a, m)
<1>10. InIovec(l) = Joined(InIovec(last), t)
  <2>1. last.size \in Nat /\ m \in Nat
    BY <1>3
  <2>2. Joined(Chain!Stretch(last.base, last.size), t)
          = Chain!Stretch(last.base, last.size + m)
    BY <1>3, <2>1, StretchesJoin
  <2> QED BY <1>4, <2>2 DEF InIovec
<1>11. InIovec(last) \in Seq(Nat) /\ t \in Seq(Nat)
  <2>1. a \in Nat /\ m \in Nat /\ (m > 0 => a > 0)
    BY <1>3
  <2> QED BY <1>2, <2>1, IovecType, StretchType
<1> HIDE DEF t
<1>12. Joined(Joined(Chain!Gather(f), InIovec(last)), t)
         = Joined(Chain!Gather(f), Joined(InIovec(last), t))
  BY <1>9, <1>11, JoinedAssociative
<1>13. Chain!Gather(more) = Joined(Chain!Gather(iovs), t)
  BY <1>9, <1>10, <1>12
<1>14. more # <<>>
  BY <1>1, <1>6
<1>15. more[n].base + more[n].size = last.base + last.size + m
  BY <1>3, <1>4, <1>6
<1> QED BY <1>6, <1>13, <1>14, <1>15 DEF t, more, last, n

(* The front of a chain that has one buffer more. *)
LEMMA FrontBytes ==
  ASSUME in \in Seq(Chain!Buffer), NEW k \in Nat, k + 1 <= Len(in)
  PROVE  LET bytes == Chain!BytesOf(First(in, k))
             buf == in[k + 1]
         IN /\ buf \in Chain!Buffer /\ bytes \in Seq(Nat)
            /\ Chain!BytesOf(First(in, k + 1)) = Joined(bytes, InBuf(buf))
            /\ Len(Chain!BytesOf(First(in, k + 1)))
                 = Len(bytes) + Chain!Size(buf)
            /\ InBuf(buf) \in Seq(Nat) /\ Len(InBuf(buf)) = Chain!Size(buf)
<1> DEFINE f == First(in, k)
           buf == in[k + 1]
<1>1. /\ f \in Seq(Chain!Buffer) /\ buf \in Chain!Buffer
      /\ First(in, k + 1) = Append(f, buf)
  BY FirstGrows
<1> HIDE DEF f, buf
<1>2. /\ Chain!BytesOf(f) \in Seq(Nat)
      /\ Chain!BytesOf(Append(f, buf)) = Joined(Chain!BytesOf(f), InBuf(buf))
  BY <1>1, BytesAppend
<1>3. InBuf(buf) \in Seq(Nat) /\ Len(InBuf(buf)) = Chain!Size(buf)
  BY <1>1, BufferType
<1>4. Len(Joined(Chain!BytesOf(f), InBuf(buf)))
        = Len(Chain!BytesOf(f)) + Len(InBuf(buf))
  BY <1>2, <1>3, JoinedType
<1> QED BY <1>1, <1>2, <1>3, <1>4 DEF f, buf

(* Nothing is added. *)
LEMMA BuiltStays ==
  ASSUME in \in Seq(Chain!Buffer), NEW k \in Nat, k + 1 <= Len(in),
         NEW room \in Nat, NEW v, Built(v, k, room),
         NEW w \in Vecs, w.iovs = v.iovs, w.total = v.total, w.prev = v.prev,
         w.stop = "no" /\ w.total < room =>
           w.cl = k + 2 /\ v.stop = "no" /\ Chain!Size(in[k + 1]) = 0,
         w.total = 0 => NothingYet(w, k + 1)
  PROVE  Built(w, k + 1, room)
<1> DEFINE bytes == Chain!BytesOf(First(in, k))
           more == Chain!BytesOf(First(in, k + 1))
           buf == in[k + 1]
<1>1. /\ buf \in Chain!Buffer /\ bytes \in Seq(Nat)
      /\ more = Joined(bytes, InBuf(buf))
      /\ Len(more) = Len(bytes) + Chain!Size(buf)
      /\ InBuf(buf) \in Seq(Nat)
  BY FrontBytes
<1>2. Chain!Size(buf) \in Nat /\ Len(bytes) \in Nat
  <2>1. buf \in Chain!Buffer /\ Len(bytes) \in Nat
    BY <1>1
  <2>2. Chain!Size(buf) \in Nat
    BY <2>1, BufferType
  <2> QED BY <2>1, <2>2
<1>3. /\ v.total \in Nat /\ v.total <= room /\ v.total <= Len(bytes)
      /\ Chain!Gather(v.iovs) = Part(bytes, 1, v.total)
      /\ v.stop = "no" /\ v.total < room => v.total = Len(bytes)
      /\ EndsAt(v)
  BY VecsType DEF Built
<1> HIDE DEF bytes, more, buf
<1>4. Part(more, 1, v.total) = Part(bytes, 1, v.total)
  <2>1. v.total \in 0..Len(bytes)
    BY <1>2, <1>3
  <2> QED BY <1>1, <2>1, FrontOfJoined
<1>5. w.total <= Len(more)
  BY <1>1, <1>2, <1>3
<1>6. Chain!Gather(w.iovs) = Part(more, 1, w.total)
  BY <1>3, <1>4
<1>7. w.stop = "no" /\ w.total < room =>
        w.cl = (k + 1) + 1 /\ w.total = Len(more)
  BY <1>1, <1>2, <1>3 DEF buf
<1>8. EndsAt(w)
  BY <1>3 DEF EndsAt
<1> QED BY <1>3, <1>5, <1>6, <1>7, <1>8 DEF Built, more

(* size bytes of a buffer are added. *)
LEMMA BuiltGrows ==
  ASSUME in \in Seq(Chain!Buffer), NEW k \in Nat, k + 1 <= Len(in),
         NEW room \in Nat, NEW v, Built(v, k, room),
         v.stop = "no", v.total < room, in[k + 1].kind = "memory",
         NEW size \in Nat \ {0}, size <= Chain!Size(in[k + 1]),
         v.total + size <= room,
         v.total + size < room => size = Chain!Size(in[k + 1]),
         NEW w \in Vecs, w.total = v.total + size, w.cl = v.cl + 1,
         w.iovs # <<>>,
         w.prev = w.iovs[Len(w.iovs)].base + w.iovs[Len(w.iovs)].size,
         Chain!Gather(w.iovs) = Joined(Chain!Gather(v.iovs),
                                       Chain!Stretch(in[k + 1].pos, size))
  PROVE  Built(w, k + 1, room)
<1> DEFINE bytes == Chain!BytesOf(First(in, k))
           more == Chain!BytesOf(First(in, k + 1))
           buf == in[k + 1]
<1>1. /\ buf \in Chain!Buffer /\ bytes \in Seq(Nat)
      /\ more = Joined(bytes, InBuf(buf))
      /\ Len(more) = Len(bytes) + Chain!Size(buf)
      /\ InBuf(buf) \in Seq(Nat) /\ Len(InBuf(buf)) = Chain!Size(buf)
  BY FrontBytes
<1>2. /\ Chain!Size(buf) \in Nat /\ Len(bytes) \in Nat
      /\ buf.pos \in Nat \ {0}
  <2>1. buf \in Chain!Buffer /\ buf.kind = "memory" /\ Len(bytes) \in Nat
    BY <1>1
  <2>2. /\ Chain!Size(buf) \in Nat /\ buf.pos \in Nat
        /\ buf.kind = "memory" => buf.pos > 0
    BY <2>1, BufferType
  <2> QED BY <2>1, <2>2
<1>3. /\ v.total \in Nat /\ v.cl = k + 1 /\ v.total = Len(bytes)
      /\ Chain!Gather(v.iovs) = Part(bytes, 1, v.total)
  BY VecsType DEF Built
<1> HIDE DEF bytes, more
<1>4. Chain!Gather(v.iovs) = bytes
  <2>1. Part(bytes, 1, Len(bytes)) = bytes
    BY <1>1, SubSeqFull DEF Part
  <2> QED BY <1>3, <2>1
<1>5. Part(InBuf(buf), 1, size) = Chain!Stretch(buf.pos, size)
  <2>1. size \in 0..Chain!Size(buf)
    BY <1>2
  <2> QED BY <1>2, <2>1, StretchFront DEF InBuf
<1>6. Part(more, 1, Len(bytes) + size)
        = Joined(bytes, Chain!Stretch(buf.pos, size))
  <2>1. size \in 0..Len(InBuf(buf))
    BY <1>1, <1>2
  <2>2. Part(Joined(bytes, InBuf(buf)), 1, Len(bytes) + size)
          = Joined(bytes, Part(InBuf(buf), 1, size))
    BY <1>1, <2>1, FrontPastJoined
  <2> QED BY <1>1, <1>5, <2>2
<1>7. Chain!Gather(w.iovs) = Part(more, 1, w.total)
  BY <1>3, <1>4, <1>6
<1>8. w.total <= Len(more) /\ w.total <= room /\ w.total > 0
  <2>1. Len(more) = Len(bytes) + Chain!Size(buf)
    BY <1>1
  <2>2. /\ size \in Nat \ {0} /\ size <= Chain!Size(buf)
        /\ w.total = Len(bytes) + size
    BY <1>3
  <2>3. w.total <= room
    OBVIOUS
  <2> HIDE DEF buf
  <2>4. w.total <= Len(more) /\ w.total > 0
    BY <1>2, <2>1, <2>2
  <2> QED BY <2>3, <2>4
<1>9. w.stop = "no" /\ w.total < room =>
        w.cl = (k + 1) + 1 /\ w.total = Len(more)
  <2>1. w.total < room => size = Chain!Size(buf)
    OBVIOUS
  <2>2. w.cl = (k + 1) + 1 /\ w.total = Len(bytes) + size
    BY <1>3
  <2>3. Len(more) = Len(bytes) + Chain!Size(buf)
    BY <1>1
  <2> HIDE DEF buf
  <2> QED BY <2>1, <2>2, <2>3
<1>10. EndsAt(w)
  BY <1>8 DEF EndsAt
<1> QED BY <1>7, <1>8, <1>9, <1>10 DEF Built, more

LEMMA AddMemoryBuilds ==
  ASSUME in \in Seq(Chain!Buffer), NEW k \in Nat, k + 1 <= Len(in),
         NEW room \in Nat, NEW v, Built(v, k, room),
         v.stop = "no", v.total < room, in[k + 1].kind = "memory"
  PROVE  Built(Chain!AddMemory(v, in[k + 1],
                 Chain!LeastOf(Chain!Size(in[k + 1]), room - v.total)),
               k + 1, room)
<1> DEFINE buf == in[k + 1]
           size == Chain!LeastOf(Chain!Size(buf), room - v.total)
           n == Len(v.iovs)
           with(iovs) == [iovs |-> iovs, prev |-> buf.pos + size,
                          total |-> v.total + size, cl |-> v.cl + 1,
                          stop |-> "no"]
           w == Chain!AddMemory(v, buf, size)
<1>1. buf \in Chain!Buffer
  BY FrontBytes
<1>2. /\ buf.pos \in Nat \ {0} /\ Chain!Size(buf) \in Nat \ {0}
  BY <1>1, BufferType
<1>3. /\ v \in Vecs /\ EndsAt(v) /\ v.total \in Nat /\ v.cl \in Nat
      /\ v.iovs \in Seq(Iovec) /\ v.prev \in Nat
  BY VecsType DEF Built
<1>4. /\ size \in Nat \ {0} /\ size <= Chain!Size(buf)
      /\ v.total + size <= room
      /\ v.total + size < room => size = Chain!Size(buf)
  BY <1>2, <1>3 DEF Chain!LeastOf
<1> HIDE DEF size
<1>5. /\ buf.pos + size \in Nat /\ v.total + size \in Nat /\ v.cl + 1 \in Nat
  <2>1. buf.pos \in Nat /\ size \in Nat
    BY <1>2, <1>4
  <2>2. v.total \in Nat /\ v.cl \in Nat
    BY <1>3
  <2>3. \A i, j \in Nat : i + j \in Nat
    OBVIOUS
  <2>4. buf.pos + size \in Nat /\ v.total + size \in Nat
    BY <2>1, <2>2, <2>3, Zenon
  <2>5. 1 \in Nat
    OBVIOUS
  <2>6. v.cl + 1 \in Nat
    BY <2>2, <2>3, <2>5, Zenon
  <2> QED BY <2>4, <2>6, Zenon
<1>6. ASSUME NEW iovs \in Seq(Iovec)
      PROVE  /\ with(iovs) \in Vecs /\ with(iovs).iovs = iovs
             /\ with(iovs).total = v.total + size /\ with(iovs).cl = v.cl + 1
             /\ with(iovs).prev = buf.pos + size
  BY <1>5 DEF Vecs
<1>7. CASE Chain!Adjacent(v, buf)
  <2> DEFINE more == Chain!Coalesced(v.iovs, size)
  <2>1. v.prev = buf.pos
    BY <1>7 DEF Chain!Adjacent
  <2>2. v.iovs # <<>> /\ v.prev = v.iovs[n].base + v.iovs[n].size
    BY <1>2, <1>3, <2>1 DEF EndsAt
  <2>3. /\ more \in Seq(Iovec) /\ more # <<>> /\ Len(more) = n
        /\ more[n].base + more[n].size = v.iovs[n].base + v.iovs[n].size + size
        /\ Chain!Gather(more)
             = Joined(Chain!Gather(v.iovs),
                      Chain!Stretch(v.iovs[n].base + v.iovs[n].size, size))
    BY <1>3, <1>4, <2>2, CoalescedType
  <2>4. w = with(more)
    BY <1>7 DEF Chain!AddMemory
  <2> HIDE DEF more, w, with
  <2>5. /\ w \in Vecs /\ w.iovs = more /\ w.total = v.total + size
        /\ w.cl = v.cl + 1 /\ w.prev = buf.pos + size
    BY <1>6, <2>3, <2>4
  <2>6. w.prev = w.iovs[Len(w.iovs)].base + w.iovs[Len(w.iovs)].size
    BY <2>1, <2>2, <2>3, <2>5
  <2>7. Chain!Gather(w.iovs) = Joined(Chain!Gather(v.iovs),
                                      Chain!Stretch(buf.pos, size))
    BY <2>1, <2>2, <2>3, <2>5
  <2>8. w.iovs # <<>>
    BY <2>3, <2>5
  <2>9. Built(w, k + 1, room)
    BY <1>4, <2>5, <2>6, <2>7, <2>8, BuiltGrows
  <2> QED BY <2>9 DEF w, size
<1>8. CASE ~Chain!Adjacent(v, buf) /\ n = Prealloc
  <2>1. w = [v EXCEPT !.stop = "yes"]
    BY <1>8 DEF Chain!AddMemory
  <2> HIDE DEF w
  <2>2. w \in Vecs /\ w.iovs = v.iovs
    BY <1>3, <2>1 DEF Vecs
  <2>3. w.total = v.total
    BY <1>3, <2>1 DEF Vecs
  <2>4. w.prev = v.prev
    BY <1>3, <2>1 DEF Vecs
  <2>5. w.stop = "yes"
    BY <1>3, <2>1 DEF Vecs
  <2>6. w.total # 0
    <3>1. Prealloc \in Nat \ {0}
      BY ChainAssumption DEF Chain!ChainAssumption
    <3>2. v.iovs # <<>>
      BY <1>8, <3>1
    <3> QED BY <1>3, <2>3, <3>2 DEF EndsAt
  <2>7. Built(w, k + 1, room)
    BY <2>2, <2>3, <2>4, <2>5, <2>6, BuiltStays
  <2> QED BY <2>7 DEF w, size
<1>9. CASE ~Chain!Adjacent(v, buf) /\ n # Prealloc
  <2> DEFINE iov == [base |-> buf.pos, size |-> size]
             more == Append(v.iovs, iov)
  <2>1. iov \in Iovec /\ iov.base = buf.pos /\ iov.size = size
    BY <1>2, <1>4 DEF Iovec
  <2>2. w = with(more)
    BY <1>9 DEF Chain!AddMemory
  <2> HIDE DEF iov
  <2>3. /\ more \in Seq(Iovec) /\ more # <<>> /\ Len(more) = n + 1
        /\ more[n + 1] = iov
    BY <1>3, <2>1, AppendProperties
  <2>4. Chain!Gather(more) = Joined(Chain!Gather(v.iovs), InIovec(iov))
    BY <1>3, <2>1, GatherAppend
  <2> HIDE DEF more, w, with
  <2>5. /\ w \in Vecs /\ w.iovs = more /\ w.total = v.total + size
        /\ w.cl = v.cl + 1 /\ w.prev = buf.pos + size
    BY <1>6, <2>2, <2>3
  <2>6. w.prev = w.iovs[Len(w.iovs)].base + w.iovs[Len(w.iovs)].size
    BY <2>1, <2>3, <2>5
  <2>7. Chain!Gather(w.iovs) = Joined(Chain!Gather(v.iovs),
                                      Chain!Stretch(buf.pos, size))
    BY <2>1, <2>4, <2>5 DEF InIovec
  <2>8. w.iovs # <<>>
    BY <2>3, <2>5
  <2>9. Built(w, k + 1, room)
    BY <1>4, <2>5, <2>6, <2>7, <2>8, BuiltGrows
  <2> QED BY <2>9 DEF w, size
<1> QED BY <1>7, <1>8, <1>9

LEMMA AddBufBuilds ==
  ASSUME in \in Seq(Chain!Buffer), NEW k \in Nat, k + 1 <= Len(in),
         NEW room \in Nat \ {0}, NEW v, Built(v, k, room)
  PROVE  Built(Chain!AddBuf(v, in[k + 1], room), k + 1, room)
<1> DEFINE buf == in[k + 1]
           w == Chain!AddBuf(v, buf, room)
<1>1. /\ buf \in Chain!Buffer
      /\ buf.kind \in {"memory", "special", "file", "bad"}
      /\ buf.kind # "memory" => Chain!Size(buf) = 0
  <2>1. buf \in Chain!Buffer
    BY FrontBytes
  <2> QED BY <2>1, BufferType
<1>2. /\ v \in Vecs /\ v.total \in Nat /\ v.total <= room /\ v.cl \in Nat
      /\ v.stop \in {"no", "yes", "error"}
      /\ v.total = 0 => NothingYet(v, k)
      /\ v.stop = "no" /\ v.total < room => v.cl = k + 1
  BY VecsType DEF Built
<1>3. k + 1 \in 1..Len(in) /\ \A i \in 1..(k + 1) : i \in 1..k \/ i = k + 1
  OBVIOUS
<1>4. CASE v.stop # "no" \/ v.total >= room
  <2>1. w = v
    BY <1>4 DEF Chain!AddBuf
  <2>2. v.total = 0 => NothingYet(v, k + 1)
    BY <1>2, <1>4 DEF NothingYet
  <2>3. ~(v.stop = "no" /\ v.total < room)
    BY <1>2, <1>4
  <2>4. Built(v, k + 1, room)
    BY <1>2, <2>2, <2>3, BuiltStays
  <2> QED BY <2>1, <2>4
<1>5. CASE v.stop = "no" /\ v.total < room /\ buf.kind = "special"
  <2>1. w = [v EXCEPT !.cl = @ + 1]
    BY <1>2, <1>5 DEF Chain!AddBuf
  <2> HIDE DEF w
  <2>2. w \in Vecs /\ w.iovs = v.iovs
    BY <1>2, <2>1 DEF Vecs
  <2>3. w.total = v.total
    BY <1>2, <2>1 DEF Vecs
  <2>4. w.prev = v.prev
    BY <1>2, <2>1 DEF Vecs
  <2>5. w.cl = k + 2
    <3>1. w.cl = v.cl + 1
      BY <1>2, <2>1 DEF Vecs
    <3> QED BY <1>2, <1>5, <3>1
  <2>6. w.stop = "no"
    BY <1>2, <1>5, <2>1 DEF Vecs
  <2>7. w.total = 0 => NothingYet(w, k + 1)
    BY <1>2, <1>3, <1>5, <2>3, <2>6 DEF NothingYet
  <2>8. Chain!Size(buf) = 0
    BY <1>1, <1>5
  <2>9. Built(w, k + 1, room)
    BY <1>5, <2>2, <2>3, <2>4, <2>5, <2>7, <2>8, BuiltStays
  <2> QED BY <2>9 DEF w
<1>6. CASE v.stop = "no" /\ v.total < room /\ buf.kind = "file"
  <2>1. w = [v EXCEPT !.stop = "yes"]
    BY <1>2, <1>6 DEF Chain!AddBuf
  <2> HIDE DEF w
  <2>2. w \in Vecs /\ w.iovs = v.iovs
    BY <1>2, <2>1 DEF Vecs
  <2>3. w.total = v.total /\ w.cl = v.cl
    BY <1>2, <2>1 DEF Vecs
  <2>4. w.prev = v.prev
    BY <1>2, <2>1 DEF Vecs
  <2>5. w.stop = "yes"
    BY <1>2, <2>1 DEF Vecs
  <2>6. w.cl = k + 1
    BY <1>2, <1>6, <2>3
  <2>7. NothingYet(w, k + 1)
    BY <1>3, <1>6, <2>5, <2>6 DEF NothingYet
  <2>8. Built(w, k + 1, room)
    BY <2>2, <2>3, <2>4, <2>5, <2>7, BuiltStays
  <2> QED BY <2>8 DEF w
<1>7. CASE v.stop = "no" /\ v.total < room /\ buf.kind = "bad"
  <2>1. w = [v EXCEPT !.stop = "error"]
    BY <1>2, <1>7 DEF Chain!AddBuf
  <2> HIDE DEF w
  <2>2. w \in Vecs /\ w.iovs = v.iovs
    BY <1>2, <2>1 DEF Vecs
  <2>3. w.total = v.total
    BY <1>2, <2>1 DEF Vecs
  <2>4. w.prev = v.prev
    BY <1>2, <2>1 DEF Vecs
  <2>5. w.stop = "error"
    BY <1>2, <2>1 DEF Vecs
  <2>6. NothingYet(w, k + 1)
    BY <2>5 DEF NothingYet
  <2>7. Built(w, k + 1, room)
    BY <2>2, <2>3, <2>4, <2>5, <2>6, BuiltStays
  <2> QED BY <2>7 DEF w
<1>8. CASE v.stop = "no" /\ v.total < room /\ buf.kind = "memory"
  <2>1. w = Chain!AddMemory(v, buf,
              Chain!LeastOf(Chain!Size(buf), room - v.total))
    BY <1>2, <1>8 DEF Chain!AddBuf
  <2> QED BY <1>8, <2>1, AddMemoryBuilds
<1>9. v.stop # "no" \/ v.total >= room \/ (v.stop = "no" /\ v.total < room)
  BY <1>2
<1> QED BY <1>1, <1>4, <1>5, <1>6, <1>7, <1>8, <1>9

(* The recursion of ToIovec(). *)
VecForm(f, n, room) ==
  f = [k \in 0..n |-> IF k = 0 THEN Chain!NoIovecs
                      ELSE Chain!AddBuf(f[k - 1], in[k], room)]

LEMMA VecExists ==
  ASSUME NEW room, NEW n \in Nat
  PROVE  \E f : VecForm(f, n, room)
<1> DEFINE T == {m \in Nat : \E f : VecForm(f, m, room)}
<1>1. 0 \in T
  <2> DEFINE g == [k \in 0..0 |-> Chain!NoIovecs]
  <2>1. g = [k \in 0..0 |-> IF k = 0 THEN Chain!NoIovecs
                            ELSE Chain!AddBuf(g[k - 1], in[k], room)]
    <3>1. \A k \in 0..0 : k = 0
      OBVIOUS
    <3> QED BY <3>1
  <2>2. VecForm(g, 0, room)
    BY <2>1 DEF VecForm
  <2> QED BY <2>2
<1>2. ASSUME NEW m \in Nat, m \in T
      PROVE  m + 1 \in T
  <2>1. PICK f : VecForm(f, m, room)
    BY <1>2
  <2>2. f = [k \in 0..m |-> IF k = 0 THEN Chain!NoIovecs
                            ELSE Chain!AddBuf(f[k - 1], in[k], room)]
    BY <2>1 DEF VecForm
  <2> DEFINE g == [k \in 0..(m + 1) |->
                     IF k = m + 1 THEN Chain!AddBuf(f[m], in[k], room)
                                  ELSE f[k]]
             h == [k \in 0..(m + 1) |->
                     IF k = 0 THEN Chain!NoIovecs
                     ELSE Chain!AddBuf(g[k - 1], in[k], room)]
  <2>3. ASSUME NEW k \in 0..(m + 1)
        PROVE  g[k] = h[k]
    <3>1. CASE k = m + 1
      <4>1. m \in 0..(m + 1) /\ m # m + 1 /\ k - 1 = m /\ k # 0
        BY <3>1
      <4>2. g[m] = f[m] /\ g[k] = Chain!AddBuf(f[m], in[k], room)
        BY <3>1, <4>1
      <4>3. h[k] = Chain!AddBuf(g[k - 1], in[k], room)
        BY <4>1
      <4> QED BY <4>1, <4>2, <4>3
    <3>2. CASE k = 0
      <4>1. k # m + 1 /\ k \in 0..m
        BY <3>2
      <4>2. g[k] = f[k] /\ h[k] = Chain!NoIovecs
        BY <3>2, <4>1
      <4>3. f[k] = Chain!NoIovecs
        BY <2>2, <3>2, <4>1
      <4> QED BY <4>2, <4>3
    <3>3. CASE k # 0 /\ k # m + 1
      <4>1. k \in 0..m /\ k - 1 \in 0..(m + 1) /\ k - 1 # m + 1
        BY <3>3
      <4>2. g[k] = f[k] /\ g[k - 1] = f[k - 1]
        BY <4>1, <3>3
      <4>3. f[k] = Chain!AddBuf(f[k - 1], in[k], room)
        BY <2>2, <3>3, <4>1
      <4>4. h[k] = Chain!AddBuf(g[k - 1], in[k], room)
        BY <3>3
      <4> QED BY <4>2, <4>3, <4>4
    <3> QED BY <3>1, <3>2, <3>3
  <2>4. g = h
    BY <2>3
  <2>5. VecForm(g, m + 1, room)
    BY <2>4 DEF VecForm
  <2> QED BY <2>5
<1>3. Nat \subseteq T
  BY <1>1, <1>2, Induction
<1> QED BY <1>3

(* ngx_output_chain_to_iovec() gathers the front of the chain. *)
LEMMA ToIovecBuilds ==
  ASSUME in \in Seq(Chain!Buffer), NEW room \in Nat \ {0}
  PROVE  Built(Chain!ToIovec(room), Len(in), room)
<1> DEFINE n == Len(in)
           f == CHOOSE f : f = [k \in 0..n |-> IF k = 0 THEN Chain!NoIovecs
                                  ELSE Chain!AddBuf(f[k - 1], in[k], room)]
<1>1. n \in Nat
  OBVIOUS
<1>2. \E g : g = [k \in 0..n |-> IF k = 0 THEN Chain!NoIovecs
                    ELSE Chain!AddBuf(g[k - 1], in[k], room)]
  BY <1>1, VecExists DEF VecForm
<1>3. f = [k \in 0..n |-> IF k = 0 THEN Chain!NoIovecs
                            ELSE Chain!AddBuf(f[k - 1], in[k], room)]
  BY <1>2, Zenon
<1>4. Chain!ToIovec(room) = f[n]
  BY DEF Chain!ToIovec
<1> HIDE DEF f
<1> DEFINE T == {k \in Nat : k <= n => Built(f[k], k, room)}
<1>5. 0 \in T
  <2> DEFINE v == Chain!NoIovecs
  <2>1. f[0] = v
    BY <1>1, <1>3
  <2>2. /\ v.iovs = <<>> /\ v.prev = 0 /\ v.total = 0 /\ v.cl = 1
        /\ v.stop = "no" /\ v \in Vecs
    BY DEF Chain!NoIovecs, Vecs
  <2>3. Chain!BytesOf(First(in, 0)) = <<>>
    BY FirstAll, BytesEmpty
  <2>4. Chain!Gather(v.iovs) = <<>>
    BY <2>2, GatherEmpty
  <2>5. Part(<<>>, 1, 0) = <<>>
    BY SubSeqEmpty DEF Part
  <2>6. EndsAt(v) /\ NothingYet(v, 0)
    BY <2>2 DEF EndsAt, NothingYet
  <2> HIDE DEF v
  <2>7. Built(v, 0, room)
    BY <2>2, <2>3, <2>4, <2>5, <2>6 DEF Built
  <2> QED BY <2>1, <2>7
<1>6. ASSUME NEW k \in Nat, k \in T
      PROVE  k + 1 \in T
  <2> SUFFICES ASSUME k + 1 <= n PROVE Built(f[k + 1], k + 1, room)
    OBVIOUS
  <2>1. k + 1 \in 0..n /\ k + 1 # 0 /\ (k + 1) - 1 = k
    BY <1>1
  <2>2. f[k + 1] = Chain!AddBuf(f[(k + 1) - 1], in[k + 1], room)
    BY <1>3, <2>1
  <2>3. Built(f[k], k, room)
    BY <1>1, <1>6
  <2>4. Built(Chain!AddBuf(f[k], in[k + 1], room), k + 1, room)
    BY <2>3, AddBufBuilds
  <2> QED BY <2>1, <2>2, <2>4
<1>7. Nat \subseteq T
  BY <1>5, <1>6, Induction
<1> QED BY <1>1, <1>4, <1>7

-----------------------------------------------------------------------------
(* WritevChain: what is left of a chain that lost n bytes.                 *)

Drops == [n : Nat, rest : Seq(Chain!Buffer)]

(* After k buffers. *)
Dropped(u, k, n) ==
  /\ u \in Drops
  /\ u.rest = <<>> => u.n + Len(Chain!BytesOf(First(in, k))) = n
  /\ u.rest # <<>> =>
       /\ n <= Len(Chain!BytesOf(First(in, k)))
       /\ Chain!BytesOf(u.rest) = Rest(Chain!BytesOf(First(in, k)), n)
  /\ (\A i \in 1..k : in[i].kind = "special") => u.rest = <<>>

(* The front of a buffer of j bytes at i is sent. *)
LEMMA FrontGone ==
  ASSUME NEW i \in Nat \ {0}, NEW j \in Nat, NEW m \in Nat, m < j,
         NEW last, last = i + j
  PROVE  /\ i + m \in Nat \ {0} /\ i + m < last
         /\ last - (i + m) = j - m
         /\ last \in Nat
OBVIOUS

LEMMA DropSentDrops ==
  ASSUME in \in Seq(Chain!Buffer), NEW k \in Nat, k + 1 <= Len(in),
         NEW n \in Nat, NEW u, Dropped(u, k, n)
  PROVE  Dropped(Chain!DropSent(u, in[k + 1]), k + 1, n)
<1> DEFINE bytes == Chain!BytesOf(First(in, k))
           more == Chain!BytesOf(First(in, k + 1))
           buf == in[k + 1]
           w == Chain!DropSent(u, buf)
<1>1. /\ buf \in Chain!Buffer /\ bytes \in Seq(Nat)
      /\ more = Joined(bytes, InBuf(buf))
      /\ Len(more) = Len(bytes) + Chain!Size(buf)
      /\ InBuf(buf) \in Seq(Nat) /\ Len(InBuf(buf)) = Chain!Size(buf)
  BY FrontBytes
<1>2. Chain!Size(buf) \in Nat /\ Len(bytes) \in Nat /\ buf.pos \in Nat
  <2>1. buf \in Chain!Buffer /\ Len(bytes) \in Nat
    BY <1>1
  <2>2. Chain!Size(buf) \in Nat /\ buf.pos \in Nat
    BY <2>1, BufferType
  <2> QED BY <2>1, <2>2
<1>3. /\ u \in Drops /\ u.n \in Nat /\ u.rest \in Seq(Chain!Buffer)
  BY DEF Dropped, Drops
<1>4. /\ u.rest = <<>> => u.n + Len(bytes) = n
      /\ u.rest # <<>> => n <= Len(bytes) /\ Chain!BytesOf(u.rest) = Rest(bytes, n)
      /\ (\A i \in 1..k : in[i].kind = "special") => u.rest = <<>>
  BY DEF Dropped
<1> HIDE DEF bytes, more
<1>5. CASE u.rest # <<>>
  <2>1. w = [u EXCEPT !.rest = Append(@, buf)]
    BY <1>5 DEF Chain!DropSent
  <2> HIDE DEF w
  <2>2. Append(u.rest, buf) \in Seq(Chain!Buffer) /\ Append(u.rest, buf) # <<>>
    <3>1. buf \in Chain!Buffer /\ u.rest \in Seq(Chain!Buffer)
      BY <1>1, <1>3
    <3> QED BY <3>1, AppendProperties
  <2>3. w \in Drops
    BY <1>3, <2>1, <2>2 DEF Drops
  <2>4. w.rest = Append(u.rest, buf)
    BY <1>3, <2>1 DEF Drops
  <2>5. n \in 0..Len(bytes) /\ n <= Len(more)
    BY <1>1, <1>2, <1>4, <1>5
  <2>6. Chain!BytesOf(w.rest) = Joined(Chain!BytesOf(u.rest), InBuf(buf))
    BY <1>1, <1>3, <2>4, BytesAppend
  <2>7. Rest(more, n) = Joined(Rest(bytes, n), InBuf(buf))
    BY <1>1, <2>5, RestOfJoined
  <2>8. Chain!BytesOf(w.rest) = Rest(more, n)
    BY <1>4, <1>5, <2>6, <2>7
  <2>9. ~(\A i \in 1..(k + 1) : in[i].kind = "special")
    <3>1. \A i \in 1..k : i \in 1..(k + 1)
      OBVIOUS
    <3> QED BY <1>4, <1>5, <3>1
  <2>10. Dropped(w, k + 1, n)
    BY <2>2, <2>3, <2>4, <2>5, <2>8, <2>9 DEF Dropped, more
  <2> QED BY <2>10 DEF w
<1>6. CASE /\ u.rest = <<>>
           /\ buf.kind = "special" \/ (u.n > 0 /\ u.n >= Chain!Size(buf))
  <2>1. w = [u EXCEPT !.n = @ - Chain!Size(buf)]
    BY <1>6 DEF Chain!DropSent
  <2> HIDE DEF w
  <2>2. buf.kind = "special" => Chain!Size(buf) = 0
    BY <1>1, BufferType
  <2>3. u.n - Chain!Size(buf) \in Nat
    BY <1>2, <1>3, <1>6, <2>2
  <2>4. w \in Drops
    BY <1>3, <2>1, <2>3 DEF Drops
  <2>5. w.rest = u.rest
    BY <1>3, <2>1 DEF Drops
  <2>6. w.n = u.n - Chain!Size(buf)
    BY <1>3, <2>1 DEF Drops
  <2>7. w.n + Len(more) = n
    BY <1>1, <1>2, <1>3, <1>4, <1>6, <2>6
  <2>8. Dropped(w, k + 1, n)
    BY <1>6, <2>4, <2>5, <2>7 DEF Dropped, more
  <2> QED BY <2>8 DEF w
<1>7. CASE /\ u.rest = <<>> /\ buf.kind # "special"
           /\ ~(u.n > 0 /\ u.n >= Chain!Size(buf))
  <2> DEFINE left == [buf EXCEPT !.pos = @ + u.n]
  <2>1. w = [n |-> 0, rest |-> <<left>>]
    BY <1>7 DEF Chain!DropSent
  <2> HIDE DEF w
  <2>2. u.n <= Chain!Size(buf) /\ (buf.kind # "memory" => u.n = 0)
    <3>1. buf.kind # "memory" => Chain!Size(buf) = 0
      BY <1>1, BufferType
    <3> QED BY <1>2, <1>3, <1>7, <3>1
  <2>3. left \in Chain!Buffer /\ InBuf(left) = Rest(InBuf(buf), u.n)
    <3>1. CASE buf.kind = "memory"
      <4>1. /\ buf.pos \in Nat \ {0} /\ Chain!Size(buf) \in Nat \ {0}
            /\ buf.last = buf.pos + Chain!Size(buf)
        <5>1. buf \in Chain!Buffer
          BY <1>1
        <5>2. /\ buf.pos \in Nat /\ Chain!Size(buf) \in Nat
              /\ buf.pos > 0 /\ Chain!Size(buf) > 0
              /\ buf.last = buf.pos + Chain!Size(buf)
          BY <3>1, <5>1, BufferType
        <5> QED BY <5>2
      <4>2. u.n < Chain!Size(buf)
        <5>1. u.n \in Nat /\ ~(u.n > 0 /\ u.n >= Chain!Size(buf))
          BY <1>3, <1>7
        <5> QED BY <4>1, <5>1
      <4>3. /\ buf.pos + u.n \in Nat \ {0} /\ buf.pos + u.n < buf.last
            /\ buf.last - (buf.pos + u.n) = Chain!Size(buf) - u.n
            /\ buf.last \in Nat
        <5>1. u.n \in Nat /\ u.n < Chain!Size(buf)
          BY <1>3, <4>2
        <5>2. /\ buf.pos \in Nat \ {0} /\ Chain!Size(buf) \in Nat
              /\ buf.last = buf.pos + Chain!Size(buf)
          BY <4>1
        <5> HIDE DEF buf
        <5> QED BY <5>1, <5>2, FrontGone
      <4>4. left.pos = buf.pos + u.n
        BY <1>1 DEF Chain!Buffer
      <4>5. left.last = buf.last
        BY <1>1 DEF Chain!Buffer
      <4>6. left.kind = "memory"
        BY <1>1, <3>1 DEF Chain!Buffer
      <4>7. left \in [kind : {"memory", "special", "file", "bad"},
                      pos : Nat, last : Nat]
        BY <1>1, <4>3 DEF Chain!Buffer
      <4>8. left \in Chain!Buffer
        <5> HIDE DEF left
        <5>1. 0 < left.pos /\ left.pos < left.last
          BY <4>3, <4>4, <4>5
        <5> QED BY <4>6, <4>7, <5>1 DEF Chain!Buffer
      <4>9. Chain!Size(left) = Chain!Size(buf) - u.n
        BY <4>3, <4>4, <4>5 DEF Chain!Size
      <4>10. u.n \in 0..Chain!Size(buf)
        BY <1>3, <2>2
      <4>11. Rest(InBuf(buf), u.n)
               = Chain!Stretch(buf.pos + u.n, Chain!Size(buf) - u.n)
        BY <4>1, <4>10, StretchRest DEF InBuf
      <4> QED BY <4>4, <4>8, <4>9, <4>11 DEF InBuf
    <3>2. CASE buf.kind # "memory"
      <4>1. u.n = 0
        BY <2>2, <3>2
      <4>2. left = buf
        <5>1. buf.pos + u.n = buf.pos
          BY <1>2, <4>1
        <5> QED BY <1>1, <5>1 DEF Chain!Buffer
      <4>3. Rest(InBuf(buf), 0) = InBuf(buf)
        <5>1. SubSeq(InBuf(buf), 1, Len(InBuf(buf))) = InBuf(buf)
          BY <1>1, SubSeqFull
        <5>2. 0 + 1 = 1
          OBVIOUS
        <5> QED BY <5>1, <5>2 DEF Rest
      <4> QED BY <1>1, <4>1, <4>2, <4>3
    <3> QED BY <3>1, <3>2
  <2> HIDE DEF left
  <2>4. <<left>> \in Seq(Chain!Buffer) /\ <<left>> # <<>>
    BY <2>3
  <2>5. w \in Drops /\ w.rest = <<left>>
    BY <2>1, <2>4 DEF Drops
  <2>6. Chain!BytesOf(<<left>>) = InBuf(left)
    <3>1. Append(<<>>, left) = <<left>> /\ <<>> \in Seq(Chain!Buffer)
      OBVIOUS
    <3>2. Chain!BytesOf(Append(<<>>, left))
            = Joined(Chain!BytesOf(<<>>), InBuf(left))
      BY <2>3, <3>1, BytesAppend
    <3>3. InBuf(left) \in Seq(Nat)
      BY <2>3, BufferType
    <3>4. Joined(<<>>, InBuf(left)) = InBuf(left)
      BY <3>3, JoinedEmpty
    <3> QED BY <3>1, <3>2, <3>4, BytesEmpty
  <2>7. Rest(more, Len(bytes) + u.n) = Rest(InBuf(buf), u.n)
    <3>1. u.n \in 0..Len(InBuf(buf))
      BY <1>1, <1>2, <1>3, <2>2
    <3> QED BY <1>1, <3>1, RestPastJoined
  <2>8. Len(bytes) + u.n = n /\ n <= Len(more)
    BY <1>1, <1>2, <1>3, <1>4, <1>7, <2>2
  <2>9. Chain!BytesOf(w.rest) = Rest(more, n)
    BY <2>3, <2>5, <2>6, <2>7, <2>8
  <2>10. ~(\A i \in 1..(k + 1) : in[i].kind = "special")
    <3>1. k + 1 \in 1..(k + 1)
      OBVIOUS
    <3> QED BY <1>7, <3>1
  <2>11. Dropped(w, k + 1, n)
    BY <2>4, <2>5, <2>8, <2>9, <2>10 DEF Dropped, more
  <2> QED BY <2>11 DEF w
<1> QED BY <1>5, <1>6, <1>7

(* The recursion of UpdateSent(). *)
DropForm(f, m, n) ==
  f = [k \in 0..m |-> IF k = 0 THEN [n |-> n, rest |-> <<>>]
                      ELSE Chain!DropSent(f[k - 1], in[k])]

LEMMA DropExists ==
  ASSUME NEW n, NEW max \in Nat
  PROVE  \E f : DropForm(f, max, n)
<1> DEFINE T == {m \in Nat : \E f : DropForm(f, m, n)}
           start == [n |-> n, rest |-> <<>>]
<1>1. 0 \in T
  <2> DEFINE g == [k \in 0..0 |-> start]
  <2>1. g = [k \in 0..0 |-> IF k = 0 THEN start
                            ELSE Chain!DropSent(g[k - 1], in[k])]
    <3>1. \A k \in 0..0 : k = 0
      OBVIOUS
    <3> HIDE DEF start
    <3> QED BY <3>1
  <2>2. DropForm(g, 0, n)
    BY <2>1 DEF DropForm
  <2> QED BY <2>2
<1>2. ASSUME NEW m \in Nat, m \in T
      PROVE  m + 1 \in T
  <2>1. PICK f : DropForm(f, m, n)
    BY <1>2
  <2>2. f = [k \in 0..m |-> IF k = 0 THEN start
                            ELSE Chain!DropSent(f[k - 1], in[k])]
    BY <2>1 DEF DropForm
  <2> DEFINE g == [k \in 0..(m + 1) |->
                     IF k = m + 1 THEN Chain!DropSent(f[m], in[k]) ELSE f[k]]
             h == [k \in 0..(m + 1) |->
                     IF k = 0 THEN start
                     ELSE Chain!DropSent(g[k - 1], in[k])]
  <2> HIDE DEF start
  <2>3. ASSUME NEW k \in 0..(m + 1)
        PROVE  g[k] = h[k]
    <3>1. CASE k = m + 1
      <4>1. m \in 0..(m + 1) /\ m # m + 1 /\ k - 1 = m /\ k # 0
        BY <3>1
      <4>2. g[m] = f[m] /\ g[k] = Chain!DropSent(f[m], in[k])
        BY <3>1, <4>1
      <4>3. h[k] = Chain!DropSent(g[k - 1], in[k])
        BY <4>1
      <4> QED BY <4>1, <4>2, <4>3
    <3>2. CASE k = 0
      <4>1. k # m + 1 /\ k \in 0..m
        BY <3>2
      <4>2. g[k] = f[k] /\ h[k] = start
        BY <3>2, <4>1
      <4>3. f[k] = start
        BY <2>2, <3>2, <4>1
      <4> QED BY <4>2, <4>3
    <3>3. CASE k # 0 /\ k # m + 1
      <4>1. k \in 0..m /\ k - 1 \in 0..(m + 1) /\ k - 1 # m + 1
        BY <3>3
      <4>2. g[k] = f[k] /\ g[k - 1] = f[k - 1]
        BY <4>1, <3>3
      <4>3. f[k] = Chain!DropSent(f[k - 1], in[k])
        BY <2>2, <3>3, <4>1
      <4>4. h[k] = Chain!DropSent(g[k - 1], in[k])
        BY <3>3
      <4> QED BY <4>2, <4>3, <4>4
    <3> QED BY <3>1, <3>2, <3>3
  <2>4. g = h
    BY <2>3
  <2>5. DropForm(g, m + 1, n)
    BY <2>4 DEF DropForm, start
  <2> QED BY <2>5
<1>3. Nat \subseteq T
  BY <1>1, <1>2, Induction
<1> QED BY <1>3

(* ngx_chain_update_sent() takes the first n bytes off the chain.          *)
LEMMA UpdateSentDrops ==
  ASSUME in \in Seq(Chain!Buffer), NEW n \in Nat,
         n <= Len(Chain!BytesOf(in))
  PROVE  /\ Chain!UpdateSent(n) \in Seq(Chain!Buffer)
         /\ Chain!BytesOf(Chain!UpdateSent(n)) = Rest(Chain!BytesOf(in), n)
         /\ (\A i \in 1..Len(in) : in[i].kind = "special")
              => Chain!UpdateSent(n) = <<>>
<1> DEFINE max == Len(in)
           start == [n |-> n, rest |-> <<>>]
           f == CHOOSE f : f = [k \in 0..max |-> IF k = 0 THEN start
                                  ELSE Chain!DropSent(f[k - 1], in[k])]
<1>1. max \in Nat
  OBVIOUS
<1>2. \E g : g = [k \in 0..max |-> IF k = 0 THEN start
                    ELSE Chain!DropSent(g[k - 1], in[k])]
  BY <1>1, DropExists DEF DropForm
<1>3. f = [k \in 0..max |-> IF k = 0 THEN start
                            ELSE Chain!DropSent(f[k - 1], in[k])]
  BY <1>2, Zenon
<1>4. Chain!UpdateSent(n) = f[max].rest
  BY DEF Chain!UpdateSent
<1> HIDE DEF f
<1> DEFINE T == {k \in Nat : k <= max => Dropped(f[k], k, n)}
<1>5. 0 \in T
  <2>1. start.rest = <<>> /\ start.n = n /\ start \in Drops
    BY DEF Drops
  <2>2. f[0] = start
    <3> HIDE DEF start
    <3> QED BY <1>1, <1>3
  <2>3. Chain!BytesOf(First(in, 0)) = <<>>
    BY FirstAll, BytesEmpty
  <2>4. Len(Chain!BytesOf(First(in, 0))) = 0
    BY <2>3
  <2> HIDE DEF start
  <2>5. Dropped(start, 0, n)
    BY <2>1, <2>4 DEF Dropped
  <2> QED BY <2>2, <2>5
<1>6. ASSUME NEW k \in Nat, k \in T
      PROVE  k + 1 \in T
  <2> SUFFICES ASSUME k + 1 <= max PROVE Dropped(f[k + 1], k + 1, n)
    OBVIOUS
  <2>1. k + 1 \in 0..max /\ k + 1 # 0 /\ (k + 1) - 1 = k
    BY <1>1
  <2>2. f[k + 1] = Chain!DropSent(f[(k + 1) - 1], in[k + 1])
    <3> HIDE DEF start
    <3> QED BY <1>3, <2>1
  <2>3. Dropped(f[k], k, n)
    BY <1>1, <1>6
  <2>4. Dropped(Chain!DropSent(f[k], in[k + 1]), k + 1, n)
    BY <2>3, DropSentDrops
  <2> QED BY <2>1, <2>2, <2>4
<1>7. Nat \subseteq T
  BY <1>5, <1>6, Induction
<1>8. Dropped(f[max], max, n)
  BY <1>1, <1>7
<1> DEFINE u == f[max]
<1>9. First(in, max) = in
  BY FirstAll
<1>10. u.rest \in Seq(Chain!Buffer) /\ u.n \in Nat
  BY <1>8 DEF Dropped, Drops
<1>11. (\A i \in 1..max : in[i].kind = "special") => u.rest = <<>>
  BY <1>8 DEF Dropped
<1>12. Chain!BytesOf(in) \in Seq(Nat)
  BY BytesType
<1>13. Chain!BytesOf(u.rest) = Rest(Chain!BytesOf(in), n)
  <2>1. CASE u.rest # <<>>
    BY <1>8, <1>9, <2>1 DEF Dropped
  <2>2. CASE u.rest = <<>>
    <3>1. u.n + Len(Chain!BytesOf(in)) = n
      BY <1>8, <1>9, <2>2 DEF Dropped
    <3>2. n = Len(Chain!BytesOf(in)) /\ n < n + 1 /\ n + 1 \in Int
      BY <1>10, <1>12, <3>1
    <3>3. Rest(Chain!BytesOf(in), n) = <<>>
      BY <3>2, SubSeqEmpty DEF Rest
    <3>4. Chain!BytesOf(u.rest) = <<>>
      BY <2>2, BytesEmpty
    <3> QED BY <3>3, <3>4
  <2> QED BY <2>1, <2>2
<1> QED BY <1>4, <1>10, <1>11, <1>13

-----------------------------------------------------------------------------
(* WritevChain: the calls.                                                 *)

ChainTypeOK ==
  /\ pc \in {"idle", "loop", "error"}
  /\ in \in Seq(Chain!Buffer) /\ chain \in Seq(Chain!Buffer)
  /\ ready \in BOOLEAN
  /\ limit \in Nat /\ send \in Nat /\ sent \in Nat
  /\ wire \in Seq(Nat)

(* A call that goes on has not reached its limit. *)
ChainInv ==
  /\ ChainTypeOK
  /\ Joined(wire, Chain!BytesOf(in)) = Chain!BytesOf(chain)
  /\ sent = Len(wire)
  /\ send <= limit
  /\ pc = "loop" => send < limit

LEMMA ChainConstants ==
  /\ \A s \in Chains : s \in Seq(Chain!Buffer)
  /\ \A l \in Limits : l \in Nat
  /\ MaxLimit \in Nat \ {0}
BY ChainAssumption DEF Chain!ChainAssumption

LEMMA ChainStart == Chain!Init => ChainInv
<1> SUFFICES ASSUME Chain!Init PROVE ChainInv
  OBVIOUS
<1>1. /\ pc = "idle" /\ chain \in Seq(Chain!Buffer) /\ in = chain
      /\ limit = 0 /\ send = 0 /\ sent = 0 /\ wire = <<>>
  BY ChainConstants DEF Chain!Init
<1>2. ready \in BOOLEAN
  BY DEF Chain!Init
<1>3. Chain!BytesOf(in) \in Seq(Nat)
  BY <1>1, BytesType
<1>4. Joined(wire, Chain!BytesOf(in)) = Chain!BytesOf(chain)
  BY <1>1, <1>3, JoinedEmpty
<1>5. ChainTypeOK
  BY <1>1, <1>2 DEF ChainTypeOK
<1>6. sent = Len(wire) /\ send <= limit /\ pc # "loop"
  BY <1>1
<1> QED BY <1>4, <1>5, <1>6 DEF ChainInv

LEMMA CallKeepsChain ==
  ASSUME ChainInv, Chain!Call
  PROVE  ChainInv'
<1>1. PICK l \in Limits : limit' = IF l = 0 \/ l > MaxLimit THEN MaxLimit ELSE l
  BY Zenon DEF Chain!Call
<1>2. limit' \in Nat /\ 0 < limit'
  BY <1>1, ChainConstants
<1>3. /\ pc' = "loop" /\ send' = 0 /\ in' = in /\ ready' = ready
      /\ sent' = sent /\ wire' = wire /\ chain' = chain
  BY DEF Chain!Call
<1>4. ChainTypeOK'
  BY <1>2, <1>3 DEF ChainInv, ChainTypeOK
<1>5. Chain!BytesOf(in)' = Chain!BytesOf(in)
      /\ Chain!BytesOf(chain)' = Chain!BytesOf(chain)
  BY <1>3, Zenon
<1>6. Joined(wire, Chain!BytesOf(in))' = Chain!BytesOf(chain)'
  BY <1>3, <1>5 DEF ChainInv
<1> QED BY <1>2, <1>3, <1>4, <1>6 DEF ChainInv

LEMMA RestKeepsChain ==
  ASSUME ChainInv,
         Chain!BecomesReady \/ Chain!ChainError \/ UNCHANGED chainVars,
         send' \in Nat, send' <= limit
  PROVE  ChainInv'
<1>1. /\ in' = in /\ limit' = limit /\ sent' = sent /\ wire' = wire
      /\ chain' = chain
  BY DEF Chain!BecomesReady, Chain!ChainError, chainVars
<1>2. /\ pc' \in {pc, "error"}
      /\ pc' = "loop" => send' = send /\ pc = "loop"
  BY DEF Chain!BecomesReady, Chain!ChainError, chainVars
<1>3. ready' \in BOOLEAN
  BY DEF Chain!BecomesReady, Chain!ChainError, chainVars, ChainInv,
         ChainTypeOK
<1>4. ChainTypeOK'
  BY <1>1, <1>2, <1>3 DEF ChainInv, ChainTypeOK
<1>5. Chain!BytesOf(in)' = Chain!BytesOf(in)
      /\ Chain!BytesOf(chain)' = Chain!BytesOf(chain)
  BY <1>1, Zenon
<1>6. Joined(wire, Chain!BytesOf(in))' = Chain!BytesOf(chain)'
  BY <1>1, <1>5 DEF ChainInv
<1> QED BY <1>1, <1>2, <1>4, <1>6 DEF ChainInv

(* What the iovecs of a round hold: the front of what is left.             *)
LEMMA RoundGathers ==
  ASSUME ChainInv, pc = "loop"
  PROVE  LET vec == Chain!ToIovec(Chain!Room)
         IN /\ vec.total \in Nat /\ send + vec.total <= limit
            /\ vec.total <= Len(Chain!BytesOf(in))
            /\ Chain!Gather(vec.iovs)
                 = Part(Chain!BytesOf(in), 1, vec.total)
            /\ vec.stop \in {"no", "yes", "error"}
            /\ vec.total = 0 => NothingYet(vec, Len(in))
<1> DEFINE vec == Chain!ToIovec(Chain!Room)
<1>1. in \in Seq(Chain!Buffer)
  BY DEF ChainInv, ChainTypeOK
<1>2. /\ send \in Nat /\ limit \in Nat /\ send < limit
      /\ Chain!Room = limit - send
  BY DEF ChainInv, ChainTypeOK, Chain!Room
<1>3. Chain!Room \in Nat \ {0}
  BY <1>2
<1>4. Built(vec, Len(in), Chain!Room)
  BY <1>1, <1>3, ToIovecBuilds
<1>5. First(in, Len(in)) = in
  BY <1>1, FirstAll
<1> HIDE DEF vec
<1>6. vec \in Vecs /\ vec.total <= Chain!Room
  BY <1>4 DEF Built
<1>7. vec.total \in Nat /\ vec.stop \in {"no", "yes", "error"}
  BY <1>6, VecsType
<1>8. send + vec.total <= limit
  BY <1>2, <1>6, <1>7
<1>9. /\ vec.total <= Len(Chain!BytesOf(in))
      /\ Chain!Gather(vec.iovs) = Part(Chain!BytesOf(in), 1, vec.total)
      /\ vec.total = 0 => NothingYet(vec, Len(in))
  BY <1>4, <1>5 DEF Built
<1> QED BY <1>7, <1>8, <1>9 DEF vec

(* A round moves n bytes from the chain to the wire. *)
LEMMA RoundMoves ==
  ASSUME NEW w \in Seq(Nat), NEW s \in Seq(Nat), NEW total \in Nat,
         total <= Len(s), NEW n \in 0..total
  PROVE  /\ w \o SubSeq(Part(s, 1, total), 1, n) \in Seq(Nat)
         /\ Len(w \o SubSeq(Part(s, 1, total), 1, n)) = Len(w) + n
         /\ Joined(w \o SubSeq(Part(s, 1, total), 1, n), Rest(s, n))
              = Joined(w, s)
<1> DEFINE f == Part(s, 1, total)
           r == Rest(s, total)
           p == Part(s, 1, n)
<1>1. /\ n \in Nat /\ n <= Len(s) /\ 1 \in Nat \ {0} /\ 1 <= n + 1
      /\ 1 <= total + 1 /\ n - 1 + 1 = n /\ total - 1 + 1 = total
  OBVIOUS
<1>2. f \in Seq(Nat) /\ Len(f) = total
  BY <1>1, PartType
<1>3. r \in Seq(Nat) /\ Joined(f, r) = s
  BY RestType, PartThenRest
<1>4. Part(f, 1, n) = p
  <2>1. n \in 0..Len(f)
    BY <1>2
  <2>2. Part(Joined(f, r), 1, n) = Part(f, 1, n)
    BY <1>2, <1>3, <2>1, FrontOfJoined
  <2> QED BY <1>3, <2>2
<1>5. p \in Seq(Nat) /\ Len(p) = n
  BY <1>1, PartType
<1>6. w \o SubSeq(f, 1, n) = Joined(w, p)
  BY <1>4 DEF Part, Joined
<1>7. Rest(s, n) \in Seq(Nat) /\ Joined(p, Rest(s, n)) = s
  BY <1>1, RestType, PartThenRest
<1>8. Joined(Joined(w, p), Rest(s, n)) = Joined(w, Joined(p, Rest(s, n)))
  BY <1>5, <1>7, JoinedAssociative
<1> HIDE DEF p, f
<1>9. Joined(w, p) \in Seq(Nat) /\ Len(Joined(w, p)) = Len(w) + n
  <2>1. Len(Joined(w, p)) = Len(w) + Len(p) /\ Joined(w, p) \in Seq(Nat)
    BY <1>5, JoinedType
  <2> QED BY <1>5, <2>1
<1> QED BY <1>6, <1>7, <1>8, <1>9 DEF f

(* One round of the loop: what the two properties need of it.              *)
LEMMA RoundKeepsChain ==
  ASSUME ChainInv, Chain!Writev
  PROVE  /\ ChainInv'
         /\ send' <= limit'
         /\ pc' = "idle" /\ ready' /\ in' # <<>> => send' = limit'
         /\ pc' = "loop" => Len(wire') > Len(wire)
<1> DEFINE vec == Chain!ToIovec(Chain!Room)
           s == Chain!BytesOf(in)
           total == vec.total
           f == Chain!Gather(vec.iovs)
<1>1. /\ pc = "loop" /\ ~Chain!Stops(vec)
      /\ send' = send + total
      /\ limit' = limit /\ chain' = chain
  BY DEF Chain!Writev
<1>2. PICK n \in 0..total :
        /\ wire' = wire \o SubSeq(f, 1, n)
        /\ sent' = sent + n
        /\ in' = Chain!UpdateSent(n)
        /\ Chain!Return(n, total)
  BY Zenon DEF Chain!Writev
<1>3. /\ total \in Nat /\ send + total <= limit /\ total <= Len(s)
      /\ f = Part(s, 1, total)
      /\ vec.stop \in {"no", "yes", "error"}
      /\ total = 0 => NothingYet(vec, Len(in))
  BY <1>1, RoundGathers
<1>4. ~Chain!Stops(vec)
  BY <1>1
<1> HIDE DEF vec, total, f, s
<1>5. /\ in \in Seq(Chain!Buffer) /\ chain \in Seq(Chain!Buffer)
      /\ wire \in Seq(Nat) /\ limit \in Nat /\ send \in Nat /\ sent \in Nat
      /\ Joined(wire, s) = Chain!BytesOf(chain) /\ sent = Len(wire)
  BY DEF ChainInv, ChainTypeOK, s
<1>6. s \in Seq(Nat) /\ Len(s) \in Nat
  BY <1>5, BytesType DEF s
<1>7. n \in Nat /\ n <= Len(s)
  BY <1>3, <1>6
<1>8. /\ in' \in Seq(Chain!Buffer)
      /\ Chain!BytesOf(in') = Rest(s, n)
      /\ (\A i \in 1..Len(in) : in[i].kind = "special") => in' = <<>>
  <2>1. n <= Len(Chain!BytesOf(in))
    BY <1>7 DEF s
  <2> QED BY <1>2, <1>5, <1>7, <2>1, UpdateSentDrops DEF s
<1>9. /\ wire' \in Seq(Nat) /\ Len(wire') = Len(wire) + n
      /\ Joined(wire', Rest(s, n)) = Joined(wire, s)
  BY <1>2, <1>3, <1>5, <1>6, RoundMoves
<1>10. sent' = Len(wire') /\ sent' \in Nat
  BY <1>2, <1>5, <1>7, <1>9
<1>11. send' \in Nat /\ send' <= limit'
  BY <1>1, <1>3, <1>5
<1>12. CASE total # n
  <2>1. ready' = FALSE /\ pc' = "idle"
    BY <1>2, <1>12 DEF Chain!Return
  <2>2. ChainTypeOK'
    BY <1>1, <1>5, <1>8, <1>9, <1>10, <1>11, <2>1 DEF ChainTypeOK
  <2>3. Joined(wire', Chain!BytesOf(in')) = Chain!BytesOf(chain')
    BY <1>1, <1>5, <1>8, <1>9
  <2>4. ChainInv'
    BY <1>10, <1>11, <2>1, <2>2, <2>3 DEF ChainInv
  <2> QED BY <1>11, <2>1, <2>4
<1>13. CASE total = n
  <2>1. /\ pc' = IF send' >= limit \/ in' = <<>> THEN "idle" ELSE "loop"
        /\ ready' = ready
    BY <1>2, <1>13 DEF Chain!Return
  <2>2. pc' \in {"idle", "loop"} /\ (pc' = "loop" => ~(send' >= limit))
        /\ (pc' = "idle" /\ in' # <<>> => send' >= limit)
        /\ (pc' = "loop" => in' # <<>>)
    BY <2>1
  <2>3. pc' = "loop" => send' < limit'
    BY <1>1, <1>5, <1>11, <2>2
  <2>4. pc' = "idle" /\ in' # <<>> => send' = limit'
    BY <1>1, <1>5, <1>11, <2>2
  <2>5. ready' \in BOOLEAN
    BY <2>1 DEF ChainInv, ChainTypeOK
  <2>6. ChainTypeOK'
    BY <1>1, <1>5, <1>8, <1>9, <1>10, <1>11, <2>2, <2>5 DEF ChainTypeOK
  <2>7. Joined(wire', Chain!BytesOf(in')) = Chain!BytesOf(chain')
    BY <1>1, <1>5, <1>8, <1>9
  <2>8. ChainInv'
    BY <1>10, <1>11, <2>3, <2>6, <2>7 DEF ChainInv
  <2>9. total = 0 => in' = <<>>
    <3> SUFFICES ASSUME total = 0 PROVE in' = <<>>
      OBVIOUS
    <3>1. vec.stop # "error"
          /\ ~(vec.cl <= Len(in) /\ in[vec.cl].kind = "file")
      BY <1>4 DEF Chain!Stops
    <3>2. NothingYet(vec, Len(in))
      BY <1>3
    <3>3. vec.stop # "yes"
      BY <3>1, <3>2 DEF NothingYet
    <3>4. vec.stop = "no"
      BY <1>3, <3>1, <3>3
    <3> QED BY <1>8, <3>2, <3>4 DEF NothingYet
  <2>10. pc' = "loop" => Len(wire') > Len(wire)
    <3>1. Len(wire) \in Nat
      BY <1>5
    <3>2. pc' = "loop" => total # 0
      BY <2>2, <2>9
    <3> QED BY <1>3, <1>9, <1>13, <3>1, <3>2
  <2> QED BY <1>11, <2>4, <2>8, <2>10
<1> QED BY <1>12, <1>13

LEMMA ErrorKeepsLimit ==
  ASSUME ChainInv, Chain!ChainError
  PROVE  send' \in Nat /\ send' <= limit /\ limit' = limit /\ pc' = "error"
<1>1. /\ pc = "loop" /\ pc' = "error" /\ limit' = limit
      /\ send' \in {send, send + Chain!ToIovec(Chain!Room).total}
  BY DEF Chain!ChainError
<1>2. /\ Chain!ToIovec(Chain!Room).total \in Nat
      /\ send + Chain!ToIovec(Chain!Room).total <= limit
  BY <1>1, RoundGathers
<1>3. send \in Nat /\ limit \in Nat /\ send <= limit
  BY DEF ChainInv, ChainTypeOK
<1> QED BY <1>1, <1>2, <1>3

(* What LoopEndsForAReason says of a step. *)
EndsForAReason ==
  /\ send' <= limit'
  /\ (pc = "loop" /\ pc' = "idle" /\ ready' /\ in' # <<>>) => send' = limit
  /\ (pc = "loop" /\ pc' = "loop") => Len(wire') > Len(wire)

LEMMA ChainStep ==
  ASSUME ChainInv, [Chain!Next]_chainVars
  PROVE  ChainInv' /\ (EndsForAReason \/ UNCHANGED chainVars)
<1>1. send \in Nat /\ limit \in Nat /\ send <= limit
  BY DEF ChainInv, ChainTypeOK
<1>2. CASE Chain!Call
  <2>1. ChainInv'
    BY <1>2, CallKeepsChain
  <2>2. pc # "loop"
    BY <1>2 DEF Chain!Call
  <2>3. send' <= limit'
    BY <2>1 DEF ChainInv
  <2> QED BY <2>1, <2>2, <2>3 DEF EndsForAReason
<1>3. CASE Chain!BecomesReady
  <2>1. send' = send /\ limit' = limit /\ pc # "loop"
    BY <1>3 DEF Chain!BecomesReady
  <2>2. ChainInv'
    BY <1>1, <1>3, <2>1, RestKeepsChain
  <2> QED BY <1>1, <2>1, <2>2 DEF EndsForAReason
<1>4. CASE Chain!Writev
  <2>1. /\ ChainInv'
        /\ send' <= limit'
        /\ pc' = "idle" /\ ready' /\ in' # <<>> => send' = limit'
        /\ pc' = "loop" => Len(wire') > Len(wire)
    BY <1>4, RoundKeepsChain
  <2>2. limit' = limit
    BY <1>4 DEF Chain!Writev
  <2> QED BY <2>1, <2>2 DEF EndsForAReason
<1>5. CASE Chain!ChainError
  <2>1. send' \in Nat /\ send' <= limit /\ limit' = limit /\ pc' = "error"
    BY <1>5, ErrorKeepsLimit
  <2>2. ChainInv'
    BY <1>5, <2>1, RestKeepsChain
  <2> QED BY <2>1, <2>2 DEF EndsForAReason
<1>6. CASE UNCHANGED chainVars
  <2>1. send' = send
    BY <1>6 DEF chainVars
  <2>2. ChainInv'
    BY <1>1, <1>6, <2>1, RestKeepsChain
  <2> QED BY <1>6, <2>2
<1> QED BY <1>2, <1>3, <1>4, <1>5, <1>6 DEF Chain!Next

LEMMA ChainTruths == ChainInv => ChainIsTheRest
BY DEF ChainInv, ChainIsTheRest, Chain!ChainIsTheRest, Joined

-----------------------------------------------------------------------------
(* All three at once: every step of Next is a step of one program and a    *)
(* stutter of the others.                                                  *)

SendersInv == ChainInv /\ FileInv /\ IoInv

LEMMA SendersStart == Init => SendersInv
BY ChainStart, FileStart, IoStart DEF Init, SendersInv

LEMMA OneSends ==
  [Next]_<<demo, chainVars, fileVars, ioVars>> =>
    [Chain!Next]_chainVars /\ [File!Next]_fileVars /\ [Io!Next]_ioVars
BY Zenon DEF Next

LEMMA SendersStep ==
  SendersInv /\ [Next]_<<demo, chainVars, fileVars, ioVars>> => SendersInv'
BY OneSends, ChainStep, FileStep, IoStep DEF SendersInv

(* Whichever program runs, its inductive invariant holds.                  *)
THEOREM Invariance == Spec => []SendersInv
BY SendersStart, SendersStep, PTL DEF Spec

(* After any number of calls, with any limits, and however much each       *)
(* writev() takes, the socket has the front of nginx's chain and the chain *)
(* that the call returns is the rest of it, for chains of any length of    *)
(* buffers of any size at any address.                                     *)
THEOREM ChainIsKept == Spec => []ChainIsTheRest
<1>1. SendersInv => ChainIsTheRest
  BY ChainTruths DEF SendersInv
<1> QED BY <1>1, Invariance, PTL

(* ngx_writev_chain() never hands over more than its limit, returns with   *)
(* bytes left and the socket ready only at that limit, and writes          *)
(* something in every round of its endless loop.                           *)
THEOREM CallsEndForAReason == Spec => LoopEndsForAReason
<1>1. SendersInv /\ [Next]_<<demo, chainVars, fileVars, ioVars>> =>
        [EndsForAReason]_chainVars
  BY OneSends, ChainStep DEF SendersInv
<1>2. SendersInv /\ [Next]_<<demo, chainVars, fileVars, ioVars>> =>
        [EndsForAReason]_Chain!vars
  BY <1>1 DEF chainVars, Chain!vars
<1> QED BY <1>2, Invariance, PTL
        DEF Spec, LoopEndsForAReason, Chain!LoopEndsForAReason, EndsForAReason

(* The variables of apr_socket_sendfile() keep their types: *len never     *)
(* exceeds what there is to send.                                          *)
THEOREM SendfileTypeCorrect == Spec => []File!TypeOK
<1>1. SendersInv => File!TypeOK
  BY FileTypesHold DEF SendersInv
<1> QED BY <1>1, Invariance, PTL

(* apr_socket_sendfile() tells its caller of exactly the bytes that are on *)
(* the wire, for headers, files and trailers of any length.                *)
THEOREM SendfileTellsTheTruth == Spec => []LenIsTruth
<1>1. SendersInv => LenIsTruth
  BY FileTruths DEF SendersInv
<1> QED BY <1>1, Invariance, PTL

(* It leaves the socket corked on the three ways out only that             *)
(* CorkHeldOnlyBy names, over any number of calls.                         *)
THEOREM CorkIsHeldOnlyBy == Spec => []CorkHeldOnlyBy
<1>1. SendersInv => CorkHeldOnlyBy
  BY FileTruths DEF SendersInv
<1> QED BY <1>1, Invariance, PTL

(* apr_socket_send() and apr_socket_recv() return the truth, whatever the  *)
(* flag of an earlier call, the timeout and the peer do.                   *)
THEOREM ResultsAreTrue == Spec => []ResultIsTruth
<1>1. SendersInv => ResultIsTruth
  BY DEF SendersInv, IoInv, ResultIsTruth
<1> QED BY <1>1, Invariance, PTL
=============================================================================
