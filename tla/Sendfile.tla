------------------------------ MODULE Sendfile ------------------------------
(***************************************************************************)
(* readv-writev/apr_sendrecv.c: apr_socket_sendfile() of Linux, which      *)
(* writes headers, part of a file and trailers to a socket that it corks   *)
(* meanwhile, and apr_socket_sendv(), by which it writes the first and the *)
(* last of these.                                                          *)
(*                                                                         *)
(* The caller sends what *len says is left in another call, until a call   *)
(* fails for good.  headers, body and trailers are lengths; the stream is  *)
(* all three, one after the other.                                         *)
(***************************************************************************)
EXTENDS Streams

CONSTANTS MaxHeaders, MaxBody, MaxTrailers   \* bounds

VARIABLES
  pc,          \* "idle" in the caller, "headers", "file", "trailers", "end"
  headers, body, trailers,   \* what there is to send
  blocking,    \* sock->timeout > 0
  incomplete,  \* APR_INCOMPLETE_WRITE
  corked,      \* APR_TCP_NOPUSH
  nopush_set,
  acked,       \* bytes that the caller was told of in *len
  len,         \* *len of the call
  wire,        \* the bytes that the socket took
  held         \* history: why the last call left the cork where it was

given == <<headers, body, trailers, blocking>>
vars == <<pc, given, incomplete, corked, nopush_set, acked, len, wire, held>>

Total == headers + body + trailers

Init ==
  /\ pc = "idle"
  /\ headers \in 0..MaxHeaders
  /\ body \in 0..MaxBody
  /\ trailers \in 0..MaxTrailers
  /\ blocking \in BOOLEAN
  /\ incomplete = FALSE /\ corked = FALSE /\ nopush_set = FALSE
  /\ acked = 0 /\ len = 0
  /\ wire = <<>>
  /\ held = "no"

-----------------------------------------------------------------------------
(* What is left when the call has written len bytes. *)
Left(from, size) ==
  LET done == acked + len - from
  IN IF done <= 0 THEN size ELSE IF done >= size THEN 0 ELSE size - done

HeadersLeft == Left(0, headers)
BodyLeft == Left(headers, body)
TrailersLeft == Left(headers + body, trailers)

(* n bytes of the stream reach the socket. *)
Put(n) ==
  /\ wire' = wire \o Slice(acked + len, acked + len + n)
  /\ len' = len + n

(* A call returns with n bytes more in *len.  The caller stops for good    *)
(* unless the call succeeded, timed out, or would have to wait.            *)
Return(n, again) ==
  /\ acked' = acked + len + n
  /\ len' = 0
  /\ pc' = IF again /\ acked' < Total THEN "idle" ELSE "end"

(* The cork forgotten on a way out that has it removed. *)
UncorkMutant == UNCHANGED <<corked, held>>

(* apr_socket_opt_set(sock, APR_TCP_NOPUSH, 0) if this call has set it. *)
Uncork ==
  /\ corked' = (corked /\ ~nopush_set)
  /\ held' = IF corked' THEN held ELSE "no"

(* A return that does not uncork. *)
Keep(reason) ==
  /\ UNCHANGED corked
  /\ held' = IF nopush_set THEN reason ELSE held

Short(n, size) == blocking /\ n < size

Again == {TRUE, FALSE}   \* whether an error is one after which to try again

-----------------------------------------------------------------------------
(* Up to line 220: headers or trailers are worth a cork. *)
Cork ==
  /\ pc = "idle"
  /\ acked < Total
  /\ IF HeadersLeft + TrailersLeft > 0 /\ ~corked
       THEN corked' = TRUE /\ nopush_set' = TRUE
       ELSE nopush_set' = FALSE /\ UNCHANGED corked
  /\ pc' = IF HeadersLeft > 0 THEN "headers" ELSE "file"
  /\ UNCHANGED <<given, incomplete, acked, len, wire, held>>

(* The socket cannot be corked. *)
CorkFails ==
  /\ pc = "idle"
  /\ HeadersLeft + TrailersLeft > 0 /\ ~corked
  /\ Return(0, FALSE)
  /\ UNCHANGED <<given, incomplete, corked, nopush_set, wire, held>>

(* The headers go out in full. *)
SendHeaders ==
  /\ pc = "headers"
  /\ Put(HeadersLeft)
  /\ incomplete' = FALSE
  /\ pc' = "file"
  /\ UNCHANGED <<given, corked, nopush_set, acked, held>>

(* n < total_hdrbytes not tested. *)
ShortHeadersMutant ==
  /\ pc = "headers"
  /\ \E n \in 1..(HeadersLeft - 1) :
       wire' = wire \o Slice(acked, acked + n)
  /\ len' = headers - acked
  /\ pc' = "file"
  /\ UNCHANGED <<given, incomplete, corked, nopush_set, acked, held>>

(* sendv() writes part of them. *)
ShortHeaders ==
  /\ pc = "headers"
  /\ \E n \in 1..(HeadersLeft - 1) :
       /\ wire' = wire \o Slice(acked, acked + n)
       /\ incomplete' = Short(n, HeadersLeft)
       /\ Return(n, TRUE)
  /\ Uncork
  /\ UNCHANGED <<given, nopush_set>>

(* sendv() fails, times out, or would have to wait: *len = 0. *)
HeadersError ==
  /\ pc = "headers"
  /\ incomplete' = FALSE
  /\ \E again \in Again : Return(0, again)
  /\ Keep("headers failed")
  /\ UNCHANGED <<given, nopush_set, wire>>

(* All of the file; trailers follow, or the call returns. *)
SendFile ==
  /\ pc = "file"
  /\ incomplete' = FALSE
  /\ IF TrailersLeft > 0
       THEN /\ Put(BodyLeft)
            /\ pc' = "trailers"
            /\ UNCHANGED <<corked, acked, held>>
       ELSE /\ wire' = wire \o Slice(acked + len, acked + len + BodyLeft)
            /\ Return(BodyLeft, TRUE)
            /\ Keep("no trailers")
  /\ UNCHANGED <<given, nopush_set>>

(* Part of it, or none of it at the end of a file that has become shorter, *)
(* which is APR_EOF.                                                       *)
ShortFile ==
  /\ pc = "file"
  /\ \E n \in 0..(BodyLeft - 1) :
       /\ wire' = wire \o Slice(acked + len, acked + len + n)
       /\ incomplete' = (Short(n, BodyLeft) /\ n > 0)
       /\ Return(n, n > 0)
  /\ Uncork
  /\ UNCHANGED <<given, nopush_set>>

(* sendfile() fails, or would have to wait while timeout = 0. *)
FileError ==
  /\ pc = "file"
  /\ incomplete' = FALSE
  /\ \E again \in Again : (again => ~blocking) /\ Return(0, again)
  /\ Uncork
  /\ UNCHANGED <<given, nopush_set, wire>>

(* The wait for the socket times out or fails. *)
WaitFails ==
  /\ pc = "file"
  /\ blocking
  /\ incomplete' = FALSE
  /\ \E again \in Again : Return(0, again)
  /\ Keep("wait failed")
  /\ UNCHANGED <<given, nopush_set, wire>>

(* The trailers, or part of them. *)
SendTrailers ==
  /\ pc = "trailers"
  /\ \E n \in 1..TrailersLeft :
       /\ wire' = wire \o Slice(acked + len, acked + len + n)
       /\ incomplete' = Short(n, TrailersLeft)
       /\ Return(n, TRUE)
  /\ Uncork
  /\ UNCHANGED <<given, nopush_set>>

TrailersError ==
  /\ pc = "trailers"
  /\ incomplete' = FALSE
  /\ \E again \in Again : Return(0, again)
  /\ Uncork
  /\ UNCHANGED <<given, nopush_set, wire>>

Next ==
  \/ Cork \/ CorkFails
  \/ SendHeaders \/ ShortHeaders \/ HeadersError
  \/ SendFile \/ ShortFile \/ FileError \/ WaitFails
  \/ SendTrailers \/ TrailersError

Spec == Init /\ [][Next]_vars

-----------------------------------------------------------------------------
(* Properties. *)

TypeOK ==
  /\ pc \in {"idle", "headers", "file", "trailers", "end"}
  /\ acked + len \in 0..Total
  /\ wire \in Seq(1..Total)
  /\ {incomplete, corked, nopush_set, blocking} \subseteq BOOLEAN
  /\ incomplete => blocking

(* Whatever mix of short writes, timeouts and errors a stream met, the     *)
(* caller has been told of exactly the bytes on the wire, so the next call *)
(* goes on where the stream stopped.                                       *)
LenIsTruth == wire = Upto(acked + len)

(* A call that corked the socket uncorks it, except on three ways out:     *)
(* headers that failed, a wait that failed, and a file without trailers.   *)
(* Later calls find the cork set and leave it there.                       *)
CorkHeldOnlyBy ==
  pc \in {"idle", "end"} =>
    (corked <=> held \in {"headers failed", "wait failed", "no trailers"})
=============================================================================
