------------------------------ MODULE SocketIo ------------------------------
(***************************************************************************)
(* readv-writev/apr_sendrecv.c: apr_socket_send() and apr_socket_recv().   *)
(* They are the same code but for the direction: a call that moved less    *)
(* than it was asked to leaves a flag, and the next one waits first.       *)
(*                                                                         *)
(* What a direction can move is a number: room in the socket's buffer for  *)
(* "send", bytes that have arrived for "recv".                             *)
(***************************************************************************)
EXTENDS Integers

CONSTANTS
  Cap,      \* bound: what a direction can move at once
  MaxLen    \* bound: *len

SocketAssumption == Cap \in Nat \ {0} /\ MaxLen \in Nat

Ops == {"send", "recv"}

VARIABLES
  pc,          \* "idle", "try" (write() or read()) or "wait"
  op,          \* the call that is under way, or was last
  timeout,     \* sock->timeout: negative waits for ever, 0 never
  incomplete,  \* APR_INCOMPLETE_WRITE and APR_INCOMPLETE_READ
  avail,       \* what each direction can move
  ended,       \* the peer has closed the connection
  asked,       \* *len as given
  len,         \* *len as returned
  status,      \* what the call returned
  moved,       \* history: the bytes that it moved
  waited       \* history: it began with the wait

vars == <<pc, op, timeout, incomplete, avail, ended, asked, len, status,
          moved, waited>>

Timeouts == {-1, 0, 1}

Init ==
  /\ pc = "idle"
  /\ op = "send"
  /\ timeout \in Timeouts
  /\ incomplete = {}
  /\ avail = [o \in Ops |-> 0]
  /\ ended = FALSE
  /\ asked = 0 /\ len = 0
  /\ status = "success"
  /\ moved = 0
  /\ waited = FALSE

-----------------------------------------------------------------------------
(* The peer, and the caller. *)

Ready(o) == avail[o] > 0 \/ ended

MoreAvailable ==
  /\ \E o \in Ops :
       /\ avail[o] < Cap
       /\ ended => o = "send"
       /\ avail' = [avail EXCEPT ![o] = @ + 1]
  /\ UNCHANGED <<pc, op, timeout, incomplete, ended, asked, len, status,
                 moved, waited>>

PeerCloses ==
  /\ ~ended
  /\ ended' = TRUE
  /\ UNCHANGED <<pc, op, timeout, incomplete, avail, asked, len, status,
                 moved, waited>>

(* The flag is not cleared by the call that acts on it. *)
CallMutant ==
  /\ pc = "idle"
  /\ op' \in Ops /\ asked' \in 0..MaxLen /\ timeout' \in Timeouts
  /\ waited' = (op' \in incomplete)
  /\ pc' = IF waited' THEN "wait" ELSE "try"
  /\ moved' = 0
  /\ UNCHANGED <<incomplete, avail, ended, len, status>>

(* The caller may set another timeout before each call. *)
Call ==
  /\ pc = "idle"
  /\ op' \in Ops /\ asked' \in 0..MaxLen /\ timeout' \in Timeouts
  /\ waited' = (op' \in incomplete)
  /\ pc' = IF waited' THEN "wait" ELSE "try"
  /\ incomplete' = incomplete \ {op'}
  /\ moved' = 0
  /\ UNCHANGED <<avail, ended, len, status>>

-----------------------------------------------------------------------------
Return(result, n) ==
  /\ pc' = "idle"
  /\ status' = result
  /\ len' = n
  /\ UNCHANGED <<op, timeout, ended, asked, waited>>

(* The flag that a result of n bytes leaves. *)
Flagged(n) == IF timeout > 0 /\ n < asked THEN {op} ELSE {}

(* write() or read() of up to *len bytes; fewer than are possible if a     *)
(* signal comes.                                                           *)
Move ==
  /\ pc = "try"
  /\ \E n \in 1..asked :
       /\ n <= avail[op]
       /\ avail' = [avail EXCEPT ![op] = @ - n]
       /\ moved' = n
       /\ incomplete' = incomplete \union Flagged(n)
       /\ Return("success", n)

(* A result of 0 from recv: nothing is to come, or nothing was asked for.  *)
ReadNothing ==
  /\ pc = "try" /\ op = "recv"
  /\ asked = 0 \/ (ended /\ avail[op] = 0)
  /\ incomplete' = incomplete \union Flagged(0)
  /\ Return("eof", 0)
  /\ UNCHANGED <<avail, moved>>

WriteNothing ==
  /\ pc = "try" /\ op = "send"
  /\ asked = 0
  /\ Return("success", 0)
  /\ UNCHANGED <<incomplete, avail, moved>>

(* The peer is gone: EPIPE, or ECONNRESET behind what has arrived. *)
Fails ==
  /\ pc = "try" /\ asked > 0
  /\ ended
  /\ op = "recv" => avail[op] = 0
  /\ Return("error", 0)
  /\ UNCHANGED <<incomplete, avail, moved>>

(* EAGAIN.  A socket with a negative timeout waits in the call itself. *)
Again ==
  /\ pc = "try" /\ asked > 0
  /\ ~Ready(op)
  /\ timeout = 0
  /\ Return("again", 0)
  /\ UNCHANGED <<incomplete, avail, moved>>

AgainWaits ==
  /\ pc = "try" /\ asked > 0
  /\ ~Ready(op)
  /\ timeout > 0
  /\ pc' = "wait"
  /\ UNCHANGED <<op, timeout, incomplete, avail, ended, asked, len, status,
                 moved, waited>>

(* apr_wait_for_io_or_timeout() *)
WaitSucceeds ==
  /\ pc = "wait"
  /\ Ready(op)
  /\ pc' = "try"
  /\ UNCHANGED <<op, timeout, incomplete, avail, ended, asked, len, status,
                 moved, waited>>

WaitTimesOut ==
  /\ pc = "wait"
  /\ ~Ready(op)
  /\ timeout >= 0
  /\ Return("timeup", 0)
  /\ UNCHANGED <<incomplete, avail, moved>>

Next ==
  \/ MoreAvailable \/ PeerCloses \/ Call
  \/ Move \/ ReadNothing \/ WriteNothing \/ Fails
  \/ Again \/ AgainWaits \/ WaitSucceeds \/ WaitTimesOut

Spec == Init /\ [][Next]_vars

-----------------------------------------------------------------------------
(* Properties. *)

TypeOK ==
  /\ pc \in {"idle", "try", "wait"}
  /\ op \in Ops /\ incomplete \subseteq Ops
  /\ timeout \in Timeouts
  /\ avail \in [Ops -> 0..Cap]
  /\ ended \in BOOLEAN /\ waited \in BOOLEAN
  /\ asked \in 0..MaxLen /\ len \in 0..MaxLen /\ moved \in 0..MaxLen
  /\ status \in {"success", "eof", "again", "timeup", "error"}

(* What a call returns is true: *len is what was moved, however the call   *)
(* ended; EAGAIN is for sockets that do not wait, and so is a timeout for  *)
(* those that wait for a while, except that a flag left from a call with   *)
(* another timeout turns one EAGAIN into a timeout, and one only; and the  *)
(* end of the stream is reported at its end, or for an empty request.      *)
ResultIsTruth ==
  pc = "idle" =>
    /\ len = moved
    /\ status = "again" => timeout = 0 /\ ~waited
    /\ status = "timeup" =>
         timeout > 0 \/ (timeout = 0 /\ waited /\ op \notin incomplete)
    /\ status = "eof" => asked = 0 \/ (ended /\ avail["recv"] = 0)
=============================================================================
