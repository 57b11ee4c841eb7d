---------------------------- MODULE WritevChain ----------------------------
(***************************************************************************)
(* readv-writev/nginx_writev_chain.c: ngx_writev_chain() writes a chain of *)
(* buffers to a socket, a few iovecs at a time and up to a limit, and      *)
(* returns what is left of the chain.  The event loop calls it again when  *)
(* the socket is ready.                                                    *)
(*                                                                         *)
(* A byte is its address, so that what is on the wire shows where it came  *)
(* from.  Buffers in memory are not empty, which nginx sees to before; the *)
(* kqueue branch is not part of the build that is modelled.                *)
(***************************************************************************)
EXTENDS Integers, SequencesExt

CONSTANTS
  Chains,      \* the chains to write
  Limits,      \* the limits that the caller passes; 0 is none
  Prealloc,    \* NGX_IOVS_PREALLOCATE
  MaxLimit     \* NGX_MAX_SIZE_T_VALUE - ngx_pagesize

(* Buffers: in memory from pos up to last, in a file, special (flush and   *)
(* last markers), or none of these.                                        *)
Buffer ==
  {buf \in [kind : {"memory", "special", "file", "bad"},
            pos : Nat, last : Nat] :
     IF buf.kind = "memory" THEN 0 < buf.pos /\ buf.pos < buf.last
                            ELSE buf.pos = 0 /\ buf.last = 0}

ChainAssumption ==
  /\ Chains \subseteq Seq(Buffer)
  /\ Limits \subseteq Nat
  /\ Prealloc \in Nat \ {0}
  /\ MaxLimit \in Nat \ {0}

VARIABLES
  pc,      \* "idle" in the event loop, "loop" in ngx_writev_chain(), "error"
  in,      \* what is left of the chain
  ready,   \* wev->ready
  limit,
  send,    \* bytes that the call handed to writev()
  sent,    \* c->sent
  wire,    \* bytes that the socket took
  chain    \* history: the chain at first

vars == <<pc, in, ready, limit, send, sent, wire, chain>>

Init ==
  /\ pc = "idle"
  /\ chain \in Chains
  /\ in = chain
  /\ ready \in BOOLEAN
  /\ limit = 0 /\ send = 0 /\ sent = 0
  /\ wire = <<>>

-----------------------------------------------------------------------------
Size(buf) == buf.last - buf.pos
Stretch(from, size) == [b \in 1..size |-> from + b - 1]
BytesOf(bufs) == FlattenSeq([b \in DOMAIN bufs |->
                   Stretch(bufs[b].pos, Size(bufs[b]))])

LeastOf(m, n) == IF m <= n THEN m ELSE n

(* Any buffer but the first one continues the last iovec. *)
AdjacentMutant(vec, buf) == vec.iovs # <<>>

(* prev == in->buf->pos: the buffer continues the last iovec. *)
Adjacent(vec, buf) == vec.prev = buf.pos

(* The last iovec is size bytes longer. *)
Coalesced(iovs, size) ==
  [iovs EXCEPT ![Len(iovs)] = [base |-> @.base, size |-> @.size + size]]

(* size bytes from the front of a buffer in memory. *)
AddMemory(vec, buf, size) ==
  LET with(iovs) == [iovs |-> iovs, prev |-> buf.pos + size,
                     total |-> vec.total + size, cl |-> vec.cl + 1,
                     stop |-> "no"]
  IN IF Adjacent(vec, buf) THEN with(Coalesced(vec.iovs, size))
     ELSE IF Len(vec.iovs) = Prealloc THEN [vec EXCEPT !.stop = "yes"]
     ELSE with(Append(vec.iovs, [base |-> buf.pos, size |-> size]))

(* One iteration of ngx_output_chain_to_iovec() for room bytes. *)
AddBuf(vec, buf, room) ==
  IF vec.stop # "no" \/ vec.total >= room THEN vec
  ELSE CASE buf.kind = "special" -> [vec EXCEPT !.cl = @ + 1]
         [] buf.kind = "file" -> [vec EXCEPT !.stop = "yes"]
         [] buf.kind = "bad" -> [vec EXCEPT !.stop = "error"]
         [] buf.kind = "memory" ->
              AddMemory(vec, buf, LeastOf(Size(buf), room - vec.total))

NoIovecs == [iovs |-> <<>>, prev |-> 0, total |-> 0, cl |-> 1, stop |-> "no"]

(* ngx_output_chain_to_iovec(): the iovecs, and cl, the place in the chain *)
(* where it stopped.                                                       *)
ToIovec(room) ==
  LET vec[k \in 0..Len(in)] ==
        IF k = 0 THEN NoIovecs ELSE AddBuf(vec[k - 1], in[k], room)
  IN vec[Len(in)]

(* What writev() sends of an array of iovecs. *)
Gather(iovs) == FlattenSeq([k \in DOMAIN iovs |->
                  Stretch(iovs[k].base, iovs[k].size)])

Stops(vec) ==
  \/ vec.stop = "error"
  \/ vec.cl <= Len(in) /\ in[vec.cl].kind = "file"

(* One buffer of a chain that is to lose its first u.n bytes. *)
DropSent(u, buf) ==
  IF u.rest # <<>> THEN [u EXCEPT !.rest = Append(@, buf)]
  ELSE IF buf.kind = "special" \/ (u.n > 0 /\ u.n >= Size(buf))
    THEN [u EXCEPT !.n = @ - Size(buf)]
  ELSE [n |-> 0, rest |-> <<[buf EXCEPT !.pos = @ + u.n]>>]

(* ngx_chain_update_sent(): the chain without its first n bytes. *)
UpdateSent(n) ==
  LET u[k \in 0..Len(in)] ==
        IF k = 0 THEN [n |-> n, rest |-> <<>>] ELSE DropSent(u[k - 1], in[k])
  IN u[Len(in)].rest

-----------------------------------------------------------------------------
(* The event loop calls with some limit; 0 and what is too large for size_t *)
(* become the largest limit.                                                *)
Call ==
  /\ pc = "idle" /\ in # <<>>
  /\ ready
  /\ pc' = "loop"
  /\ \E l \in Limits :
       limit' = IF l = 0 \/ l > MaxLimit THEN MaxLimit ELSE l
  /\ send' = 0
  /\ UNCHANGED <<in, ready, sent, wire, chain>>

BecomesReady ==
  /\ pc = "idle"
  /\ ~ready
  /\ ready' = TRUE
  /\ UNCHANGED <<pc, in, limit, send, sent, wire, chain>>

(* What the limit leaves for the next iovecs. *)
Room == limit - send

(* A short write taken for a full one. *)
ReturnMutant(n, total) ==
  /\ UNCHANGED ready
  /\ pc' = IF send' >= limit \/ in' = <<>> THEN "idle" ELSE "loop"

(* After a short write the socket is not ready; after the limit or the end *)
(* of the chain the call returns; otherwise it goes on.                    *)
Return(n, total) ==
  IF total # n
    THEN ready' = FALSE /\ pc' = "idle"
    ELSE /\ pc' = IF send' >= limit \/ in' = <<>> THEN "idle" ELSE "loop"
         /\ UNCHANGED ready

(* One iteration in which writev() takes n bytes, or none when it returns  *)
(* EAGAIN.  An interrupted writev() is repeated.                           *)
Writev ==
  /\ pc = "loop"
  /\ LET vec == ToIovec(Room)
     IN /\ ~Stops(vec)
        /\ send' = send + vec.total
        /\ \E n \in 0..vec.total :
             /\ wire' = wire \o SubSeq(Gather(vec.iovs), 1, n)
             /\ sent' = sent + n
             /\ in' = UpdateSent(n)
             /\ Return(n, vec.total)
  /\ UNCHANGED <<limit, chain>>

(* NGX_CHAIN_ERROR: writev() fails, or meets a buffer it cannot write. *)
ChainError ==
  /\ pc = "loop"
  /\ pc' = "error"
  /\ LET vec == ToIovec(Room)
     IN send' = IF Stops(vec) THEN send ELSE send + vec.total
  /\ UNCHANGED <<in, ready, limit, sent, wire, chain>>

Next == Call \/ BecomesReady \/ Writev \/ ChainError

Spec == Init /\ [][Next]_vars

-----------------------------------------------------------------------------
(* Properties. *)

(* Wherever a call stops, what is on the wire and what is left of the      *)
(* chain make up the chain, and c->sent says how much is on the wire.      *)
ChainIsTheRest ==
  /\ wire \o BytesOf(in) = BytesOf(chain)
  /\ sent = Len(wire)

(* A call hands over no more than its limit.  It returns with the socket   *)
(* ready and bytes left only when it has reached the limit, since no event *)
(* makes the event loop call again; and as long as it goes on, each round  *)
(* of its endless loop writes something.                                   *)
LoopEndsForAReason ==
  [][/\ send' <= limit'
     /\ (pc = "loop" /\ pc' = "idle" /\ ready' /\ in' # <<>>) =>
          send' = limit
     /\ (pc = "loop" /\ pc' = "loop") => Len(wire') > Len(wire)]_vars
=============================================================================
