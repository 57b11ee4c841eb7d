----------------------------- MODULE WatchLoop -----------------------------
(***************************************************************************)
(* inotify/main.c: watch ./foo, print its events, and when it is deleted   *)
(* put the watch on the file that has the name by then.                    *)
(*                                                                         *)
(* A watch belongs to a file and not to its name: it ends, and the event   *)
(* IN_DELETE_SELF is queued, when the last link to the file and the last   *)
(* descriptor of it are gone.  The program never has more than one watch,  *)
(* so wd names it, or one that is gone, or is -1.                          *)
(***************************************************************************)
EXTENDS SequencesExt

CONSTANTS
  Files,      \* the files that may be called ./foo
  QueueMax,   \* events that the kernel queues, max_queued_events
  BatchMax,   \* events that fit into buf
  None        \* model value: no file

WatchAssumption ==
  QueueMax \in Nat \ {0} /\ BatchMax \in Nat \ {0} /\ None \notin Files

VARIABLES
  pc,       \* "start", "read", "rm" and "add" (the call to come)
  foo,      \* the file called ./foo, or None
  kept,     \* the files with another link or with an open descriptor
  watched,  \* the file that the kernel watches for the program, or None
  failed,   \* wd = -1
  queue,    \* events to be read
  batch,    \* events in buf that are still to be looked at
  lost      \* history: an IN_DELETE_SELF did not fit into the queue

vars == <<pc, foo, kept, watched, failed, queue, batch, lost>>

Init ==
  /\ pc = "start"
  /\ foo \in Files \union {None}
  /\ kept = {}
  /\ watched = None
  /\ failed = FALSE
  /\ queue = <<>>
  /\ batch = <<>>
  /\ lost = FALSE

-----------------------------------------------------------------------------
(* The kernel, and the other processes. *)

(* The queue with one event more.  A full queue takes IN_Q_OVERFLOW        *)
(* instead, once.                                                          *)
Queued(event) ==
  CASE Len(queue) < QueueMax -> Append(queue, event)
    [] Len(queue) = QueueMax -> Append(queue, "OVERFLOW")
    [] OTHER -> queue

(* The name and the other references become what is given; a watched file  *)
(* that has neither is gone, and its watch with it.                        *)
Refer(name, others) ==
  /\ foo' = name
  /\ kept' = others
  /\ IF watched # None /\ watched # name /\ watched \notin others
       THEN /\ watched' = None
            /\ queue' = Queued("DELETE_SELF")
            /\ lost' = (lost \/ Len(queue) >= QueueMax)
       ELSE UNCHANGED <<watched, queue, lost>>
  /\ UNCHANGED <<pc, failed, batch>>

(* open(O_CREAT), or rename() of another file to ./foo. *)
NameFile ==
  \E f \in Files \ {foo} : Refer(f, kept)

Unlink == foo # None /\ Refer(None, kept)

(* Someone opens ./foo, or links it to another name. *)
Keep == foo # None /\ foo \notin kept /\ Refer(foo, kept \union {foo})

(* rename() of ./foo to another name. *)
MoveAway == foo # None /\ Refer(None, kept \union {foo})

Release == \E f \in kept : Refer(foo, kept \ {f})

(* Any other event of the watched file. *)
Touch ==
  /\ watched # None
  /\ Len(queue) <= QueueMax
  /\ queue' = Queued("OTHER")
  /\ UNCHANGED <<pc, foo, kept, watched, failed, batch, lost>>

Others == NameFile \/ Unlink \/ Keep \/ MoveAway \/ Release \/ Touch

-----------------------------------------------------------------------------
(* The program. *)

(* inotify_add_watch(fd, "./foo", IN_ALL_EVENTS) *)
Watch ==
  /\ watched' = foo
  /\ failed' = (foo = None)

Start ==
  /\ pc = "start"
  /\ Watch
  /\ pc' = "read"
  /\ UNCHANGED <<foo, kept, queue, batch, lost>>

(* read() waits for an event and returns those that fit. *)
ReadEvents ==
  /\ pc = "read" /\ batch = <<>>
  /\ queue # <<>>
  /\ LET n == IF Len(queue) < BatchMax THEN Len(queue) ELSE BatchMax
     IN batch' = SubSeq(queue, 1, n) /\ queue' = SubSeq(queue, n + 1, Len(queue))
  /\ UNCHANGED <<pc, foo, kept, watched, failed, lost>>

HandleOther ==
  /\ pc = "read" /\ batch # <<>>
  /\ Head(batch) # "DELETE_SELF"
  /\ batch' = Tail(batch)
  /\ UNCHANGED <<pc, foo, kept, watched, failed, queue, lost>>

HandleDelete ==
  /\ pc = "read" /\ batch # <<>>
  /\ Head(batch) = "DELETE_SELF"
  /\ batch' = Tail(batch)
  /\ pc' = "rm"
  /\ UNCHANGED <<foo, kept, watched, failed, queue, lost>>

(* inotify_rm_watch(fd, wd): EINVAL unless wd names the watch.  Removing   *)
(* one queues IN_IGNORED.                                                  *)
RemoveWatch ==
  /\ pc = "rm"
  /\ IF watched = None
       THEN UNCHANGED <<watched, queue>>
       ELSE watched' = None /\ queue' = Queued("OTHER")
  /\ pc' = "add"
  /\ UNCHANGED <<foo, kept, failed, batch, lost>>

(* The watch put back before the old one is removed by the same wd. *)
AddWatchMutant ==
  /\ pc = "add"
  /\ watched' = None
  /\ failed' = (foo = None)
  /\ pc' = "read"
  /\ UNCHANGED <<foo, kept, queue, batch, lost>>

AddWatch ==
  /\ pc = "add"
  /\ Watch
  /\ pc' = "read"
  /\ UNCHANGED <<foo, kept, queue, batch, lost>>

Program ==
  Start \/ ReadEvents \/ HandleOther \/ HandleDelete \/ RemoveWatch \/ AddWatch

Next == Program \/ Others

Spec == Init /\ [][Next]_vars

(* The process is scheduled. *)
FairSpec == Spec /\ WF_vars(Program)

-----------------------------------------------------------------------------
(* Properties. *)

TypeOK ==
  /\ pc \in {"start", "read", "rm", "add"}
  /\ foo \in Files \union {None}
  /\ kept \subseteq Files
  /\ watched \in Files \union {None}
  /\ failed \in BOOLEAN
  /\ queue \in BoundedSeq({"DELETE_SELF", "OTHER", "OVERFLOW"}, QueueMax + 1)
  /\ batch \in BoundedSeq({"DELETE_SELF", "OTHER", "OVERFLOW"}, BatchMax)
  /\ lost \in BOOLEAN

(* The program is about to look at ./foo again. *)
LooksAgain ==
  pc # "read" \/ Contains(queue \o batch, "DELETE_SELF")

(* A file called ./foo that is not watched is noticed later, or there is   *)
(* one of three reasons: the name did not exist when the watch was to be   *)
(* put on it, the watched file lives on elsewhere, or the queue overflowed *)
(* when it was deleted.  The first and the last are for good: nothing will *)
(* make the program look again.  And a watch that lives is never removed.  *)
NoticedUnless ==
  /\ foo \notin {None, watched} =>
       LooksAgain \/ failed \/ watched \in kept \/ lost
  /\ failed \/ lost => watched = None /\ ~LooksAgain
  /\ watched # None => ~LooksAgain

(* Once ./foo stays what it is, it ends up watched, with the same          *)
(* exceptions.                                                             *)
WatchedUnless ==
  \A f \in Files :
    <>[](foo = f) =>
      <>[](watched = f \/ failed \/ watched \in kept \/ lost)
=============================================================================
