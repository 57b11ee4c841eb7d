------------------------------ MODULE MCLoops ------------------------------
(***************************************************************************)
(* The programs that are one loop around a system call which waits or      *)
(* moves on, for one run of TLC: cpu-idle-governor, signalfd, inotify,     *)
(* list_holes, the two HTTP servers, the three ways to copy a file and the *)
(* tee() that keeps a log.  They share nothing: each behaviour is one of   *)
(* one of them, while the others rest in an initial state.                 *)
(***************************************************************************)
EXTENDS Deadlines

CONSTANTS Buf, StdinCap                    \* SignalLoop
CONSTANTS Files, QueueMax, BatchMax, None  \* WatchLoop
CONSTANTS Block, Probe, MaxSize            \* ListHoles
CONSTANTS Clients, NaiveCalls,             \* HttpServer
          ReadMax, MaxRequest
CONSTANTS FileSize, Chunk, PipeCap         \* CopyLoops; Chunk is TeeLog's too
CONSTANTS MaxBytes, MaxFails               \* TeeLog

VARIABLES
  demo,                                                     \* the one that runs
  signalAt, kind, open, input, pending,                     \* SignalLoop
  watchAt, foo, kept, watched, failed, queue, batch, lost,  \* WatchLoop
  holesAt, size, blocks, offset, listed,                    \* ListHoles
  httpAt, gather, backlog, serving, calls, peer, sent,      \* HttpServer
  pieces, unread, answer,
  copyAt, tool, taken, hold, n, out, upset,                 \* CopyLoops
  logAt, written, writing, consumed, due, stdout, log,      \* TeeLog
  fails

signalVars == <<signalAt, kind, open, input, pending>>
watchVars == <<watchAt, foo, kept, watched, failed, queue, batch, lost>>
holesVars == <<holesAt, size, blocks, offset, listed>>
httpVars == <<httpAt, gather, backlog, serving, calls, peer, sent, pieces,
              unread, answer>>
copyVars == <<copyAt, tool, taken, hold, n, out, upset>>
logVars == <<logAt, written, writing, consumed, due, stdout, log, fails>>
loopsVars == <<demo, vars, signalVars, watchVars, holesVars, httpVars,
               copyVars, logVars>>

Signal == INSTANCE SignalLoop WITH pc <- signalAt
Watch == INSTANCE WatchLoop WITH pc <- watchAt
Holes == INSTANCE ListHoles WITH pc <- holesAt
Http == INSTANCE HttpServer WITH pc <- httpAt, Nobody <- None
Copy == INSTANCE CopyLoops WITH pc <- copyAt
Log == INSTANCE TeeLog WITH
  pc <- logAt, sent <- written, open <- writing, taken <- consumed, n <- due

ASSUME LoopsAssumption ==
  /\ Signal!SignalAssumption /\ Watch!WatchAssumption /\ Holes!HolesAssumption
  /\ Http!HttpAssumption /\ Copy!CopyAssumption /\ Log!LogAssumption

LoopsInit ==
  /\ demo \in {"deadlines", "signal", "watch", "holes", "http", "copy", "log"}
  /\ Init /\ (demo # "deadlines" => now = 0)
  /\ Signal!Init /\ (demo # "signal" => kind = "pipe")
  /\ Watch!Init /\ (demo # "watch" => foo = None)
  /\ Holes!Init /\ (demo # "holes" => size = 0)
  /\ Http!Init /\ (demo # "http" => gather)
  /\ Copy!Init /\ (demo # "copy" => tool = "range")
  /\ Log!Init

RunsDeadlines ==
  /\ demo = "deadlines"
  /\ UNCHANGED <<demo, signalVars, watchVars, holesVars, httpVars, copyVars, logVars>>

RunsSignal ==
  /\ demo = "signal"
  /\ UNCHANGED <<demo, vars, watchVars, holesVars, httpVars, copyVars, logVars>>

RunsWatch ==
  /\ demo = "watch"
  /\ UNCHANGED <<demo, vars, signalVars, holesVars, httpVars, copyVars, logVars>>

RunsHoles ==
  /\ demo = "holes"
  /\ UNCHANGED <<demo, vars, signalVars, watchVars, httpVars, copyVars, logVars>>

RunsHttp ==
  /\ demo = "http"
  /\ UNCHANGED <<demo, vars, signalVars, watchVars, holesVars, copyVars, logVars>>

RunsCopy ==
  /\ demo = "copy"
  /\ UNCHANGED <<demo, vars, signalVars, watchVars, holesVars, httpVars, logVars>>

RunsLog ==
  /\ demo = "log"
  /\ UNCHANGED <<demo, vars, signalVars, watchVars, holesVars, httpVars, copyVars>>

LoopsNext ==
  \/ RunsDeadlines /\ Next
  \/ RunsSignal /\ Signal!Next
  \/ RunsWatch /\ Watch!Next
  \/ RunsHoles /\ Holes!Next
  \/ RunsHttp /\ Http!Next
  \/ RunsCopy /\ Copy!Next
  \/ RunsLog /\ Log!Next

(* Whichever program runs, it is scheduled. *)
LoopsSpec ==
  /\ LoopsInit
  /\ [][LoopsNext]_loopsVars
  /\ WF_loopsVars(RunsSignal /\ Signal!Program)
  /\ WF_loopsVars(RunsWatch /\ Watch!Program)
  /\ WF_loopsVars(RunsHoles /\ Holes!Program)
  /\ WF_loopsVars(RunsHttp /\ Http!Program)

(* SignalLoop: who is heard, and who may keep whom waiting.                *)
Heard == Signal!Heard

(* WatchLoop: ./foo is watched or will be, up to three exceptions.         *)
NoticedUnless == Watch!NoticedUnless

(* WatchLoop: ./foo ends up watched once it stays, with the same ones.     *)
WatchedUnless == Watch!WatchedUnless

(* ListHoles: the holes are listed and the walk ends, but for short tails. *)
ListsTheHoles == demo = "holes" => Holes!ListsTheHoles

(* HttpServer: which clients can kill the server.                          *)
KilledOnlyByLeaver == Http!KilledOnlyByLeaver

(* HttpServer: who is served, and who can count on the whole answer.       *)
ServedUnlessHeld == Http!ServedUnlessHeld

(* CopyLoops: the copy is exact, unless a call failed or was short.        *)
ExactUnlessShort == Copy!ExactUnlessShort

(* TeeLog: stdout and the log agree, but for the chunk that is under way.  *)
LogFollowsStdout == Log!LogFollowsStdout
=============================================================================
