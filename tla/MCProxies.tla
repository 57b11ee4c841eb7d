----------------------------- MODULE MCProxies -----------------------------
(***************************************************************************)
(* The two broadcasters of tee-splice, for one run of TLC.  They share the *)
(* source, the subscribers and the start of main(), and promise the same:  *)
(* each behaviour is one of proxy.c or one of proxy_naive.c, and each      *)
(* property below is about both unless it says otherwise.                  *)
(***************************************************************************)
EXTENDS ProxySplice

VARIABLES
  demo,   \* the program that runs: "naive" or "splice"
  buf     \* ProxyNaive; the other variables of its state are shared

Naive == INSTANCE ProxyNaive

ProxiesInit == Init /\ Naive!Init /\ demo \in {"naive", "splice"}

ProxiesNext ==
  /\ UNCHANGED demo
  /\ \/ demo = "naive" /\ Naive!Next /\ UNCHANGED <<main_p, sub_p>>
     \/ demo = "splice" /\ Next /\ UNCHANGED buf

proxiesVars == <<demo, buf, vars>>

(* Whichever program runs, it is scheduled, and the subscribers that stay  *)
(* read what they are sent.                                                *)
ProxiesSpec ==
  /\ ProxiesInit
  /\ [][ProxiesNext]_proxiesVars
  /\ WF_proxiesVars(demo = "naive" /\ Naive!Program /\ UNCHANGED <<demo, main_p, sub_p>>)
  /\ WF_proxiesVars(demo = "splice" /\ Program /\ UNCHANGED <<demo, buf>>)

(* Subscriber 1 never has a byte that subscriber 0 lacks, and is behind by *)
(* one chunk at most, although the asserts may end the program between the *)
(* two transfers.                                                          *)
SkewWithinOneChunk == Naive!SkewWithinOneChunk

(* No program waits for good once its source has closed the connection,    *)
(* and proxy_naive does not after a reset either; proxy.c does, as the run *)
(* proxy_splice_reset shows.                                               *)
StopsWithItsSource ==
  /\ StopsAfterClose
  /\ demo = "naive" => Naive!StopsAfterSource
=============================================================================
