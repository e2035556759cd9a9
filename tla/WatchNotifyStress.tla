--------------------------- MODULE WatchNotifyStress ---------------------------
(***************************************************************************)
(* The watch_notify_stress task (src/tasks/watch_notify_stress.py).  For  *)
(* each client in the config it finds the client's remote and starts a    *)
(* ProcThrasher running `multi_stress_watch` in the background, keeping it *)
(* in the testwatch dict; this loop is before the try, so a role that     *)
(* fails its asserts or names no remote ends the task with the thrashers  *)
(* already started left running.  It then yields, and its finally joins   *)
(* every thrasher, with no timeout.                                        *)
(*                                                                         *)
(* ProcThrasher is not in this repository: a started thrasher is a        *)
(* background activity that ends at some time, and join() waits for that. *)
(***************************************************************************)
EXTENDS Naturals, Sequences

CONSTANT WClients   \* the clients a config may list, in order

VARIABLES
  wclients,  \* config.get('clients'), a non-empty prefix of WClients
  tpc,       \* "loop", "body", "join", "done" or "raised"
  tn,        \* the loop's index into wclients
  thr,       \* thr[c]: "none", "running" or "ended"
  tinner     \* the nested tasks raised

vars == <<wclients, tpc, tn, thr, tinner>>

WClientSet == {WClients[n] : n \in 1..Len(WClients)}

Init ==
  /\ \E n \in 1..Len(WClients) : wclients = SubSeq(WClients, 1, n)
  /\ tpc = "loop" /\ tn = 1
  /\ thr = [c \in WClientSet |-> "none"]
  /\ tinner = FALSE

\* One iteration of the loop: the role asserts and the remote lookup may
\* raise; else a ProcThrasher is made, started and kept.
StartThrasher ==
  /\ tpc = "loop" /\ tn <= Len(wclients)
  /\ \/ thr' = [thr EXCEPT ![wclients[tn]] = "running"] /\ tn' = tn + 1
        /\ UNCHANGED tpc
     \/ tpc' = "raised" /\ UNCHANGED <<tn, thr>>
  /\ UNCHANGED <<wclients, tinner>>

\* try: yield.
WYield ==
  /\ tpc = "loop" /\ tn > Len(wclients)
  /\ tpc' = "body"
  /\ UNCHANGED <<wclients, tn, thr, tinner>>

\* The nested tasks return (failed = FALSE) or raise; the finally runs.
WResume(failed) ==
  /\ tpc = "body"
  /\ tpc' = "join" /\ tinner' = failed
  /\ UNCHANGED <<wclients, tn, thr>>

\* Bug variant of JoinAll: only the first client's thrasher is joined.
JoinFirstOnly ==
  /\ tpc = "join"
  /\ thr[wclients[1]] # "running"
  /\ tpc' = IF tinner THEN "raised" ELSE "done"
  /\ UNCHANGED <<wclients, tn, thr, tinner>>

\* finally: join() each thrasher of testwatch in turn; the loop is over
\* once every one has ended.  Then return, or re-raise the nested error.
JoinAll ==
  /\ tpc = "join"
  /\ \A c \in WClientSet : thr[c] # "running"
  /\ tpc' = IF tinner THEN "raised" ELSE "done"
  /\ UNCHANGED <<wclients, tn, thr, tinner>>

TaskStep == StartThrasher \/ WYield \/ JoinAll

\* A background thrasher ends.
ThrasherEnds(c) ==
  /\ thr[c] = "running"
  /\ thr' = [thr EXCEPT ![c] = "ended"]
  /\ UNCHANGED <<wclients, tpc, tn, tinner>>

\* task() has returned or raised; thrashers started before a raise in
\* the loop may still be running.
Finished ==
  /\ tpc \in {"done", "raised"}
  /\ \A c \in WClientSet : thr[c] # "running"
  /\ UNCHANGED vars

Next ==
  \/ TaskStep \/ (\E f \in BOOLEAN : WResume(f))
  \/ (\E c \in WClientSet : ThrasherEnds(c)) \/ Finished

\* The task's steps are taken and every thrasher ends (ProcThrasher runs
\* for a bounded time).
Spec ==
  /\ Init /\ [][Next]_vars /\ WF_vars(Next)
  /\ \A c \in WClientSet : WF_vars(ThrasherEnds(c))

TypeOK ==
  /\ Len(wclients) \in 1..Len(WClients)
  /\ tpc \in {"loop", "body", "join", "done", "raised"}
  /\ tn \in 1..Len(wclients) + 1
  /\ thr \in [WClientSet -> {"none", "running", "ended"}]
  /\ tinner \in BOOLEAN

=============================================================================
