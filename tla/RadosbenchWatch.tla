---------------------------- MODULE RadosbenchWatch ----------------------------
(***************************************************************************)
(* A job `- radosbench: - watch_notify_stress:` : teuthology enters the   *)
(* tasks as nested context managers, so radosbench creates its pools and  *)
(* starts its benches, yields, watch_notify_stress starts its thrashers,  *)
(* yields to whatever is nested in it and joins them; only when it has    *)
(* returned or raised does radosbench's finally join the benches (with a  *)
(* timeout) and remove the pool.                                           *)
(***************************************************************************)
EXTENDS Naturals, Sequences

CONSTANTS Clients, WClients

VARIABLES clients, createPool, poolCfg, pc, i, pool, pools, bench, err,
          wclients, tpc, tn, thr, tinner

R == INSTANCE Radosbench
W == INSTANCE WatchNotifyStress

rvars == <<clients, createPool, poolCfg, pc, i, pool, pools, bench, err>>
wvars == <<wclients, tpc, tn, thr, tinner>>
vars == <<rvars, wvars>>

Init == R!Init /\ W!Init

\* radosbench's own steps: the client loop, the yield, the join and the
\* pool removal.
RadosbenchStep ==
  /\ R!SetupClient \/ R!Yield \/ R!Wait \/ R!Remove
  /\ UNCHANGED wvars

\* While radosbench is yielded, watch_notify_stress runs; what is nested
\* in it returns or raises.
WatchStep ==
  /\ pc = "body"
  /\ W!TaskStep \/ \E f \in BOOLEAN : W!WResume(f)
  /\ UNCHANGED rvars

\* watch_notify_stress has returned or raised: control is back in
\* radosbench, whose finally runs.
WatchEnds ==
  /\ tpc \in {"done", "raised"}
  /\ R!Resume(tpc = "raised")
  /\ UNCHANGED wvars

BenchEnds(c) == R!BenchEnds(c) /\ UNCHANGED wvars
ThrasherEnds(c) == W!ThrasherEnds(c) /\ UNCHANGED rvars

\* The job has returned or raised and its background processes are over.
Finished ==
  /\ pc \in {"done", "raised"}
  /\ \A c \in R!ClientSet : bench[c] # "running"
  /\ \A c \in W!WClientSet : thr[c] # "running"
  /\ UNCHANGED vars

Next ==
  \/ RadosbenchStep \/ WatchStep \/ WatchEnds
  \/ \E c \in R!ClientSet : BenchEnds(c)
  \/ \E c \in W!WClientSet : ThrasherEnds(c)
  \/ Finished

\* The tasks' own steps are taken and every thrasher ends (ProcThrasher
\* runs for a bounded time); a bench need not end (run.wait's timeout).
Spec ==
  /\ Init /\ [][Next]_vars
  /\ WF_vars(RadosbenchStep) /\ WF_vars(WatchStep) /\ WF_vars(WatchEnds)
  /\ \A c \in W!WClientSet : WF_vars(ThrasherEnds(c))

---------------------------------------------------------------------------
(* Properties                                                              *)

TypeOK == R!TypeOK /\ W!TypeOK

PoolRemovedAfterBenches == R!PoolRemovedAfterBenches

\* A stress thrasher is still running while radosbench joins its benches
\* and removes its pool only if watch_notify_stress's start loop raised
\* part way: its finally joins every thrasher it started, but thrashers
\* started before a raise in the loop (before the try) are never joined.
NoThrasherInRadosbenchCleanup ==
  (pc \in {"wait", "remove", "done"} /\ \E c \in W!WClientSet : thr[c] = "running")
    => (tpc = "raised" /\ tn <= Len(wclients))

=============================================================================
