------------------------------ MODULE RadosbenchJob ------------------------------
(***************************************************************************)
(* A job `- buildpackages: - radosbench: - watch_notify_stress:`.         *)
(* teuthology enters the job's tasks in order: buildpackages is a plain   *)
(* function, so it runs to its end when entered, and the nested           *)
(* radosbench + watch_notify_stress stack is entered only if it returned; *)
(* if it raised, no later task is entered and the job raises.  (The       *)
(* install task such a job lists between them is teuthology's and is not  *)
(* modelled.)                                                              *)
(***************************************************************************)
EXTENDS Naturals, Sequences

CONSTANTS Remotes, Clients, WClients

VARIABLES remotes, installTask, sha1Set, machineSet, bpc, bn, agent, built,
          host, berr,
          clients, createPool, poolCfg, pc, i, pool, pools, bench, err,
          wclients, tpc, tn, thr, tinner

B == INSTANCE Buildpackages
S == INSTANCE RadosbenchWatch

bvars == <<remotes, installTask, sha1Set, machineSet, bpc, bn, agent, built,
           host, berr>>
svars == <<clients, createPool, poolCfg, pc, i, pool, pools, bench, err,
           wclients, tpc, tn, thr, tinner>>
vars == <<bvars, svars>>

Init == B!Init /\ S!Init

\* buildpackages runs when the job is entered.
BuildpackagesStep == B!BTaskStep /\ UNCHANGED svars

\* The nested stack's steps, once buildpackages has returned.
Stacked(A) == bpc = "done" /\ A /\ UNCHANGED bvars

\* The job has returned or raised.
Finished ==
  \/ bpc = "raised" /\ UNCHANGED vars
  \/ Stacked(S!Finished)

Next ==
  \/ BuildpackagesStep
  \/ Stacked(S!RadosbenchStep) \/ Stacked(S!WatchStep) \/ Stacked(S!WatchEnds)
  \/ \E c \in S!R!ClientSet : Stacked(S!BenchEnds(c))
  \/ \E c \in S!W!WClientSet : Stacked(S!ThrasherEnds(c))
  \/ Finished

\* The stack's fairness, as in RadosbenchWatch, and buildpackages' own
\* steps (its commands return: check_call waits for them).
Spec ==
  /\ Init /\ [][Next]_vars
  /\ WF_vars(BuildpackagesStep)
  /\ WF_vars(Stacked(S!RadosbenchStep)) /\ WF_vars(Stacked(S!WatchStep))
  /\ WF_vars(Stacked(S!WatchEnds))
  /\ \A c \in S!W!WClientSet : WF_vars(Stacked(S!ThrasherEnds(c)))

---------------------------------------------------------------------------
(* Properties                                                              *)

TypeOK == B!TypeOK /\ S!TypeOK

PoolRemovedAfterBenches == S!PoolRemovedAfterBenches
NoThrasherInRadosbenchCleanup == S!NoThrasherInRadosbenchCleanup
BenchesLeftOnlyBySetupOrTimeout == S!R!BenchesLeftOnlyBySetupOrTimeout

\* The stack's tasks run only on packages built for every remote: once
\* radosbench has started, buildpackages' loop has completed a checked
\* build on each remote and gitbuilder_host points at the packages; a
\* build that failed on some remote stopped the job instead.
PackagesBeforeTasks ==
  (pc # "loop" \/ i > 1) =>
    /\ built = {remotes[n] : n \in DOMAIN remotes}
    /\ host

\* The job ends: buildpackages raises, or the stack returns or raises,
\* even if a bench never ends.
JobTermination == <>(bpc = "raised" \/ pc \in {"done", "raised"})

=============================================================================
