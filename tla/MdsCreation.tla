----------------------------- MODULE MdsCreation -----------------------------
(***************************************************************************)
(* The mds_creation_failure task (src/tasks/mds_creation_failure.py).  It *)
(* resets the filesystem, starts the one MDS with mds_kill_create_at so   *)
(* that it crashes in up:creating, checks the map still says creating,    *)
(* restarts it normally and polls its state once a second until it is     *)
(* up:active, for at most create_timeout seconds.                          *)
(*                                                                         *)
(* The MDS daemon and the state the monitor reports for it are the         *)
(* environment: the daemon exits with some status, and the reported state *)
(* moves to up:creating while a daemon runs, to up:active once a daemon   *)
(* started without the kill flag has created the filesystem, and may show *)
(* another state (laggy, failed, replay) at any time.                      *)
(***************************************************************************)
EXTENDS Naturals

CONSTANT CreateTimeout     \* create_timeout (120 in the code)

ASSUME CreateTimeout \in Nat

VARIABLES
  pc,        \* where task() is
  daemon,    \* the MDS process: "up" (as before), "stopped", "killrun",
             \* "exited" or "running"
  state,     \* the state `get_mds_status` reports: "none", "up:creating",
             \* "up:active" or "other"
  t,         \* the poll's counter of seconds slept
  err        \* why task() failed, or "none"

vars == <<pc, daemon, state, t, err>>

States == {"none", "up:creating", "up:active", "other"}

Init ==
  /\ pc = "reset" /\ daemon = "up" /\ state = "up:active"
  /\ t = 0 /\ err = "none"

Fail(e) == pc' = "failed" /\ err' = e

\* `mds set max_mds 0`, mds.stop(), `mds fail`, `fs rm`, `fs new`: any of
\* the monitor commands may fail.
Reset ==
  /\ pc = "reset"
  /\ \/ /\ daemon' = "stopped" /\ state' = "none"
        /\ pc' = "killstart" /\ UNCHANGED err
     \/ /\ daemon' \in {"up", "stopped"} /\ Fail("reset")
        /\ UNCHANGED state
  /\ UNCHANGED t

\* mds.restart_with_args(["--mds_kill_create_at=1"])
KillStart ==
  /\ pc = "killstart"
  /\ daemon' = "killrun" /\ pc' = "waitexit"
  /\ UNCHANGED <<state, t, err>>

\* mds.wait_for_exit(): exit status 1 is the kill point; any other
\* non-zero status is re-raised; a clean exit raises nothing.
WaitExit ==
  /\ pc = "waitexit"
  /\ daemon = "killrun"
  /\ daemon' = "exited"
  /\ \E status \in {0, 1, 2} :
       IF status = 2 THEN Fail("exit") ELSE pc' = "rmcore" /\ UNCHANGED err
  /\ UNCHANGED <<state, t>>

\* rm -f {archive}/coredump/*.core
RmCore ==
  /\ pc = "rmcore"
  /\ pc' = "checkcreating"
  /\ UNCHANGED <<daemon, state, t, err>>

\* assert status['state'] == 'up:creating'
CheckCreating ==
  /\ pc = "checkcreating"
  /\ IF state = "up:creating" THEN pc' = "restart" /\ UNCHANGED err
     ELSE Fail("notcreating")
  /\ UNCHANGED <<daemon, state, t>>

\* mds.restart(), then t = 0 before the loop.
Restart ==
  /\ pc = "restart"
  /\ daemon' = "running" /\ pc' = "poll" /\ t' = 0
  /\ UNCHANGED <<state, err>>

\* Bug variant of Poll: `>=` for `>` in the timeout test.
PollEarlyTimeout ==
  /\ pc = "poll"
  /\ CASE state = "up:active" -> pc' = "active" /\ UNCHANGED err
       [] state = "up:creating" ->
            IF t >= CreateTimeout THEN Fail("timeout")
            ELSE pc' = "sleep" /\ UNCHANGED err
       [] OTHER -> Fail("unexpected")
  /\ UNCHANGED <<daemon, state, t>>

\* One iteration of the while loop: break on up:active; on up:creating
\* raise if t > create_timeout, else sleep; assert on any other state.
Poll ==
  /\ pc = "poll"
  /\ CASE state = "up:active" -> pc' = "active" /\ UNCHANGED err
       [] state = "up:creating" ->
            IF t > CreateTimeout THEN Fail("timeout")
            ELSE pc' = "sleep" /\ UNCHANGED err
       [] OTHER -> Fail("unexpected")
  /\ UNCHANGED <<daemon, state, t>>

\* Bug variant of Sleep: the counter is not incremented.
SleepNoCount ==
  /\ pc = "sleep"
  /\ pc' = "poll"
  /\ UNCHANGED <<daemon, state, t, err>>

\* Bug variant of Sleep: the counter is incremented twice.
SleepTwice ==
  /\ pc = "sleep"
  /\ t' = t + 2 /\ pc' = "poll"
  /\ UNCHANGED <<daemon, state, err>>

\* t += 1; time.sleep(1)
Sleep ==
  /\ pc = "sleep"
  /\ t' = t + 1 /\ pc' = "poll"
  /\ UNCHANGED <<daemon, state, err>>

TaskStep ==
  \/ Reset \/ KillStart \/ WaitExit \/ RmCore \/ CheckCreating
  \/ Restart \/ Poll \/ Sleep

---------------------------------------------------------------------------
(* The environment: what the monitor reports.                              *)

\* A started daemon registers and enters up:creating.
EnvCreating ==
  /\ daemon \in {"killrun", "running"} /\ state = "none"
  /\ state' = "up:creating"
  /\ UNCHANGED <<pc, daemon, t, err>>

\* The daemon started without the kill flag finishes creation.
EnvActive ==
  /\ daemon = "running" /\ state = "up:creating"
  /\ state' = "up:active"
  /\ UNCHANGED <<pc, daemon, t, err>>

\* The monitor reports some other state (laggy, failed, replay).
EnvOther ==
  /\ daemon \in {"killrun", "exited", "running"}
  /\ state # "other"
  /\ state' = "other"
  /\ UNCHANGED <<pc, daemon, t, err>>

\* task() has yielded to the nested tasks or raised.
Finished ==
  /\ pc \in {"active", "failed"}
  /\ UNCHANGED vars

Next == TaskStep \/ EnvCreating \/ EnvActive \/ EnvOther \/ Finished

\* The task's own steps are taken; nothing is assumed of the cluster.
Spec == Init /\ [][Next]_vars /\ WF_vars(TaskStep)

---------------------------------------------------------------------------
(* Properties                                                              *)

TypeOK ==
  /\ pc \in {"reset", "killstart", "waitexit", "rmcore", "checkcreating",
             "restart", "poll", "sleep", "active", "failed"}
  /\ daemon \in {"up", "stopped", "killrun", "exited", "running"}
  /\ state \in States
  /\ t \in 0..CreateTimeout + 1
  /\ err \in {"none", "reset", "exit", "notcreating", "timeout", "unexpected"}

\* The wait for up:active implements the poller contract: it succeeds on
\* the first up:active it reads, fails at once on a state it does not
\* expect, and gives up only once more than create_timeout seconds have
\* passed, the check at the boundary still counting.
Poller == INSTANCE ConditionPoller
            WITH Values <- States, Expected <- "up:active", Rejected <- {},
                 Timeout <- CreateTimeout,
                 elapsed <- t,
                 phase <- CASE pc = "sleep" -> "wait"
                            [] pc = "active" -> "satisfied"
                            [] err = "timeout" -> "timedout"
                            [] err = "unexpected" -> "raised"
                            [] OTHER -> "check"
CreationWaitContract == Poller!Spec

\* The task ends, yielding or raising, whatever the cluster does: the
\* creating wait is bounded even if the MDS never becomes active.
Termination == <>(pc \in {"active", "failed"})

=============================================================================
