------------------------------ MODULE DumpStuck ------------------------------
(***************************************************************************)
(* The dump_stuck task (src/tasks/dump_stuck.py) on its two OSDs.  The     *)
(* task marks osd.0 out and in, kills osd.0 and then osd.1, and after each *)
(* kill busy-polls check_stuck until the stuck counts are what it expects  *)
(* or 900 s have passed; then it revives both OSDs and retries the two     *)
(* `flush_pg_stats` tells, with no bound, until both answer.               *)
(*                                                                         *)
(* check_stuck is two steps: the three `get_stuck_pgs` reads with their    *)
(* asserts, then the `health` read, whose line for a category it expects  *)
(* to be non-zero must be present (else `m.group` raises AttributeError)   *)
(* and show the expected count (else AssertionError).                      *)
(*                                                                         *)
(* The monitor's stuck counts are the environment and may change between *)
(* any two steps, the two reads of check_stuck included.  The ceph_manager *)
(* calls (get_stuck_pgs, raw_cluster_cmd, the waits, kill/revive/mark) are *)
(* not in this repository: each may return or raise.                       *)
(***************************************************************************)
EXTENDS Naturals, FiniteSets

CONSTANTS
  NPgs,          \* num_pgs, the count get_num_pgs returns
  PollTimeout    \* the 900 s budget of each poll, in ticks

ASSUME NPgs \in Nat \ {0} /\ PollTimeout \in Nat

Osds == {0, 1}
Categories == {"inactive", "unclean", "stale"}

\* A value of the three counts.  Only no or one PG is ever stuck inactive
\* in this scenario's checks, so inactive takes the values 0 and 1.
Counts == [inactive : 0..1, unclean : 0..NPgs, stale : 0..NPgs]

VARIABLES
  pc,      \* the statement of task() being run
  sub,     \* inside check_stuck: "stuck" (get_stuck_pgs) or "health"
  osd,     \* osd[o]: "up", "down" (killed) or "starting" (revived)
  stuck,   \* the stuck counts the monitor reports
  now,     \* time.time(), in ticks
  start,   \* starttime of the current poll
  err      \* the exception task() raised, or "none"

vars == <<pc, sub, osd, stuck, now, start, err>>

Polls == {"poll0", "poll1"}

\* The counts each check_stuck call passes.
Expected(p) ==
  CASE p \in {"check0", "check2", "check3"} ->
         [inactive |-> 0, unclean |-> 0, stale |-> 0]
    [] p \in {"check1", "poll0"} ->
         [inactive |-> 0, unclean |-> NPgs, stale |-> 0]
    [] p = "poll1" ->
         [inactive |-> 0, unclean |-> NPgs, stale |-> NPgs]

\* Where check_stuck returns to.
After(p) ==
  CASE p = "check0" -> "markout"  [] p = "check1" -> "markin"
    [] p = "check2" -> "kill0"    [] p = "poll0" -> "kill1"
    [] p = "poll1" -> "revive"    [] p = "check3" -> "done"

Checks == {"check0", "check1", "check2", "check3"} \cup Polls

Init ==
  /\ pc = "prepare" /\ sub = "stuck"
  /\ osd = [o \in Osds |-> "up"]
  /\ stuck \in Counts
  /\ now = 0 /\ start = 0 /\ err = "none"

Running == err = "none"

Raise(e) == err' = e /\ UNCHANGED <<pc, sub>>

\* The two flush tells, wait_for_clean and the stuck threshold injectargs.
Prepare ==
  /\ Running /\ pc = "prepare"
  /\ \/ pc' = "check0" /\ UNCHANGED <<sub, err>>
     \/ Raise("cmd")
  /\ UNCHANGED <<osd, stuck, now, start>>

\* An AssertionError of check_stuck: caught by the polls, which retry
\* unless more than 900 s have passed since starttime; raised elsewhere.
AssertFails ==
  IF pc \in Polls /\ now - start <= PollTimeout
  THEN sub' = "stuck" /\ UNCHANGED <<pc, err>>
  ELSE Raise("assert")

\* The three get_stuck_pgs reads and their asserts.
CheckStuckPgs ==
  /\ Running /\ pc \in Checks /\ sub = "stuck"
  /\ \/ Raise("cmd")
     \/ IF stuck = Expected(pc) THEN sub' = "health" /\ UNCHANGED <<pc, err>>
        ELSE AssertFails
  /\ UNCHANGED <<osd, stuck, now, start>>

\* The health read: for each category expected non-zero, the line must be
\* there (the monitor omits it for zero) and show the expected count.
CheckHealth ==
  /\ Running /\ pc \in Checks /\ sub = "health"
  /\ \/ Raise("cmd")
     \/ LET want == {c \in Categories : Expected(pc)[c] > 0} IN
          CASE \E c \in want : stuck[c] = 0 -> Raise("attr")
            [] \E c \in want : stuck[c] # Expected(pc)[c] -> AssertFails
            [] OTHER -> pc' = After(pc) /\ sub' = "stuck" /\ UNCHANGED err
  /\ UNCHANGED <<osd, stuck, now, start>>

\* mark_out_osd(0), sleep(timeout), flush osd.1, wait_for_recovery.
MarkOut ==
  /\ Running /\ pc = "markout"
  /\ \/ pc' = "check1" /\ UNCHANGED err
     \/ Raise("cmd")
  /\ UNCHANGED <<sub, osd, stuck, now, start>>

\* mark_in_osd(0), flush both, wait_for_clean.
MarkIn ==
  /\ Running /\ pc = "markin"
  /\ \/ pc' = "check2" /\ UNCHANGED err
     \/ Raise("cmd")
  /\ UNCHANGED <<sub, osd, stuck, now, start>>

\* kill_osd(o), mark_down_osd(o), starttime = time.time().
Kill(o, from, to) ==
  /\ Running /\ pc = from
  /\ osd' = [osd EXCEPT ![o] = "down"]
  /\ \/ start' = now /\ pc' = to /\ UNCHANGED err
     \/ Raise("cmd") /\ UNCHANGED start
  /\ UNCHANGED <<sub, stuck, now>>

\* Bug variant of Revive: the loop revives only the first OSD.
ReviveFirstOnly ==
  /\ Running /\ pc = "revive"
  /\ osd' = [osd EXCEPT ![0] = "starting"]
  /\ pc' = "flush"
  /\ UNCHANGED <<sub, stuck, now, start, err>>

\* revive_osd and mark_in_osd for every OSD, in role order; a raise after
\* n revives ends the loop with the first n OSDs started.
Revive ==
  /\ Running /\ pc = "revive"
  /\ \/ osd' = [o \in Osds |-> "starting"] /\ pc' = "flush" /\ UNCHANGED err
     \/ \E n \in 0..Cardinality(Osds) :
          /\ osd' = [o \in Osds |-> IF o < n THEN "starting" ELSE osd[o]]
          /\ Raise("cmd")
  /\ UNCHANGED <<sub, stuck, now, start>>

\* Bug variant of FlushRetry: the loop is left once osd.0's tell answers.
FlushRetryFirstTell ==
  /\ Running /\ pc = "flush"
  /\ pc' = IF osd[0] = "up" THEN "waitclean" ELSE "flush"
  /\ UNCHANGED <<sub, osd, stuck, now, start, err>>

\* One try of the two flush tells: an OSD not yet up makes its tell raise,
\* which is logged, and the loop sleeps a second and tries again.
FlushRetry ==
  /\ Running /\ pc = "flush"
  /\ pc' = IF \A o \in Osds : osd[o] = "up" THEN "waitclean" ELSE "flush"
  /\ UNCHANGED <<sub, osd, stuck, now, start, err>>

\* wait_for_clean(timeout) after the revive.
WaitClean ==
  /\ Running /\ pc = "waitclean"
  /\ \/ pc' = "check3" /\ UNCHANGED err
     \/ Raise("cmd")
  /\ UNCHANGED <<sub, osd, stuck, now, start>>

TaskStep ==
  \/ Prepare \/ CheckStuckPgs \/ CheckHealth \/ MarkOut \/ MarkIn
  \/ Kill(0, "kill0", "poll0") \/ Kill(1, "kill1", "poll1")
  \/ Revive \/ FlushRetry \/ WaitClean

---------------------------------------------------------------------------
(* The environment.                                                        *)

\* The monitor's stuck counts change.
ClusterChange ==
  /\ Running
  /\ \E c \in Counts \ {stuck} : stuck' = c
  /\ UNCHANGED <<pc, sub, osd, now, start, err>>

\* A revived OSD finishes starting and answers tells.
OsdStarted(o) ==
  /\ osd[o] = "starting"
  /\ osd' = [osd EXCEPT ![o] = "up"]
  /\ UNCHANGED <<pc, sub, stuck, now, start, err>>

\* Time passes while a poll runs.  Bound: once more than PollTimeout ticks
\* have passed the next failed check raises, so later ticks change nothing.
Tick ==
  /\ Running /\ pc \in Polls
  /\ now - start <= PollTimeout
  /\ now' = now + 1
  /\ UNCHANGED <<pc, sub, osd, stuck, start, err>>

\* task() has returned or raised.
Finished ==
  /\ pc = "done" \/ ~Running
  /\ UNCHANGED vars

Next ==
  \/ TaskStep \/ ClusterChange \/ Tick \/ Finished
  \/ \E o \in Osds : OsdStarted(o)

\* The task runs; time passes; revived OSD daemons come up.
Spec ==
  /\ Init /\ [][Next]_vars
  /\ WF_vars(TaskStep) /\ WF_vars(Tick)
  /\ \A o \in Osds : WF_vars(OsdStarted(o))

---------------------------------------------------------------------------
(* Properties                                                              *)

\* The final check_stuck, which expects no stuck PG, runs only once both
\* revived OSDs answer: the flush retry leaves its loop only in an
\* iteration where both tells succeeded, and no step takes an OSD down
\* again after the revive.
ChecksAfterReviveWithOsdsUp ==
  pc \in {"waitclean", "check3", "done"} => \A o \in Osds : osd[o] = "up"

\* The task ends: each poll is bounded by its clock, and the unbounded
\* flush retry ends once the revived OSDs are up.
Termination == <>(pc = "done" \/ ~Running)

=============================================================================
