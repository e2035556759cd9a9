--------------------------- MODULE ConditionPoller ---------------------------
(***************************************************************************)
(* The contract of the condition-polling combinator (spec.md 4.2):        *)
(* waitUntilEqual(supplier, expected, timeout, earlyReject).  The poller   *)
(* itself (wait_until_true / wait_until_equal of zbkcfs_test_case) is not  *)
(* part of this repository, so this module is written from the spec; the  *)
(* hand-written polls of the tasks are shown to implement it.              *)
(*                                                                         *)
(* Time is counted in whole ticks from the first check.  A check reads the *)
(* supplier once: the expected value ends the poll successfully, a value  *)
(* the early-rejection predicate accepts ends it as rejected, and any      *)
(* other value ends it as timed out once more than Timeout ticks have     *)
(* passed, the check at the boundary still counting.  A supplier that     *)
(* raises ends the poll at once with that exception.                       *)
(***************************************************************************)
EXTENDS Naturals

CONSTANTS
  Values,      \* what the supplier can return
  Expected,    \* the value waited for
  Rejected,    \* the values earlyReject accepts
  Timeout      \* the timeout, in ticks

ASSUME Expected \in Values /\ Rejected \subseteq Values \ {Expected}

VARIABLES
  elapsed,     \* ticks since the first check
  phase        \* "check", "wait", "satisfied", "rejected", "timedout", "raised"

vars == <<elapsed, phase>>

Ends == {"satisfied", "rejected", "timedout", "raised"}

Init == elapsed = 0 /\ phase = "check"

\* Evaluate the supplier once and decide.
Check(v) ==
  /\ phase = "check"
  /\ phase' = CASE v = Expected -> "satisfied"
                [] v \in Rejected -> "rejected"
                [] elapsed > Timeout -> "timedout"
                [] OTHER -> "wait"
  /\ UNCHANGED elapsed

\* The supplier raised: the exception propagates.
Raise ==
  /\ phase = "check"
  /\ phase' = "raised"
  /\ UNCHANGED elapsed

\* Time passes between two checks.
Wait ==
  /\ phase = "wait"
  /\ elapsed' > elapsed
  /\ phase' = "check"

Next ==
  \/ \E v \in Values : Check(v)
  \/ Raise
  \/ Wait

Spec == Init /\ [][Next]_vars

=============================================================================
