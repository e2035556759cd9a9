------------------------- MODULE RetryingCommandRunner -------------------------
(***************************************************************************)
(* The contract of runWithRetry(command, maxAttempts, delay) (spec.md     *)
(* 4.3), for one caller that makes one call after another.  The runner is *)
(* written from the spec: it is the abstract specification the admin      *)
(* socket's hand-written retry loop (_socket_command) is shown against.   *)
(*                                                                         *)
(* A call attempts the command; a success ends the call with that         *)
(* attempt's result; a failure is retried while attempts remain, and the  *)
(* failure of the last of MaxAttempts attempts ends the call as           *)
(* exhausted.  An unrecoverable error propagates at once, without using   *)
(* an attempt.  Exhausted and propagated calls raise to the caller.       *)
(***************************************************************************)
EXTENDS Naturals

CONSTANT MaxAttempts    \* maxAttempts of every call

ASSUME MaxAttempts \in Nat \ {0}

VARIABLES
  rstate,   \* "idle" (no call), "attempting", "succeeded", "exhausted",
            \* "propagated"
  made      \* attempts made by the current call

vars == <<rstate, made>>

Init == rstate = "idle" /\ made = 0

\* The caller starts a call.
Call ==
  /\ rstate = "idle"
  /\ rstate' = "attempting"
  /\ UNCHANGED made

\* One attempt: success ends the call; a failure is retried, unless it
\* was the last attempt of the budget.
Attempt ==
  /\ rstate = "attempting" /\ made < MaxAttempts
  /\ made' = made + 1
  /\ \/ rstate' = "succeeded"
     \/ made' < MaxAttempts /\ rstate' = "attempting"
     \/ made' = MaxAttempts /\ rstate' = "exhausted"

\* An error unrelated to the command's status propagates at once.
Propagate ==
  /\ rstate = "attempting"
  /\ rstate' = "propagated"
  /\ UNCHANGED made

\* The caller has taken the result of a successful call, and may start
\* its next call in the same step.
Return ==
  /\ rstate = "succeeded"
  /\ rstate' \in {"idle", "attempting"} /\ made' = 0

Next == Call \/ Attempt \/ Propagate \/ Return

Spec == Init /\ [][Next]_vars

=============================================================================
