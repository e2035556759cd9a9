----------------------------- MODULE AdminSocket -----------------------------
(***************************************************************************)
(* The admin_socket task (src/tasks/admin_socket.py).  The task spawns one *)
(* _run_tests per client in a parallel() scope.  Each client makes a temp  *)
(* dir, waits for the client daemon's admin socket to appear, and for each *)
(* configured command: fetches the test program (when one is named), runs *)
(* the command through the retrying _socket_command, and feeds its JSON to *)
(* the test program.  The temp dir is removed in a `finally`.              *)
(*                                                                         *)
(* Data is abstracted to what the properties tell apart: a command's       *)
(* config is whether it names a test program; what an attempt prints on    *)
(* stdout is "json" (exit 0), nothing, or "noise" (a failing attempt).     *)
(***************************************************************************)
EXTENDS Naturals, Sequences

CONSTANTS
  Clients,     \* client roles named in the task's config
  Commands,    \* Commands[c]: per command of c, TRUE iff its config has 'test'
  MaxTries     \* max_tries of _socket_command (120 in the code)

ASSUME /\ Commands \in [Clients -> Seq(BOOLEAN)]
       /\ MaxTries \in Nat

VARIABLES
  pc,        \* per client: where its _run_tests is
  tmp,       \* per client: tmp_dir exists on the remote
  sock,      \* per client: the daemon's admin socket file exists
  cur,       \* per client: index of the command being tested
  tries,     \* per client: max_tries of the running _socket_command
  attempts,  \* per client: remote.run calls made by that _socket_command
  buf,       \* per client: what json_fp holds (one StringIO per call)
  err,       \* per client: the error its _run_tests raises, or "none"
  scope,     \* the parallel() scope of task(): open, joining, returned, raised
  report     \* the clients the scope's aggregated failure names

vars == <<pc, tmp, sock, cur, tries, attempts, buf, err, scope, report>>

Errors == {"none", "CommandFailed", "AssertionError", "ValueError"}
Output == {"json", "noise"}
AttemptResults == {"ok", "fail", "failnoisy"}

\* Model bound: more attempts than any run of the loop can make.
AttemptCap == MaxTries + 2

Init ==
  /\ pc = [c \in Clients |-> "idle"]
  /\ tmp = [c \in Clients |-> FALSE]
  /\ sock \in [Clients -> BOOLEAN]
  /\ cur = [c \in Clients |-> 1]
  /\ tries = [c \in Clients |-> MaxTries]
  /\ attempts = [c \in Clients |-> 0]
  /\ buf = [c \in Clients |-> <<>>]
  /\ err = [c \in Clients |-> "none"]
  /\ scope = "open"
  /\ report = {}

Goto(c, l) == pc' = [pc EXCEPT ![c] = l]

\* An exception in the try block: the finally clause runs next.
Raise(c, e) == /\ Goto(c, "cleanup")
               /\ err' = [err EXCEPT ![c] = e]

\* The label of command i of c: fetch its test program first if it has one.
CommandStart(c, i) ==
  IF i > Len(Commands[c]) THEN "cleanup"
  ELSE IF Commands[c][i] THEN "fetch" ELSE "sock"

\* Entering a command: a fresh json_fp and max_tries = 120.
BeginCommand(c, i) ==
  /\ cur' = [cur EXCEPT ![c] = i]
  /\ tries' = [tries EXCEPT ![c] = MaxTries]
  /\ attempts' = [attempts EXCEPT ![c] = 0]
  /\ buf' = [buf EXCEPT ![c] = <<>>]
  /\ Goto(c, CommandStart(c, i))

---------------------------------------------------------------------------
(* task(): the parallel() scope.                                           *)

\* ptask.spawn(_run_tests, ctx, client, tests)
Spawn(c) ==
  /\ scope = "open"
  /\ pc[c] = "idle"
  /\ Goto(c, "setup")
  /\ UNCHANGED <<tmp, sock, cur, tries, attempts, buf, err, scope, report>>

\* The for loop has spawned every client: the `with` body ends.
Close ==
  /\ scope = "open"
  /\ \A c \in Clients : pc[c] # "idle"
  /\ scope' = "joining"
  /\ UNCHANGED <<pc, tmp, sock, cur, tries, attempts, buf, err, report>>

\* Scope exit waits for all and raises if any client's _run_tests raised.
Join ==
  /\ scope = "joining"
  /\ \A c \in Clients : pc[c] \in {"done", "failed"}
  /\ report' = {c \in Clients : pc[c] = "failed"}
  /\ scope' = IF report' = {} THEN "returned" ELSE "raised"
  /\ UNCHANGED <<pc, tmp, sock, cur, tries, attempts, buf, err>>

---------------------------------------------------------------------------
(* _run_tests(ctx, client, tests)                                          *)

\* `mkdir -- tmp_dir && while test ! -e socket; do sleep 1; done`: the
\* mkdir half; the remote command fails if mkdir fails.
MakeTmpDir(c) ==
  /\ pc[c] = "setup"
  /\ \/ /\ tmp' = [tmp EXCEPT ![c] = TRUE]
        /\ Goto(c, "waitsock")
        /\ UNCHANGED err
     \/ /\ Raise(c, "CommandFailed")
        /\ UNCHANGED tmp
  /\ UNCHANGED <<sock, cur, tries, attempts, buf, scope, report>>

\* The shell loop returns once the socket exists; then the first command.
WaitSocket(c) ==
  /\ pc[c] = "waitsock"
  /\ sock[c]
  /\ BeginCommand(c, 1)
  /\ UNCHANGED <<tmp, sock, err, scope, report>>

\* wget -O test_path url && chmod u=rx test_path
FetchTest(c) ==
  /\ pc[c] = "fetch"
  /\ \/ /\ Goto(c, "sock")
        /\ UNCHANGED err
     \/ Raise(c, "CommandFailed")
  /\ UNCHANGED <<tmp, sock, cur, tries, attempts, buf, scope, report>>

\* What one attempt leaves in json_fp: stdout is appended, never reset.
Printed(r) == CASE r = "ok" -> <<"json">>
                [] r = "failnoisy" -> <<"noise">>
                [] r = "fail" -> <<>>

\* json.loads(json_fp.getvalue()) parses only one JSON document.
ParsesAsJson(s) == s = <<"json">>

\* The socket command is done: parse it, then run its test or go on.
AfterSocketCommand(c, out) ==
  IF ~ParsesAsJson(out) THEN Raise(c, "ValueError")
  ELSE /\ Goto(c, IF Commands[c][cur[c]] THEN "runtest" ELSE "next")
       /\ UNCHANGED err

\* Bug variant of SocketAttempt: no `assert max_tries > 0`.
SocketAttemptNoAssert(c) ==
  /\ pc[c] = "sock"
  /\ attempts[c] < AttemptCap
  /\ \E r \in AttemptResults :
       LET out == buf[c] \o Printed(r) IN
       /\ attempts' = [attempts EXCEPT ![c] = @ + 1]
       /\ buf' = [buf EXCEPT ![c] = out]
       /\ IF r = "ok"
            THEN AfterSocketCommand(c, out) /\ UNCHANGED tries
            ELSE tries' = [tries EXCEPT ![c] = @ - 1] /\ UNCHANGED <<pc, err>>
  /\ UNCHANGED <<tmp, sock, cur, scope, report>>

\* Bug variant of SocketAttempt: max_tries is never decremented.
SocketAttemptNoDecrement(c) ==
  /\ pc[c] = "sock"
  /\ attempts[c] < AttemptCap
  /\ \E r \in AttemptResults :
       LET out == buf[c] \o Printed(r) IN
       /\ attempts' = [attempts EXCEPT ![c] = @ + 1]
       /\ buf' = [buf EXCEPT ![c] = out]
       /\ IF r = "ok"
            THEN AfterSocketCommand(c, out) /\ UNCHANGED tries
            ELSE IF tries[c] > 0 THEN UNCHANGED <<pc, err, tries>>
            ELSE Raise(c, "AssertionError") /\ UNCHANGED tries
  /\ UNCHANGED <<tmp, sock, cur, scope, report>>

\* One iteration of _socket_command's while loop: remote.run with
\* check_status=False; break on exit 0, else assert max_tries > 0,
\* decrement it and sleep.
SocketAttempt(c) ==
  /\ pc[c] = "sock"
  /\ attempts[c] < AttemptCap
  /\ \E r \in AttemptResults :
       LET out == buf[c] \o Printed(r) IN
       /\ attempts' = [attempts EXCEPT ![c] = @ + 1]
       /\ buf' = [buf EXCEPT ![c] = out]
       /\ IF r = "ok"
            THEN /\ AfterSocketCommand(c, out)
                 /\ UNCHANGED tries
            ELSE IF tries[c] > 0
              THEN /\ tries' = [tries EXCEPT ![c] = @ - 1]
                   /\ UNCHANGED <<pc, err>>
              ELSE /\ Raise(c, "AssertionError")
                   /\ UNCHANGED tries
  /\ UNCHANGED <<tmp, sock, cur, scope, report>>

\* remote.run(args=[test_path], stdin=json.dumps(sock_out))
RunTest(c) ==
  /\ pc[c] = "runtest"
  /\ \/ /\ Goto(c, "next")
        /\ UNCHANGED err
     \/ Raise(c, "CommandFailed")
  /\ UNCHANGED <<tmp, sock, cur, tries, attempts, buf, scope, report>>

\* The next iteration of `for command, config in tests.iteritems()`.
NextCommand(c) ==
  /\ pc[c] = "next"
  /\ BeginCommand(c, cur[c] + 1)
  /\ UNCHANGED <<tmp, sock, err, scope, report>>

\* Bug variant of Cleanup: tmp_dir is removed only on success.
CleanupOnlyOnSuccess(c) ==
  /\ pc[c] = "cleanup"
  /\ tmp' = [tmp EXCEPT ![c] = IF err[c] = "none" THEN FALSE ELSE @]
  /\ Goto(c, IF err[c] = "none" THEN "done" ELSE "failed")
  /\ UNCHANGED <<sock, cur, tries, attempts, buf, err, scope, report>>

\* finally: rm -rf -- tmp_dir; then return, or re-raise the error.
Cleanup(c) ==
  /\ pc[c] = "cleanup"
  /\ tmp' = [tmp EXCEPT ![c] = FALSE]
  /\ Goto(c, IF err[c] = "none" THEN "done" ELSE "failed")
  /\ UNCHANGED <<sock, cur, tries, attempts, buf, err, scope, report>>

\* The client daemon started by an earlier task creates its admin socket.
SocketCreated(c) ==
  /\ ~sock[c]
  /\ sock' = [sock EXCEPT ![c] = TRUE]
  /\ UNCHANGED <<pc, tmp, cur, tries, attempts, buf, err, scope, report>>

Step(c) ==
  \/ MakeTmpDir(c) \/ WaitSocket(c) \/ FetchTest(c) \/ SocketAttempt(c)
  \/ RunTest(c) \/ NextCommand(c) \/ Cleanup(c)

\* task() has returned or raised: the run stops here.
Finished ==
  /\ scope \in {"returned", "raised"}
  /\ UNCHANGED vars

Next ==
  \/ \E c \in Clients : Spawn(c) \/ Step(c) \/ SocketCreated(c)
  \/ Close
  \/ Join
  \/ Finished

\* Remote commands return, the greenlets are scheduled, and the daemon
\* the task's docstring requires does create its socket.
Fairness ==
  /\ \A c \in Clients : WF_vars(Step(c)) /\ WF_vars(SocketCreated(c))
  /\ \A c \in Clients : WF_vars(Spawn(c))
  /\ WF_vars(Close) /\ WF_vars(Join)

Spec == Init /\ [][Next]_vars /\ Fairness

---------------------------------------------------------------------------
(* Properties                                                              *)

TypeOK ==
  /\ pc \in [Clients -> {"idle", "setup", "waitsock", "fetch", "sock",
                          "runtest", "next", "cleanup", "done", "failed"}]
  /\ tmp \in [Clients -> BOOLEAN] /\ sock \in [Clients -> BOOLEAN]
  /\ cur \in [Clients -> Nat] /\ tries \in [Clients -> 0..MaxTries]
  /\ attempts \in [Clients -> 0..AttemptCap]
  /\ buf \in [Clients -> Seq(Output)] /\ err \in [Clients -> Errors]
  /\ scope \in {"open", "joining", "returned", "raised"}
  /\ report \in SUBSET Clients

\* Once task() has left its parallel() scope, normally or by raising, no
\* client's admin_socket_<client> temp dir is left on its remote: the
\* finally of every _run_tests, on every exit path, ran before the join.
TmpDirGoneAfterScope ==
  scope \in {"returned", "raised"} => \A c \in Clients : ~tmp[c]

\* The task ends: every client's tests run to completion or failure and
\* the scope exits (given that each client's daemon creates its socket).
Termination == <>(scope \in {"returned", "raised"})

\* Each client's _socket_command calls implement the retry contract of
\* spec.md 4.3 with maxAttempts = max_tries: a call makes at most
\* max_tries attempts, its last failure ends it as exhausted, and an
\* attempt that exits 0 ends it with that attempt's result.
Call(c) ==
  CASE pc[c] = "sock" -> "attempting"
    [] pc[c] \in {"runtest", "next"} -> "succeeded"
    [] err[c] = "AssertionError" -> "exhausted"
    [] err[c] = "ValueError" -> "propagated"
    [] OTHER -> "idle"
RC(c) == INSTANCE RetryingCommandRunner
           WITH MaxAttempts <- MaxTries,
                rstate <- Call(c),
                made <- IF Call(c) = "idle" THEN 0 ELSE attempts[c]
RetryContract ==
  /\ \A c \in Clients : RC(c)!Init
  /\ [][\A c \in Clients : RC(c)!Next \/ UNCHANGED RC(c)!vars]_vars

=============================================================================
