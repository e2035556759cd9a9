-------------------------------- MODULE Cram --------------------------------
(***************************************************************************)
(* The cram task (src/tasks/cram.py).  In a try block, for each client in  *)
(* the order of the clients dict, task() makes archive/cram.<role>, the    *)
(* host's virtualenv with cram, and fetches the client's .t files; then it *)
(* runs cram on every client in one parallel() scope.  The finally clause  *)
(* walks the same dict: it removes each test file that has no .err next to *)
(* it, removes the host's virtualenv and rmdirs the client dir unless it   *)
(* is non-empty.                                                           *)
(*                                                                         *)
(* Tests are numbered 1..NTests per client; what a client's dir holds is  *)
(* the set of its fetched tests and the set of its .err files.             *)
(***************************************************************************)
EXTENDS Naturals, Sequences

CONSTANTS
  Order,       \* the clients in the order clients.iteritems() yields them
  Hosts,       \* the remotes
  HostOf,      \* HostOf[c]: the remote client c runs on
  NTests       \* number of .t urls per client

Clients == {Order[i] : i \in 1..Len(Order)}
Tests == 1..NTests

ASSUME /\ HostOf \in [Clients -> Hosts]
       /\ NTests \in Nat \ {0}

VARIABLES
  main,      \* where task() is
  i,         \* index in Order of the client the current loop is at
  j,         \* index of the test being fetched
  dir,       \* per client: archive/cram.<role> exists
  files,     \* per client: the .t files in its dir
  errs,      \* per client: the tests whose .err file cram left in its dir
  venv,      \* per host: {tdir}/virtualenv exists
  wpc,       \* per client: its _run_tests greenlet
  first,     \* the first exception raised in the try block, or "none"
  raised     \* the exception task() propagates, or "none"

vars == <<main, i, j, dir, files, errs, venv, wpc, first, raised>>

Init ==
  /\ main = "setup" /\ i = 1 /\ j = 1
  /\ dir = [c \in Clients |-> FALSE]
  /\ files = [c \in Clients |-> {}]
  /\ errs = [c \in Clients |-> {}]
  /\ venv = [h \in Hosts |-> FALSE]
  /\ wpc = [c \in Clients |-> "idle"]
  /\ first = "none" /\ raised = "none"

\* An exception in the try block: the finally loop starts at the first
\* client of the dict.
Fail(e) ==
  /\ main' = "cleanfiles" /\ i' = 1
  /\ first' = e /\ raised' = e

---------------------------------------------------------------------------
(* The try block.                                                          *)

\* `mkdir -- client_dir && virtualenv venv && pip install cram==0.6`:
\* mkdir succeeds on a fresh test dir; virtualenv or pip may fail.
Setup ==
  LET c == Order[i] IN
  /\ main = "setup"
  /\ i <= Len(Order)
  /\ dir' = [dir EXCEPT ![c] = TRUE]
  /\ \/ /\ venv' = [venv EXCEPT ![HostOf[c]] = TRUE]
        /\ main' = "fetch" /\ j' = 1
        /\ UNCHANGED <<i, first, raised>>
     \/ /\ venv' \in {venv, [venv EXCEPT ![HostOf[c]] = TRUE]}
        /\ Fail("setup") /\ UNCHANGED j
  /\ UNCHANGED <<files, errs, wpc>>

\* Bug variant of Fetch: `<=` for `<` on the test index.
FetchOffByOne ==
  LET c == Order[i] IN
  /\ main = "fetch"
  /\ \/ /\ files' = [files EXCEPT ![c] = @ \cup {j}]
        /\ IF j <= NTests THEN j' = j + 1 /\ UNCHANGED <<main, i>>
           ELSE main' = "setup" /\ i' = i + 1 /\ UNCHANGED j
        /\ UNCHANGED <<first, raised>>
     \/ Fail("setup") /\ UNCHANGED <<files, j>>
  /\ UNCHANGED <<dir, errs, venv, wpc>>

\* wget -nc -P client_dir -- test: fetch test j of the client.
Fetch ==
  LET c == Order[i] IN
  /\ main = "fetch"
  /\ \/ /\ files' = [files EXCEPT ![c] = @ \cup {j}]
        /\ IF j < NTests THEN j' = j + 1 /\ UNCHANGED <<main, i>>
           ELSE main' = "setup" /\ i' = i + 1 /\ UNCHANGED j
        /\ UNCHANGED <<first, raised>>
     \/ Fail("setup") /\ UNCHANGED <<files, j>>
  /\ UNCHANGED <<dir, errs, venv, wpc>>

\* The setup loop is done: enter `with parallel() as p`.
OpenScope ==
  /\ main = "setup"
  /\ i > Len(Order)
  /\ main' = "spawn"
  /\ UNCHANGED <<i, j, dir, files, errs, venv, wpc, first, raised>>

\* p.spawn(_run_tests, ctx, role)
Spawn(c) ==
  /\ main = "spawn"
  /\ wpc[c] = "idle"
  /\ wpc' = [wpc EXCEPT ![c] = "running"]
  /\ UNCHANGED <<main, i, j, dir, files, errs, venv, first, raised>>

Close ==
  /\ main = "spawn"
  /\ \A c \in Clients : wpc[c] # "idle"
  /\ main' = "joining"
  /\ UNCHANGED <<i, j, dir, files, errs, venv, wpc, first, raised>>

\* _run_tests: `cram -v -- client_dir/*.t`; cram writes a .err file for
\* each failing test and exits non-zero if any failed.
RunCram(c) ==
  /\ wpc[c] = "running"
  /\ \E failed \in SUBSET files[c] :
       /\ errs' = [errs EXCEPT ![c] = failed]
       /\ wpc' = [wpc EXCEPT ![c] = IF failed = {} THEN "done" ELSE "failed"]
  /\ UNCHANGED <<main, i, j, dir, files, venv, first, raised>>

\* Scope exit: wait for every client; raise if one failed.
Join ==
  /\ main = "joining"
  /\ \A c \in Clients : wpc[c] \in {"done", "failed"}
  /\ IF \E c \in Clients : wpc[c] = "failed"
       THEN Fail("run")
       ELSE main' = "cleanfiles" /\ i' = 1 /\ UNCHANGED <<first, raised>>
  /\ UNCHANGED <<j, dir, files, errs, venv, wpc>>

---------------------------------------------------------------------------
(* The finally block.                                                      *)

\* Bug variant of CleanFiles: the `test -f f.err ||` guard is dropped.
CleanFilesAll ==
  LET c == Order[i] IN
  /\ main = "cleanfiles"
  /\ i <= Len(Order)
  /\ files' = [files EXCEPT ![c] = {}]
  /\ main' = "rmdir"
  /\ UNCHANGED <<i, j, dir, errs, venv, wpc, first, raised>>

\* `test -f f.err || rm -f -- f` for each of the client's test files.
CleanFiles ==
  LET c == Order[i] IN
  /\ main = "cleanfiles"
  /\ i <= Len(Order)
  /\ files' = [files EXCEPT ![c] = @ \cap errs[c]]
  /\ main' = "rmdir"
  /\ UNCHANGED <<i, j, dir, errs, venv, wpc, first, raised>>

\* `rm -rf -- venv ; rmdir --ignore-fail-on-non-empty client_dir`: the
\* status is rmdir's, which fails when the dir does not exist; the
\* CommandFailedError replaces the exception in flight.
RemoveDir ==
  LET c == Order[i] IN
  /\ main = "rmdir"
  /\ venv' = [venv EXCEPT ![HostOf[c]] = FALSE]
  /\ IF ~dir[c]
       THEN main' = "raised" /\ raised' = "cleanup"
            /\ UNCHANGED <<i, dir>>
       ELSE /\ dir' = [dir EXCEPT ![c] = files[c] \cup errs[c] # {}]
            /\ main' = "cleanfiles" /\ i' = i + 1
            /\ UNCHANGED raised
  /\ UNCHANGED <<j, files, errs, wpc, first>>

\* The finally loop is done: return, or re-raise the exception in flight.
EndCleanup ==
  /\ main = "cleanfiles"
  /\ i > Len(Order)
  /\ main' = IF raised = "none" THEN "returned" ELSE "raised"
  /\ UNCHANGED <<i, j, dir, files, errs, venv, wpc, first, raised>>

\* task() has returned or raised.
Finished ==
  /\ main \in {"returned", "raised"}
  /\ UNCHANGED vars

Next ==
  \/ Setup \/ Fetch \/ OpenScope \/ Close \/ Join
  \/ CleanFiles \/ RemoveDir \/ EndCleanup
  \/ \E c \in Clients : Spawn(c) \/ RunCram(c)
  \/ Finished

\* Remote commands return and the greenlets are scheduled.
Fairness ==
  /\ WF_vars(Setup \/ Fetch \/ OpenScope \/ Close \/ Join)
  /\ WF_vars(CleanFiles \/ RemoveDir \/ EndCleanup)
  /\ \A c \in Clients : WF_vars(Spawn(c)) /\ WF_vars(RunCram(c))

Spec == Init /\ [][Next]_vars /\ Fairness

---------------------------------------------------------------------------
(* Properties                                                              *)

Errors == {"none", "setup", "run", "cleanup"}

TypeOK ==
  /\ main \in {"setup", "fetch", "spawn", "joining", "cleanfiles", "rmdir",
               "returned", "raised"}
  /\ i \in 1..Len(Order) + 1 /\ j \in Tests
  /\ dir \in [Clients -> BOOLEAN] /\ venv \in [Hosts -> BOOLEAN]
  /\ files \in [Clients -> SUBSET Tests] /\ errs \in [Clients -> SUBSET Tests]
  /\ wpc \in [Clients -> {"idle", "running", "done", "failed"}]
  /\ first \in Errors /\ raised \in Errors

\* What the finally leaves in the archive once task() is over, whichever
\* step failed and even when the finally loop itself raised: exactly the
\* failed tests' .t and .err files, a client dir only where one is kept,
\* and no virtualenv on any host.
ArchiveKeepsOnlyFailures ==
  main \in {"returned", "raised"} =>
    /\ \A c \in Clients : /\ files[c] = errs[c]
                         /\ dir[c] = (errs[c] # {})
    /\ \A h \in Hosts : ~venv[h]

\* The comment on the cleanup command says its failure is ignored: the
\* exception task() raises is the one the try block raised first, never
\* one from the cleanup.
FirstErrorReported == main = "raised" => raised = first

=============================================================================
