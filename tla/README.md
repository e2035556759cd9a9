# TLA+ models of the ceph-qa-suite tasks

These modules model the test tasks under `src/tasks/` and check them with TLC.
Each task drives a cluster through remote shell commands. Every task is built on
three primitives that `spec.md` describes:

- **ParallelExecutor** (`teuthology.parallel`) fans work out and joins it.
  Each task models its own `parallel()` scope (spawn, the greenlets, the join
  barrier) directly; the contract itself has no module.
- **ConditionPoller** (`wait_until_true`/`wait_until_equal`) polls until a
  condition holds or a timeout fires.
- **RetryingCommandRunner** re-runs a remote command until it succeeds.

None of the three is defined in this repository: `parallel` and the poller live in
teuthology and `zbkcfs_test_case`. The one retry loop the repository has is
written inline in `admin_socket._socket_command`.

Tasks of a job are entered as nested context managers. Each task sets up,
yields, and runs its `finally` only after every task nested inside it has
returned or raised. Two such stacks are modelled as compositions:
`kclient` around `workunit`, which share the clients' mount points, and
`radosbench` around `watch_notify_stress`, whose thrashers run against the
cluster while the outer task waits for its benches. The second stack is in turn
preceded by `buildpackages`, a plain function task that runs to its end
before the stack is entered, and whose failure means no later task is entered.

## Inventory

| Part | Source | State | Operations | Hard behaviour |
|---|---|---|---|---|
| ParallelExecutor | teuthology (spec 4.1) | spawned items, each item's outcome, scope phase, failure report | spawn, item finishes, body ends, join | join barrier, no cancellation, aggregated failure |
| admin_socket | `admin_socket.py` | per client: temp dir, socket file, command index, `max_tries`, attempts, `json_fp` content, error | mkdir + wait for socket, wget test, socket-command attempts, run test, finally `rm -rf` | retry budget, output accumulated across retries, unbounded socket wait |
| workunit | `workunit.py` | per role: mount point, `client.<id>`, `client.<id>/tmp`, `<subdir>`, clone/src/list dirs; main phase; per (scope, role) `_run_tests` | make scratch dir, spawn, join, delete dir, clone, make, run unit, rm scratch, finally | sequential scopes sharing per-role dirs, cleanup on success and failure, rmdir of a non-empty dir |
| cram | `cram.py` | per client: archive dir, test files, shared virtualenv | setup loop, parallel run, finally cleanup loop | an exception inside the finally skips later clients |
| mds_creation_failure | `mds_creation_failure.py` | MDS state, elapsed time | kill, restart, poll creating state | `t > timeout` bound |
| dump_stuck | `dump_stuck.py` | OSD up/down, PG stuck counts, elapsed time | kill/revive OSDs, bounded polls, unbounded revive loop | busy polls, unbounded retry |
| radosbench | `radosbench.py` | per client: pool, background bench | create pool, start bench, wait with timeout, remove pool | only the last pool is removed |
| kclient | `kclient.py` | order of the roles, clients to mount, mounts, live kernel mounts | mount loop, yield, unmount loop in the finally | mounts made before the try; a failing umount skips the rest |
| rebuild_mondb | `rebuild_mondb.py` | local store dir, per OSD store | push, run tool, pull, rebuild mon | store moved host to host |
| systemd | `systemd.py` | per service: its systemd state; the block being run; logged verdicts | list, stop/start target, per-service check, stop, start | `str.find` truth values; sleeps that need not outlast a state change |
| watch_notify_stress | `watch_notify_stress.py` | per client: thrasher running or ended | start loop, yield, join all | thrashers started before the try; join with no timeout |
| buildpackages | `buildpackages.py` | install task present, sha1 and `machine` given; loop index; ssh agent made; remotes built; gitbuilder host set | read install config, per-remote assert / agent / target / flavor / build, set host | a later remote's build failing; `'-' + sha1` on None; `openstack` unbound with no remote |
| zbkcfs tests | `zbkcfs/test_*.py` | per scenario | kill, fail, fill, poll | polls with early rejection; a tuple used as a condition (`test_failover.py:615`) |

## Modules

- `ConditionPoller.tla` is the contract of `waitUntilEqual`, modelled from `spec.md` 4.2.
  - `Check(v)` reads the supplier once: the expected value succeeds, a rejected value fails, and any other value times out only once `elapsed > Timeout`.
  - `Raise` is a supplier that throws. `Wait` lets time pass between two checks.
- `AdminSocket.tla` models `admin_socket.py`.
  - One `pc` per client follows `_run_tests`:
    - `MakeTmpDir` and `WaitSocket` model the `mkdir && while ! -e socket` command.
    - `FetchTest` is the wget.
    - `SocketAttempt` is one iteration of `_socket_command`'s loop. It appends what the attempt printed to the one `json_fp`, breaks on exit 0, and otherwise asserts and decrements `max_tries`.
    - `RunTest` runs the test program, `NextCommand` moves to the next command, and `Cleanup` is the `finally`.
  - `Spawn`, `Close` and `Join` model `task()`'s scope.
  - `SocketCreated` is the client daemon, which the task's docstring requires, creating its socket.
- `Workunit.tla` models `workunit.py`.
  - `dirs[r]` holds the paths that exist for role `r`. `main` is where `task()` is, and `k` is its current `parallel()` scope: 0 for the explicit roles, 1..NAll for the units of `all`.
  - A worker is a pair `<<scope, role>>`, so a run of the explicit list and a run of an `all` unit on the same role are separate processes.
  - `MakeScratchDir` and `DeleteDir` are `_make_scratch_dir` and `_delete_dir`. The outcome of `rmdir` is decided by what is left in the directory.
  - `Clone`, `Make`, `RunUnit`, `RemoveScratch` and `Final` are the steps of `_run_tests`. Clone and make run before its `try`, so a failure there skips the `finally`.
- `Cram.tla` models `cram.py`.
  - `Setup` and `Fetch` are the per-client setup loop: the archive directory, the shared virtualenv and the test files.
  - `Spawn`, `RunCram` and `Join` are the `parallel()` scope. A run fails on any subset of its tests.
  - `CleanFiles` and `RemoveDir` are the `finally` loop. It keeps only the failed tests' files, and its `rmdir` raises if the directory is missing.
- `MdsCreation.tla` models `mds_creation_failure.py` up to its `yield`.
  - The task steps are `Reset`, `KillStart`, `WaitExit` (exit status 0, 1 or other), `RmCore`, `CheckCreating`, `Restart`, and the poll loop's `Poll` and `Sleep`.
  - The monitor's report is the environment: `EnvCreating`, `EnvActive` and `EnvOther`.
  - The poll is shown to refine `ConditionPoller`, with `t` as the elapsed time.
- `DumpStuck.tla` models `dump_stuck.py`.
  - `check_stuck` is two steps, `CheckStuckPgs` and `CheckHealth`. A missing health line raises `attr`, as `m.group` does on `None`.
  - `Kill(o, ...)` sets `starttime`. `AssertFails` is the poll's `except AssertionError` with its 900 s test, and `Tick` is time passing during a poll.
  - `Revive` and `FlushRetry` are the revive loop and the unbounded flush retry. `OsdStarted` is a revived daemon coming up.
  - `ClusterChange` is the monitor's stuck counts. They may change between any two steps, including between the two reads of one `check_stuck`.
  - Every ceph_manager call may raise: the `get_stuck_pgs` and `health` reads, the kills, the revives and the waits. Such an error is not an AssertionError, so it ends a poll at once.
- `Radosbench.tla` models `radosbench.py`.
  - Init chooses the config: the number of clients, `create_pool`, and a default or named pool. The docstring says `create_pool` defaults to False; the code (`radosbench.py:50`) defaults it to True. Init takes both values, so the runs cover a config that sets it and one that omits it.
  - `SetupClient` is one loop iteration: the pool, the `pool` variable, and the background bench.
  - `Yield` and `Body` are the nested tasks. `Wait` is `run.wait` with its timeout, and `Remove` is the `remove_pool` test. With no client `pool` is unset, and the test raises NameError.
  - `BenchEnds` is a bench process ending.
- `RebuildMondb.tla` models `rebuild_mondb.py`.
  - Init chooses the order the cluster dicts yield monitors and OSDs in, and both loops of a kind use that order.
  - `KillMon`, `MakeLocal`, `PushToOsd`, `RemoveLocal`, `UpdateMonDb`, `PullFromOsd`, `RebuildFirstMon`, `ReviveMon`, `WaitQuorum` and `ReviveOsd` are the task's steps in order. Each may raise.
  - A store directory is the set of OSDs whose maps it holds.
- `Kclient.tla` models `kclient.py`.
  - Init chooses the order the roles come in and the clients that want a mount.
  - `MountClient` is one iteration of the mount loop, before the `try`: the mount is recorded in `mounts`, then made, and it may raise.
  - `Yield` and `Resume(failed)` are the nested tasks. `Umount` is one iteration of the `finally` loop over the recorded mounts, and a failing `umount` raises out of the loop. `UmountDone` re-raises the nested error, or returns. `kerr` records which exception `task()` raised: a mount, an umount, or the nested tasks' error.
- `KclientWorkunit.tla` composes `Kclient` and `Workunit` by `INSTANCE`. Workunit's steps run only while kclient is yielded, and `WorkunitEnds` hands control back to kclient's `finally`. A client kclient mounts has its mount point from the start.
- `WatchNotifyStress.tla` models `watch_notify_stress.py`.
  - `StartThrasher` is one iteration of the start loop, before the `try`. It may raise, leaving earlier thrashers running.
  - `WYield` and `WResume(failed)` are the nested tasks. `JoinAll` is the `finally`, which waits for every thrasher with no timeout.
  - `ThrasherEnds(c)` is a background `ProcThrasher` ending.
- `RadosbenchWatch.tla` composes `Radosbench` around `WatchNotifyStress` over the same clients. `WatchStep` runs only while radosbench is yielded, and `WatchEnds` returns control to radosbench's wait.
- `Buildpackages.tla` models `buildpackages.py`.
  - Init chooses the remotes (none, one or two) and the config: whether the job has an `install` task, whether the merged install config gives a sha1, and whether `machine` is set.
  - `GetInstallConfig` is `get_install_config`. With no install task, `config` is unbound.
  - `BuildRemote` is one iteration of the loop, in the code's order: the URL assert, the checked make of `~/.ssh_agent`, `'-' + sha1`, `config['machine']`, and the checked build.
  - `SetHost` is the line after the loop. It uses the loop's `openstack`.
- `RadosbenchJob.tla` composes `Buildpackages` before `RadosbenchWatch`. `Stacked(A)` enables a step of the stack only once buildpackages has returned.
- `RetryingCommandRunner.tla` is the contract of `runWithRetry`, modelled from `spec.md` 4.3.
  - `Call` starts a call. `Attempt` is one attempt: it succeeds, is retried while the budget lasts, or is the last failure.
  - `Propagate` is an unrecoverable error. `Return` ends a successful call.
  - `AdminSocket` maps each client's retry loop to an instance `RC(c)`, and `RetryContract` checks all of them.
- `Systemd.tla` models `systemd.py` on one remote.
  - `ListUnits`, `StopTarget` and `StartTarget` are the target-wide steps.
  - `CheckActive`, `StopService` and `StartService` are one block of the per-service loop. `NextBlock` skips the blocks whose role the remote lacks. `Yield` ends the task.
  - `Settle(s)` is a service finishing a start or a stop, and it is not forced.
  - Each logged verdict is `Logged`: Python's truth value of `str.find`, which is -1 (true) when the text is missing.
- `MC*.tla` modules and their `.cfg` files give the constants small values.

## Runs

| Run | Checks | Shows |
|---|---|---|
| `admin_socket` (pass) | TypeOK, TmpDirGoneAfterScope, Termination | Every exit path of every client removes its temp dir before the scope joins. The task ends once the sockets exist. |
| `admin_socket_retry_contract` (violation) | RetryContract | `_socket_command` does not refine `RetryingCommandRunner`. A command that always fails is attempted `max_tries + 1` times and then fails with AssertionError. A failed attempt that printed something followed by a successful retry also makes `json.loads` fail on the concatenation; two attempts are enough for that, and the run's `MaxTries = 2` allows them. |
| `workunit` (pass) | TypeOK, NoSimultaneousRuns, MountPointKept, StackCleanOnReturn, NestedFailureUnmounts, SourceLeftOnlyByCloneOrMake, UnmountAfterWorkunits | This runs a `kclient` + `workunit` job. `all` units never overlap the explicit runs of a role. Workunit never removes a live kernel mount point, and kclient unmounts a client only after every workunit greenlet on it has ended. A job that returns leaves no mount and no workunit directory. A job that raises has a kernel mount still live only if kclient's own mount loop or an umount raised; a workunit failure never leaves one. Clone, source and list directories are left on a role only by a run whose clone or make failed, since the `finally` of `_run_tests` covers everything after them. |
| `workunit_subdir_leak` (violation) | CleanAfterReturn | With `subdir` set, the explicit roles' `mnt/<subdir>` is created, never used and never removed. |
| `cram` (pass) | TypeOK, ArchiveKeepsOnlyFailures | The archive keeps exactly the failed tests' files. |
| `cram_error_masked` (violation) | FirstErrorReported | If setup fails before a client's directory exists, the cleanup loop's `rmdir` raises and replaces the setup error. |
| `mds_creation` (pass) | TypeOK, CreationWaitContract, Termination | The creating wait refines the poller contract. It succeeds on up:active, raises on an unexpected state, and times out only after more than `create_timeout` seconds. The task always ends. |
| `dump_stuck` (pass) | ChecksAfterReviveWithOsdsUp, Termination | The final check, which expects no stuck PG, runs only once both revived OSDs answer their tells. The task ends, the unbounded flush retry included, once the revived OSDs come up. |
| `radosbench` (pass) | TypeOK, PoolRemovedAfterBenches, NoThrasherInRadosbenchCleanup, PackagesBeforeTasks, BenchesLeftOnlyBySetupOrTimeout, JobTermination | This runs a `buildpackages` + `radosbench` + `watch_notify_stress` job. Radosbench starts only once a checked build has completed on every remote and the packages host is set. A pool is removed only after every bench has ended. A bench is left running after radosbench only if its own client loop raised or its join timed out. A stress thrasher still runs during radosbench's cleanup only if watch_notify_stress's start loop raised part way. The job ends even if a bench hangs. |
| `radosbench_pool_leak` (violation) | PoolsRemovedOnReturn | With the default pool and two clients, each client gets a unique pool, and only the last one is removed. |
| `rebuild_mondb` (pass) | TypeOK, RebuiltStoreHasAllOsds, MonRevivedWithData | The store handed from OSD to OSD reaches the first monitor with every OSD's maps. No monitor is revived on deleted data. |
| `systemd_verdicts` (violation) | VerdictsTrue | `if out.find(text):` is true when the text is missing (-1) and false only at index 0. So the first check reports failed services when none has failed, and a service that is still deactivating is logged as stopped. |

Every property of a passing run has a mutant in `PROJECT.json`. A mutant is a
variant of one action with a plausible bug, defined just before that action in the
module, and TLC finds the property violated with it.

## Bounds

- **AdminSocket** has two clients, with two commands and one command (the first of each names a test), and `MaxTries = 2`.
  - Two failing attempts are enough to exhaust the budget, and two attempts (a noisy failure, then a success) are enough for the parse divergence. TLC reports the budget divergence.
  - `AttemptCap = MaxTries + 2` bounds the attempt counter for the mutants. The real loop cannot reach it.
- **Workunit** has two roles, one of them with an explicit list of two workunits, and two `all` units.
  - The pass run composes it with `Kclient`. Init chooses which roles kclient mounts and the order it mounts them in. A role it mounts has its mount point, and a role it skips has none, so both branches of `_make_scratch_dir` and `_delete_dir` happen.
  - The violation run, on `Workunit` alone, chooses the mount points freely.
  - The same configuration with three roles (one explicit) was also checked with every property of the run: 474,660 states in 86 s, and no error. The run keeps two roles so that its mutant checks stay short.
  - The violation run sets `subdir` with no `all` list. With an `all` list, the `all` runs use the subdir as their scratch dir and remove it afterwards, which hides the leak.
- **Cram** has three clients on two hosts and two tests each. That is enough for a shared virtualenv and for a cleanup loop that fails part way.
- **MdsCreation** uses `create_timeout = 10` ticks. The wait can end before, at and after the boundary check.
- **DumpStuck** has two PGs and a poll budget of two ticks. `Tick` stops once a poll is past its budget, because later ticks change no decision.
  - With counts free to change between the two reads of `check_stuck`, a poll can see the expected counts from `get_stuck_pgs` and then a health output without the line it wants. The AttributeError of `m.group` is not caught, so the poll ends before its 900 s (`dump_stuck.py:42`). This is what the code does, and no property claims otherwise; the pass run reaches it.
- **Radosbench** chooses from zero, one and two clients. Two is the least number that shows the leak.
  - In the pass run, buildpackages has zero, one or two remotes and every config, so each of its exceptions happens, as does a second remote's build failing after the first's succeeded. Watch_notify_stress has the same two clients as radosbench, and Init chooses one or both. Two thrashers are enough for a start loop that raises after the first, and for the join to wait on a thrasher other than the first.
- **Systemd** runs on one remote with every subset of the mon, mgr and mds roles, with and without an OSD process. Every service starts active or failed. The violation appears at the first check, at depth 2.
- **RetryContract** is checked on the AdminSocket instance above, with `MaxTries = 2`, which allows both divergences.
- **RebuildMondb** has three monitors and two OSDs in every order. The store passes through two OSDs, and two monitors need mkfs.

## Fairness

- Remote commands return: workunits run under `timeout`, and the other commands are short.
- The greenlets of a scope and the main greenlet are scheduled.
- Each of these is weakly fair.
- In AdminSocket, `SocketCreated` is weakly fair too. The task's docstring requires the client daemon, which creates the socket. Without that daemon the socket wait loops forever, and Termination fails.
- In DumpStuck, time passing (`Tick`) and a revived OSD starting (`OsdStarted`) are weakly fair. Without the second, the flush retry never ends.
- Buildpackages' steps are weakly fair, because `check_call` waits for each command.
- In the compositions, each task's own steps are weakly fair, and so is the hand-over from the inner task to the outer task's `finally`.
- A `ProcThrasher` ending (`ThrasherEnds`) is weakly fair. It runs `multi_stress_watch` for a bounded time, and without that the join would wait forever.
- No fairness is assumed of the clusters or the benches: the monitor's reported states and a bench's end are never forced.
- No fairness is assumed of systemd services settling (`Settle`). The task's 4 s sleeps do not wait for it.

## Not modelled

- The transport (lost connections) is not modelled; `spec.md` puts it out of scope.
- The content of the commands is not modelled. Only their success or failure, and the directories they create or remove, are kept.
- `rm -rf` is assumed always to succeed.
- `OpenStack`, the gitbuilder lookup and the `make` targets of `buildpackages` are not in this repository. They are abstracted to success or an exception.
- `KernelMount` and `ProcThrasher` are not in this repository. A mount or unmount returns or raises, and a thrasher runs and then ends.
- **The `zbkcfs` test cases** (`zbkcfs/test_*.py`, about 1950 lines) are not modelled.
  - Their bodies are sequences of calls into `zbkcfs_test_case`, `Filesystem` and `MDSCluster`, none of which is in this repository. A model of them would be almost entirely an environment guessed at.
  - Their one control-flow defect is the condition `if (fs_a.get_active_names(), [mds_a]):` at `test_failover.py:615`. It is a non-empty tuple, so the `else` branch is dead. That is plain from the line itself, and it is listed as a hazard.
- **Leaks on failure.** The tasks start things before their `try`: mounts, benches, thrashers, and clone and make. A failure there leaves those things behind, and the code makes no promise to clean them up.
  - Instead of claiming no leak, the runs check that *only* those early failures leak: `NestedFailureUnmounts`, `BenchesLeftOnlyBySetupOrTimeout`, `NoThrasherInRadosbenchCleanup` and `SourceLeftOnlyByCloneOrMake`.
  - The scratch directories left when workunit's scope raises (`workunit.py:111`) have no such property. The task has no `try` around the scope, so any failure leaves them.

## Plan

Order of the remaining work:

1. **zbkcfs polls** (`test_full`, `test_flush`): polls with early rejection, refining `ConditionPoller` with a non-empty `Rejected`, if their helpers can be bounded faithfully.
2. **DumpStuck**: its busy polls re-check with no sleep, and time passes during a check. They therefore do not refine `ConditionPoller` under a direct mapping. A refinement would need a mapping that hides the time passing inside a check.
3. **Larger instances**: three clients in the compositions, once their state spaces allow it.
