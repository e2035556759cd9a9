------------------------------ MODULE Radosbench ------------------------------
(***************************************************************************)
(* The radosbench task (src/tasks/radosbench.py).  For each client in the *)
(* config it creates a pool (the configured one, or a uniquely named one   *)
(* when the configured pool is `data`), starts `rados bench` in the       *)
(* background (wait=False) and keeps the process; it then yields, and in  *)
(* the finally joins every bench with one timeout and removes `pool`,     *)
(* the variable the loop last assigned.                                    *)
(*                                                                         *)
(* The config is chosen in Init: the number of clients, create_pool, and  *)
(* whether `pool` is the default `data` or a named pool.  The docstring  *)
(* says create_pool defaults to False; the code (line 50) defaults it to  *)
(* True, and Init takes both values.  A bench process is the environment: *)
(* it ends ok or failed at any time.                                       *)
(***************************************************************************)
EXTENDS Naturals, Sequences

CONSTANT Clients    \* the clients a config may list, in order

VARIABLES
  clients,    \* config['clients'], a prefix of Clients
  createPool, \* config.get('create_pool', True)
  poolCfg,    \* config.get('pool', 'data'): "data" or "named"
  pc,         \* "loop", "body", "wait", "remove", "done" or "raised"
  i,          \* the loop's index into clients
  pool,       \* the variable `pool`: <<"unset", 0>> before the loop assigns
              \* it, <<"data", 0>>, <<"named", 0>>, or <<"unique", n>> for
              \* the pool create_pool_with_unique_name made for client n
  pools,      \* the pools the task has created and not removed
  bench,      \* bench[c]: "none", "running", "ok" or "failed"
  err         \* the exception task() raised, or "none"

vars == <<clients, createPool, poolCfg, pc, i, pool, pools, bench, err>>

ClientSet == {Clients[n] : n \in 1..Len(Clients)}

Unset == <<"unset", 0>>
Data == <<"data", 0>>

Init ==
  /\ \E n \in 0..Len(Clients) : clients = SubSeq(Clients, 1, n)
  /\ createPool \in BOOLEAN
  /\ poolCfg \in {"data", "named"}
  /\ pc = "loop" /\ i = 1 /\ pool = Unset /\ pools = {}
  /\ bench = [c \in ClientSet |-> "none"]
  /\ err = "none"

Raise(e) == pc' = "raised" /\ err' = e

\* Bug variant of SetupClient: the unique pool is named after the next
\* client's index.
SetupClientOffByOne ==
  /\ pc = "loop" /\ i <= Len(clients)
  /\ LET c == clients[i]
         p == IF ~createPool \/ poolCfg = "named" THEN <<poolCfg, 0>>
              ELSE <<"unique", i + 1>>
     IN \/ /\ pool' = p
           /\ pools' = IF createPool THEN pools \cup {p} ELSE pools
           /\ bench' = [bench EXCEPT ![c] = "running"]
           /\ i' = i + 1
           /\ UNCHANGED <<pc, err>>
        \/ /\ Raise("setup")
           /\ UNCHANGED <<i, pool, pools, bench>>
  /\ UNCHANGED <<clients, createPool, poolCfg>>

\* One iteration of the client loop: the erasure-code profile and the pool
\* are created (either raises, before the try), then the bench is started
\* in the background and kept.
SetupClient ==
  /\ pc = "loop" /\ i <= Len(clients)
  /\ LET c == clients[i]
         p == IF ~createPool \/ poolCfg = "named" THEN <<poolCfg, 0>>
              ELSE <<"unique", i>>
     IN \/ /\ pool' = p
           /\ pools' = IF createPool THEN pools \cup {p} ELSE pools
           /\ bench' = [bench EXCEPT ![c] = "running"]
           /\ i' = i + 1
           /\ UNCHANGED <<pc, err>>
        \/ /\ Raise("setup")
           /\ UNCHANGED <<i, pool, pools, bench>>
  /\ UNCHANGED <<clients, createPool, poolCfg>>

\* The loop is done: yield.  The nested tasks return or raise; either way
\* the finally runs.
Yield ==
  /\ pc = "loop" /\ i > Len(clients)
  /\ pc' = "body"
  /\ UNCHANGED <<clients, createPool, poolCfg, i, pool, pools, bench, err>>

\* Bug variant of Resume: the yield is outside the try, so an error of
\* the nested tasks leaves task() before the benches are joined.
ResumeNoFinally(failed) ==
  /\ pc = "body"
  /\ IF failed THEN Raise("body") ELSE pc' = "wait" /\ UNCHANGED err
  /\ UNCHANGED <<clients, createPool, poolCfg, i, pool, pools, bench>>

Resume(failed) ==
  /\ pc = "body"
  /\ pc' = "wait"
  /\ err' = IF failed THEN "body" ELSE "none"
  /\ UNCHANGED <<clients, createPool, poolCfg, i, pool, pools, bench>>

Body == \E f \in BOOLEAN : Resume(f)

\* Bug variant of Wait: the benches are not joined.
WaitNoJoin ==
  /\ pc = "wait"
  /\ IF \E c \in ClientSet : bench[c] = "failed" THEN Raise("bench")
     ELSE pc' = "remove" /\ UNCHANGED err
  /\ UNCHANGED <<clients, createPool, poolCfg, i, pool, pools, bench>>

\* Bug variant of Wait: the join has no timeout.
WaitNoTimeout ==
  /\ pc = "wait"
  /\ \A c \in ClientSet : bench[c] # "running"
  /\ IF \E c \in ClientSet : bench[c] = "failed" THEN Raise("bench")
     ELSE pc' = "remove" /\ UNCHANGED err
  /\ UNCHANGED <<clients, createPool, poolCfg, i, pool, pools, bench>>

\* run.wait(radosbench.itervalues(), timeout): returns once every bench
\* has ended, raising if one failed; raises if the timeout fires first.
Wait ==
  /\ pc = "wait"
  /\ \/ /\ \A c \in ClientSet : bench[c] # "running"
        /\ IF \E c \in ClientSet : bench[c] = "failed" THEN Raise("bench")
           ELSE pc' = "remove" /\ UNCHANGED err
     \/ /\ \E c \in ClientSet : bench[c] = "running"
        /\ Raise("timeout")
  /\ UNCHANGED <<clients, createPool, poolCfg, i, pool, pools, bench>>

\* if pool is not 'data' and create_pool: manager.remove_pool(pool).  With
\* no client the loop never assigned `pool`, and the test raises NameError.
Remove ==
  /\ pc = "remove"
  /\ CASE pool = Unset -> Raise("name") /\ UNCHANGED pools
       [] pool # Data /\ createPool ->
            \/ /\ pools' = pools \ {pool}
               /\ pc' = IF err = "none" THEN "done" ELSE "raised"
               /\ UNCHANGED err
            \/ Raise("remove") /\ UNCHANGED pools
       [] OTHER ->
            /\ pc' = IF err = "none" THEN "done" ELSE "raised"
            /\ UNCHANGED <<pools, err>>
  /\ UNCHANGED <<clients, createPool, poolCfg, i, pool, bench>>

TaskStep == SetupClient \/ Yield \/ Body \/ Wait \/ Remove

\* A background bench ends.
BenchEnds(c) ==
  /\ bench[c] = "running"
  /\ bench' = [bench EXCEPT ![c] = "ok"] \/ bench' = [bench EXCEPT ![c] = "failed"]
  /\ UNCHANGED <<clients, createPool, poolCfg, pc, i, pool, pools, err>>

\* task() has returned or raised; benches started before a raise in the
\* loop may still be running.
Finished ==
  /\ pc \in {"done", "raised"}
  /\ \A c \in ClientSet : bench[c] # "running"
  /\ UNCHANGED vars

Next == TaskStep \/ (\E c \in ClientSet : BenchEnds(c)) \/ Finished

\* The task's own steps are taken; a bench need not end (run.wait's
\* timeout bounds the join).
Spec == Init /\ [][Next]_vars /\ WF_vars(TaskStep)

---------------------------------------------------------------------------
(* Properties                                                              *)

TypeOK ==
  /\ Len(clients) <= Len(Clients) /\ createPool \in BOOLEAN
  /\ poolCfg \in {"data", "named"}
  /\ pc \in {"loop", "body", "wait", "remove", "done", "raised"}
  /\ i \in 1..Len(clients) + 1
  /\ pool \in {Unset, Data, <<"named", 0>>} \cup ({"unique"} \X (1..Len(clients)))
  /\ pools \subseteq {<<"named", 0>>} \cup ({"unique"} \X (1..Len(clients)))
  /\ bench \in [ClientSet -> {"none", "running", "ok", "failed"}]
  /\ err \in {"none", "setup", "body", "bench", "timeout", "name", "remove"}

\* A pool is removed only once no bench is running: the finally joins
\* every background bench before remove_pool, so no bench still writing
\* has its pool deleted under it.
PoolRemovedAfterBenches ==
  [][pools \ pools' # {} => \A c \in ClientSet : bench[c] # "running"]_vars

\* The task ends, returning or raising, even if a bench never ends.
Termination == <>(pc \in {"done", "raised"})

\* A bench is still running once task() is over only if the client loop
\* (before the try) raised after starting it, or run.wait timed out: an
\* error of the nested tasks still goes through the finally's join.
BenchesLeftOnlyBySetupOrTimeout ==
  (pc \in {"done", "raised"} /\ \E c \in ClientSet : bench[c] = "running")
    => err \in {"setup", "timeout"}

\* A task that returns normally has removed every pool it created.
PoolsRemovedOnReturn == pc = "done" => pools = {}

=============================================================================
