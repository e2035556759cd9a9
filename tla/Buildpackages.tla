----------------------------- MODULE Buildpackages -----------------------------
(***************************************************************************)
(* The buildpackages task (src/tasks/buildpackages.py), a plain function  *)
(* task that teuthology runs before the tasks that install packages.  It  *)
(* reads the install task's config (get_install_config), then for each    *)
(* remote of the cluster: checks the gitbuilder URL, makes the ssh agent  *)
(* file, names the build target after the sha1, picks an OpenStack flavor *)
(* for config['machine'] and runs the make that builds the packages.      *)
(* After the loop it points gitbuilder_host at the packages repository,   *)
(* through the `openstack` object the last iteration made.                 *)
(*                                                                         *)
(* The job's config is chosen in Init.  Command lines, URLs and flavors   *)
(* are abstracted away: a command succeeds or raises CalledProcessError.  *)
(***************************************************************************)
EXTENDS Naturals, Sequences

CONSTANT Remotes    \* the remotes a cluster may have, in iteration order

VARIABLES
  remotes,     \* ctx.cluster.remotes, a prefix of Remotes
  installTask, \* the job lists an `install` task
  sha1Set,     \* the merged install config gives a sha1
  machineSet,  \* buildpackages' config has a `machine` entry
  bpc,         \* "config", "loop", "done" or "raised"
  bn,          \* the loop's index into remotes
  agent,       \* ~/.ssh_agent has been made
  built,       \* the remotes whose package build has completed
  host,        \* teuth_config.gitbuilder_host has been set
  berr         \* the exception task() raised, or "none"

bvars == <<remotes, installTask, sha1Set, machineSet, bpc, bn, agent, built,
           host, berr>>

RemoteSet == {Remotes[n] : n \in 1..Len(Remotes)}

Init ==
  /\ \E n \in 0..Len(Remotes) : remotes = SubSeq(Remotes, 1, n)
  /\ installTask \in BOOLEAN /\ sha1Set \in BOOLEAN /\ machineSet \in BOOLEAN
  /\ bpc = "config" /\ bn = 1 /\ agent = FALSE /\ built = {} /\ host = FALSE
  /\ berr = "none"

BRaise(e) ==
  /\ bpc' = "raised" /\ berr' = e
  /\ UNCHANGED <<remotes, installTask, sha1Set, machineSet, bn, built, host>>

\* get_install_config: `config` is bound only by an install task, so a job
\* without one raises UnboundLocalError at `if config is None`.  A None
\* config becomes {}, the overrides are merged in; then the task's loop.
GetInstallConfig ==
  /\ bpc = "config"
  /\ IF installTask
       THEN bpc' = "loop" /\ UNCHANGED <<berr, agent>>
       ELSE BRaise("UnboundLocalError") /\ UNCHANGED agent
  /\ UNCHANGED <<remotes, installTask, sha1Set, machineSet, bn, built, host>>

\* Bug variant of BuildRemote: the build's exit status is ignored
\* (subprocess.call for check_call), so the loop goes on without it.
BuildRemoteUnchecked ==
  /\ bpc = "loop" /\ bn <= Len(remotes)
  /\ \/ BRaise("AssertionError") /\ UNCHANGED agent
     \/ BRaise("CalledProcessError") /\ UNCHANGED agent
     \/ /\ agent' = TRUE
        /\ \/ ~sha1Set /\ BRaise("TypeError")
           \/ sha1Set /\ ~machineSet /\ BRaise("KeyError")
           \/ /\ sha1Set /\ machineSet
              /\ \E ok \in BOOLEAN :
                   built' = IF ok THEN built \cup {remotes[bn]} ELSE built
              /\ bn' = bn + 1
              /\ UNCHANGED <<remotes, installTask, sha1Set, machineSet, bpc,
                             host, berr>>

\* One iteration of the loop over the remotes.  The assert that the
\* gitbuilder URL contains /<uri_reference> may fail; then the checked
\* make of ~/.ssh_agent; then `'-' + sha1` raises TypeError when the
\* install config names no sha1 (the build command below guards it with
\* `sha1 or ''`, this line does not); config['machine'] raises KeyError
\* when absent; and the checked build make completes or raises.
BuildRemote ==
  /\ bpc = "loop" /\ bn <= Len(remotes)
  /\ \/ BRaise("AssertionError") /\ UNCHANGED agent
     \/ BRaise("CalledProcessError") /\ UNCHANGED agent
     \/ /\ agent' = TRUE
        /\ \/ ~sha1Set /\ BRaise("TypeError")
           \/ sha1Set /\ ~machineSet /\ BRaise("KeyError")
           \/ sha1Set /\ machineSet /\ BRaise("CalledProcessError")
           \/ /\ sha1Set /\ machineSet
              /\ built' = built \cup {remotes[bn]} /\ bn' = bn + 1
              /\ UNCHANGED <<remotes, installTask, sha1Set, machineSet, bpc,
                             host, berr>>

\* After the loop: gitbuilder_host = openstack.get_ip(...).  `openstack`
\* is bound only inside the loop, so with no remote it is a NameError.
SetHost ==
  /\ bpc = "loop" /\ bn > Len(remotes)
  /\ IF Len(remotes) > 0
       THEN host' = TRUE /\ bpc' = "done" /\ UNCHANGED berr
       ELSE BRaise("NameError") /\ UNCHANGED host
  /\ UNCHANGED <<remotes, installTask, sha1Set, machineSet, bn, agent, built>>

BTaskStep == GetInstallConfig \/ BuildRemote \/ SetHost

TypeOK ==
  /\ Len(remotes) \in 0..Len(Remotes)
  /\ {installTask, sha1Set, machineSet, agent, host} \subseteq BOOLEAN
  /\ bpc \in {"config", "loop", "done", "raised"}
  /\ bn \in 1..Len(remotes) + 1
  /\ built \subseteq RemoteSet
  /\ berr \in {"none", "UnboundLocalError", "AssertionError",
               "CalledProcessError", "TypeError", "KeyError", "NameError"}

=============================================================================
