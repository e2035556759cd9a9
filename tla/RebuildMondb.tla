----------------------------- MODULE RebuildMondb -----------------------------
(***************************************************************************)
(* The rebuild_mondb task (src/tasks/rebuild_mondb.py).  It kills every   *)
(* monitor, deleting the first one's store.db and the others' whole data  *)
(* directories; then passes a monitor store from OSD to OSD through a     *)
(* local temporary directory, each OSD's objectstore tool adding its maps; *)
(* pushes the result into the first monitor's directory and rebuilds it;  *)
(* runs mkfs on the other monitors, revives them all, waits for quorum    *)
(* and revives the OSDs.                                                   *)
(*                                                                         *)
(* A store directory is modelled by the set of OSDs whose maps it holds.   *)
(* Every remote or local command may raise, which ends the task.           *)
(***************************************************************************)
EXTENDS Naturals, Sequences, FiniteSets, SequencesExt

CONSTANTS
  Mons,   \* the monitor ids
  Osds,   \* the OSD ids
  Gone    \* a directory that does not exist

ASSUME Mons # {} /\ Osds # {}

VARIABLES
  monOrder,  \* the order mons.remotes yields the monitors in (both loops)
  osdOrder,  \* the order osds.remotes yields the OSDs in (both loops)
  pc,        \* the statement of task() being run
  n,         \* index of the current monitor or OSD loop
  monData,   \* monData[m]: "full", "nostore" (store.db removed), "none",
             \* "rebuilt" or "mkfs"
  monUp,     \* the monitors running
  monStore,  \* what the first monitor's store directory holds
  local,     \* local_mstore: the OSDs whose maps it holds, or Gone
  osdDir,    \* osdDir[o]: the OSD host's mon-store directory, or Gone
  osdUp,     \* the OSDs running
  failed     \* TRUE once a command has raised

vars == <<monOrder, osdOrder, pc, n, monData, monUp, monStore, local, osdDir, osdUp, failed>>

\* mon_id: the first monitor the kill loop meets.
FirstMon == monOrder[1]

Init ==
  /\ monOrder \in SetToSeqs(Mons) /\ osdOrder \in SetToSeqs(Osds)
  /\ pc = "killmons" /\ n = 1
  /\ monData = [m \in Mons |-> "full"] /\ monUp = Mons
  /\ monStore = {} /\ local = Gone
  /\ osdDir = [o \in Osds |-> Gone] /\ osdUp = Osds
  /\ failed = FALSE

Running == ~failed

\* A command of the step raises: nothing after it runs.
Raise == failed' = TRUE /\ UNCHANGED <<monOrder, osdOrder, pc, n, monData, monUp, monStore,
                                       local, osdDir, osdUp>>

\* Kill loop: kill_mon(m), then rm -r of store.db for the first monitor
\* and of the whole data directory for the others.
KillMon ==
  /\ Running /\ pc = "killmons" /\ n <= Len(monOrder)
  /\ \/ LET m == monOrder[n] IN
          /\ monUp' = monUp \ {m}
          /\ monData' = [monData EXCEPT ![m] = IF m = FirstMon THEN "nostore"
                                                ELSE "none"]
          /\ n' = n + 1
          /\ UNCHANGED <<monOrder, osdOrder, pc, monStore, local, osdDir, osdUp, failed>>
     \/ Raise

\* Bug variant of MakeLocal: the loop index is not reset for the OSD loop.
MakeLocalNoReset ==
  /\ Running /\ pc = "killmons" /\ n > Len(monOrder)
  /\ local' = {} /\ pc' = "push"
  /\ UNCHANGED <<monOrder, osdOrder, n, monData, monUp, monStore, osdDir, osdUp, failed>>

\* local_mstore = tempfile.mkdtemp()
MakeLocal ==
  /\ Running /\ pc = "killmons" /\ n > Len(monOrder)
  /\ local' = {} /\ pc' = "push" /\ n' = 1
  /\ UNCHANGED <<monOrder, osdOrder, monData, monUp, monStore, osdDir, osdUp, failed>>

\* Bug variant of PushToOsd: a fresh empty directory is pushed instead of
\* the store pulled from the previous OSD.
PushEmptyStore ==
  /\ Running /\ pc = "push" /\ n <= Len(osdOrder)
  /\ \/ LET o == osdOrder[n] IN
          /\ local # Gone
          /\ osdDir' = [osdDir EXCEPT ![o] = IF @ = Gone THEN {} ELSE @]
          /\ pc' = "rmlocal"
          /\ UNCHANGED <<monOrder, osdOrder, n, monData, monUp, monStore, local, osdUp, failed>>
     \/ Raise

\* mkdir -p osd_mstore; push_directory(local_mstore, osd, osd_mstore):
\* tar the local store, copy it over and untar it into the directory.
PushToOsd ==
  /\ Running /\ pc = "push" /\ n <= Len(osdOrder)
  /\ \/ LET o == osdOrder[n] IN
          /\ local # Gone
          /\ osdDir' = [osdDir EXCEPT ![o] =
                          (IF @ = Gone THEN {} ELSE @) \cup local]
          /\ pc' = "rmlocal"
          /\ UNCHANGED <<monOrder, osdOrder, n, monData, monUp, monStore, local, osdUp, failed>>
     \/ Raise

\* shutil.rmtree(local_mstore)
RemoveLocal ==
  /\ Running /\ pc = "rmlocal"
  /\ local' = Gone /\ pc' = "update"
  /\ UNCHANGED <<monOrder, osdOrder, n, monData, monUp, monStore, osdDir, osdUp, failed>>

\* objectstore_tool --op update-mon-db with do_revive=False: the OSD is
\* stopped and its maps are added to the directory.
UpdateMonDb ==
  /\ Running /\ pc = "update"
  /\ \/ LET o == osdOrder[n] IN
          /\ osdUp' = osdUp \ {o}
          /\ osdDir' = [osdDir EXCEPT ![o] = @ \cup {o}]
          /\ pc' = "pull"
          /\ UNCHANGED <<monOrder, osdOrder, n, monData, monUp, monStore, local, failed>>
     \/ Raise

\* local_mstore = mkdtemp(); pull_directory(osd, osd_mstore, local_mstore);
\* rm -fr osd_mstore on the OSD host.
PullFromOsd ==
  /\ Running /\ pc = "pull"
  /\ \/ LET o == osdOrder[n] IN
          /\ local' = osdDir[o]
          /\ osdDir' = [osdDir EXCEPT ![o] = Gone]
          /\ pc' = "push" /\ n' = n + 1
          /\ UNCHANGED <<monOrder, osdOrder, monData, monUp, monStore, osdUp, failed>>
     \/ Raise

\* push_directory(local_mstore, mon, mon_store_dir), chown, rmtree, the two
\* zbkc-authtool caps and zbkc-monstore-tool rebuild.
RebuildFirstMon ==
  /\ Running /\ pc = "push" /\ n > Len(osdOrder)
  /\ \/ /\ local # Gone
        /\ monStore' = local
        /\ monData' = [monData EXCEPT ![FirstMon] = "rebuilt"]
        /\ local' = Gone
        /\ pc' = "revivemons" /\ n' = 1
        /\ UNCHANGED <<monOrder, osdOrder, monUp, osdDir, osdUp, failed>>
     \/ Raise

\* Bug variant of ReviveMon: the mkfs test is inverted.
ReviveMonMkfsFirst ==
  /\ Running /\ pc = "revivemons" /\ n <= Len(monOrder)
  /\ \/ LET m == monOrder[n] IN
          /\ monData' = IF m = FirstMon THEN [monData EXCEPT ![m] = "mkfs"]
                        ELSE monData
          /\ monUp' = monUp \cup {m}
          /\ n' = n + 1
          /\ UNCHANGED <<monOrder, osdOrder, pc, monStore, local, osdDir, osdUp, failed>>
     \/ Raise

\* Revive loop: mkfs for every monitor but mon_id, then revive_mon(m).
ReviveMon ==
  /\ Running /\ pc = "revivemons" /\ n <= Len(monOrder)
  /\ \/ LET m == monOrder[n] IN
          /\ monData' = IF m # FirstMon THEN [monData EXCEPT ![m] = "mkfs"]
                        ELSE monData
          /\ monUp' = monUp \cup {m}
          /\ n' = n + 1
          /\ UNCHANGED <<monOrder, osdOrder, pc, monStore, local, osdDir, osdUp, failed>>
     \/ Raise

\* wait_for_mon_quorum_size(n_mons, timeout=30).
WaitQuorum ==
  /\ Running /\ pc = "revivemons" /\ n > Len(monOrder)
  /\ \/ pc' = "reviveosds" /\ n' = 1
        /\ UNCHANGED <<monOrder, osdOrder, monData, monUp, monStore, local, osdDir, osdUp, failed>>
     \/ Raise

\* revive_osd for every OSD.
ReviveOsd ==
  /\ Running /\ pc = "reviveosds" /\ n <= Len(osdOrder)
  /\ \/ /\ osdUp' = osdUp \cup {osdOrder[n]}
        /\ n' = n + 1
        /\ UNCHANGED <<monOrder, osdOrder, pc, monData, monUp, monStore, local, osdDir, failed>>
     \/ Raise

\* task() has returned or raised.
Finished ==
  /\ (pc = "reviveosds" /\ n > Len(osdOrder)) \/ failed
  /\ UNCHANGED vars

Next ==
  \/ KillMon \/ MakeLocal \/ PushToOsd \/ RemoveLocal \/ UpdateMonDb
  \/ PullFromOsd \/ RebuildFirstMon \/ ReviveMon \/ WaitQuorum
  \/ ReviveOsd \/ Finished

\* The task's commands return or raise.
Spec == Init /\ [][Next]_vars /\ WF_vars(Next)

---------------------------------------------------------------------------
(* Properties                                                              *)

Dir == SUBSET Osds \cup {Gone}

TypeOK ==
  /\ pc \in {"killmons", "push", "rmlocal", "update", "pull",
             "revivemons", "reviveosds"}
  /\ n \in 1..(IF pc \in {"killmons", "revivemons"} THEN Len(monOrder)
                ELSE Len(osdOrder)) + 1
  /\ monData \in [Mons -> {"full", "nostore", "none", "rebuilt", "mkfs"}]
  /\ monUp \subseteq Mons /\ osdUp \subseteq Osds
  /\ monStore \subseteq Osds /\ local \in Dir /\ osdDir \in [Osds -> Dir]
  /\ failed \in BOOLEAN

\* The store pushed into the first monitor holds the maps of every OSD:
\* passing it OSD to OSD through push, rmtree, update and pull loses no
\* OSD's contribution.
RebuiltStoreHasAllOsds ==
  monData[FirstMon] = "rebuilt" => monStore = Osds

\* No monitor is running on a deleted or half-deleted data directory: the
\* first is revived on the rebuilt store, every other after its mkfs.
MonRevivedWithData ==
  \A m \in monUp : monData[m] \in {"full", "rebuilt", "mkfs"}

=============================================================================
