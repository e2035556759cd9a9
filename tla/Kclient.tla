------------------------------- MODULE Kclient -------------------------------
(***************************************************************************)
(* The kclient task (src/tasks/kclient.py).  For each client of the       *)
(* cluster, in the order get_clients yields them, it skips the client if  *)
(* the config disables it or sets `mounted: false`, else it records a     *)
(* KernelMount in the mounts dict and mounts it (after the optional debug *)
(* echo commands).  All of this happens before the try: a mount that      *)
(* raises ends the task with no unmount.  It then yields to the nested    *)
(* tasks, and its finally unmounts every recorded mount that is mounted.  *)
(*                                                                         *)
(* The config is chosen in Init: `want` is the set of clients the config  *)
(* leaves mounted (a top-level `disabled` is want = {}).  KernelMount is  *)
(* not in this repository: mount() and umount() return or raise.          *)
(***************************************************************************)
EXTENDS Naturals, Sequences, SequencesExt

CONSTANT Roles    \* the client roles of the cluster

VARIABLES
  korder,    \* the order get_clients yields the clients in
  want,      \* the clients the config leaves mounted
  kpc,       \* "mount", "body", "umount", "done" or "raised"
  kn,        \* index of the mount loop into korder
  mounts,    \* the client ids the mounts dict holds
  kmounted,  \* the clients whose kernel mount is live
  kinner,    \* the nested tasks raised
  kerr       \* the exception task() raised: "none", "mount", "umount" or
             \* "inner" (the nested tasks' error, re-raised)

vars == <<korder, want, kpc, kn, mounts, kmounted, kinner, kerr>>

Init ==
  /\ korder \in SetToSeqs(Roles)
  /\ want \in SUBSET Roles
  /\ kpc = "mount" /\ kn = 1
  /\ mounts = {} /\ kmounted = {} /\ kinner = FALSE /\ kerr = "none"

\* Bug variant of MountClient: the KernelMount is mounted but never
\* stored in the mounts dict.
MountClientUnrecorded ==
  /\ kpc = "mount" /\ kn <= Len(korder)
  /\ LET c == korder[kn] IN
     IF c \notin want
       THEN kn' = kn + 1 /\ UNCHANGED <<kpc, mounts, kmounted, kerr>>
     ELSE \/ kmounted' = kmounted \cup {c} /\ kn' = kn + 1
             /\ UNCHANGED <<kpc, mounts, kerr>>
          \/ kpc' = "raised" /\ kerr' = "mount"
             /\ UNCHANGED <<kn, mounts, kmounted>>
  /\ UNCHANGED <<korder, want, kinner>>

\* One iteration of the mount loop: skip a client the config leaves
\* unmounted; else mounts[id_] = kernel_mount, then the debug echoes and
\* kernel_mount.mount(), either of which may raise.
MountClient ==
  /\ kpc = "mount" /\ kn <= Len(korder)
  /\ LET c == korder[kn] IN
     IF c \notin want
       THEN kn' = kn + 1 /\ UNCHANGED <<kpc, mounts, kmounted, kerr>>
     ELSE /\ mounts' = mounts \cup {c}
          /\ \/ kmounted' = kmounted \cup {c} /\ kn' = kn + 1
                /\ UNCHANGED <<kpc, kerr>>
             \/ kpc' = "raised" /\ kerr' = "mount" /\ UNCHANGED <<kn, kmounted>>
  /\ UNCHANGED <<korder, want, kinner>>

\* ctx.mounts = mounts; try: yield mounts.
Yield ==
  /\ kpc = "mount" /\ kn > Len(korder)
  /\ kpc' = "body"
  /\ UNCHANGED <<korder, want, kn, mounts, kmounted, kinner, kerr>>

\* Bug variant of Resume: the yield is outside the try, so an error of
\* the nested tasks leaves task() at once and the finally never runs.
ResumeNoFinally(failed) ==
  /\ kpc = "body"
  /\ kinner' = failed
  /\ IF failed THEN kpc' = "raised" /\ kerr' = "inner"
              ELSE kpc' = "umount" /\ UNCHANGED kerr
  /\ UNCHANGED <<korder, want, kn, mounts, kmounted>>

\* The nested tasks return (failed = FALSE) or raise; the finally runs.
Resume(failed) ==
  /\ kpc = "body"
  /\ kpc' = "umount" /\ kinner' = failed
  /\ UNCHANGED <<korder, want, kn, mounts, kmounted, kerr>>

\* One iteration of the finally loop over mounts.values(): a mount that is
\* not mounted is skipped (a no-op); umount() returns or raises, and a
\* raise ends the loop.
Umount ==
  /\ kpc = "umount"
  /\ \E c \in mounts \cap kmounted :
       \/ kmounted' = kmounted \ {c} /\ UNCHANGED <<kpc, kerr>>
       \/ kpc' = "raised" /\ kerr' = "umount" /\ UNCHANGED kmounted
  /\ UNCHANGED <<korder, want, kn, mounts, kinner>>

\* The finally loop is over: return, or re-raise the nested tasks' error.
UmountDone ==
  /\ kpc = "umount"
  /\ mounts \cap kmounted = {}
  /\ kpc' = IF kinner THEN "raised" ELSE "done"
  /\ kerr' = IF kinner THEN "inner" ELSE "none"
  /\ UNCHANGED <<korder, want, kn, mounts, kmounted, kinner>>

TaskStep == MountClient \/ Yield \/ Umount \/ UmountDone

\* task() has returned or raised.
Finished ==
  /\ kpc \in {"done", "raised"}
  /\ UNCHANGED vars

\* On its own the nested tasks are a single step that returns or raises.
Next == TaskStep \/ (\E f \in BOOLEAN : Resume(f)) \/ Finished

Spec == Init /\ [][Next]_vars /\ WF_vars(Next)

TypeOK ==
  /\ korder \in SetToSeqs(Roles) /\ want \subseteq Roles
  /\ kpc \in {"mount", "body", "umount", "done", "raised"}
  /\ kn \in 1..Len(korder) + 1
  /\ mounts \subseteq want /\ kmounted \subseteq mounts
  /\ kinner \in BOOLEAN
  /\ kerr \in {"none", "mount", "umount", "inner"}

=============================================================================
