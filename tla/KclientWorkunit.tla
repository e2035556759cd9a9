--------------------------- MODULE KclientWorkunit ---------------------------
(***************************************************************************)
(* A job `- kclient: - workunit:` : teuthology enters the tasks as nested *)
(* context managers, so kclient mounts its clients, yields, the workunit  *)
(* task runs to its end (it returns or raises), and only then does        *)
(* kclient's finally unmount.  The two tasks share the clients' mount     *)
(* points: workunit's _make_scratch_dir stats mnt.<id> and creates it     *)
(* only where no mount exists, and its _delete_dir removes only a mount   *)
(* point it created.                                                       *)
(*                                                                         *)
(* A client kclient mounts has its mount point mnt.<id> from the start    *)
(* (Workunit's `mounted`); the others have none, as when kclient skips    *)
(* them for `mounted: false`.                                              *)
(***************************************************************************)
EXTENDS Naturals

CONSTANTS Roles, Explicit, NTests, NAll, Subdir

VARIABLES dirs, mounted, main, k, todo, created, scope, wpc, wcur, werr,
          korder, want, kpc, kn, mounts, kmounted, kinner, kerr

W == INSTANCE Workunit
K == INSTANCE Kclient

wvars == <<dirs, mounted, main, k, todo, created, scope, wpc, wcur, werr>>
kvars == <<korder, want, kpc, kn, mounts, kmounted, kinner, kerr>>
vars == <<wvars, kvars>>

Init ==
  /\ K!Init /\ W!Init
  /\ mounted = [r \in Roles |-> r \in want]

\* kclient's own steps: the mount loop, the yield and the finally.
KclientStep == K!TaskStep /\ UNCHANGED wvars

\* While kclient is yielded, the workunit task and its greenlets run.
WorkunitMain == kpc = "body" /\ W!MainStep /\ UNCHANGED kvars
WorkunitRun(w) == kpc = "body" /\ W!WStep(w) /\ UNCHANGED kvars

\* The workunit task has returned or raised: control is back in kclient.
WorkunitEnds ==
  /\ main \in {"returned", "raised"}
  /\ K!Resume(main = "raised")
  /\ UNCHANGED wvars

\* The job has returned or raised.
Finished ==
  /\ kpc \in {"done", "raised"}
  /\ UNCHANGED vars

Next ==
  \/ KclientStep \/ WorkunitMain \/ WorkunitEnds
  \/ \E w \in W!Workers : WorkunitRun(w)
  \/ Finished

\* Every task's own steps are taken and every greenlet is scheduled.
Spec ==
  /\ Init /\ [][Next]_vars
  /\ WF_vars(KclientStep) /\ WF_vars(WorkunitMain) /\ WF_vars(WorkunitEnds)
  /\ \A w \in W!Workers : WF_vars(WorkunitRun(w))

---------------------------------------------------------------------------
(* Properties                                                              *)

TypeOK == W!TypeOK /\ K!TypeOK

NoSimultaneousRuns == W!NoSimultaneousRuns
SourceLeftOnlyByCloneOrMake == W!SourceLeftOnlyByCloneOrMake

\* Workunit never removes a live kernel mount point: _delete_dir rmdirs
\* mnt.<id> only when _make_scratch_dir's stat found none and it made the
\* directory itself, so a client kclient mounted keeps its mount point.
MountPointKept == \A r \in kmounted : "mnt" \in dirs[r]

\* kclient unmounts a client only once no workunit greenlet is left
\* running on it: the workunit task joins its parallel() scopes before it
\* returns or raises, and kclient's finally runs only after that.
UnmountAfterWorkunits ==
  [][\A r \in kmounted \ kmounted' :
       \A s \in W!Scopes : ~W!Live(<<s, r>>)]_vars

\* A job that returns leaves every client as it found it: no kernel mount
\* is left and, on every client, only the mount points kclient used remain.
StackCleanOnReturn ==
  kpc = "done" =>
    /\ kmounted = {}
    /\ \A r \in Roles : dirs[r] = IF r \in want THEN {"mnt"} ELSE {}

\* A failing workunit never leaves a kernel mount behind: kclient's yield
\* is inside its try, so the finally unmounts every recorded mount before
\* the workunit's error is re-raised.  A mount is still live when the job
\* is over only if kclient's own mount loop (before the try) or one of its
\* umounts raised.
NestedFailureUnmounts ==
  (kpc \in {"done", "raised"} /\ kmounted # {}) => kerr \in {"mount", "umount"}

=============================================================================
