------------------------------ MODULE Workunit ------------------------------
(***************************************************************************)
(* The workunit task (src/tasks/workunit.py).  For the roles named in its  *)
(* config it makes a scratch dir per role, runs their workunits in one     *)
(* parallel() scope and deletes the scratch dirs; then, for an 'all'       *)
(* section, it makes a scratch dir for every client of the cluster and     *)
(* runs each unit of 'all' on every client in a parallel() scope of its    *)
(* own, one unit after the other, before deleting those dirs.              *)
(*                                                                         *)
(* The remote directories are the data: per role, the mount point "mnt",  *)
(* "cdir" (mnt/client.<id>), "ctmp" (mnt/client.<id>/tmp), "sub"           *)
(* (mnt/<subdir>), and in the test dir "clone", "src" (workunit.<role>)    *)
(* and "list" (workunits.list.<role>).  A command on these succeeds or     *)
(* fails as the directory state dictates; git, make and the workunits      *)
(* themselves succeed or fail freely.                                      *)
(***************************************************************************)
EXTENDS Naturals

CONSTANTS
  Roles,       \* the client roles of the cluster
  Explicit,    \* the roles with a list of their own under 'clients'
  NTests,      \* length of each explicit role's list of workunits
  NAll,        \* length of the 'all' list (0: no 'all' key)
  Subdir       \* TRUE iff the config sets 'subdir'

ASSUME /\ Explicit \subseteq Roles
       /\ NTests \in Nat \ {0} /\ NAll \in Nat /\ Subdir \in BOOLEAN

Paths == {"mnt", "cdir", "ctmp", "sub", "clone", "src", "list"}
Scopes == 0..NAll                  \* 0: the explicit roles; k: unit k of 'all'
Workers == Scopes \X Roles         \* one _run_tests call per scope and role

VARIABLES
  dirs,      \* per role: the paths that exist on its remote
  mounted,   \* per role: the mount point existed before the task
  main,      \* where task() is
  k,         \* the parallel() scope task() is in or heads for
  todo,      \* roles the current for loop has still to visit
  created,   \* created_mountpoint of the current phase
  scope,     \* the current parallel() scope: "none", "open" or "joining"
  wpc,       \* per worker: where its _run_tests is
  wcur,      \* per worker: index of the test spec it runs
  werr       \* per worker: it has raised

vars == <<dirs, mounted, main, k, todo, created, scope, wpc, wcur, werr>>

Members(s) == IF s = 0 THEN Explicit ELSE Roles
TestsOf(s) == IF s = 0 THEN NTests ELSE 1
\* The non-'all' _run_tests calls get no subdir argument.
Scratch(s) == IF s = 0 \/ ~Subdir THEN "ctmp" ELSE "sub"

Init ==
  /\ mounted \in [Roles -> BOOLEAN]
  /\ dirs = [r \in Roles |-> IF mounted[r] THEN {"mnt"} ELSE {}]
  /\ main = "mkscratch"
  /\ k = 0
  /\ todo = Explicit
  /\ created = [r \in Roles |-> FALSE]
  /\ scope = "none"
  /\ wpc = [w \in Workers |-> "idle"]
  /\ wcur = [w \in Workers |-> 1]
  /\ werr = [w \in Workers |-> FALSE]

SetDirs(r, d) == dirs' = [dirs EXCEPT ![r] = d]

---------------------------------------------------------------------------
(* task() and its helpers, run by the main greenlet.                       *)

\* Bug variant of MakeScratchDir: no stat; the mount point is taken as
\* made by the task.
MakeScratchDirNoStat(r) ==
  /\ main \in {"mkscratch", "allscratch"}
  /\ r \in todo
  /\ LET sub == IF Subdir THEN "sub" ELSE "cdir" IN
     /\ SetDirs(r, dirs[r] \cup {"mnt", sub})
     /\ created' = [created EXCEPT ![r] = TRUE]
  /\ todo' = todo \ {r}
  /\ UNCHANGED <<mounted, main, k, scope, wpc, wcur, werr>>

\* _make_scratch_dir: stat mnt; mkdir it if stat fails; then mkdir (fresh
\* mount point) or `install -d` the subdir, client.<id> when none is set.
MakeScratchDir(r) ==
  /\ main \in {"mkscratch", "allscratch"}
  /\ r \in todo
  /\ LET made == "mnt" \notin dirs[r]
         sub  == IF Subdir THEN "sub" ELSE "cdir"
     IN /\ SetDirs(r, dirs[r] \cup {"mnt", sub})
        /\ created' = [created EXCEPT ![r] = made]
  /\ todo' = todo \ {r}
  /\ UNCHANGED <<mounted, main, k, scope, wpc, wcur, werr>>

\* The scratch dir loop is over: enter the parallel() scope.
OpenScope ==
  /\ main \in {"mkscratch", "allscratch"}
  /\ todo = {}
  /\ main' = IF main = "mkscratch" THEN "par" ELSE "allpar"
  /\ scope' = "open"
  /\ UNCHANGED <<dirs, mounted, k, todo, created, wpc, wcur, werr>>

\* p.spawn(_run_tests, ctx, refspec, role, tests, env, ...)
Spawn(r) ==
  /\ scope = "open"
  /\ r \in Members(k)
  /\ wpc[<<k, r>>] = "idle"
  /\ wpc' = [wpc EXCEPT ![<<k, r>>] = "clone"]
  /\ UNCHANGED <<dirs, mounted, main, k, todo, created, scope, wcur, werr>>

Close ==
  /\ scope = "open"
  /\ \A r \in Members(k) : wpc[<<k, r>>] # "idle"
  /\ scope' = "joining"
  /\ UNCHANGED <<dirs, mounted, main, k, todo, created, wpc, wcur, werr>>

\* After the explicit roles' scope, the for loop over created_mountpoint.
AfterScope(failed) ==
  IF failed THEN main' = "raised" /\ UNCHANGED <<k, todo>>
  ELSE IF k = 0 THEN main' = "delete" /\ todo' = Explicit /\ UNCHANGED k
  ELSE IF k < NAll THEN main' = "allpar" /\ k' = k + 1 /\ UNCHANGED todo
  ELSE main' = "alldelete" /\ todo' = Roles /\ UNCHANGED k

\* Bug variant of Join: the scope exit does not wait for its greenlets.
JoinNoBarrier ==
  /\ scope = "joining"
  /\ AfterScope(\E r \in Members(k) : wpc[<<k, r>>] = "failed")
  /\ scope' = IF main' = "allpar" THEN "open" ELSE "none"
  /\ UNCHANGED <<dirs, mounted, created, wpc, wcur, werr>>

\* Scope exit: wait for every _run_tests; raise if one raised.
Join ==
  /\ scope = "joining"
  /\ \A r \in Members(k) : wpc[<<k, r>>] \in {"done", "failed"}
  /\ AfterScope(\E r \in Members(k) : wpc[<<k, r>>] = "failed")
  /\ scope' = IF main' = "allpar" THEN "open" ELSE "none"
  /\ UNCHANGED <<dirs, mounted, created, wpc, wcur, werr>>

\* Bug variant of DeleteDir: the artificial mount point is never removed.
DeleteDirNoRmdir(r) ==
  /\ main \in {"delete", "alldelete"}
  /\ r \in todo
  /\ SetDirs(r, dirs[r] \ {"cdir", "ctmp"})
  /\ todo' = todo \ {r}
  /\ UNCHANGED <<mounted, main, k, created, scope, wpc, wcur, werr>>

\* _delete_dir: sudo rm -rf mnt/client.<id>; rmdir mnt if the task made
\* it, which fails while anything is left in it.
DeleteDir(r) ==
  /\ main \in {"delete", "alldelete"}
  /\ r \in todo
  /\ LET left == dirs[r] \ {"cdir", "ctmp"} IN
     IF ~created[r] THEN SetDirs(r, left) /\ UNCHANGED main
     ELSE IF left \cap {"sub"} = {}
       THEN SetDirs(r, left \ {"mnt"}) /\ UNCHANGED main
       ELSE SetDirs(r, left) /\ main' = "raised"
  /\ todo' = todo \ {r}
  /\ UNCHANGED <<mounted, k, created, scope, wpc, wcur, werr>>

\* A delete loop is over: on to 'all', or task() returns.
EndDelete ==
  /\ main \in {"delete", "alldelete"}
  /\ todo = {}
  /\ IF main = "delete" /\ NAll > 0
       THEN main' = "allscratch" /\ todo' = Roles /\ k' = 1
            /\ created' = [r \in Roles |-> FALSE]
       ELSE main' = "returned" /\ UNCHANGED <<todo, created, k>>
  /\ UNCHANGED <<dirs, mounted, scope, wpc, wcur, werr>>

---------------------------------------------------------------------------
(* _run_tests(ctx, refspec, role, tests, env, subdir, timeout)             *)

WGoto(w, l) == wpc' = [wpc EXCEPT ![w] = l]

\* `git clone url clonedir; cd clonedir && git checkout ref && mv
\* qa/workunits srcdir`, before the try: a failure raises with no cleanup.
Clone(w) ==
  LET r == w[2] IN
  /\ wpc[w] = "clone"
  /\ \/ SetDirs(r, dirs[r] \cup {"clone", "src"}) /\ WGoto(w, "make")
     \/ SetDirs(r, dirs[r] \cup {"clone"}) /\ WGoto(w, "failed")
  /\ UNCHANGED <<mounted, main, k, todo, created, scope, wcur, werr>>

\* `cd srcdir && make && find ... > workunits.list`, still before the try.
Make(w) ==
  LET r == w[2] IN
  /\ wpc[w] = "make"
  /\ \/ SetDirs(r, dirs[r] \cup {"list"}) /\ WGoto(w, "unit")
     \/ UNCHANGED dirs /\ WGoto(w, "failed")
  /\ UNCHANGED <<mounted, main, k, todo, created, scope, wcur, werr>>

\* One spec: RuntimeError if it matches no workunit; else `mkdir -p
\* scratch_tmp && cd scratch_tmp && ... workunit`, which may fail.
RunUnit(w) ==
  LET r == w[2]
      mk == IF Scratch(w[1]) = "ctmp" THEN {"mnt", "cdir", "ctmp"}
                                      ELSE {"mnt", "sub"}
  IN
  /\ wpc[w] = "unit"
  /\ \/ SetDirs(r, dirs[r] \cup mk) /\ WGoto(w, "rmtmp") /\ UNCHANGED werr
     \/ SetDirs(r, dirs[r] \cup mk) /\ WGoto(w, "final")
        /\ werr' = [werr EXCEPT ![w] = TRUE]
     \/ UNCHANGED dirs /\ WGoto(w, "final")
        /\ werr' = [werr EXCEPT ![w] = TRUE]
  /\ UNCHANGED <<mounted, main, k, todo, created, scope, wcur>>

\* Bug variant of RemoveScratch: `<=` for `<` on the spec index.
RemoveScratchOffByOne(w) ==
  LET r == w[2] IN
  /\ wpc[w] = "rmtmp"
  /\ SetDirs(r, dirs[r] \ {Scratch(w[1])})
  /\ IF wcur[w] <= TestsOf(w[1])
       THEN wcur' = [wcur EXCEPT ![w] = @ + 1] /\ WGoto(w, "unit")
       ELSE WGoto(w, "final") /\ UNCHANGED wcur
  /\ UNCHANGED <<mounted, main, k, todo, created, scope, werr>>

\* sudo rm -rf scratch_tmp, then the next spec or the finally.
RemoveScratch(w) ==
  LET r == w[2] IN
  /\ wpc[w] = "rmtmp"
  /\ SetDirs(r, dirs[r] \ {Scratch(w[1])})
  /\ IF wcur[w] < TestsOf(w[1])
       THEN wcur' = [wcur EXCEPT ![w] = @ + 1] /\ WGoto(w, "unit")
       ELSE WGoto(w, "final") /\ UNCHANGED wcur
  /\ UNCHANGED <<mounted, main, k, todo, created, scope, werr>>

\* Bug variant of Final: the rm -rf runs only after a successful loop, as
\* if it followed the loop instead of being its finally.
FinalNoFinally(w) ==
  LET r == w[2] IN
  /\ wpc[w] = "final"
  /\ IF werr[w] THEN UNCHANGED dirs
     ELSE SetDirs(r, dirs[r] \ {"list", "src", "clone"})
  /\ WGoto(w, IF werr[w] THEN "failed" ELSE "done")
  /\ UNCHANGED <<mounted, main, k, todo, created, scope, wcur, werr>>

\* finally: rm -rf workunits_file srcdir clonedir; return or re-raise.
Final(w) ==
  LET r == w[2] IN
  /\ wpc[w] = "final"
  /\ SetDirs(r, dirs[r] \ {"list", "src", "clone"})
  /\ WGoto(w, IF werr[w] THEN "failed" ELSE "done")
  /\ UNCHANGED <<mounted, main, k, todo, created, scope, wcur, werr>>

WStep(w) ==
  \/ Clone(w) \/ Make(w) \/ RunUnit(w) \/ RemoveScratch(w) \/ Final(w)

\* task() has returned or raised.
Finished ==
  /\ main \in {"returned", "raised"}
  /\ UNCHANGED vars

\* The steps of task()'s own greenlet.
MainStep ==
  \/ \E r \in Roles : MakeScratchDir(r) \/ Spawn(r) \/ DeleteDir(r)
  \/ OpenScope \/ Close \/ Join \/ EndDelete

Next ==
  \/ MainStep
  \/ \E w \in Workers : WStep(w)
  \/ Finished

\* Every remote command returns (each workunit runs under `timeout`), and
\* the main greenlet and every spawned one get scheduled.
Fairness ==
  /\ WF_vars(MainStep)
  /\ \A w \in Workers : WF_vars(WStep(w))

Spec == Init /\ [][Next]_vars /\ Fairness

---------------------------------------------------------------------------
(* Properties                                                              *)

TypeOK ==
  /\ dirs \in [Roles -> SUBSET Paths] /\ mounted \in [Roles -> BOOLEAN]
  /\ main \in {"mkscratch", "par", "delete", "allscratch", "allpar",
               "alldelete", "returned", "raised"}
  /\ k \in Scopes /\ todo \in SUBSET Roles
  /\ created \in [Roles -> BOOLEAN]
  /\ scope \in {"none", "open", "joining"}
  /\ wpc \in [Workers -> {"idle", "clone", "make", "unit", "rmtmp", "final",
                          "done", "failed"}]
  /\ wcur \in [Workers -> 1..NTests] /\ werr \in [Workers -> BOOLEAN]

Live(w) == wpc[w] \notin {"idle", "done", "failed"}

\* The docstring's promise: the 'all' units run only after the explicit
\* roles' workunits, one unit after another, so no two _run_tests of one
\* role (which share its workunit.<role> and clone.<role> dirs and its
\* scratch dir) are ever live at once.
NoSimultaneousRuns ==
  \A r \in Roles, s, t \in Scopes :
    Live(<<s, r>>) /\ Live(<<t, r>>) => s = t

\* When task() returns normally, every remote is left as it was found: no
\* scratch, source, clone or list dir remains, and a mount point exists
\* exactly where one existed before the task.
CleanAfterReturn ==
  main = "returned" =>
    \A r \in Roles : dirs[r] = IF mounted[r] THEN {"mnt"} ELSE {}

\* A _run_tests that reached its try removes workunits.list.<role>,
\* workunit.<role> and clone.<role> whether its workunits pass or fail.
\* So once no run is live on a role, any of them left there was left by
\* a run whose clone or make (before the try) failed.
SourceLeftOnlyByCloneOrMake ==
  \A r \in Roles :
    ({"clone", "src", "list"} \cap dirs[r] # {} /\ \A s \in Scopes : ~Live(<<s, r>>))
      => \E s \in Scopes : wpc[<<s, r>>] = "failed" /\ ~werr[<<s, r>>]

=============================================================================
