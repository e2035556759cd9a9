------------------------------- MODULE Systemd -------------------------------
(***************************************************************************)
(* The systemd task (src/tasks/systemd.py) on one remote.  It lists the   *)
(* zbkc units, stops zbkc.target, starts it again, then for the OSD whose *)
(* process `ps` shows and for each mon, mgr and mds role of the remote:   *)
(* checks the service's status, stops it, sleeps, reads its status,       *)
(* starts it and sleeps; then it yields.  Each check logs a verdict by    *)
(* testing the result of str.find on a command's output.                  *)
(*                                                                         *)
(* A command's output is abstracted to the set of its lines that the      *)
(* checks look for.  The services are the environment: a started one is   *)
(* activating until it becomes active or fails, a stopped one may still  *)
(* be deactivating, and a 4 s sleep need not outlast either.              *)
(***************************************************************************)
EXTENDS Integers, Sequences

Order == <<"osd", "mon", "mgr", "mds">>     \* the order of the blocks
Services == {Order[n] : n \in 1..Len(Order)}
Checks == {"list", "target_stop", "target_start"} \cup Services

VARIABLES
  roles,    \* the mon, mgr and mds roles of the remote
  svc,      \* svc[s]: "active", "activating", "deactivating", "inactive"
            \* or "failed"
  spc,      \* where task() is
  bi,       \* the block (index into Order) being run
  osdSeen,  \* m_osd: the ps output showed an OSD process
  verdict   \* verdict[ch]: what check ch logged: "none", "yes" or "no"

vars == <<roles, svc, spc, bi, osdSeen, verdict>>

Init ==
  /\ roles \in SUBSET {"mon", "mgr", "mds"}
  /\ svc \in [Services -> {"active", "failed"}]
  /\ spc = "list" /\ bi = 1 /\ osdSeen = FALSE
  /\ verdict = [ch \in Checks |-> "none"]

\* str.find: the index of the text in the output, or -1.  The status and
\* list outputs start with a unit name, so a match is never at index 0.
Find(out, text) == IF text \in out THEN 1 ELSE -1

\* `if out.find(text):` takes Python's truth value of that index.
Logged(out, text) == IF Find(out, text) # 0 THEN "yes" ELSE "no"

StatusOut(s) == {"Active: " \o svc[s]}
ListOut == IF \E s \in Services : svc[s] = "failed" THEN {"failed"} ELSE {}
PsOut == {}    \* process lines: no "Active:" line, whatever runs

Log(ch, v) == verdict' = [verdict EXCEPT ![ch] = v]

Raise == spc' = "raised" /\ UNCHANGED <<roles, svc, bi, osdSeen, verdict>>

\* Whether block n runs: the OSD one if ps showed an OSD, the others if
\* the remote has the role.
Runs(n) == IF Order[n] = "osd" THEN osdSeen ELSE Order[n] \in roles

\* The first block from n on that runs, or Len(Order) + 1.
RECURSIVE NextBlock(_)
NextBlock(n) == IF n > Len(Order) \/ Runs(n) THEN n ELSE NextBlock(n + 1)

\* `ps -eaf | grep zbkc`, checked: it raises when grep finds no line;
\* `systemctl list-units | grep zbkc`, not checked; log "in failed state"
\* if the find for 'failed' is truthy.
ListUnits ==
  /\ spc = "list"
  /\ \/ /\ Log("list", Logged(ListOut, "failed"))
        /\ spc' = "stoptgt"
        /\ UNCHANGED <<roles, svc, bi, osdSeen>>
     \/ Raise

\* `systemctl stop zbkc.target`; status (not checked); ps; log "stopped"
\* if the find for 'Active: inactive' in the ps output is truthy.
StopTarget ==
  /\ spc = "stoptgt"
  /\ \/ /\ svc' \in [Services -> {"inactive", "deactivating"}]
        /\ Log("target_stop", Logged(PsOut, "Active: inactive"))
        /\ spc' = "starttgt"
        /\ UNCHANGED <<roles, bi, osdSeen>>
     \/ Raise

\* `systemctl start zbkc.target`; its status, checked, and a log of
\* "started" if the find for 'Active: active' is truthy; ps, whose output
\* m_osd searches; sleep(4).
StartTarget ==
  /\ spc = "starttgt"
  /\ \/ /\ svc' = [s \in Services |-> "activating"]
        /\ \E osdUp \in BOOLEAN :
             /\ osdSeen' = osdUp
             /\ spc' = "check" /\ bi' = NextBlock(1)
        /\ Log("target_start", Logged({"Active: active"}, "Active: active"))
        /\ UNCHANGED roles
     \/ Raise

\* The block's first `systemctl status`, checked: exit 0 for an active
\* service, non-zero for a failed or stopped one; for one still
\* activating either may come back.
CheckActive ==
  /\ spc = "check" /\ bi <= Len(Order)
  /\ LET s == Order[bi] IN
     \/ /\ svc[s] = "active" \/ svc[s] = "activating"
        /\ spc' = "stop"
        /\ UNCHANGED <<roles, svc, bi, osdSeen, verdict>>
     \/ svc[s] # "active" /\ Raise

\* `systemctl stop`, checked; sleep(4); `systemctl status`, not checked;
\* log "stopped" if the find for 'Active: inactive' is truthy.
StopService ==
  /\ spc = "stop"
  /\ LET s == Order[bi] IN
     \/ /\ \E st \in {"inactive", "deactivating"} :
             /\ svc' = [svc EXCEPT ![s] = st]
             /\ verdict' = [verdict EXCEPT ![s] =
                  Logged({"Active: " \o st}, "Active: inactive")]
        /\ spc' = "start"
        /\ UNCHANGED <<roles, bi, osdSeen>>
     \/ Raise

\* `systemctl start`, checked; sleep(4); on to the next block that runs.
StartService ==
  /\ spc = "start"
  /\ \/ /\ svc' = [svc EXCEPT ![Order[bi]] = "activating"]
        /\ bi' = NextBlock(bi + 1)
        /\ spc' = "check"
        /\ UNCHANGED <<roles, osdSeen, verdict>>
     \/ Raise

\* Every block has run: yield.
Yield ==
  /\ spc = "check" /\ bi > Len(Order)
  /\ spc' = "done"
  /\ UNCHANGED <<roles, svc, bi, osdSeen, verdict>>

TaskStep ==
  \/ ListUnits \/ StopTarget \/ StartTarget \/ CheckActive
  \/ StopService \/ StartService \/ Yield

\* A service settles: a starting one becomes active or fails, a stopping
\* one becomes inactive.
Settle(s) ==
  /\ \/ svc[s] = "activating" /\ svc' = [svc EXCEPT ![s] = "active"]
     \/ svc[s] = "activating" /\ svc' = [svc EXCEPT ![s] = "failed"]
     \/ svc[s] = "deactivating" /\ svc' = [svc EXCEPT ![s] = "inactive"]
  /\ UNCHANGED <<roles, spc, bi, osdSeen, verdict>>

\* task() has yielded or raised.
Finished ==
  /\ spc \in {"done", "raised"}
  /\ UNCHANGED vars

Next == TaskStep \/ (\E s \in Services : Settle(s)) \/ Finished

Spec == Init /\ [][Next]_vars /\ WF_vars(TaskStep)

---------------------------------------------------------------------------
(* Properties                                                              *)

\* What each check is meant to find out, on the state it reads.
Holds(ch) ==
  CASE ch = "list" -> \E s \in Services : svc[s] = "failed"
    [] ch = "target_stop" -> \A s \in Services : svc[s] = "inactive"
    [] ch = "target_start" -> TRUE
    [] OTHER -> svc[ch] = "inactive"

\* The docstring: the task checks for failed services and reports back.
\* Each verdict it logs agrees with the output it tested at the time: a
\* service is logged as stopped only if its status read inactive, and
\* services are logged as failed only if one had failed.
VerdictsTrue ==
  [][\A ch \in Checks :
       verdict'[ch] # verdict[ch] => ((verdict'[ch] = "yes") = Holds(ch)')]_vars

=============================================================================
