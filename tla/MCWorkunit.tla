----------------------------- MODULE MCWorkunit -----------------------------
(* Workunit for TLC: two client roles, r1 with a list of its own of two    *)
(* workunits, and an 'all' list of two units.  Each role's mount point may *)
(* or may not exist beforehand (Init chooses), so both branches of         *)
(* _make_scratch_dir and of _delete_dir happen.                            *)
EXTENDS Workunit

CONSTANTS r1, r2

MCRoles == {r1, r2}
MCExplicit == {r1}
====
