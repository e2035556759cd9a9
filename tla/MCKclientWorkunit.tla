-------------------------- MODULE MCKclientWorkunit --------------------------
(* The kclient + workunit job for TLC: two client roles, r1 with a list of *)
(* its own of two workunits, and an 'all' list of two units.  Init chooses *)
(* the order get_clients yields the clients in and which of them the      *)
(* config leaves mounted, so both mount point branches of workunit and a  *)
(* mount failing after an earlier mount happen.                            *)
EXTENDS KclientWorkunit

CONSTANTS r1, r2

MCRoles == {r1, r2}
MCExplicit == {r1}
====
