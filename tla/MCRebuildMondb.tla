--------------------------- MODULE MCRebuildMondb ---------------------------
(* RebuildMondb for TLC: three monitors and two OSDs, in every order the   *)
(* dicts may yield them, so that the store passes through more than one   *)
(* OSD and more than one monitor needs mkfs.                               *)
EXTENDS RebuildMondb

CONSTANTS m1, m2, m3, o1, o2

MCMons == {m1, m2, m3}
MCOsds == {o1, o2}
====
