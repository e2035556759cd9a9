---------------------------- MODULE MCDumpStuck ----------------------------
(* DumpStuck for TLC: two PGs, and a poll budget of two ticks so that a    *)
(* poll can succeed after waiting, and can run past its boundary.          *)
EXTENDS DumpStuck

MCNPgs == 2
MCPollTimeout == 2
====
