---------------------------- MODULE MCAdminSocket ----------------------------
(* Two clients: c1 runs two admin socket commands, the first with a test   *)
(* program; c2 runs one command with a test.  max_tries is cut from 120   *)
(* to 2: every path of the retry loop (success on a retry, exhaustion,    *)
(* output left by failed attempts) is already reached with 2.             *)
EXTENDS AdminSocket

CONSTANTS c1, c2

MCClients == {c1, c2}
MCCommands == [c \in MCClients |-> IF c = c1 THEN <<TRUE, FALSE>> ELSE <<TRUE>>]
MCMaxTries == 2
=============================================================================
