------------------------------- MODULE MCCram -------------------------------
(* Cram for TLC: three clients with two tests each; c1 and c2 share host  *)
(* h1 and so its virtualenv, c3 runs on h2.  A setup failure at c1 or c2   *)
(* leaves later clients without a dir, which the finally loop meets.       *)
EXTENDS Cram, TLC

CONSTANTS c1, c2, c3, h1, h2

MCOrder == <<c1, c2, c3>>
MCHosts == {h1, h2}
MCHostOf == (c1 :> h1) @@ (c2 :> h1) @@ (c3 :> h2)
====
