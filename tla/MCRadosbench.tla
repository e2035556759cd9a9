--------------------------- MODULE MCRadosbench ---------------------------
(* Radosbench for TLC: configs of no, one and two clients.                 *)
EXTENDS Radosbench

CONSTANTS c1, c2

MCClients == <<c1, c2>>
====
