--------------------------- MODULE MCRadosbenchJob ---------------------------
(* The buildpackages + radosbench + watch_notify_stress job for TLC: a    *)
(* cluster of no, one and two remotes, radosbench configs of no, one and  *)
(* two clients, watch_notify_stress configs of one and two clients.       *)
EXTENDS RadosbenchJob

CONSTANTS h1, h2, c1, c2

MCRemotes == <<h1, h2>>
MCClients == <<c1, c2>>
====
