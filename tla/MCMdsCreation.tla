--------------------------- MODULE MCMdsCreation ---------------------------
(* MdsCreation for TLC with create_timeout = 10: the wait can succeed     *)
(* before, at and after the boundary check, and can time out.              *)
EXTENDS MdsCreation

MCCreateTimeout == 10
====
