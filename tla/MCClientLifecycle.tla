-------------------------- MODULE MCClientLifecycle --------------------------
(***************************************************************************)
(* Small instances of ClientLifecycle: two clients are enough for one to   *)
(* close while the other connects, a third is connected meanwhile, fails   *)
(* to connect or was closed; two closes make a repeated close.             *)
(***************************************************************************)
EXTENDS ClientLifecycle
===============================================================================
