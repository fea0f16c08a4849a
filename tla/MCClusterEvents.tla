---------------------------- MODULE MCClusterEvents ----------------------------
(***************************************************************************)
(* A small instance of ClusterEvents: with four events one may be raised,  *)
(* one be queued, one be handled and one come after the handler closed the *)
(* client.                                                                 *)
(***************************************************************************)
EXTENDS ClusterEvents
===============================================================================
