------------------------------- MODULE MCJobPoll -------------------------------
(***************************************************************************)
(* Small instances of JobPoll: two nodes that finish in any order and two  *)
(* polls at a time, so that a late answer meets one that has settled.      *)
(***************************************************************************)
EXTENDS JobPoll
===============================================================================
