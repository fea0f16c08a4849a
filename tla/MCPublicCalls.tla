---------------------------- MODULE MCPublicCalls ----------------------------
(***************************************************************************)
(* A small instance of PublicCalls.  One predicate is made with a bin and  *)
(* one without, to be mixed up or shared with another query; a UDF can be  *)
(* left behind and replaced; two requests can be under way when their      *)
(* object changes.  An application may leave off at any time.              *)
(***************************************************************************)
EXTENDS MethodTables

Symmetry == Permutations(Udfs)
===============================================================================
