---------------------------- MODULE MCRecordStream ----------------------------
(***************************************************************************)
(* A small instance of RecordStream.  Three records in pages of two make a *)
(* full page, a short one and, after an error, pages that start anywhere;  *)
(* the last stream finds a page left over.  Two streams overlap when the   *)
(* first is aborted.                                                       *)
(***************************************************************************)
EXTENDS RecordStream
===============================================================================
