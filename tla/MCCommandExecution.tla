-------------------------- MODULE MCCommandExecution --------------------------
(***************************************************************************)
(* Small instances of CommandExecution: one worker thread and three        *)
(* commands, so that a request waits for the thread while another is in    *)
(* the C client and a third is answered.                                   *)
(***************************************************************************)
EXTENDS CommandExecution
===============================================================================
