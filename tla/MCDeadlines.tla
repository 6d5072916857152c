---------------------------- MODULE MCDeadlines ----------------------------
(***************************************************************************)
(* The input sets of MCRebFsm, for the machine with its clocks.            *)
(***************************************************************************)
EXTENDS MCRebFsm, Deadlines
=============================================================================
