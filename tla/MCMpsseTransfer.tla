--------------------------- MODULE MCMpsseTransfer ---------------------------
(* MpsseTransfer as it is: its constants are numbers.  The deadlocks TLC may *)
(* meet are the undefined state and the bound on the number of batches.      *)
EXTENDS MpsseTransfer
=============================================================================
