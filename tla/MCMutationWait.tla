--------------------------- MODULE MCMutationWait ---------------------------
(***************************************************************************)
(* TLC instance of MutationWait.  A poll interval of 2 ticks lets the last *)
(* sleep be clipped (odd timeouts) and a request time-out of 3 lets one    *)
(* request straddle the deadline.                                          *)
(***************************************************************************)
EXTENDS MutationWait

MCTimeouts == 1..7
=============================================================================
