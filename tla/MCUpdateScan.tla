---------------------------- MODULE MCUpdateScan ----------------------------
(***************************************************************************)
(* TLC instance of UpdateScan: three rows in vectors of two, so that the   *)
(* first vector is written while the scan has the last page in hand, and   *)
(* room for the edits that writing every row twice takes.                  *)
(***************************************************************************)
EXTENDS UpdateScan

MCRows == 1..3
MCPushedLimits == {0}
=============================================================================
