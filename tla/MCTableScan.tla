---------------------------- MODULE MCTableScan ----------------------------
(***************************************************************************)
(* TLC instance of TableScan: three rows and room for a fourth, pages and  *)
(* vectors of two (a page may come back short, so pages and vectors do not *)
(* stay aligned), and enough edits to change one row in both passes of the *)
(* scan and between them.                                                  *)
(***************************************************************************)
EXTENDS TableScan

MCRows == 1..4
MCInitialRows == {1, 2, 4}
MCPushedLimits == {0, 1, 3}
=============================================================================
