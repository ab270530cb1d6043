----------------------------- MODULE MCCatalog -----------------------------
(***************************************************************************)
(* TLC instance of Catalog: two tables and a key for a third, up to three  *)
(* columns each, with names that repeat, that anticipate the suffix of a   *)
(* repeated one, that are empty or that are those of the row metadata.     *)
(***************************************************************************)
EXTENDS Catalog

MCTables == 1..3
MCColumns == 1..3
MCTableNames == {"t", "u"}

A == Word("a")
A2 == [word |-> "a", suffixes |-> <<2>>]
Created == Word("createdAt")

MCColumnNames == {Unnamed, A, A2, Created}

Document(first, second) ==
  [tables |-> <<"t", Unborn, "u">>,
   columns |-> <<first, <<Unborn, Unborn, Unborn>>, second>>]

MCDocuments == {
  Document(<<A, A, A2>>, <<Unnamed, Unborn, Unnamed>>),
  Document(<<A, Unborn, Created>>, <<A2, A, A>>)}
=============================================================================
