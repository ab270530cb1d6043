------------------------------ MODULE Catalog ------------------------------
(***************************************************************************)
(* The catalog an ATTACH reads once and keeps: the tables of a document    *)
(* and their columns, listed page by page (load_catalog and load_columns   *)
(* of src/src/client/catalog.rs), the names the columns are given          *)
(* (src/src/json/catalog.rs) and the entries DuckDB looks tables up in     *)
(* (src/src/cpp/storage/rust_bridge_schema.cpp), while the document is     *)
(* being edited.                                                           *)
(*                                                                         *)
(* The endpoints are external: a listing ranges over the items that exist, *)
(* by key, a page token is the last key listed, and a table that is gone   *)
(* has no columns to list.  The name of a column is a word and the numeric *)
(* suffixes that follow it, as in a_2.  Words are equal if they are equal  *)
(* without case.                                                           *)
(***************************************************************************)
EXTENDS Integers, Sequences, FiniteSets

CONSTANTS
  Tables, Columns,       \* keys of tables, and of columns within a table
  TableNames,            \* names of tables
  ColumnNames,           \* names of columns
  Documents,             \* documents the load may start from
  PageSize,              \* bound: the most items a page holds (100)
  MaxEdits,              \* bound: edits of the document during the load
  CreatedAt, UpdatedAt,  \* keys of the row metadata columns
  Unborn, Gone           \* in place of a name: not there yet, or no longer

ASSUME CatalogAssumption ==
  /\ Tables \subseteq Nat \ {0} /\ Columns \subseteq Nat \ {0}
  /\ PageSize \in Nat \ {0} /\ MaxEdits \in Nat
  /\ {Unborn, Gone} \cap TableNames = {} /\ {Unborn, Gone} \cap ColumnNames = {}
  /\ {CreatedAt, UpdatedAt} \cap Columns = {}
  /\ ColumnNames \subseteq [word : STRING, suffixes : Seq(Nat)]
  /\ Documents \subseteq [tables : [Tables -> TableNames \cup {Unborn}],
                         columns : [Tables -> [Columns -> ColumnNames \cup {Unborn}]]]

VARIABLES
  tableName,    \* the document: names of its tables
  columnName,   \* and of their columns
  metadata,     \* INCLUDE_ROW_METADATA
  pc,           \* what is asked for next
  tableToken,   \* page token of the tables, 0 for none
  page,         \* tables of the page that are still to be asked for columns
  columnToken,  \* page token of the columns, 0 for none
  all,          \* columns of the first table of page so far
  loaded,       \* tables with their columns
  edits,        \* number of edits so far
  touched       \* history: tables, as <<t, 0>>, and columns that were edited

document == <<tableName, columnName, edits, touched>>
load == <<pc, tableToken, page, columnToken, all, loaded>>
vars == <<document, metadata, load>>

Init ==
  /\ \E d \in Documents : tableName = d.tables /\ columnName = d.columns
  /\ metadata \in BOOLEAN
  /\ pc = "tables"
  /\ tableToken = 0 /\ page = <<>>
  /\ columnToken = 0 /\ all = <<>>
  /\ loaded = <<>>
  /\ edits = 0 /\ touched = {}
-----------------------------------------------------------------------------
(* Other editors.                                                          *)

Edit == edits < MaxEdits /\ edits' = edits + 1 /\ UNCHANGED <<metadata, load>>

(* Add a table, or rename one.                                             *)
NameTable(t, name) ==
  /\ Edit
  /\ tableName[t] \notin {Gone, name}
  /\ tableName' = [tableName EXCEPT ![t] = name]
  /\ touched' = touched \cup {<<t, 0>>}
  /\ UNCHANGED columnName

DropTable(t) ==
  /\ Edit
  /\ tableName[t] \in TableNames
  /\ tableName' = [tableName EXCEPT ![t] = Gone]
  /\ touched' = touched \cup {<<t, 0>>}
  /\ UNCHANGED columnName

(* Add a column, or rename one.                                            *)
NameColumn(t, c, name) ==
  /\ Edit
  /\ tableName[t] \in TableNames
  /\ columnName[t][c] \notin {Gone, name}
  /\ columnName' = [columnName EXCEPT ![t][c] = name]
  /\ touched' = touched \cup {<<t, c>>}
  /\ UNCHANGED tableName

DropColumn(t, c) ==
  /\ Edit
  /\ tableName[t] \in TableNames /\ columnName[t][c] \in ColumnNames
  /\ columnName' = [columnName EXCEPT ![t][c] = Gone]
  /\ touched' = touched \cup {<<t, c>>}
  /\ UNCHANGED tableName
-----------------------------------------------------------------------------
(* The names of columns.                                                   *)

Word(word) == [word |-> word, suffixes |-> <<>>]

Unnamed == Word("")

BaseName(original) == IF original = Unnamed THEN Word("column") ELSE original

Candidate(base, suffix) ==
  IF suffix = 1 THEN base ELSE [base EXCEPT !.suffixes = Append(@, suffix)]

(* The first candidate that is not taken.                                  *)
FreshName(taken, base) ==
  LET free == {k \in 1..Cardinality(taken) + 1 : Candidate(base, k) \notin taken}
  IN  Candidate(base, CHOOSE k \in free : \A j \in free : k <= j)

NamesOf(columns) == {columns[i].name : i \in DOMAIN columns}

(* Mutant: candidates are compared with the names as they were listed.     *)
PrepareFromOriginals(columns) ==
  [i \in DOMAIN columns |->
     [columns[i] EXCEPT !.name =
        FreshName(NamesOf(SubSeq(columns, 1, i - 1)), BaseName(columns[i].name))]]

(* prepare_columns: in order, each against the names given before it.      *)
PrepareColumns(columns) ==
  LET given[i \in DOMAIN columns] ==
        [columns[i] EXCEPT !.name =
           FreshName({given[j].name : j \in 1..(i - 1)}, BaseName(columns[i].name))]
  IN  given

(* append_row_metadata                                                     *)
RowMetadata == <<[id |-> CreatedAt, name |-> Word("createdAt")],
                 [id |-> UpdatedAt, name |-> Word("updatedAt")]>>

TableColumns(columns) == PrepareColumns(IF metadata THEN columns \o RowMetadata ELSE columns)
-----------------------------------------------------------------------------
(* The endpoints: the keys on a page after the token, and the next token.  *)

Listed(names, token) == {k \in DOMAIN names : k > token /\ names[k] \notin {Unborn, Gone}}

(* In order, without a gap, and none only if there is none.                *)
Pages(names, token) ==
  LET keys == Listed(names, token)
  IN  {p \in UNION {[1..n -> keys] : n \in 0..PageSize} :
         /\ \A i, j \in DOMAIN p : i < j => p[i] < p[j]
         /\ \A k \in keys : \A i \in DOMAIN p : k < p[i] => \E j \in DOMAIN p : p[j] = k
         /\ p = <<>> => keys = {}}

Items(names, p) == [i \in DOMAIN p |-> [id |-> p[i], name |-> names[p[i]]]]

NextToken(names, token, p) ==
  IF \A k \in Listed(names, token) : \E i \in DOMAIN p : p[i] = k THEN 0 ELSE p[Len(p)]
-----------------------------------------------------------------------------
(* load_catalog and load_columns                                           *)

(* What comes after the page has been worked off.                          *)
AfterPage(token) == IF token = 0 THEN "done" ELSE "tables"

ListTables ==
  /\ pc = "tables"
  /\ \E p \in Pages(tableName, tableToken) :
       /\ page' = Items(tableName, p)
       /\ tableToken' = NextToken(tableName, tableToken, p)
  /\ pc' = IF page' = <<>> THEN AfterPage(tableToken') ELSE "columns"
  /\ UNCHANGED <<document, metadata, columnToken, all, loaded>>

(* Mutant: the columns of one table are added to those of the next.        *)
FinishTableKeeping(columns) ==
  /\ loaded' = Append(loaded, [id |-> Head(page).id, name |-> Head(page).name,
                               columns |-> TableColumns(columns)])
  /\ all' = columns
  /\ page' = Tail(page)
  /\ pc' = IF page' = <<>> THEN AfterPage(tableToken) ELSE "columns"
  /\ UNCHANGED tableToken

(* Mutant: both loops use one page token, which is empty by now.           *)
FinishTableSharing(columns) ==
  /\ loaded' = Append(loaded, [id |-> Head(page).id, name |-> Head(page).name,
                               columns |-> TableColumns(columns)])
  /\ all' = <<>>
  /\ page' = Tail(page)
  /\ pc' = IF page' = <<>> THEN AfterPage(0) ELSE "columns"
  /\ tableToken' = 0

(* The last page of columns: the next table, or the next page of tables.   *)
FinishTable(columns) ==
  /\ loaded' = Append(loaded, [id |-> Head(page).id, name |-> Head(page).name,
                               columns |-> TableColumns(columns)])
  /\ all' = <<>>
  /\ page' = Tail(page)
  /\ pc' = IF page' = <<>> THEN AfterPage(tableToken) ELSE "columns"
  /\ UNCHANGED tableToken

ListColumns ==
  /\ pc = "columns"
  /\ tableName[Head(page).id] \in TableNames
  /\ LET names == columnName[Head(page).id]
     IN  \E p \in Pages(names, columnToken) :
           /\ columnToken' = NextToken(names, columnToken, p)
           /\ LET columns == all \o Items(names, p)
              IN  IF columnToken' # 0
                  THEN all' = columns /\ UNCHANGED <<pc, tableToken, page, loaded>>
                  ELSE FinishTable(columns)
  /\ UNCHANGED <<document, metadata>>

(* A request fails, or asks for the columns of a table that is gone; the   *)
(* ATTACH fails with it.                                                   *)
ListingFails ==
  /\ pc \in {"tables", "columns"}
  /\ pc' = "failed"
  /\ loaded' = <<>> /\ all' = <<>> /\ page' = <<>>
  /\ tableToken' = 0 /\ columnToken' = 0
  /\ UNCHANGED <<document, metadata>>

Next ==
  \/ \E t \in Tables :
       \/ \E name \in TableNames : NameTable(t, name)
       \/ DropTable(t)
       \/ \E c \in Columns : DropColumn(t, c) \/ \E name \in ColumnNames : NameColumn(t, c, name)
  \/ ListTables \/ ListColumns \/ ListingFails

Spec == Init /\ [][Next]_vars
-----------------------------------------------------------------------------
(* The schema's entries, by name: a table listed later replaces an earlier *)
(* one of the same name.                                                   *)
Named(name) == {i \in DOMAIN loaded : loaded[i].name = name}

HasEntry(name) == Named(name) # {}

LookupEntry(name) == loaded[CHOOSE i \in Named(name) : \A j \in Named(name) : j <= i]

(* Every column of a table can be referred to: it has a name of its own,   *)
(* also when it had none, when columns share a name and when another has   *)
(* the name that would be given to the second of them.                     *)
ColumnNamesDistinct == \A i \in DOMAIN loaded :
  /\ Unnamed \notin NamesOf(loaded[i].columns)
  /\ Cardinality(NamesOf(loaded[i].columns)) = Len(loaded[i].columns)

(* What exists under a name that nobody has given to it during the load.   *)
SteadyTable(t) == tableName[t] \in TableNames /\ <<t, 0>> \notin touched
SteadyColumn(t, c) == columnName[t][c] \in ColumnNames /\ <<t, c>> \notin touched

(* A table that existed under its name all through the load is found under *)
(* it, unless another table was listed under the same name; no other edit  *)
(* and no page boundary hides it.                                          *)
SteadyTablesFound == pc = "done" =>
  \A t \in Tables : SteadyTable(t) =>
    /\ HasEntry(tableName[t])
    /\ LookupEntry(tableName[t]).id = t \/ Cardinality(Named(tableName[t])) > 1
    /\ Cardinality({i \in DOMAIN loaded : loaded[i].id = t}) = 1

ColumnsListed(t, columns) ==
  LET n == Len(columns) - IF metadata THEN 2 ELSE 0
  IN  /\ n >= 0
      /\ \A j \in 1..n : columns[j].id \in Columns
      /\ \A j, k \in 1..n : j < k => columns[j].id < columns[k].id
      /\ \A c \in Columns : SteadyColumn(t, c) => \E j \in 1..n : columns[j].id = c
      /\ metadata => columns[n + 1].id = CreatedAt /\ columns[n + 2].id = UpdatedAt

(* A table is listed with columns of its own: with each that existed all   *)
(* through the load exactly once, and with the row metadata exactly once   *)
(* and last, if it was asked for.                                          *)
SteadyColumnsListed == \A i \in DOMAIN loaded : ColumnsListed(loaded[i].id, loaded[i].columns)

(* README.md, "With this option enabled, every Superhuman Docs table       *)
(* includes `createdAt` and `updatedAt` columns": under these names, the   *)
(* row metadata.  A column of the document that has the name already       *)
(* keeps it, and the metadata is renamed.                                  *)
MetadataUnderItsName == pc = "done" /\ metadata =>
  \A i \in DOMAIN loaded : \A m \in DOMAIN RowMetadata :
    \E j \in DOMAIN loaded[i].columns : loaded[i].columns[j] = RowMetadata[m]
=============================================================================
