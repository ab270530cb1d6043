--------------------------- MODULE MCDmlStatement ---------------------------
(***************************************************************************)
(* TLC instances of DmlStatement.  Three rows in vectors of two give       *)
(* statements of two chunks, the first of which can hold several rows.     *)
(***************************************************************************)
EXTENDS DmlStatement

Shape(mode, kind, returning, writable, mentions, rows) ==
  [mode |-> mode, kind |-> kind, returning |-> returning, writable |-> writable,
   mentions |-> mentions, rows |-> rows]

(* Statements that write: direct, prepared and executed later.             *)
Writers ==
  {Shape(m, k, FALSE, TRUE, FALSE, MaxRows) : m \in {"direct", "prepare", "execute"}, k \in Kinds}

(* Statements the planner or the sink turns away.                          *)
Refused ==
  {Shape("direct", "insert", TRUE, TRUE, FALSE, 1),
   Shape("direct", "delete", FALSE, FALSE, FALSE, 1),
   Shape("direct", "update", FALSE, TRUE, TRUE, 1),
   Shape("execute", "insert", FALSE, TRUE, TRUE, 1)}

WholeRange == Writers \cup Refused \cup {Shape("direct", "insert", FALSE, TRUE, FALSE, 0)}

MCConns == {1, 2}

(* The first session goes through everything, the second is just busy.     *)
MCStatements ==
  [c \in MCConns |-> IF c = 1 THEN WholeRange ELSE {Shape("direct", "update", FALSE, TRUE, FALSE, 1)}]

AloneStatements == [c \in {1} |-> WholeRange]
=============================================================================
