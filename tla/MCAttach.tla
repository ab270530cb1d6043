------------------------------ MODULE MCAttach ------------------------------
(***************************************************************************)
(* TLC instance of Attach: a document whose id begins with the id of       *)
(* another, so that the scope of the one also matches the other, and every *)
(* way of naming them.                                                     *)
(***************************************************************************)
EXTENDS Attach

CONSTANTS t1, t2

MCTokens == {t1, t2}
MCDocs == {<<"a">>, <<"a", "b">>}

Request(token, from, legal, url, doc, inferred) ==
  [token |-> token, env |-> from, legal |-> legal, url |-> url, doc |-> doc,
   inferred |-> inferred]

(* By id; by URL with the right id in it, none or another one.             *)
Plain == {Request(Empty, FALSE, TRUE, u, d, i) :
            u \in BOOLEAN, d \in MCDocs, i \in MCDocs \cup {Absent}}

(* With TOKEN, with TOKEN_ENV, with both, with options that do not parse.  *)
Explicit == {Request(tok, e, TRUE, TRUE, <<"a", "b">>, Absent) :
               tok \in {t1, Empty}, e \in BOOLEAN}

MCRequests == Plain \cup Explicit \cup {Request(t1, FALSE, FALSE, FALSE, <<"a">>, Absent)}
=============================================================================
