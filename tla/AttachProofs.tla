---------------------------- MODULE AttachProofs ----------------------------
(***************************************************************************)
(* Proofs about Attach, for every set of documents, tokens and requests    *)
(* and any number of changes of secrets and environment.  Which secret a   *)
(* lookup finds matters to the types alone: the other theorems hold for    *)
(* every rule by which DuckDB may choose among its secrets.                *)
(***************************************************************************)
EXTENDS Attach, NumberFacts, SequenceTheorems

(* What the secret manager and a CREATE SECRET under way hold.             *)
SecretTypes ==
  /\ env \in Tokens \cup {Empty, Absent}
  /\ secrets \in [Scopes -> Tokens \cup {NoToken, Absent}]
  /\ creating \in [scope : Scopes, token : Tokens] \cup {Absent}

SecretInv == SecretTypes /\ StoredTokensValidated

(* While a link is being resolved the credential is the explicit one or    *)
(* the one the stored secrets give for what the link shows.                *)
ResolvingInv == pc = "resolving" =>
  /\ request.url
  /\ explicit = Empty => credential = BootstrapCredential(view, request.inferred)

(* A document that was named by its id.                                    *)
ByIdInv == pc = "attached" /\ explicit = Empty /\ ~request.url =>
  credential = StoredCredential(view, resource)

CredentialInv ==
  /\ ResolvingInv
  /\ ByIdInv
  /\ ExplicitCredentialWins
  /\ ClosestSecretWins
  /\ UrlAgreesWithId

AttachInv == SecretInv /\ CredentialInv

AttachStep ==
  \/ \E r \in Requests : RefuseAttach(r) \/ BeginAttach(r)
  \/ ResolveLink \/ ResolveFails

(* A stored credential is the one of the document's own lookup if that has *)
(* a token.                                                                *)
LEMMA StoredPrefersCloser ==
  ASSUME NEW held, NEW doc, LookupSecret(held, doc) # Empty
  PROVE  StoredCredential(held, doc) = LookupSecret(held, doc)
BY DEF StoredCredential, FirstOf

(* What resolve_browser_url settles on agrees with resolve_stored_         *)
(* credential, if the link showed the right document or none.              *)
LEMMA CanonicalAgrees ==
  ASSUME NEW held, NEW doc, NEW inferred, inferred \in {Absent, doc}
  PROVE  FirstOf(LookupSecret(held, doc), BootstrapCredential(held, inferred))
           = StoredCredential(held, doc)
BY DEF BootstrapCredential, StoredCredential, FirstOf

(* Creating, dropping and replacing secrets keeps them validated.          *)
LEMMA SecretsKept ==
  ASSUME AttachAssumption, SecretInv, [Next]_vars
  PROVE  SecretInv'
<1> USE DEF SecretInv, SecretTypes, StoredTokensValidated
<1>0. Tokens \cap {Empty, Absent, NoToken} = {}
  BY DEF AttachAssumption
<1>1. ASSUME NEW value \in Tokens \cup {Empty, Absent}, SetEnvironment(value)
      PROVE  SecretInv'
  BY <1>1 DEF SetEnvironment
<1>2. ASSUME NEW scope \in Scopes, NEW token \in Tokens, BeginSecret(scope, token)
      PROVE  SecretInv'
  BY <1>2 DEF BeginSecret
<1>3. ASSUME NEW scope \in Scopes, CreateWithoutToken(scope)
      PROVE  SecretInv'
  BY <1>0, <1>3 DEF CreateWithoutToken
<1>4. CASE AcceptToken
  BY <1>0, <1>4 DEF AcceptToken
<1>5. CASE RefuseToken
  BY <1>5 DEF RefuseToken
<1>6. ASSUME NEW scope \in Scopes, DropSecret(scope)
      PROVE  SecretInv'
  BY <1>0, <1>6 DEF DropSecret
<1>7. CASE AttachStep \/ UNCHANGED vars
  BY <1>7 DEF AttachStep, RefuseAttach, BeginAttach, StartAttach, ResolveLink, ResolveFails, vars,
              user
<1>8. QED
  BY <1>1, <1>2, <1>3, <1>4, <1>5, <1>6, <1>7
  DEF Next, AttachStep, CreateFromToken, CreateFromEnvironment

(* No step of the secret manager touches an ATTACH, and every step of an   *)
(* ATTACH keeps to the order of precedence.                                *)
LEMMA CredentialsKept ==
  ASSUME AttachAssumption, CredentialInv, [Next]_vars
  PROVE  CredentialInv'
<1> USE DEF CredentialInv, ResolvingInv, ByIdInv, ExplicitCredentialWins, ClosestSecretWins,
            UrlAgreesWithId
<1>1. CASE UNCHANGED attach
  BY <1>1 DEF attach
<1>2. ASSUME NEW r \in Requests, RefuseAttach(r)
      PROVE  CredentialInv'
  BY <1>2 DEF RefuseAttach
<1>3. ASSUME NEW r \in Requests, BeginAttach(r)
      PROVE  CredentialInv'
  <2>1. request' = r /\ view' = secrets /\ explicit' = ExplicitCredential(r)
        /\ credential' = FirstCredential(r)
    BY <1>3 DEF BeginAttach, StartAttach
  <2>2. r.url => pc' = "resolving"
    BY <1>3 DEF BeginAttach
  <2>3. ~r.url => pc' = "attached" /\ resource' = r.doc
    BY <1>3 DEF BeginAttach
  <2>4. explicit' # Empty => credential' = explicit'
    BY <2>1 DEF FirstCredential, FirstOf
  <2>5. r.url /\ explicit' = Empty => credential' = BootstrapCredential(view', r.inferred)
    BY <2>1 DEF FirstCredential, FirstOf
  <2>6. ~r.url /\ explicit' = Empty => credential' = StoredCredential(view', resource')
    BY <2>1, <2>3 DEF FirstCredential, FirstOf
  <2>7. QED
    BY <2>1, <2>2, <2>3, <2>4, <2>5, <2>6, StoredPrefersCloser
<1>4. CASE ResolveLink
  <2>1. /\ pc = "resolving" /\ pc' = "attached"
        /\ request' = request /\ view' = view /\ explicit' = explicit
        /\ resource' = request.doc
        /\ credential' = CanonicalCredential(request.doc)
    BY <1>4 DEF ResolveLink
  <2>2. explicit # Empty => credential' = explicit
    BY <2>1 DEF CanonicalCredential
  <2>3. explicit = Empty =>
          credential' = FirstOf(LookupSecret(view, request.doc),
                                BootstrapCredential(view, request.inferred))
    BY <2>1 DEF CanonicalCredential
  <2>4. ClosestSecretWins'
    BY <2>1, <2>3 DEF FirstOf
  <2>5. UrlAgreesWithId'
    BY <2>1, <2>3, CanonicalAgrees
  <2>6. QED
    BY <2>1, <2>2, <2>4, <2>5
<1>5. CASE ResolveFails
  BY <1>5 DEF ResolveFails
<1>6. QED
  BY <1>1, <1>2, <1>3, <1>4, <1>5
  DEF Next, vars, SetEnvironment, CreateFromToken, CreateFromEnvironment, BeginSecret,
      CreateWithoutToken, AcceptToken, RefuseToken, DropSecret

(***************************************************************************)
(* What a lookup returns: there is a closest scope whenever there is a     *)
(* matching one, because no matching scope is longer than the path.        *)
(***************************************************************************)

(* Documents and scopes are finite sequences.                              *)
LEMMA ScopesAreSequences ==
  ASSUME AttachAssumption, NEW s \in Scopes
  PROVE  s \in Seq(STRING) /\ Len(s) \in Nat
BY EmptySeq DEF AttachAssumption, Scopes, General

(* Closest is one of the scopes that match.                                *)
LEMMA ClosestMatches ==
  ASSUME AttachAssumption, NEW held, NEW path \in Scopes, Matches(held, path) # {}
  PROVE  Closest(held, path) \in Matches(held, path)
<1> DEFINE M == Matches(held, path)
           L == Len(path)
           Gap == {g \in Nat : \E s \in M : g = L - Len(s)}
<1>1. \A s \in M : s \in Scopes /\ Len(s) \in Nat /\ Len(s) <= L
  BY ScopesAreSequences DEF Matches, IsPrefix
<1>2. L \in Nat
  BY ScopesAreSequences
<1>3. Gap # {}
  <2>1. PICK s \in M : TRUE
    OBVIOUS
  <2>2. L - Len(s) \in Gap
    <3> HIDE DEF L, M
    <3> QED
      BY <1>1, <1>2
  <2>3. QED
    BY <2>2
<1>4. PICK g \in Gap : \A h \in Gap : g <= h
  <2>1. Gap \subseteq Nat
    OBVIOUS
  <2> HIDE DEF Gap
  <2>2. QED
    BY <1>3, <2>1, LeastNumber
<1>5. PICK s \in M : g = L - Len(s)
  BY <1>4
<1>6. ASSUME NEW t \in M PROVE Len(t) <= Len(s)
  <2>1. L - Len(t) \in Gap
    <3> HIDE DEF L, M
    <3> QED
      BY <1>1, <1>2
  <2>2. g <= L - Len(t)
    BY <1>4, <2>1
  <2> HIDE DEF L, M, Gap
  <2>3. QED
    BY <1>1, <1>2, <1>5, <2>2
<1>7. QED
  BY <1>5, <1>6 DEF Closest

(* A lookup gives a token or nothing.                                      *)
LEMMA LookupType ==
  ASSUME AttachAssumption, NEW held \in [Scopes -> Tokens \cup {NoToken, Absent}],
         NEW path \in Scopes
  PROVE  LookupSecret(held, path) \in Tokens \cup {Empty}
<1>1. CASE Matches(held, path) = {}
  BY <1>1 DEF LookupSecret
<1>2. CASE Matches(held, path) # {}
  <2>1. Closest(held, path) \in Matches(held, path)
    BY <1>2, ClosestMatches
  <2>2. Closest(held, path) \in Scopes /\ held[Closest(held, path)] # Absent
    BY <2>1 DEF Matches
  <2>3. QED
    BY <2>2 DEF LookupSecret
<1>3. QED
  BY <1>1, <1>2

(* So does every rule made of lookups.                                     *)
LEMMA StoredType ==
  ASSUME AttachAssumption, NEW held \in [Scopes -> Tokens \cup {NoToken, Absent}]
  PROVE  /\ \A doc \in Docs : StoredCredential(held, doc) \in Tokens \cup {Empty}
         /\ \A doc \in Docs \cup {Absent} :
              BootstrapCredential(held, doc) \in Tokens \cup {Empty}
<1>1. \A doc \in Docs \cup {General} : LookupSecret(held, doc) \in Tokens \cup {Empty}
  BY LookupType DEF Scopes
<1>2. QED
  BY <1>1 DEF StoredCredential, BootstrapCredential, FirstOf

(***************************************************************************)
(* Every variable keeps its type: an ATTACH never settles on anything but  *)
(* a token (the mark of a secret without one, or of no secret, does not    *)
(* get into a credential).                                                 *)
(***************************************************************************)
LEMMA TypesKept ==
  ASSUME AttachAssumption, TypeOK, ResolvingInv, [Next]_vars
  PROVE  TypeOK'
<1> USE DEF TypeOK
<1>0. \A r \in Requests : r \in RequestShapes
  BY DEF AttachAssumption
<1>1. ASSUME NEW value \in Tokens \cup {Empty, Absent}, SetEnvironment(value)
      PROVE  TypeOK'
  BY <1>1 DEF SetEnvironment, Change, attach, AttachAssumption
<1>2. ASSUME NEW scope \in Scopes, NEW token \in Tokens, BeginSecret(scope, token)
      PROVE  TypeOK'
  BY <1>2 DEF BeginSecret, Change, attach, AttachAssumption
<1>3. ASSUME NEW scope \in Scopes, CreateWithoutToken(scope) \/ DropSecret(scope)
      PROVE  TypeOK'
  BY <1>3 DEF CreateWithoutToken, DropSecret, Change, attach, AttachAssumption
<1>4. CASE AcceptToken
  <2>1. creating \in [scope : Scopes, token : Tokens]
    BY <1>4 DEF AcceptToken
  <2>2. QED
    BY <1>4, <2>1 DEF AcceptToken, attach
<1>5. CASE RefuseToken
  BY <1>5 DEF RefuseToken, attach
<1>6. ASSUME NEW r \in Requests, RefuseAttach(r)
      PROVE  TypeOK'
  BY <1>0, <1>6 DEF RefuseAttach, StartAttach, user
<1>7. ASSUME NEW r \in Requests, BeginAttach(r)
      PROVE  TypeOK'
  <2>1. r \in RequestShapes
    BY <1>0
  <2>2. explicit' \in Tokens \cup {Empty}
    BY <1>7, <2>1 DEF BeginAttach, IllegalOptions, ExplicitCredential, RequestShapes
  <2>3. credential' \in Tokens \cup {Empty}
    <3>1. r.doc \in Docs /\ r.inferred \in Docs \cup {Absent}
      BY <2>1 DEF RequestShapes
    <3>2. QED
      BY <1>7, <2>2, <3>1, StoredType DEF BeginAttach, FirstCredential, FirstOf
  <2>4. pc' \in {"resolving", "attached"} /\ resource' \in Docs \cup {Absent}
    BY <1>7, <2>1 DEF BeginAttach, RequestShapes
  <2>5. QED
    BY <1>7, <2>1, <2>2, <2>3, <2>4 DEF BeginAttach, StartAttach, user
<1>8. CASE ResolveLink
  <2>1. request \in RequestShapes
    BY <1>8 DEF ResolveLink, ResolvingInv, NoRequest
  <2>2. request.doc \in Docs
    BY <2>1 DEF RequestShapes
  <2>3. CanonicalCredential(request.doc) \in Tokens \cup {Empty}
    BY <2>2, LookupType DEF CanonicalCredential, FirstOf, Scopes
  <2>4. QED
    BY <1>8, <2>2, <2>3 DEF ResolveLink, user
<1>9. CASE ResolveFails
  BY <1>9 DEF ResolveFails, user
<1>10. CASE UNCHANGED vars
  BY <1>10 DEF vars, user, attach
<1>11. QED
  BY <1>1, <1>2, <1>3, <1>4, <1>5, <1>6, <1>7, <1>8, <1>9, <1>10
  DEF Next, CreateFromToken, CreateFromEnvironment

(* Nothing is stored, attached or under way at the start.                  *)
LEMMA AttachInvInit == AttachAssumption /\ Init => AttachInv
BY DEF Init, AttachInv, SecretInv, SecretTypes, StoredTokensValidated, CredentialInv, ResolvingInv,
       ByIdInv, ExplicitCredentialWins, ClosestSecretWins, UrlAgreesWithId, AttachAssumption

LEMMA AttachInvHolds == Spec => []AttachInv
<1>1. Init => AttachInv
  BY AttachInvInit, AttachAssumption
<1>2. AttachInv /\ [Next]_vars => AttachInv'
  BY SecretsKept, CredentialsKept, AttachAssumption DEF AttachInv
<1>3. QED
  BY <1>1, <1>2, PTL DEF Spec

(* Every variable has its type: what an ATTACH settles on is a token or    *)
(* nothing, never the mark of a secret without one.                        *)
THEOREM AttachTypes == Spec => []TypeOK
<1>1. Init => TypeOK
  BY AttachAssumption DEF Init, TypeOK, AttachAssumption, Scopes
<1>2. TypeOK /\ AttachInv /\ [Next]_vars => TypeOK'
  BY TypesKept, AttachAssumption DEF AttachInv, CredentialInv
<1>3. QED
  BY <1>1, <1>2, AttachInvHolds, PTL DEF Spec

(* No token is stored that whoami has not accepted.                        *)
THEOREM TokensValidated == Spec => []StoredTokensValidated
<1>1. AttachInv => StoredTokensValidated
  BY DEF AttachInv, SecretInv
<1>2. QED
  BY <1>1, AttachInvHolds, PTL

(* The secret closest to the attached document provides its credential.    *)
THEOREM CloserSecretWins == Spec => []ClosestSecretWins
<1>1. AttachInv => ClosestSecretWins
  BY DEF AttachInv, CredentialInv
<1>2. QED
  BY <1>1, AttachInvHolds, PTL

(* A browser URL and an id give the same credential.                       *)
THEOREM UrlsAgreeWithIds == Spec => []UrlAgreesWithId
<1>1. AttachInv => UrlAgreesWithId
  BY DEF AttachInv, CredentialInv
<1>2. QED
  BY <1>1, AttachInvHolds, PTL

(* TOKEN and TOKEN_ENV are never overridden by a secret.                   *)
THEOREM ExplicitWins == Spec => []ExplicitCredentialWins
<1>1. AttachInv => ExplicitCredentialWins
  BY DEF AttachInv, CredentialInv
<1>2. QED
  BY <1>1, AttachInvHolds, PTL
=============================================================================
