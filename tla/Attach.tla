------------------------------- MODULE Attach -------------------------------
(***************************************************************************)
(* CREATE SECRET (src/src/secret.rs) and ATTACH up to the credential and   *)
(* the document it settles on (src/src/attach.rs): which of the option,    *)
(* the environment variable and the stored secrets wins, when the document *)
(* is named by its id or by a browser URL that the API has to resolve.     *)
(*                                                                         *)
(* DuckDB's secret manager is external: a lookup of a path finds the       *)
(* secret with the longest scope that is a prefix of it, as of the moment  *)
(* the ATTACH statement's transaction began.  Document ids are sequences   *)
(* of characters, scopes are ids behind the common prefix                  *)
(* "superhuman_docs:", and the scope of a general secret is that prefix    *)
(* alone, written <<>>.                                                    *)
(***************************************************************************)
EXTENDS Integers, Sequences, SequencesExt

CONSTANTS
  Docs,        \* ids of documents
  Tokens,      \* API tokens, all of them non-empty
  Requests,    \* the ATTACH statements that may be issued
  MaxChanges,  \* bound: changes of secrets and of the environment
  Empty,       \* the empty string
  Absent,      \* no secret, no environment variable, no document id
  NoToken      \* a secret created without a token

General == <<>>
Scopes == Docs \cup {General}

(* An ATTACH statement: the TOKEN option, whether TOKEN_ENV is given, and  *)
(* the resource; doc is the document the API resolves a URL to, inferred   *)
(* the id that can be read off it.                                         *)
RequestShapes ==
  [token : Tokens \cup {Empty}, env : BOOLEAN, legal : BOOLEAN, url : BOOLEAN,
   doc : Docs, inferred : Docs \cup {Absent}]

ASSUME AttachAssumption ==
  /\ Docs \subseteq Seq(STRING) \ {General}
  /\ Requests \subseteq RequestShapes
  /\ MaxChanges \in Nat
  /\ {Empty, Absent, NoToken} \cap Tokens = {}

VARIABLES
  env,         \* value of the environment variable TOKEN_ENV names
  secrets,     \* per scope, what DuckDB's secret manager holds
  creating,    \* the CREATE SECRET under way: scope and token, or Absent
  changes,     \* number of changes so far
  pc,          \* where the ATTACH is
  request,     \* the ATTACH under way, or the last one
  view,        \* the secrets as its transaction sees them
  explicit,    \* the credential it came with, or Empty
  credential,  \* the credential it has settled on so far
  resource,    \* the document it is attached to
  validated    \* history: tokens that whoami has accepted

user == <<env, secrets, creating, changes, validated>>
attach == <<pc, request, view, explicit, credential, resource>>
vars == <<user, attach>>

NoRequest == [token |-> Empty, env |-> FALSE, legal |-> TRUE, url |-> FALSE,
              doc |-> Absent, inferred |-> Absent]

TypeOK ==
  /\ env \in Tokens \cup {Empty, Absent}
  /\ secrets \in [Scopes -> Tokens \cup {NoToken, Absent}]
  /\ creating \in [scope : Scopes, token : Tokens] \cup {Absent}
  /\ changes \in 0..MaxChanges
  /\ pc \in {"idle", "resolving", "attached", "failed"}
  /\ request \in RequestShapes \cup {NoRequest}
  /\ view \in [Scopes -> Tokens \cup {NoToken, Absent}]
  /\ explicit \in Tokens \cup {Empty}
  /\ credential \in Tokens \cup {Empty}
  /\ resource \in Docs \cup {Absent}
  /\ validated \subseteq Tokens

Init ==
  /\ env = Absent
  /\ secrets = [s \in Scopes |-> Absent]
  /\ creating = Absent
  /\ changes = 0
  /\ pc = "idle"
  /\ request = NoRequest
  /\ view = [s \in Scopes |-> Absent]
  /\ explicit = Empty
  /\ credential = Empty
  /\ resource = Absent
  /\ validated = {}
-----------------------------------------------------------------------------
(* The environment and the secrets.                                        *)

Change == changes < MaxChanges /\ changes' = changes + 1

SetEnvironment(value) ==
  /\ Change
  /\ env' = value
  /\ UNCHANGED <<secrets, creating, validated, attach>>

(* CREATE SECRET with TOKEN or TOKEN_ENV: the value is read first, then    *)
(* validated.  An unset variable, both options or an empty token end it    *)
(* with an error that changes nothing.                                     *)
BeginSecret(scope, token) ==
  /\ creating = Absent
  /\ Change
  /\ creating' = [scope |-> scope, token |-> token]
  /\ UNCHANGED <<env, secrets, validated, attach>>

CreateFromToken(scope, token) == BeginSecret(scope, token)

CreateFromEnvironment(scope) == env \in Tokens /\ BeginSecret(scope, env)

(* CREATE SECRET with neither: nothing to validate.                        *)
CreateWithoutToken(scope) ==
  /\ Change
  /\ secrets' = [secrets EXCEPT ![scope] = NoToken]
  /\ UNCHANGED <<env, creating, validated, attach>>

(* Mutant: the variable is read again once the token is validated.         *)
AcceptReread ==
  /\ creating # Absent
  /\ env \in Tokens
  /\ validated' = validated \cup {creating.token}
  /\ secrets' = [secrets EXCEPT ![creating.scope] = env]
  /\ creating' = Absent
  /\ UNCHANGED <<env, changes, attach>>

(* whoami answers 200 and the secret is stored.                            *)
AcceptToken ==
  /\ creating # Absent
  /\ validated' = validated \cup {creating.token}
  /\ secrets' = [secrets EXCEPT ![creating.scope] = creating.token]
  /\ creating' = Absent
  /\ UNCHANGED <<env, changes, attach>>

(* whoami answers anything else, or nothing.                               *)
RefuseToken ==
  /\ creating # Absent
  /\ creating' = Absent
  /\ UNCHANGED <<env, secrets, changes, validated, attach>>

DropSecret(scope) ==
  /\ secrets[scope] # Absent
  /\ Change
  /\ secrets' = [secrets EXCEPT ![scope] = Absent]
  /\ UNCHANGED <<env, creating, validated, attach>>
-----------------------------------------------------------------------------
(* Lookups.                                                                *)

(* The secret DuckDB finds for a path.                                     *)
Matches(held, path) == {s \in Scopes : held[s] # Absent /\ IsPrefix(s, path)}

Closest(held, path) ==
  CHOOSE s \in Matches(held, path) : \A t \in Matches(held, path) : Len(t) <= Len(s)

(* Mutant: a secret without a token is read like any other.                *)
LookupUnchecked(held, path) ==
  IF Matches(held, path) = {} THEN Empty ELSE held[Closest(held, path)]

(* HostLookupSecret: empty if there is no secret or no token in it.        *)
LookupSecret(held, path) ==
  IF Matches(held, path) = {} \/ held[Closest(held, path)] = NoToken THEN Empty
  ELSE held[Closest(held, path)]

FirstOf(a, b) == IF a # Empty THEN a ELSE b

(* resolve_stored_credential: the document's scope, then the general one.  *)
StoredCredential(held, doc) ==
  FirstOf(LookupSecret(held, doc), LookupSecret(held, General))

(* The credential a browser URL is resolved with, if none was given.       *)
BootstrapCredential(held, inferred) ==
  IF inferred = Absent THEN LookupSecret(held, General) ELSE StoredCredential(held, inferred)
-----------------------------------------------------------------------------
(* resolve_attach and resolve_browser_url.                                 *)

(* TOKEN_ENV, if it is given, otherwise TOKEN; either may be empty.        *)
ExplicitCredential(r) == IF r.env THEN env ELSE r.token

(* Options that contradict each other or do not parse, TOKEN together with *)
(* TOKEN_ENV, an unset variable.                                           *)
IllegalOptions(r) ==
  \/ ~r.legal
  \/ r.env /\ (r.token # Empty \/ env = Absent)

FirstCredential(r) ==
  FirstOf(ExplicitCredential(r),
          IF r.url THEN BootstrapCredential(secrets, r.inferred)
          ELSE StoredCredential(secrets, r.doc))

StartAttach(r) ==
  /\ pc \in {"idle", "attached", "failed"}
  /\ request' = r
  /\ view' = secrets
  /\ UNCHANGED user

(* Illegal options, or no credential to go on with.                        *)
RefuseAttach(r) ==
  /\ StartAttach(r)
  /\ IllegalOptions(r) \/ FirstCredential(r) = Empty
  /\ pc' = "failed"
  /\ explicit' = Empty /\ credential' = Empty
  /\ resource' = Absent

(* A document named by its id needs no request; a URL has to be resolved.  *)
BeginAttach(r) ==
  /\ StartAttach(r)
  /\ ~IllegalOptions(r) /\ FirstCredential(r) # Empty
  /\ explicit' = ExplicitCredential(r)
  /\ credential' = FirstCredential(r)
  /\ IF r.url THEN pc' = "resolving" /\ resource' = Absent
     ELSE pc' = "attached" /\ resource' = r.doc

(* Mutant: the credential that resolved the link is kept.                  *)
BootstrapKept(doc) == credential

(* Mutant: the second lookup has no fallback.                              *)
CanonicalOnly(doc) == IF explicit # Empty THEN credential ELSE LookupSecret(view, doc)

(* Mutant: the secret of the document overrides even TOKEN.                *)
CanonicalAlways(doc) == FirstOf(LookupSecret(view, doc), credential)

(* Once the document is known its own secret is looked for, unless the     *)
(* credential was given explicitly.                                        *)
CanonicalCredential(doc) ==
  IF explicit # Empty THEN credential ELSE FirstOf(LookupSecret(view, doc), credential)

ResolveLink ==
  /\ pc = "resolving"
  /\ pc' = "attached"
  /\ resource' = request.doc
  /\ credential' = CanonicalCredential(request.doc)
  /\ UNCHANGED <<user, request, view, explicit>>

(* The link cannot be resolved, or not to a document.                      *)
ResolveFails ==
  /\ pc = "resolving"
  /\ pc' = "failed"
  /\ credential' = Empty
  /\ UNCHANGED <<user, request, view, explicit, resource>>

Next ==
  \/ \E value \in Tokens \cup {Empty, Absent} : SetEnvironment(value)
  \/ \E scope \in Scopes :
       \/ \E token \in Tokens : CreateFromToken(scope, token)
       \/ CreateFromEnvironment(scope) \/ CreateWithoutToken(scope) \/ DropSecret(scope)
  \/ AcceptToken \/ RefuseToken
  \/ \E r \in Requests : RefuseAttach(r) \/ BeginAttach(r)
  \/ ResolveLink \/ ResolveFails

Spec == Init /\ [][Next]_vars
-----------------------------------------------------------------------------
(* README.md, "Secret creation succeeds only when that request returns     *)
(* HTTP 200": no token is stored that the API has not accepted, whatever   *)
(* becomes of the environment variable while the API is being asked.       *)
StoredTokensValidated == \A s \in Scopes :
  secrets[s] \in Tokens => secrets[s] \in validated

(* The secret closest to the document that is attached in the end provides *)
(* the credential, if it has a token, even when another one was needed to  *)
(* find out which document that is, or an empty TOKEN_ENV was given.       *)
ClosestSecretWins ==
  pc = "attached" /\ explicit = Empty /\ LookupSecret(view, resource) # Empty =>
    credential = LookupSecret(view, resource)

(* A document attached by its browser URL is attached with the credential  *)
(* its id would have given, provided that the id read off the URL, if any, *)
(* is the right one.                                                       *)
UrlAgreesWithId ==
  pc = "attached" /\ request.url /\ explicit = Empty
    /\ request.inferred \in {Absent, resource} =>
      credential = StoredCredential(view, resource)

(* TOKEN or TOKEN_ENV, if one of them has a value, is the credential from  *)
(* the first request to the last, whatever secrets there are.              *)
ExplicitCredentialWins ==
  pc \in {"resolving", "attached"} /\ explicit # Empty => credential = explicit
=============================================================================
