# Verification of the Superhuman Docs extension for DuckDB

TLA+ models of the extension's own logic, TLC configurations that check them on
small instances, and proofs, checked by TLAPS, that hold for every value of the
constants. Paths are relative to the repository; `src/…` below is its Rust and
C++ source tree, `json/rows.rs` means `src/json/rows.rs`.

Check a run with `tlc -config X.cfg MC<Module>`, a proof with
`tlapm <Module>Proofs.tla`. `PROJECT.json` lists runs, the lines each definition
models, the hazards with the properties that cover them, and for each property a
plausible bug (a definition marked *Mutant* in the module) that violates it.

## The system

DuckDB loads the extension and calls C++ classes (`cpp/`), which call Rust
functions over a C ABI (`exports/`, `ffi/`), which talk HTTP to the Superhuman
Docs API through an SDK client (`sdk.rs`). A native build blocks the calling
thread on a tokio runtime; a browser build suspends it with Asyncify and lets
Emscripten Fetch do the request.

| Component | State | Operations | Meets |
|---|---|---|---|
| Secrets (`secret.rs`, `cpp/rust_bridge_secret.cpp`) | scope and token, in DuckDB's secret manager | `create_secret`: read TOKEN or TOKEN_ENV, validate it with whoami, store | environment, API, ATTACH |
| ATTACH (`attach.rs`, `attach/`, `cpp/rust_bridge_storage.cpp`) | the configuration of the attached database | parse options; pick a credential; resolve a browser URL; look secrets up again | secret manager (callbacks), API |
| Catalog (`client/catalog.rs`, `json/catalog.rs`, `cpp/storage/rust_bridge_schema.cpp`) | tables, columns and entries, read once at ATTACH | page through tables and, per table, columns; make column names unique; look an entry up | API; the document under edit |
| Transactions and DML (`cpp/storage/rust_bridge_transaction_manager.cpp`, `…_dml.cpp`, `…_catalog_planning.cpp`, `mutation.rs`, `mutation/payload.rs`) | map of transactions, `has_writes`, the operator's count | start, commit, rollback; plan, Sink, GetData; insert, update, delete rows | every connection of the database; API |
| Mutation polling (`mutation/status.rs`) | deadline, last reply | poll `mutationStatus` until completed, refused or out of time | API; the document |
| Table scan (`cpp/rust_bridge_scan.cpp`, `client/scan.rs`, `json/rows.rs`) | page token, sync token, flags, batch, offset, remaining limit | open, next batch, fill a vector, close | API; the document under edit |
| Scan planning (`cpp/rust_bridge_scan_planning.cpp`, `exports/scan_planning.rs`) | the pushed filter, order and limit | optimizer callbacks | the scan |
| Browser fetch (`sdk/transport/fetch.rs`, `cpp/emscripten_fetch.cpp`) | shared result and waker, registry of fetches, boxed context | start, poll, finish, cancel | executor; Emscripten event handlers |
| SDK client (`sdk.rs`, `sdk/transport.rs`) | the slot of the last exchange, an execution lock | `execute`, `send` | the one scan, listing or statement that made the client |
| Value conversion (`scan.rs`, `cpp/rust_bridge_value.cpp`) | none | JSON, Rust and DuckDB values | scan, DML |
| FFI boundary (`ffi.rs`, `exports/`, `include/rust_bridge_client_resources.hpp`) | handles owned by C++ wrappers | allocate, borrow, free | everything |
| Registration (`exports/extension.rs`) | none | register secret type, storage, functions at LOAD | DuckDB |

What is hard here: the document changes between any two requests of a listing or
a scan; a write is accepted now and applied later, so an UPDATE can meet its own
writes; writes cannot be undone while DuckDB thinks in transactions, and any of a
statement's many requests may fail or lose its answer; verdicts about a write
depend on a deadline, late timers and an answer that is already old when it is
read; in the browser closing a request that is still loading calls its own event
handler, and a refusal can settle a request before anybody holds its fetch object.
The hazards, each at its line, are in `PROJECT.json`.

What makes each component correct: a verdict about a write is true and comes in
time; a statement that succeeds wrote all of its rows once, one that fails never
sent a row twice or out of order; the transaction map follows the statements; a
scan loses no row that was there all along and never shows a row older than it
showed before; what is taken off DuckDB when a query is planned is done by the scan;
a table or column that was there all along is in the catalog and can be referred to;
the most specific credential wins; no request leaks or hangs, and each is answered
from its own response; what Rust hands to C++ is freed exactly once.

## Modules

| Module | Models | State and actions |
|---|---|---|
| `MutationOutcome` | what a statement may be told about an accepted write (abstract) | the document settles the write, the client announces one verdict that the document supports |
| `MutationWait` | `wait_for_mutation`, `poll_mutation_status` | one action per outcome of a status request (`RequestFails`, `RequestTimesOut`, `ReceiveUnusable`, `ReceiveCompleted`, `ReceivePending`) and per wake-up; a reply that is not completed is no verdict, whether it warns or not; `RemoteProgress`, `ServerAnswers` and `Tick` are the world. Implements `MutationOutcome` |
| `StatementOutcome` | what the user of a writing statement may rely on (abstract) | a statement is issued, sends the next rows, learns what became of them, succeeds or is rolled back; in between it may stop for good |
| `DmlStatement` | transaction manager, planner, Sink and the write loops, for several connections | `StartStatement`, `PlanStatement`, `SinkChunk`, `SendWrite`, `AwaitMutation`, `FinishStatement`, `RollbackTransaction` and the ways to fail. The wait is reduced to its verdict, taken from `MutationOutcome`. Implements `StatementOutcome` |
| `ScanOutcome` | what a scan promises the query it reads for (abstract) | rows are read as they are, handed over, and the scan ends with a verdict; others edit |
| `TableScan` | `RustBridgeScan` and `ScanHandle` over a document under edit | `CallScan`, `EmitRow`, `NextBatch` are the stages of the C++ loop, `ListRows` one round of `next_batch`; `EditRow`, `DeleteRow` other editors. Implements `ScanOutcome` |
| `UpdateScan` | composition: the scan of a table as the source of an UPDATE of it | `TableScan` extended with the vector in Sink and the writes that are accepted but not yet applied |
| `FetchRequest` | one browser request, future and event handler interleaved between lock operations | `Register` … `StoreFetch`, `TakeResult`, `RegisterWaker`, `RecheckResult` (the future), `BeginFinish` … `FinishWakes` (the handler), `BeginCancel` … `CancelCloses` (dropping the future) |
| `SdkClient` | composition: operations on SDK clients over requests of `FetchRequest` | `BeginOperation` takes the lock and clears the slot, `ReceiveResponse` is `dispatch`, `Judge` the match on result and exchange; `DropQueued`, `DropSending` and `FinishDrop` cancel an operation where it waits |
| `ScanPlanning` | the callbacks that push a filter, an order and a LIMIT into the bind data | `PushdownFilter`, `SetScanOrder`, `Copy`; what the user asked for, what DuckDB still evaluates and what is pushed are three variables. `Answers` says what an answer to a query is |
| `ScanQuery` | composition: a database from ATTACH to DETACH, its queries planned by `ScanPlanning` and executed, and the objects of Rust's heap C++ owns on the way | `ResolveAttach`, `LoadCatalog`, `CreateEntries`, `BindQuery`, `OpenScan`, `NextScanBatch`, `EmitRow`, `CloseQuery`, `Detach` and the ways to fail; each says what it uses, frees (`Free`) and allocates (`Allocate`) |
| `Attach` | CREATE SECRET and ATTACH up to document and credential | `BeginSecret`, `AcceptToken`, `RefuseToken`; `RefuseAttach`, `BeginAttach`, `ResolveLink`, `ResolveFails`; environment and secrets change in between |
| `Catalog` | the load of the catalog, the names it gives to columns, the entries of the schema | `ListTables`, `ListColumns`, `ListingFails`; `PrepareColumns` is `prepare_columns` as a recursive function and `Pages` all answers of an endpoint; other editors add, rename and drop tables and columns |

`MC…` modules instantiate these for TLC and `…Proofs` modules hold the theorems.

### What is external, and assumed

These are modelled from how the code uses them and nothing is shown about them.

- The **rows, tables and columns endpoints** list by a stable key; a page token
  resumes after the last key; pages may be short but not empty while something is
  left; a sync token names the moment of the last page and returns what changed
  since, deletions included. A request either is answered or fails within its
  time-out.
- **mutationStatus** answers 404, or whether the write is completed, and warnings;
  a completed write stays completed.
- **DuckDB** runs the statement it started to its end, rolls back a failed one,
  calls Sink with one vector at a time and the scan only after Sink returned, keeps
  calling a scan until a chunk is empty, looks secrets up by the longest scope that
  is a prefix, as of the start of the ATTACH's transaction.
- **DuckDB's planner** offers the scan the filters that are left, any number of times
  and in any order, then the first key of the order; it gives a row limit with it only
  if that key is the whole order and no filter is left to be evaluated above the scan.
  The scan is shown one key and cannot see whether there are more: without this
  assumption a page could stop inside a tie of the first key, and `AnswerIsExact` fails.
  It may execute a plan or a copy of it, several times, and drops plans and ends
  queries before it detaches a database.
- The **rows endpoint, given a query or an order**, compares what a cell holds with the
  constant of the query (so agrees with DuckDB wherever the cell can be shown), and
  lists rows in the order it was asked for.
- **The SDK** (`superhuman_docs_async`) makes one request per operation and decodes the
  response into a value, a decoding error or an unexpected status.
- **Emscripten Fetch** calls the event handler once for each request that was not
  closed, and inside `emscripten_fetch_close` if it was still loading.

## Runs

| Run | Instance | Shows |
|---|---|---|
| `MutationWait` | timeouts 1–7, poll interval 2, request time-out 3, timers up to 1 late | `VerdictMatchesDocument`, `TimeoutIsHonest`, `BoundedWait`, `PollsAreSpaced`; `ImplementsOutcome` (refinement, with its liveness) |
| `DmlStatement` | one connection with up to 3 rows in vectors of 2, all kinds and modes, and another that updates single rows | `CountIsTruthful`, `WritesInOrder`, `AtMostOnce`, `TransactionsBracketStatements`, `RollbackRefusalIsTrue`, `NoWriteInExplicitTransaction`; `ImplementsStatement` (refinement, with its liveness) |
| `TableScan` | keys 1–4, three of them rows at first, pages and vectors of 2, 3 edits, LIMIT none, 1, 3 | `NoRowLost`, `SeenIsHistory`, `SyncCheckCatchesUp`, `LimitOverrun`; `ImplementsScan` (refinement, with its liveness) |
| `UpdateScan` | 3 rows, pages and vectors of 2, edits enough for two writes of each row | `EveryRowUpdated`, `RewrittenBySyncCheckOnly`, `UpdateEnds` |
| `SdkClient` | two operations, on one client or on two | nothing freed or closed twice (`SdkTypeOK`), `NothingLeaks`, `NoLostWakeup`, `OwnAnswer`, `CallEnds` |
| `ScanQuery` | 3 rows with ties, gaps and a cell that cannot be shown; up to two filters, an order of no, one or two keys, LIMIT none, 1, 2; 8 allocations | `AnswerIsExact`, `NothingDangles`, `OnlyThrownValuesLeak` |
| `Attach` | two documents, the id of one a prefix of the other's, two tokens, 3 changes | `StoredTokensValidated`, `ClosestSecretWins`, `UrlAgreesWithId`, `ExplicitCredentialWins` |
| `Catalog` | two tables and room for a third, three columns each, pages of up to 2, 2 edits | `ColumnNamesDistinct`, `SteadyTablesFound`, `SteadyColumnsListed` |
| `DmlAutocommitText`, `DmlSilentRollback`, `UpdateScanTwice`, `CatalogMetadata` | as above | the disagreements below |

Why the bounds are enough:

- `MutationWait`: an odd timeout clips the last sleep, a request straddles the
  deadline, a timer is late; longer timeouts repeat whole intervals. The theorems
  below drop the bounds.
- `DmlStatement`: three rows in vectors of two are the least with two chunks, the
  first of several rows, so a failure can come before, inside and after both a
  request of a chunk and a chunk of a statement. The second connection has its entry in
  the transaction map at every moment of the first one's statements; what it sends does
  not meet them anywhere else. `MaxRows` is the only bound. A row is a position in the
  statement's input: an UPDATE that is fed the same row of the table twice has two, and
  what becomes of that row is what `UpdateScan` is about.
- `TableScan`: pages come back short at will, so page and vector boundaries drift
  against each other; three edits change a row in both passes and between them, change
  and delete it, or touch rows before and behind the page token. LIMIT 1 stops inside a page, 3 behind
  one. `MaxEdits` bounds the edits of others.
- `UpdateScan`: the first vector is full while the last page is in hand, which is
  what rewriting takes. `MaxEdits` of 9 is never reached: three rows written at
  most twice, and three deletions.
- `SdkClient`: requests share only the registry, and operations of one client the lock
  and the slot, so two show their interference; each alone goes through every order of
  answer, refusal, drop and cancellation.
- `ScanQuery`: two filters are the least of which one is pushed and one is left; three
  rows with equal values are the least in which a LIMIT can stop inside a tie, and in
  which a page can hold more than the LIMIT wants. A second key of the order breaks
  those ties by the id of the row, either way; a third would have nothing left to do. Eight allocations are ATTACH and two
  executions with two batches each, or one with more batches and a lost value; a behaviour
  that would allocate more stops.
- `Attach`: `MaxChanges` of 3 suffices for a general and a scoped secret and the
  change of one of them, or for a variable that changes while it is validated. One
  CREATE SECRET is under way at a time, and secrets of one scope that differ only
  in name, among which DuckDB would choose, are left out.
- `Catalog`: one edit before and one behind the page token. The initial documents
  hold the names that can collide: repeated, empty, with the suffix a repeated one
  would be given, and `createdAt`. `PageSize` stands for 100.

`TableScan!PageSize` stands for 500 and `VectorSize` for 2048. Deadlock is checked
in `DmlStatement` and `Attach`, whose sessions go on for ever (a new statement can
always be issued). In the other modules one wait, scan, request set or load comes
to its end and really stops, so their configurations say `CHECK_DEADLOCK FALSE`;
that they end where they should is what `ImplementsOutcome`, `ImplementsScan`,
`UpdateEnds` and `CallEnds` say.

### Fairness

- `MutationWait`: time passes, and the client acts on an answer, a time-out or a
  timer that is there. The tokio runtime blocks on exactly this task and the
  transport has a time-out (`sdk/transport.rs`). Neither the document nor the server
  is assumed to make progress: the wait returns anyway.
- `DmlStatement`: DuckDB takes the steps of a statement it has started; each
  request has a time-out and each wait a deadline.
- `TableScan`, `UpdateScan`: DuckDB keeps calling, the server keeps answering; for
  `UpdateScan`, accepted writes are applied some time, which a waiting attachment
  needs. Edits of others are not fair, and bounded.
- `FetchRequest`, `SdkClient`: the caller runs on and every request settles, since each
  is given a time-out; an operation that can take its client's lock does (tokio's mutex
  queues its waiters). Dropping a future and polling without being woken are never forced.
- `Attach`, `Catalog` and `ScanQuery` state safety only.

## Proofs

| Module | Theorem | For every |
|---|---|---|
| `MutationWaitProofs` | `TypeCorrect`, `VerdictsMatch`, `TimeoutsAreHonest`, `WaitIsBounded`, `PollsSpaced`, `ImplementsOutcomeSafety` | timeout, poll interval, request time-out, lateness of timers |
| `DmlStatementProofs` | `StatementTypes`, `TransactionsBracket`, `RowsInOrder`, `RowsAtMostOnce`, `CountsTruthful`, `RefusalsTrue`, `NoExplicitWrites`, `ImplementsStatementSafety` | set of connections and statements, number of rows, vector size |
| `TableScanProofs` | `TypesKept`, `RowsKept`, `HistoryKept`, `ChangesCaughtUp`, `OverrunBounded`, `ScanImplementsOutcome`; of `UpdateScan`: `AllRowsUpdated`, `RewritesBounded`, `UpdateReadsOutcome` | finite set of rows, initial document, page and vector size, pushed limit, number of edits |
| `SdkClientProofs` | `SdkTypes`, `AnswersAreOwn`, `RequestsBehave`; of `FetchRequest`: `FreedAndClosedOnce`, `NothingIsLeaked`, `NoWakeupIsLost` | set of requests, clients, calls and calls that accept a further status |
| `ScanQueryProofs` | `PushdownIsExact`, `NoDangling`, `NothingElseLeaks`, `QueryTypesKept` | finite table, content, set of queries, number of allocations |
| `AttachProofs` | `AttachTypes`, `TokensValidated`, `CloserSecretWins`, `UrlsAgreeWithIds`, `ExplicitWins` | set of documents, tokens and requests, number of changes |
| `CatalogProofs` | `NamesAreDistinct`, `ColumnsAreListed`, `SteadyTablesAreFound` | document and its names, page size, number of edits |

`NumberFacts` has the least number of a set, and induction as a statement about a set of
numbers; the last two modules use it.

The assumptions are the named `ASSUME`s of the modules: bounds and durations are
natural numbers, positive where zero makes no sense, and the special values are
not among the ordinary ones. TLC evaluates them in every run.

**`MutationWait`.** The properties speak of the end of the wait; what carries them
is what the client still knows while it is under way. `WaitInv` adds: a reply of
"completed" is still true when it is read, since completion is final (`ReplyInv`);
where the clock can be in each state, in terms of when the request was sent and
when the sleep is due (`ClockInv`); a reply that was not "completed" means the
write completed no earlier than that request, which is what makes a time-out honest
(`StaleInv`); a sleep that the deadline did not clip is a whole interval
(`PollInv`). `SleepSpanBounds` is the arithmetic of the clipped sleep. The
refinement follows step by step: a client step that ends the wait is `Announce`,
completion in the document is `Settle`, everything else stutters.

**`DmlStatement`.** Connections share the map of transactions only, so the invariant is
one per connection, `ConnInv`; `InvariantIsLocal` and `OthersUntouched` carry it
across the steps of the others. It ties the position in the statement (`doneRows`,
`chunkEnd`, `cursor`) to the state of each row, to the number of sends and to
`hasWrites`, and says that a statement that was let through runs in autocommit mode.

That statements implement `StatementOutcome` needs two things more: nothing beyond the chunk
in Sink is touched, a chunk is one vector at most and is marked when it is done (`ReachInv`),
which bounds what a silent rollback can hide; and who is refused has not got to Sink
(`LetThroughInv`). The variables of the abstract statement are functions on connections, so
`ChangedAt` first says that a step changes them at one connection only. Then requests are
`Send`, waits and failures `Learn`, a commit is `Succeed` and a rollback `RollBack`; planning,
Sink and the marks are invisible.

**`TableScan`.** A scan has two passes, the listing and the sync check, and `tokenAt` is
the moment between them. The invariant speaks of the versions of a row that are held, in
the batch or in DuckDB's hands (`Held`), so that handing a row over changes nothing and
only `ListRows` has to be looked at closely; `ListRowsPage` says what a page of each pass
is. `OncePerPass`: a pass holds nothing behind its page token and each row once, which is
why versions come in order. `FirstPass`: it holds every steady row before the token.
`SecondPass`: the same of the changed rows. `Tokens` ties the tokens and the flag to the
passes, so that a scan that is finished without a LIMIT has passed every row. `Limited`
counts what was produced, what is left and the batch.

That the scan implements `ScanOutcome` follows from the same invariant and one fact more, that
a pushed LIMIT that is used up was handed over (`LimitMet`): a page is `Read`, copying a row
`Give`, the last empty chunk `End`; the pass, the tokens and the vectors are invisible. The
abstract `Read` has no pass and no token: that a row it reads has not been handed over in the
version it has is what `OncePerPass` is for.

**`UpdateScan`.** Writes are edits like any other, so the invariant of `TableScan` carries
over (`UpdateInv`); every row DuckDB was given is written or in the vector. That a row
comes at most once per pass (`SeenTwiceAtMost`) then bounds the writes. The statement's own
writes are edits for the abstract scan as well, so `ScanOutcome` is kept under an UPDATE too.

**`FetchRequest`.** Again one invariant per request, in four parts: who owns the box
(`BoxInv`), the life of the request on both sides (`LifeInv`), the fetch object
(`ObjectInv`), and the result, the waker and the wake-up (`ResultInv`). The box is
owned by exactly one of the registry, the handler and the canceller, which is why it
is freed once; the result is stored before the waker is looked for, and the waker
registered before the result is looked at again, which is why no wake-up is lost.

**`SdkClient`.** The invariant of `FetchRequest` carries over, because every step is a step
of a request or leaves them alone (`RequestsBehave`). `LockInv` says who holds a client's
lock: the operation between `BeginOperation` and its end, and nobody else; the slot is
empty or has the exchange of the holder, which is why an answer is one's own.
`JudgedInv` is what an operation knows when it is judged.

The models of `FetchRequest` and `SdkClient` allow more than the browser build does. It
has one thread: event handlers run only while `block_on` sleeps or inside
`emscripten_fetch` and `emscripten_fetch_close`, its waker does nothing because
`block_on` polls anyway, and every client has one sequential user. What does occur there
is a refusal or an answer before the fetch object is stored (`fetch.rs:151`) and a close
that enters the handler of a loading request. That `NoLostWakeup` and `OwnAnswer` hold
says that the second look of `poll` and the execution lock would be enough for an
executor that waits to be woken and for a client that is shared.

**`ScanQuery`.** Two invariants that do not need each other. `HeapInv`: what exists is what
the wrappers own and what was lost, no two own the same, and the stage tells which own
something. `PlanInv` and `ScanInv`: the pushed filter and those left are what was asked
for, and an order is only pushed when none is left; the rows emitted, in the batch and
unread are those the endpoint lists, each once and in the pushed order, and the scan stops
before the last only when it has emitted as many as the LIMIT. `AnswersFromPart` then says
that a LIMIT may be taken from such a part of the rows, and `OneAscendingKey` that an order
of one ascending key is what is pushed of it.

**`Attach`.** `SecretInv` and `CredentialInv` are independent. While a link is being
resolved, the credential is the one stored for what the link shows (`ResolvingInv`);
`CanonicalAgrees` then says that looking the document's own secret up first gives what
attaching by id would have given. What a lookup returns is not expanded for that, so these
theorems hold for whatever secret DuckDB considers closest. Only `AttachTypes` has to know
that there is one: matching scopes have lengths, and one of them is the longest
(`ClosestMatches`).

**`Catalog`.** The two listings are nested, each a loop over pages, and the document changes
between any two requests. `PageFacts` says what a page is without saying where it was cut:
items behind the token in order, and none left out up to the next token; `PageAdded` what that
does to a list that was complete up to the token. `CatalogInv` then says the same of both
loops: `TableOrder` keeps keys ascending, so that no table is listed twice and none is both
loaded and waiting; `TablesRead` has every steady table the listing has passed; `ColumnsRead`
every steady column of the table being read. Names are a matter of their own: `FreshNameIsFree`
is the pigeonhole argument that one of the candidates is not taken, and `PreparedColumns` its
induction along the list. A table is finished in one step from both (`FinishedTable`), and
`SteadyTablesFound` follows because keys, not names, are in order: another table of the
same name is the only thing that can hide one.

### Only model-checked

Liveness, which is out of the prover's reach: `UpdateEnds`, `CallEnds`, and the liveness
halves of `ImplementsOutcome`, `ImplementsScan` and `ImplementsStatement`. Every invariant
and every action property of the passing runs is proved. What the recursive function of
`PrepareColumns` returns for a list of any length is proved by induction over the set of
the lengths for which it holds (`AllNumbers`), which needs no operator as a parameter.

## Findings

Four runs expect a violation, because the code does something else than the text
says.

- `DmlAutocommitText`: the check for explicit transactions searches the query text
  for "begin", "commit" and "rollback", so an autocommit statement with such a word
  in a literal is refused as an explicit transaction
  (`rust_bridge_transaction_manager.cpp:14` against `README.md:205`).
- `DmlSilentRollback`: `has_writes` is set when a chunk is done, so a statement that
  fails within its first chunk is rolled back silently although some of its rows are
  written (`rust_bridge_dml.cpp:75` against `exports/metadata.rs:107`).
- `UpdateScanTwice`: rows an UPDATE wrote after the last page was read come back from
  the sync check of its own scan and are updated and counted again
  (`client/scan.rs:94`, `README.md:202`). `RewrittenBySyncCheckOnly` shows the limits
  of it: at most once more, through this check only.
- `CatalogMetadata`: a document column named `createdAt` keeps the name and the row
  metadata becomes `createdAt_2` (`json/catalog.rs:163` against `README.md:76`).

## Not modelled, and why

- Value conversion and payloads: pure functions over data. Which payload is rejected is a
  nondeterministic choice in `DmlStatement` (`RejectPayload`); a cell that cannot be shown
  and a constant that cannot be written are values of `ScanPlanning`. Whether the API
  finds the same cells equal as DuckDB, which is shown a normalised text, depends on the
  API and cannot be told from this repository.
- Across the C ABI: strings and errors that are allocated, taken and freed within one call,
  and the layout of the structures.
- What a plan reports but does not do: virtual columns, EXPLAIN labels, statistics.
- The lock around the map of transactions (`rust_bridge_transaction_manager.cpp`): steps on
  the map are atomic because it is there, so a forgotten lock would not be noticed.
- Rows that other editors move, and editors that never stop: `MaxEdits` bounds what others
  do, so that a scan ends is shown for finitely many edits only.
- An id that is wrongly inferred from a URL and finds a credential scoped to it: the
  precondition of `UrlAgreesWithId` leaves it out, and no property covers it.
- Registration, the tokio runtime and packaging: they run once, are external, or have
  no state.

## Plan

Done, in this order: `MutationWait` with its abstract specification and refinement;
`DmlStatement`; `TableScan`; `UpdateScan`; `FetchRequest`; `Attach`; `Catalog`;
`SdkClient`; `ScanPlanning` and `ScanQuery`; the proofs of all their safety properties; the
abstract specifications `ScanOutcome` and `StatementOutcome` with their refinements.

1. An abstract statement of `FetchRequest` (a request is answered once, or dropped), which
   `SdkClient` could use instead of the request's steps.
2. The conversion of values as operators over a small domain of formats: what is shown of
   a cell, and what writing it back would store.
