# ArxDB in TLA+

ArxDB stores reasoning steps: a *node* is a claim, an *edge* derives a conclusion
from premises, and an edge is stored only if it passed verification.  Records are
content-addressed, an append-only log signs every commit, a Merkle root over the log
anchors the history, and queries ask what is derivable and what is refuted.

This directory models the parts of the system whose correctness depends on order:
what several processes, timers, crashes or loop passes do to shared state.  Nine
systems are checked with TLC over the modules listed below, and every safety property that
is checked is also proved with TLAPS for every value of the constants.

    tlc -workers 2 -config MCStorage.cfg MCStorage     (any run of PROJECT.json)
    tlapm StorageProofs.tla                            (any of the eight *Proofs modules)

`PROJECT.json` lists the components, the runs, the source lines each definition
models, a mutation for every property, the hazards and the theorems.

## 1. Inventory

### Storage, Python (`src/src/arxdb/storage/`)

| Component | State | Operations |
|---|---|---|
| `object_store.py` | blobs in a directory, by hash | `put` (temp file, `os.replace`), `get` |
| `append_log.py` | table `log` of `index.db`, key `seq` | `append` (count, link, insert), `get`, `root_hash`, `inclusion_proof`, `verify_entry` |
| `graph_index.py` | tables `nodes`, `edges`, `edge_premises` | `register_edge`, traversals |
| `storage.py` | one SQLite connection in autocommit mode | `commit_edge_tx`: blobs, then `BEGIN IMMEDIATE` .. `COMMIT` |
| `merkle.py` | none | `root_hash`, `inclusion_proof`, `verify_inclusion` |
| `hashing.py`, `keys.py`, `serialization.py` | none | BLAKE3, Ed25519, canonical CBOR |
| `grpc_client.py`, `factory.py` | a channel | the same interface over gRPC |

Hard: several operating-system processes share one data directory; `append` outside a
transaction is three statements; a process may die or raise between any two
statements; blobs are outside the transaction.
Correct if: the log is one verifying chain, graph and log hold the same edges,
whatever the graph names can be read, what was returned stays, nobody is blocked for
good.

### Storage, Go (`src/go/`)

`arxdbd` serves the same interface over a Unix socket; state is one Pebble database
(five kinds of graph key, three kinds of log key) and the same object directory.
gRPC runs each handler in its own goroutine.  Hard: `appendInBatch` reads the length
from the live database and commits later without a lock or a conflict check; the
daemon may die between the object writes, the batch and the answer; answers get lost.

### Verification (`src/src/arxdb/verification/`)

`verify_and_commit` runs the five ELENCHUS predicates, dispatches to a checker (roster
gate, Z3, Lean, SymPy, NumPy) under a time budget, and stores the edge with the
verdict and strength it earned.  State: the process's SIGALRM handler and interval
timer, Lean's proof file.  Hard: the alarm arrives at any moment; a checker may
diverge or raise; one process serves all requests in turn.

### Queries (`src/src/arxdb/query/`)

`compute_active_subgraph` labels edges accepted or defeated by refutations (grounded
semantics); `reachable` computes strengths, depths and a proof tree over the active
derivation edges; `path_discovery` reports what is missing for a goal;
`resolve.py` reads records back.  Hard: three fixpoint loops whose passes change what
they read, over graphs with cycles, in an order given by hashes.

### The API server (`src/src/arxdb/api/server.py`)

`ArxDBApp` holds a storage, a roster and a default signer.  Endpoints: `/query/reachable`,
`/query/path`, `/query/graph`, `/reproduce`, `/attest`, `/anchor`, `/verify_history`,
`/commit`.  `HTTPServer` serves one request at a time.  Hard: an answer is made of
several reads (labels, then the incoming edges of every node on the walk; nodes, then
edges; root, then length; length, then entries) of a storage that the seed script, a
second server or a library client writes meanwhile; a committer may die after any of
its writes; the walk of a path query may meet cycles.
Correct if: every answer is that of one moment, or at least holds everything that was
committed when the request came; what is attested is committed; every request is
answered.

### The corpus (`src/src/arxdb/seed/corpus.py`)

36 claims and 58 reasoning steps in five threads with bridges between them.  The script
seeds them in order, and its exit criteria say what the graph must then establish and
what it must not.  Hard: one step with too high a label joins threads into a proof of
the Riemann hypothesis; a step may be rejected in one run and stored in the next.

### Attestation and scripts

`roster.py` binds agents to keys; `attest.py` logs the roster, anchors the root,
verifies a history and attests single edges.  `seed_phaser.py` and `arxdb_serve.py`
share key, roster and anchor files in the data directory without a lock.  Hard: either
script may be killed anywhere (`write_bytes` truncates first), restarted, and run
beside the other.

### How they interact

    client -> API server -> verify_and_commit -> verify -> ELENCHUS, checkers
                                |
                                v
                     Storage facade (SQLite, or gRPC -> Go engine)
                       |        |          |
                   objects    graph       log -> Merkle root -> anchor
                       \        |
                       resolve, refutation -> reachability -> path discovery

## 2. Modules

| Module | Models | Extends / instantiates |
|---|---|---|
| `SignedLog` | hashes, signatures, log entries, chain verification | |
| `EdgeRecords` | what an edge record determines: rows, endpoints, blobs to put | `SignedLog` |
| `Ledger` | **abstract specification** of the storage layer | |
| `Storage` | SQLite backend, several processes | `EdgeRecords`, `Ledger` (refinement) |
| `GoStorage` | Go daemon, several calls at once | `EdgeRecords`, `Ledger` (refinement) |
| `Merkle`, `MerkleLog` | root and inclusion proofs over a growing log | |
| `Refutation` | `compute_active_subgraph` | |
| `Reachability` | `_fixpoint`, the proof tree, path discovery | |
| `Verification` | `verify`, ELENCHUS, checkers, `run_bounded` | |
| `Seeding` | seed script and server on one data directory | assumes what `Ledger` promises |
| `GraphQueries` | the answers of both queries for a given set of edges, in closed form | |
| `ApiServer` | the endpoints, read by read, beside another writer | `EdgeRecords`, `Merkle`, `GraphQueries` |
| `Corpus` | the seed corpus as data | |
| `CorpusSeeding` | the seed loop over the corpus, and the exit criteria | `Corpus`, `GraphQueries` |
| `StorageProofs`, `GoStorageProofs`, `RefutationProofs`, `VerificationProofs` | theorems | their component |
| `OperatorProofs` | theorems about the pure operators, and induction in a form the provers can use | `Merkle`, `GraphQueries` |
| `ReachabilityProofs` | theorems | `Reachability`, `OperatorProofs` (its lemmas) |
| `ApiServerProofs` | theorems | `ApiServer`, `MerkleLog`, `Ledger`, `OperatorProofs` (its lemmas) |
| `SeedingProofs` | theorems | `Seeding`, `CorpusSeeding`, `Ledger`, `OperatorProofs` (its lemmas) |
| `MC*` | constants and initial states of the runs | their component |

**Abstraction of data.**  A hash is the constructor `Hash(x)` and hence injective; a
signature is the key and the signed message.  A record is a model value, and its
address is that value, so re-putting a blob changes nothing.  Timestamps, CBOR and
message conversion are left out.  Control is kept: every statement that another
process could come before is an action.

### Storage

`objects` is the blob directory, `db` the committed tables, `view` what the open
transaction sees, `lock` its owner.  `pc`, `job`, `todo`, `seq`, `row` are the locals
of each process; `acked` is a history variable: the entries that were returned.

| Code | Actions |
|---|---|
| `verify_and_commit` after a passing verdict | `StartCommit`, `Put` (one blob each), `Return` |
| `commit_edge_tx` | `Begin`, `Register`, `AppendInTx`, `Commit`; `Rollback` for `except BaseException` |
| `append` in autocommit mode (`commit_roster`) | `AppendCount`, `AppendPrev`, `AppendInsert`, `AppendConflict` |
| file error, busy timeout | `Raise` |
| process killed | `Crash`: SQLite drops the transaction and the lock |

`AppendInTx` is one action because the write lock is held; `AppendCount` to
`AppendInsert` are three because it is not.

### GoStorage

`kv` is the Pebble database.  A member of `Call` is a call with its handler and that
handler's batch; it may serve one client after another.  `LenInBatch` reads the live
length, `PrevHashInBatch` builds the batch, `CommitBatch` applies it with last writer
wins, `Return` answers, `Fail` is an error or a client that ends between two of its calls,
`CrashDaemon` ends all calls.  The handlers of `service.go` never look at their context:
after `Abandon` nobody hears the answer (`heard`), but the handler runs on and may commit.
A client that gives a call up and calls again before the handler has ended is two calls,
and so belongs to the runs with overlap.  `IncomingEdges`, `OutgoingEdges`,
`GetConnectivity` and `AllEdges` are the read methods over the key layout.

### Refutation and Reachability

The attack graph, or the hypergraph, is chosen by `Init` and constant.  One action per
visit of an edge in a pass, one for the start of a pass, one for the end of a loop.
An unconstrained order of visits stands for the order of hashes.  `Cone` follows
`best_edge` as `_collect_proof_tree` does; `Visited` and `MissingEdges` are the walk of
`path_discovery`, as a set, since its result depends on what is visited only.

### Verification

`pc` is the place in `verify`; `handler`, `previous` and `timer` are the signal state
that `run_bounded` changes.  `Alarm` is SIGALRM while the checker's function runs,
`AlarmOutsideTry` just before the `try` or inside the `finally` block, where it skips
the rest of the block and leaves the handler installed.  `StartLean` creates the proof file
outside the `try` of `LeanChecker.check`, `WriteProof` fills it, and `WriteFails` raises
before the `try`, so that the file stays; `Unlink` in the `finally` block may fail
silently.  `files` holds the present check's file and whether an earlier one is left,
`diskFailed` is a history variable: writing or removing a file has failed.  What the
predicates and solvers find in a text is an attribute of the proposal (`leaks`, `circular`,
`claim`, ...).

### ApiServer

`objects` and `log` are the storage as module `Storage` shows it to be: the graph is that of
the log's edges, since both change in one transaction, so what a statement of the server
has read is a length of the log; `reads` records these lengths.  `AuthorPut` and
`AuthorCommit` are the writes of any other process, which may stop after each of them.
`request`, `pc`, `walk` and `report` are the locals of the handler, `answer` its response,
`pinned` an anchor that a client has kept.

| Endpoint | Actions |
|---|---|
| any | `Receive`; `Refuse` (400) for a body that is no JSON or has a bad or missing field; `Fails` (500, "internal error") for any other exception at any step, such as a value of a wrong type, bytes that are not UTF-8, a read or write that fails; `Restart` of the process |
| `/query/reachable` | `query_reachable`: one read, then the labels |
| `/query/path` | `PathLabels`, one `PathWalk` per node on the stack, `PathEnd` |
| `/query/graph` | `GraphNodes`, `GraphEdges` |
| `/attest`, `/reproduce` | `ResolveEdge`, (`ResolveNodes`, `ReVerify`), `SearchLog`, `CheckBinding` |
| `/anchor` | `AnchorRoot`, `AnchorCount`; the client keeps the answer |
| `/verify_history` | `verify_history` against the kept root |
| `/commit` | `CommitVerdict`, which a request without a time limit may never come to (`Unlimited`), `CommitPut` per blob, `CommitEdge` |

`FindLogEntry` and `HistoryVerifies` walk the log below a length that was read once; that
part never changes (`AppendOnly` of module `Storage`), so one action is enough for them.
The labels are given in closed form by `GraphQueries`; that the loops of `Reachability` end
with them is a theorem (`LoopsAnswerQueries`).

### Corpus and CorpusSeeding

`Corpus` lists the steps in the order of `CORPUS_EDGES` with type, premises, conclusion and
expected label.  `CorpusSeeding` runs the loop of `seed`: `Rejected`, `Skipped`, `Proposed`,
`RejectedLate`, `PutRecord`, `Commit` are its branches, `RunAgain` is a new run of the
script, after the last one ended or died anywhere.  Only spectral steps have a checker
that can time out.  `Award` is the label `verify` gives to each type in the corpus.

### Seeding

`file` holds the four shared files, each absent, torn (truncated, not yet filled) or
with content.  The seed script and the server are two state machines; `AbortSeed` and
`ServerStop` end them anywhere.  One seed script runs at a time.  Two history variables
name what the code has no defence against: `cut` holds the edges whose blob a run had
written when it died, and `collided` says that both processes have been creating the
server's key at the same time.  `SeedComplete` and `ServerNamed` then say that *nothing
else* goes wrong: what a finished script leaves out is exactly the accepted edges in `cut`,
and a roster names the wrong key for the server only after such a collision.

## 3. Runs

| Run | Shows | Bounds |
|---|---|---|
| `storage_sqlite` | 5 invariants, 2 temporal properties and refinement of `Ledger`, with exceptions and crashes | 2 processes, 2 edges (one premise-free, one with a repeated premise and a proof), 1 roster, 3 entries |
| `go_serial` | one call at a time: chain, durability, refinement | 1 call, 4 entries |
| `go_overlap` | what still holds when calls overlap | 2 calls, 3 entries |
| `go_lost` | *violation*: an answered entry is overwritten | 2 calls, 3 entries |
| `merkle` | proofs exact, root and count determine the history | all logs of up to 7 entries over 2 hashes |
| `refutation` | grounded result, termination | all attack graphs of 4 edges, every order |
| `reachability` | best strengths, minimal depths, valid proof trees, complete frontier, termination | all hypergraphs of 3 edges over 3 nodes, 2 strengths |
| `verification` | earned verdicts, no stray alarm, no proof file left unless the disk failed, every budgeted proposal answered | all combinations of attributes the predicates, and separately the checkers, look at |
| `seeding` | one identity, no duplicates, completeness but for edges that were cut off, anchors are prefixes, a serving server's roster names script and server | corpus of 2, 2 aborts, 4 entries |
| `seeding_orphan` | *violation*: an orphaned blob makes the script skip the edge for good | 1 abort |
| `api` | exact attestations and history verdicts, path answers of one moment, whole graph answers, committed edges are never answered as missing, every request answered but for commits without a time limit | 2 nodes, 4 edges (a statement, a step with a proof, a cycle back, a refutation under an unbound signer), 4 entries, 1 target, 2 thresholds |
| `corpus` | nothing derived above its strength; the exit criteria | the whole corpus, 3 runs of the script |

**Why the bounds are enough to be interesting.**  Two processes and three entries let
both a transaction and a standalone append lose a race and let a crash hit between any
two statements with something committed before and after.  Two calls are the
smallest overlap.  Seven leaves have odd levels at heights 0, 1 and 2.  Four edges are a
refutation of a refutation beside a contested claim; three hyperedges over three
nodes have cycles, corroborating paths and late raises.  In `MCReachability` edges
are visited in a fixed order: every graph over the named edges is an initial state, so
renaming the edges covers every order.  `MCRefutation` lets a record cite earlier
records only, because a record holds the address of what it cites.  In `MCApiServer` every
request can meet every length of the log at every one of its reads, a cyclic graph, an
edge whose blobs are only partly there, and a refutation; the two signing keys are one
model value, because nothing the server reads depends on which process signed.  Three
runs of the seed script are one that dies, one that times out and one that ends.

**Bounds in guards.**  `MaxLog`, `MaxLeaves`, `MaxAborts` and `MaxRuns` cap counters.
`FocusedClient` lets a client that has pinned an anchor ask for nothing but the verdict on
it; other requests do not look at `pinned`.  `Room` counts
operations under way so that none is cut off in the middle.  `CHECK_DEADLOCK FALSE` is
set where a system stops at its bound or at the end of an algorithm, and in
`MCVerification`, where a diverging claim without budget keeps the process for ever.

**Fairness.**  `Storage`: weak fairness of each process's statements, since the operating
system schedules it; no fairness for starting operations or crashing.  A waiting
statement ends by the busy timeout, so nothing depends on the lock being free again.
`Refutation`, `Reachability`: weak fairness of the next step of a sequential loop.
`ApiServer`: weak fairness of the handler's next step (`Served`), where a check with a time
limit ends, as the run `verification` shows, and `commit_edge_tx` returns or raises;
`Receive` means that a request has arrived with all of its body.  Nothing forces a
request, another writer, an exception or a restart.  A commit whose client switched the
time limit off may keep the one thread for ever (`server.py:298`, `base.py:71`): fairness does
not cover its check, and `EveryRequestAnswered` leaves it out, until it has reached the
storage.  `Verification`: the process runs, and an armed timer fires; Python delivers the signal
between bytecodes, so this supposes that a single call into compiled code returns
(Z3 has its own budget of the same length, a NumPy call is finite).  A budget of zero
or less arms no timer, and `EveryProposalAnswered` says nothing then.

### Disagreements between the code and its documentation

Checked by violation runs (quoted under `findings`):

1. The Go engine loses acknowledged entries when calls overlap (`go_lost`).
2. An orphaned blob is not harmless: the seed script takes it for a committed edge
   (`seeding_orphan`).

Seen while modelling, without a run:

3. The seed script ignores that `commit_roster` refused (`seed_phaser.py:316`) and anchors a
   history without the roster when the server was first to commit, although
   `seed_phaser.py:265` says that the anchor covers the roster.
4. `best_edge` is the last, not the strongest, zero-premise edge that concludes a node
   (`reachability.py:167`; `reachability.py:99` says it established the node at its best κ).
5. Appending a copy of the last entry to a log of odd length leaves the Merkle root
   unchanged (`merkle.py:53`; `tests/test_append_log.py:83` says it changes after each
   append).  `RootBindsHistory` is the property that does hold: root *and* count.
6. `verify` says "Never raises, never hangs" (`verifier.py:126`); an exception that a
   checker does not catch passes through, and a budget of zero or less is none.  The Lean
   checker raises when its proof file cannot be written, and then leaves the file
   (`lean_check.py:54`), although `base.py:8` has every checker return a result.  An alarm
   just before the `try` or inside the `finally` block of `run_bounded` leaves the handler
   of that check installed; the next call replaces it before it arms the timer.
7. `path_discovery` reports an empty frontier for a target whose own edge is too weak,
   although its comment says the frontier names what would strengthen it.
8. `verify_history` compares the root of the whole present log, so a root pinned
   earlier fails after any later commit, although `PUBLIC_API.md:195` has the auditor pin
   an anchor and verify it later.  `HistoryVerdictExact` is what does hold.
9. A graph answer may list an edge that was committed between its two reads and whose
   conclusion is not among its nodes (`server.py:198`, `server.py:203`;
   `tests/test_api.py:179` expects every conclusion to be there).  `GraphAnswerWhole` is
   what does hold.
10. `corpus.py:34` calls N9 a leaf, but E45 concludes it at K0.  N9 is still named as
    blocking in the path to N7; its own weak edge is not reported.
11. The refutations E50 and E52 conclude nodes of which the corpus has no claim with the
    opposite polarity: they attack nothing, and N30 is derived by nothing.
12. A running server keeps the roster it has read at its start when the seed script
    rewrites `roster.bin`.
13. The Go `Put` does not sync the file before the rename.

## 4. Proofs

The theorems hold for every value of the constants under the named assumptions
(`EdgeRecordsAssumption`, `StorageAssumption` and their like: constants have their
types, the kinds of address are disjoint, edges of the corpus are not clients' edges, the
graph of a query is finite), which TLC evaluates on every run.  Some carry one hypothesis
more (`BatchesApart`, `DistinctRecords`, `FiniteRecords`), explained where it is used below.

Each module about a component states an inductive invariant as a conjunction of named
parts, has one lemma for each action or group of actions, and combines them in one
temporal step.  Every invariant and every action property that a passing run checks is
proved this way, and both refinements of `Ledger`.

**Induction.**  The library's induction theorems take an operator as a parameter, which
the provers cannot instantiate.  `SetInduction` says the same of a *set* of numbers, with
0 and all successors; it follows from the well-foundedness of `<` by `WFMin`.  With it a
recursive function is shown to exist (`LevelsDefined`, `RoundsExist`) and to have its
values, and counting arguments over a finite set become possible
(`RoundsSettle`: if every round but the last marks something new, one round per member is
enough).

**StorageProofs.**  `HashChain` is not inductive: it depends on what a process read
before others committed.  `StorageInvariant` adds what each process knows at each
statement: the lock is held exactly inside a transaction (`Locking`), the transaction
sees the committed tables plus its own statements (`TransactionView`), a standalone
append holds a number that is free or has been taken since, with the link that belongs
to that number (`StandaloneAppend`), the blobs of an edge are on disk or still to be
put (`BlobsFirst`), and a row about to be returned is in the log (`Returning`).  The
proof has one lemma per action; `OthersKept` and `OthersKeptOnGrowth` carry the
knowledge of the processes that do not move.  From it: `LogIsChained`,
`GraphAndLogAgree`, `GraphIsReadable`, `ReturnedEntriesStay`, `NothingIsTakenBack` (an
action property) and `StorageImplementsLedger` (refinement: only `Commit` and
`AppendInsert` change the ledger, everything else stutters).

**GoStorageProofs.**  Two invariants.  `GoInvariant` holds for any number of calls that
overlap: what a handler read may be outdated, but all numbers below the one it read
stay taken, the entry it is about to write is well formed, and an answered edge is
in the graph.  Hence `OverlapIsSound` and `IndexesAlwaysAgree`.  `SerialInvariant` adds
that what a handler has read is still so when it commits (`ReadsCurrent`), which is what
overlapping calls break.  Its theorems assume of the behaviour that two handlers are never
both between the read of the length and the commit of their batch (`BatchesApart`); any
number of other calls may put blobs, wait for answers, fail or be given up meanwhile.  Hence
`GoLogIsChained`, `GoAnsweredEntriesStay` and `GoEngineImplementsLedger`: a lock around the
batch in `append_log.go` would make the engine a ledger.  The code has none, and the run
`go_lost` shows that the hypothesis is needed.  `OneCallSuffices` has no hypothesis on
behaviours: a daemon that works on one call at a time (`OneCallAtATime`), the condition of
the run `go_serial`, has no overlap.  A client that waits for every answer is not enough for
that: the handler of a call it gave up must have ended before it calls again.

**OperatorProofs.**  First the tree.  By induction over the levels, two trees of the same
number of leaves with equal roots have equal levels and so equal leaves
(`SameRootSameLog`).  `Climbing` follows a proof upwards: what has been computed after k
rounds is the node at `Position(index, k)` of level k exactly if the climb began with the
right leaf, since an internal hash has one pair of children.  `RootIsBinding` and
`InclusionIsExact`, about the log of `MerkleLog`, follow in `ApiServerProofs`, where the
client that pins a root is.  `SameRootSameEntries` is for
trees of different sizes: equal roots have the same *set* of leaves, because a leaf hash is
never an internal hash.

Then the queries, for a graph of finitely many nodes (`FiniteGraph`) with any cycles.  The
recursion of `Established` is solved by the least set that is closed under the edges that
are strong enough, and by nothing else because every round but the last leaves fewer nodes
outside (`EstablishedIsLeast`).  As many rounds as there are nodes reach all of it
(`RoundsSuffice`).  So `KappaOf` is the strongest strength at which a node is established
(`KappaOfIsStrongest`), `DepthOf` the fewest rounds that derive it (`DepthOfIsLeast`), and
`Reached` the least set with the target that is closed under blocking premises
(`ReachedIsLeast`).

**RefutationProofs.**  `LabellingInvariant`: accepted edges are defended and lie in every
fixed point of the characteristic function, defeated edges are exactly those they
attack, and while a pass has changed nothing no visited edge could have been
accepted.  Hence `LabelsNeverClash` and `ActiveSubgraphIsGrounded`.  (`LabelsConsistent` is a
part of the invariant and has no run of its own.)

**ReachabilityProofs.**  Three invariants, each over the one before.

- `FixpointInvariant`: every label is justified (a node labelled at least `k` lies in every
  set closed under edges of strength `k`), and what a quiet pass has visited is settled
  (at the end the labelled nodes are themselves such a set, `LabelledIsClosed`).  Hence
  `LabelsAreBest`, and `FrontierIsComplete`: what is named is visited, and an edge that
  concludes a named node either has another named node among its premises or would have
  labelled its conclusion.
- `PointerInvariant`: `best_edge` is overwritten while labels rise, so that acyclicity of
  the pointers depends on when each label was set.  The invariant needs no history: for
  every strength `k`, a set closed under the pointers of the nodes labelled at least `k`
  holds all those nodes.  A raise to strength `r` keeps it, because the premises have
  labels of at least `r` while the conclusion had less, so they are derived without the
  pointer that is replaced.  Hence `ProofTreesDerive`, as the cone is closed under pointers
  (`ConeClosed`).
- `DepthInvariant`: a depth is that of some derivation and belongs to a labelled node;
  seeds have depth zero; a quiet pass has settled what it visited.  `DepthsComplete` is
  the converse, by induction on the number of steps.  Hence `DepthsAreMinimal`.

`LoopsAnswerQueries` joins the two descriptions of the queries: when the loops have ended,
and no node was assumed to begin with (the API and the scripts assume none), the labels
are `KappaOf`, the depths are `DepthOf`, and what `path_discovery` names as missing is
`Missing` of `GraphQueries` for the same edges.  The modules that answer by those operators,
`ApiServer` and `CorpusSeeding`, therefore speak of the code's loops.

**VerificationProofs.**  `StoredIsEarned` and `CleanUp` speak of the moments between
two proposals.  `CheckInvariant` adds what holds inside a check: only the routed checker
runs (`Routed`), the checker's handler is installed as long as an alarm may still come
(`AlarmHasTaker`), only Lean's check has the proof file and one is left only if the disk failed, and a passing
result belongs to the proposal at hand (`ResultEarned`).

**SeedingProofs.**  `SeedingInvariant` has a part for each question.  `Identity`: once an edge
is signed, the key file has the key that signed it, and nothing overwrites it.
`Idempotent`, `Progress` and `CutOff`: an edge is committed only if its blob was missing when
the script looked; behind the loop everything accepted is stored; and what is stored is
logged, or just being committed, or was cut off, and what was cut off is never logged
because every later run finds its blob.  `Anchored`: the log begins with the root that the
script has read, and the count it reads later is at least as large.  `Bindings`: every
roster binds the script to the key in its file, which is not replaced any more once it was
read (`ScriptBound`), and as long as the two processes have not made the server's key at
once, a server's key that a process works with or a roster binds is the one in its file,
which nobody is then making (`MadeOnce`).  The corpus may have any length.  `SeedingUsesLedger`: with the logged
edges as its graph, the log is a refinement of `Ledger`.

The last part is about `CorpusSeeding`, and so about the one corpus there is, but for any
number of runs of the script.  What the argument needs of a step is collected in `Sound`:
spectral steps conclude what they compute, N7 and N9 follow only from each other unless by
analogy, and the author expects the label that the checker awards.  All 58 steps are sound
(`CorpusIsSound`), and the set of nodes other than N7 and N9 is closed under the edges of K1,
that of the computed nodes under those of K2.  By `EstablishedIsLeast` nothing else is ever
established (`CorpusNotInflated`), *whichever* of the edges are in the graph.
`LoopInvariant` says that every edge behind the loop is in the object store or spectral, and
only spectral edges are unmatched; hence, with four key steps that no timeout can leave out,
`CorpusMeetsExitCriteria`.

**ApiServerProofs.**  `ApiInvariant` says what is true between the reads of one request:
the reads see longer and longer prefixes (`Reads`), every edge of the log has its blobs
(`Whole`), the search of the log missed nothing that was there at the first read and found
nothing that is not there (`SignedRight`).  Hence `AttestationIsExact`,
`GraphAnswersAreWhole` and, with `SameRootSameEntries`, `VerdictIsExact`.  Two more
invariants build on it:

- `Resolving`, for `CommittedIsResolved`: an edge record is written after its nodes, so
  what resolves has its nodes, and what is in the log resolves; the answers that say
  otherwise are never given, and bad bodies and exceptions have answers of their own.  Hypothesis `DistinctRecords`: no edge record is byte for
  byte a node record or an artifact.  Nodes and edges have different key sets
  (`resolve.py:40`); an artifact is bytes a client sends, and one that *is* an uncommitted
  edge record would resolve as that edge, without its nodes.
- `Walking`, for `PathAnswersAreSnapshots`: what the walk has visited and has still to
  visit lies within what is reached in the graph of the first read (`Reached`, the least
  set with the target that is closed under blocking premises), is closed but for the
  stack, and the reported edges are those of the visited nodes.  Hypothesis
  `FiniteRecords`: there are finitely many nodes, which bounds the rounds of `Reached`.

`LabelsMeanDerivability` says what a label in an answer is worth: what is established at a
strength is the least set closed under the edges of at least that strength, the label is
the strongest such strength and the depth the fewest steps of any derivation.
`ServerUsesLedger`: the server's log and graph, and what other processes write beside it,
are the ledger after its first entry, the roster: nothing that `ApiServer` does with the
storage goes beyond the `Ledger` that both backends implement.

**Only model-checked.**  Liveness (`LockReleased`, both `Terminates`,
`EveryProposalAnswered`, `EveryRequestAnswered`): fairness and `ENABLED` are out of the
proof system's reach.

**Only proved.**  `AnswerIsQuery`, the invariant of `LoopsAnswerQueries`, `SeedingUsesLedger` and
`ServerUsesLedger` relate two modules and have no run of their own.

## 5. Not modelled

The text processing of ELENCHUS and the mathematics of the solvers (outcomes
only); CBOR, JSON and protobuf encoding; HTTP framing, `/health` and unknown routes; power
failure and the page cache; the texts of the corpus; generated code; examples and parity
vectors; platforms without SIGALRM; two seed scripts at once; the label operators
`max_kappa`, `series`, `parallel` and `corroborate`, which no code calls.

## 6. What could come next

1. Composition of `Refutation` and `Reachability` through the active set, and of `ApiServer`
   and `Seeding` through the roster file.
2. The correspondence of the object stores: that the blobs the server assumes of other
   processes are those `Storage` puts, in that order.
