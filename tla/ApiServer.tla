------------------------------ MODULE ApiServer ------------------------------
(***************************************************************************)
(* The HTTP API (server.py): one single-threaded server answers one        *)
(* request after another, each by several reads of a storage that other    *)
(* processes write at the same time (the seed script, a second server, a   *)
(* client of the library).                                                 *)
(*                                                                         *)
(* Storage is what module Storage shows it to be: blobs that are never     *)
(* removed, written before the edge that needs them, and a log and a graph *)
(* that change together, so that the graph is that of the log's edges.     *)
(* What a statement of the server has read is therefore a length of the    *)
(* log.  The labels are those of module Reachability; whether a proposal   *)
(* passes, is rejected or raises is settled in module Verification.        *)
(***************************************************************************)
EXTENDS EdgeRecords, Merkle, Integers, FiniteSetsExt, Functions

CONSTANTS
    Genesis,        \* the roster in Raw that is entry 0
    Refuting,       \* the edges of type refutation
    strength,       \* Edge -> 0 .. 4
    signer,         \* Edge -> the signer_pubkey in the record
    Targets,        \* the claims that clients ask about
    Named,          \* the keys that the server's roster binds
    ServerKey,      \* the key the server's storage signs entries with
    AuthorKey,      \* the key of the other processes
    MaxLog          \* bound of the model: entries in the log

ASSUME ApiServerAssumption ==
    /\ Genesis \in Raw
    /\ Refuting \subseteq Edge
    /\ Targets \subseteq Node
    /\ strength \in [Edge -> 0 .. 4]

VARIABLES
    objects,        \* the addresses of the blobs in the object store
    log,            \* the entries of the log
    pc,             \* where the server is in its handler
    request,        \* the request it works on, or worked on last
    reads,          \* the log's length when the request came and at each read for it
    walk,           \* the locals of path_discovery
    report,         \* the locals of reproduce and verify_edge_attestation
    pinned,         \* the anchor a client has kept: a root, and the length it is of
    answer          \* the answer to the request, or None

storageVars == <<objects, log>>
localVars == <<walk, report>>
vars == <<objects, log, pc, request, reads, walk, report, pinned, answer>>

PremiseSets == [e \in Edge |-> Range(premises[e])]

Q == INSTANCE GraphQueries WITH PremiseSet <- PremiseSets

-----------------------------------------------------------------------------
(***************************************************************************)
(* Storage, and the processes that write to it beside the server.          *)
(***************************************************************************)

\* The edges of the graph when the log had n entries.
Graph(n) == {e \in Edge : \E i \in 1 .. n : log[i].payload = e}

\* _derivation_edges: what all_edges lists, resolves and does not refute.
Derivations(n) == {e \in Graph(n) \ Refuting : Hash(e) \in objects}

\* all_nodes
Nodes(n) == UNION {Endpoints(e) : e \in Graph(n)}

EntryHashes(n) == [i \in 1 .. n |-> log[i].entry_hash]

Root(n) == root_hash(EntryHashes(n))

Absentees(e) == {i \in DOMAIN Puts(e) : Puts(e)[i] \notin objects}

\* Mutation: an edge may be written before the nodes it names.
NextPutAnywhere(e) == {Puts(e)[i] : i \in Absentees(e)}

\* The first blob of an edge that is not there; writing one again changes nothing.
NextPut(e) == IF Absentees(e) = {} THEN {} ELSE {Puts(e)[Min(Absentees(e))]}

PutBlob(e) == \E h \in NextPut(e) : objects' = objects \cup {h}

CommitBy(key, e) ==
    /\ Absentees(e) = {}
    /\ Len(log) < MaxLog
    /\ log' = Append(log, LogEntry(Len(log), key, e, log[Len(log)].entry_hash))

\* Any process may stop after any of its writes.
AuthorPut(e) == PutBlob(e) /\ UNCHANGED <<log, pc, request, reads, walk, report, pinned, answer>>

AuthorCommit(e) ==
    /\ CommitBy(AuthorKey, e)
    /\ UNCHANGED <<objects, pc, request, reads, walk, report, pinned, answer>>

-----------------------------------------------------------------------------
(***************************************************************************)
(* Requests and answers.  GET /health reads nothing and is left out.  The  *)
(* field bounded of a commit: its timeout_seconds is positive, and arms    *)
(* the timer of the check.                                                 *)
(***************************************************************************)

Request ==
    [kind : {"reachable", "path"}, target : Targets, min_kappa : {0, 1}]
    \cup [kind : {"reproduce", "attest"}, address : {Hash(d) : d \in Targets \cup Edge}]
    \cup [kind : {"graph", "anchor", "verify_history"}]
    \cup [kind : {"commit"}, edge : Edge, bounded : BOOLEAN]

NoRequest == [kind |-> "none"]
NoWalk == [todo |-> {}, visited |-> {}, missing |-> {}]
NoReport == [edge |-> None, agrees |-> FALSE, signed |-> FALSE]

FirstStep(kind) ==
    CASE kind \in {"reproduce", "attest"} -> "resolve"
      [] kind = "commit"                  -> "verify"
      [] OTHER                            -> "read"

\* Bound of the model: a client that has pinned an anchor only verifies the history.
FocusedClient(r) == (r.kind = "verify_history") <=> (pinned # None)

\* A request has arrived with all of its body.
Receive(r) ==
    /\ pc = "idle"
    /\ FocusedClient(r)
    /\ request' = r
    /\ reads' = <<Len(log)>>
    /\ pc' = FirstStep(r.kind)
    /\ walk' = NoWalk /\ report' = NoReport
    /\ answer' = None
    /\ UNCHANGED <<storageVars, pinned>>

At(label, kinds) == pc = label /\ request.kind \in kinds

Goto(label) == pc' = label /\ UNCHANGED <<storageVars, request, pinned, answer>>

Respond(status, body) ==
    /\ answer' = [status |-> status, body |-> body]
    /\ pc' = "idle"
    /\ UNCHANGED <<storageVars, request, localVars>>

\* One statement that reads the log or the graph.
Reading == reads' = Append(reads, Len(log))

\* The body is no JSON, or a field is missing or has a value that does not parse, and
\* GET has no body; a KeyError of a check is taken for a missing field.
Refuse ==
    /\ \/ pc = FirstStep(request.kind) /\ Len(reads) = 1
       \/ pc = "proof"
    /\ request.kind \notin {"graph", "anchor"}
    /\ Respond(400, "refused")
    /\ UNCHANGED <<reads, pinned>>

\* Any other exception, wherever it is raised: a body that is not UTF-8 or has a value
\* of a wrong type, a read or a write that fails, a check that raises, a busy timeout.
\* What commit_edge_tx had begun is rolled back.
Fails ==
    /\ pc # "idle"
    /\ Respond(500, "internal error")
    /\ UNCHANGED <<reads, pinned>>

-----------------------------------------------------------------------------
(***************************************************************************)
(* POST /query/reachable and POST /query/path                              *)
(***************************************************************************)

Enough(edges) == Q!Established(edges, request.min_kappa)

Label(edges) ==
    [established |-> request.target \in Enough(edges),
     kappa       |-> Q!KappaOf(edges, request.target),
     depth       |-> Q!DepthOf(edges, request.target)]

query_reachable ==
    /\ At("read", {"reachable"})
    /\ Reading
    /\ Respond(200, Label(Derivations(Len(log))))
    /\ UNCHANGED pinned

\* The labels; an established target needs no walk.
PathLabels ==
    /\ At("read", {"path"})
    /\ Reading
    /\ IF Label(Derivations(Len(log))).established
       THEN Respond(200, [label |-> Label(Derivations(Len(log))), missing |-> {}])
            /\ UNCHANGED pinned
       ELSE /\ walk' = [NoWalk EXCEPT !.todo = {request.target}]
            /\ Goto("walk")
            /\ UNCHANGED report

\* edge_map: the edges of the first read.
EdgeMap == Derivations(reads[2])

\* Mutation: the edges that conclude a node are resolved anew.
IncomingLive(n) == {e \in Derivations(Len(log)) : conclusion[e] = n}

\* incoming_edges reads the graph as it is now; the map keeps what was there then.
Incoming(n) == {e \in Graph(Len(log)) : conclusion[e] = n} \cap EdgeMap

\* Mutation: a node is not recorded as visited.
WalkNodeAgain(n) ==
    LET pushed == UNION {Q!Blocking(e, Enough(EdgeMap)) : e \in Incoming(n)}
    IN  [walk EXCEPT !.todo = (@ \ {n}) \cup pushed,
                     !.missing = @ \cup Q!MissingAt(n, Incoming(n), Enough(EdgeMap))]

\* One round of the loop for a node on the stack.
WalkNode(n) ==
    LET visited == walk.visited \cup {n}
        pushed == UNION {Q!Blocking(e, Enough(EdgeMap)) : e \in Incoming(n)}
    IN  [todo    |-> (walk.todo \cup pushed) \ visited,
         visited |-> visited,
         missing |-> walk.missing \cup Q!MissingAt(n, Incoming(n), Enough(EdgeMap))]

PathWalk ==
    /\ At("walk", {"path"})
    /\ \E n \in walk.todo : walk' = WalkNode(n)
    /\ Goto("walk")
    /\ UNCHANGED <<reads, report>>

PathEnd ==
    /\ At("walk", {"path"})
    /\ walk.todo = {}
    /\ Respond(200, [label |-> Label(EdgeMap), missing |-> walk.missing])
    /\ UNCHANGED <<reads, pinned>>

-----------------------------------------------------------------------------
(***************************************************************************)
(* GET /query/graph: the nodes, then the edges.                            *)
(***************************************************************************)

GraphNodes ==
    /\ At("read", {"graph"}) /\ Len(reads) = 1
    /\ Reading
    /\ Goto("read")
    /\ UNCHANGED localVars

\* Mutation: what was read first is taken for the edges.
GraphBodySwapped(n, m) == [nodes |-> Nodes(m) \cap objects, edges |-> {e \in Graph(n) : Hash(e) \in objects}]

GraphBody(n, m) == [nodes |-> Nodes(n) \cap objects, edges |-> {e \in Graph(m) : Hash(e) \in objects}]

GraphEdges ==
    /\ At("read", {"graph"}) /\ Len(reads) = 2
    /\ Reading
    /\ Respond(200, GraphBody(reads[2], Len(log)))
    /\ UNCHANGED pinned

-----------------------------------------------------------------------------
(***************************************************************************)
(* POST /reproduce and POST /attest                                        *)
(***************************************************************************)

\* A blob that is not there, or that is no edge, is not found.
ResolveEdge ==
    /\ At("resolve", {"reproduce", "attest"})
    /\ IF \E e \in Edge : request.address = Hash(e) /\ Hash(e) \in objects
       THEN /\ report' = [report EXCEPT !.edge = CHOOSE e \in Edge : request.address = Hash(e)]
            /\ Goto(IF request.kind = "reproduce" THEN "nodes" ELSE "search")
            /\ UNCHANGED walk
       ELSE Respond(404, "edge not found") /\ UNCHANGED pinned
    /\ UNCHANGED reads

ResolveNodes ==
    /\ At("nodes", {"reproduce"})
    /\ IF Endpoints(report.edge) \subseteq objects
       THEN Goto("proof") /\ UNCHANGED localVars
       ELSE Respond(500, "node not resolvable") /\ UNCHANGED pinned
    /\ UNCHANGED reads

BlobThere(e) == proof[e] = None \/ Hash(proof[e]) \in objects

\* The check may run into its timeout where it did not before, and without the proof
\* it is another check.
ReVerify ==
    /\ At("proof", {"reproduce"})
    /\ \E agrees \in BOOLEAN : report' = [report EXCEPT !.agrees = agrees]
    /\ Goto("search")
    /\ UNCHANGED <<reads, walk>>

\* Mutation: the walk stops one entry short.
FindLogEntryShort(e) == {i \in 1 .. Len(log) - 1 : log[i].entry_hash = Hash(e)}

\* _find_log_entry; entries below the length that was read never change.
FindLogEntry(e) == {i \in 1 .. Len(log) : log[i].entry_hash = Hash(e)}

SearchLog ==
    /\ At("search", {"reproduce", "attest"})
    /\ Reading
    /\ LET found == FindLogEntry(report.edge)
       IN  report' = [report EXCEPT !.signed = found # {} /\ verify_entry(log[Min(found)])]
    /\ Goto("bind")
    /\ UNCHANGED walk

Attestation ==
    [named |-> signer[report.edge] \in Named,
     signed |-> report.signed,
     bound |-> BlobThere(report.edge)]

Ok(a) == a.named /\ a.signed /\ a.bound

CheckBinding ==
    /\ At("bind", {"reproduce", "attest"})
    /\ Respond(200, IF request.kind = "attest" THEN Attestation
                    ELSE [attestation |-> Attestation,
                          reproduced  |-> report.agrees /\ Ok(Attestation)])
    /\ UNCHANGED <<reads, pinned>>

-----------------------------------------------------------------------------
(***************************************************************************)
(* GET /anchor and POST /verify_history                                    *)
(***************************************************************************)

AnchorRoot ==
    /\ At("read", {"anchor"}) /\ Len(reads) = 1
    /\ Reading
    /\ Goto("read")
    /\ UNCHANGED localVars

\* The length is read after the root; the client keeps the answer.
AnchorCount ==
    /\ At("read", {"anchor"}) /\ Len(reads) = 2
    /\ Reading
    /\ Respond(200, [root_hash |-> Root(reads[2]), entry_count |-> Len(log)])
    /\ pinned' = [root_hash |-> Root(reads[2]), of |-> reads[2]]

\* Mutation: the chain is checked and the root is not.
HistoryChains(n, root) == ChainVerifies(SubSeq(log, 1, n))

HistoryVerifies(n, root) == ChainVerifies(SubSeq(log, 1, n)) /\ Root(n) = root

verify_history ==
    /\ At("read", {"verify_history"})
    /\ Reading
    /\ Respond(200, [valid |-> HistoryVerifies(Len(log), pinned.root_hash)])
    /\ UNCHANGED pinned

-----------------------------------------------------------------------------
(***************************************************************************)
(* POST /commit                                                            *)
(***************************************************************************)

\* The check of a request without a time limit may also never end.
CommitVerdict ==
    /\ At("verify", {"commit"})
    /\ \/ Goto("put") /\ UNCHANGED localVars
       \/ Respond(200, [rejected |-> TRUE]) /\ UNCHANGED pinned
    /\ UNCHANGED reads

Unlimited == At("verify", {"commit"}) /\ ~request.bounded

CommitPut ==
    /\ At("put", {"commit"})
    /\ PutBlob(request.edge)
    /\ UNCHANGED <<log, pc, request, reads, walk, report, pinned, answer>>

CommitEdge ==
    /\ At("put", {"commit"})
    /\ CommitBy(ServerKey, request.edge)
    /\ answer' = [status |-> 200, body |-> [rejected |-> FALSE]]
    /\ pc' = "idle"
    /\ UNCHANGED <<objects, request, reads, walk, report, pinned>>

\* The server is stopped and started again; the connection is gone.
Restart ==
    /\ pc # "idle"
    /\ pc' = "idle" /\ request' = NoRequest /\ reads' = <<>>
    /\ walk' = NoWalk /\ report' = NoReport
    /\ UNCHANGED <<storageVars, pinned, answer>>

-----------------------------------------------------------------------------
Init ==
    /\ objects = {}
    /\ log = <<LogEntry(0, AuthorKey, Genesis, GENESIS_PREV_HASH)>>
    /\ pc = "idle"
    /\ request = NoRequest /\ reads = <<>>
    /\ walk = NoWalk /\ report = NoReport
    /\ pinned = None
    /\ answer = None

Handle ==
    \/ query_reachable \/ PathLabels \/ PathWalk \/ PathEnd
    \/ GraphNodes \/ GraphEdges
    \/ ResolveEdge \/ ResolveNodes \/ ReVerify \/ SearchLog \/ CheckBinding
    \/ AnchorRoot \/ AnchorCount \/ verify_history
    \/ CommitVerdict \/ CommitPut \/ CommitEdge

Next ==
    \/ \E e \in Edge : AuthorPut(e) \/ AuthorCommit(e)
    \/ \E r \in Request : Receive(r)
    \/ Refuse \/ Handle \/ Fails \/ Restart

Spec == Init /\ [][Next]_vars

\* The server runs, a check with a time limit ends, and commit_edge_tx returns or
\* raises (the bound on the log is met by raising).  Nobody has to send anything or to
\* write beside the server, and a check without a limit need not end.
Served == ~Unlimited /\ (Handle \/ (pc = "put" /\ Fails))

FairSpec == Spec /\ WF_vars(Served)

-----------------------------------------------------------------------------
Answered(kinds, status) ==
    pc = "idle" /\ answer # None /\ request.kind \in kinds /\ answer.status = status

AboutCommitted(e) == request.address = Hash(e) /\ e \in Graph(reads[1])

\* verify_edge_attestation against the log: what it calls ok is in the log, under a
\* named signer and with its proof, and what was in the log when the request came,
\* under a named signer, is ok, whatever other processes commit meanwhile.  Blobs of
\* an edge that its committer has not finished are not enough.
AttestationExact ==
    Answered({"attest", "reproduce"}, 200) =>
        LET a == IF request.kind = "attest" THEN answer.body ELSE answer.body.attestation
            there(e) == e \in Graph(Len(log)) /\ signer[e] \in Named /\ BlobThere(e)
        IN  \A e \in Edge : request.address = Hash(e) =>
                /\ Ok(a) => there(e)
                /\ e \in Graph(reads[1]) /\ signer[e] \in Named => Ok(a)
                /\ request.kind = "reproduce" /\ answer.body.reproduced => there(e)

\* An edge that was committed when the request came is never answered as missing: what
\* is answered instead of its report is a bad body or an exception.  And no edge that
\* resolves, committed or not, names a node that does not: the nodes are written first.
CommittedResolves ==
    pc = "idle" /\ answer # None /\ request.kind \in {"attest", "reproduce"} =>
        /\ \A e \in Edge : AboutCommitted(e) /\ answer.status # 200 =>
               answer.body \in {"refused", "internal error"}
        /\ answer.status # 200 => answer.body # "node not resolvable"

\* path_discovery walks a graph that grows under it, and its answer is that of the
\* graph at its first read.
PathIsSnapshot ==
    Answered({"path"}, 200) =>
        LET edges == Derivations(reads[2])
            enough == Q!Established(edges, request.min_kappa)
        IN  /\ answer.body.label = Label(edges)
            /\ answer.body.missing = IF request.target \in enough THEN {}
                                     ELSE Q!Missing(edges, request.target, enough)

\* What query_graph promises the visualizer in spite of its two reads: all that was
\* committed when the request came, with its nodes, and no node without an edge.
GraphAnswerWhole ==
    Answered({"graph"}, 200) =>
        /\ Graph(reads[1]) \subseteq answer.body.edges
        /\ Nodes(reads[1]) \subseteq answer.body.nodes
        /\ answer.body.nodes \subseteq UNION {Endpoints(e) : e \in answer.body.edges}

\* verify_history against an anchor that a client keeps: a history that has not grown
\* verifies, and one that verifies holds nothing that the anchor did not cover.  (It
\* may be longer: a repeated last entry can leave the root as it was.)
HistoryVerdictExact ==
    Answered({"verify_history"}, 200) =>
        LET payloads(n) == {log[i].payload : i \in 1 .. n}
        IN  /\ answer.body.valid => payloads(reads[2]) = payloads(pinned.of)
            /\ reads[2] = pinned.of => answer.body.valid

\* The one thread comes back from every request, also from a walk over a cyclic graph,
\* except from the check of a commit whose client switched the time limit off: that one
\* may keep it for ever (base.py:71).
EveryRequestAnswered == (pc # "idle" /\ ~Unlimited) ~> pc = "idle"
==============================================================================
