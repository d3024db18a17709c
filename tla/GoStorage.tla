------------------------------ MODULE GoStorage ------------------------------
(***************************************************************************)
(* The Go engine (go/pkg/storage behind go/pkg/service) as its gRPC        *)
(* clients use it.  The daemon serves every call in a goroutine of its own *)
(* and takes no lock: a handler collects its writes in an indexed Pebble   *)
(* batch, whose reads go through to the live database, and commits the     *)
(* batch atomically.  No handler looks at its context: when its client has *)
(* gone, or the connection has broken, it runs on and may still commit.    *)
(* Call is therefore a set of places for calls with their handlers, and a  *)
(* client that calls again before an abandoned handler has ended is two.   *)
(***************************************************************************)
EXTENDS EdgeRecords, FiniteSets

CONSTANTS
    Call,           \* how many calls the daemon can be at work on, each a place
    DaemonKey,      \* the daemon signs every entry with its own key
    MaxLog          \* bound on the number of log entries

ASSUME GoStorageAssumption == MaxLog \in Nat

VARIABLES
    objects,        \* content addresses of the blobs on disk
    kv,             \* the Pebble database, one field per key prefix
    pc, job, todo,  \* where each operation is, as in module Storage
    heard,          \* whether the client will still hear the answer
    seq,            \* the log length that a handler read
    entry,          \* the entry that a handler put into its batch
    acked           \* the entries that a client got as an answer

vars == <<objects, kv, pc, job, todo, heard, seq, entry, acked>>

-----------------------------------------------------------------------------
(***************************************************************************)
(* 'n', 'e' and 'p' hold the graph, 'c' and 'o' index it by conclusion and *)
(* by premise; 'l' and 'h' hold the entries and their hashes by sequence   *)
(* number, and len is the value under the key of the log length.           *)
(***************************************************************************)

EmptyDB ==
    [ n |-> {}, e |-> {}, p |-> {}, c |-> {}, o |-> {},
      l |-> [s \in {} |-> None], h |-> [s \in {} |-> None], len |-> 0 ]

\* Mutation: the outgoing index is keyed by the conclusion.
RegisterEdgeMisindexed(d, e) ==
    [d EXCEPT !.n = @ \cup Endpoints(e),
              !.e = @ \cup {EdgeRow(e)},
              !.p = @ \cup PremiseRows(e),
              !.c = @ \cup {<<Hash(conclusion[e]), Hash(e)>>},
              !.o = @ \cup {<<Hash(conclusion[e]), Hash(e)>>}]

RegisterEdge(d, e) ==
    [d EXCEPT !.n = @ \cup Endpoints(e),
              !.e = @ \cup {EdgeRow(e)},
              !.p = @ \cup PremiseRows(e),
              !.c = @ \cup {<<Hash(conclusion[e]), Hash(e)>>},
              !.o = @ \cup {<<Hash(premises[e][i]), Hash(e)>> : i \in DOMAIN premises[e]}]

\* Set overwrites: the binding of key s is the one given last.
Set(f, s, v) == [t \in DOMAIN f \cup {s} |-> IF t = s THEN v ELSE f[t]]

\* Mutation: the denormalised hash is that of the previous entry.
AppendStaleHash(d, s, r) ==
    [d EXCEPT !.l = Set(@, s, r), !.h = Set(@, s, r.prev_log_hash), !.len = s + 1]

\* The three keys that appendInBatch sets.
AppendKeys(d, s, r) ==
    [d EXCEPT !.l = Set(@, s, r), !.h = Set(@, s, r.entry_hash), !.len = s + 1]

-----------------------------------------------------------------------------
Idle(c) ==
    /\ pc' = [pc EXCEPT ![c] = "idle"]
    /\ job' = [job EXCEPT ![c] = None]
    /\ todo' = [todo EXCEPT ![c] = <<>>]
    /\ heard' = [heard EXCEPT ![c] = TRUE]
    /\ seq' = [seq EXCEPT ![c] = 0]
    /\ entry' = [entry EXCEPT ![c] = None]

Goto(c, label) == pc' = [pc EXCEPT ![c] = label]

Room == kv.len + Cardinality({c \in Call : pc[c] # "idle"}) < MaxLog

\* A client commits an edge: it puts the node payloads one call at a time, then
\* calls CommitEdge, which puts the edge record and the proof.
StartCommit(c, e) ==
    /\ pc[c] = "idle" /\ Room
    /\ job' = [job EXCEPT ![c] = e]
    /\ todo' = [todo EXCEPT ![c] = Puts(e)]
    /\ Goto(c, "put")
    /\ UNCHANGED <<objects, kv, heard, seq, entry, acked>>

\* A client calls Append: there is nothing to put.
StartAppend(c, r) ==
    /\ pc[c] = "idle" /\ Room
    /\ job' = [job EXCEPT ![c] = r]
    /\ Goto(c, "put")
    /\ UNCHANGED <<objects, kv, todo, heard, seq, entry, acked>>

Put(c) ==
    /\ pc[c] = "put" /\ todo[c] # <<>>
    /\ objects' = objects \cup {Head(todo[c])}
    /\ todo' = [todo EXCEPT ![c] = Tail(@)]
    /\ UNCHANGED <<kv, pc, job, heard, seq, entry, acked>>

\* NewIndexedBatch, then lenInBatch: the batch holds no length yet, so the live
\* one is read.
LenInBatch(c) ==
    /\ pc[c] = "put" /\ todo[c] = <<>>
    /\ seq' = [seq EXCEPT ![c] = kv.len]
    /\ Goto(c, "prev")
    /\ UNCHANGED <<objects, kv, job, todo, heard, entry, acked>>

\* Mutation: the entry links to itself.
PrevHashOwn(c) ==
    /\ pc[c] = "prev"
    /\ entry' = [entry EXCEPT ![c] =
                     LogEntry(seq[c], DaemonKey, job[c], Hash(job[c]))]
    /\ Goto(c, "commit")
    /\ UNCHANGED <<objects, kv, job, todo, heard, seq, acked>>

\* prevHashInBatch, sign, encode, and the Sets into the batch
PrevHashInBatch(c) ==
    /\ pc[c] = "prev"
    /\ entry' = [entry EXCEPT ![c] =
                     LogEntry(seq[c], DaemonKey, job[c],
                              IF seq[c] = 0 THEN GENESIS_PREV_HASH ELSE kv.h[seq[c] - 1])]
    /\ Goto(c, "commit")
    /\ UNCHANGED <<objects, kv, job, todo, heard, seq, acked>>

\* Mutation: the log is committed without the graph.
CommitLogOnly(c) ==
    /\ pc[c] = "commit"
    /\ kv' = AppendKeys(kv, seq[c], entry[c])
    /\ Goto(c, "return")
    /\ UNCHANGED <<objects, job, todo, heard, seq, entry, acked>>

\* Mutation: the answer is sent before the batch is committed, and the batch is
\* then closed.
CommitDropped(c) ==
    /\ pc[c] = "commit"
    /\ Goto(c, "return")
    /\ UNCHANGED <<objects, kv, job, todo, heard, seq, entry, acked>>

\* Commit applies the whole batch, last writer wins on every key.
CommitBatch(c) ==
    /\ pc[c] = "commit"
    /\ kv' = AppendKeys(IF job[c] \in Edge THEN RegisterEdge(kv, job[c]) ELSE kv,
                        seq[c], entry[c])
    /\ Goto(c, "return")
    /\ UNCHANGED <<objects, job, todo, heard, seq, entry, acked>>

Return(c) ==
    /\ pc[c] = "return"
    /\ acked' = IF heard[c] THEN acked \cup {entry[c]} ELSE acked
    /\ Idle(c)
    /\ UNCHANGED <<objects, kv>>

\* The nodes have been put, each by a call of its own: CommitEdge or Append is called.
Called(c) ==
    /\ pc[c] # "idle"
    /\ job[c] \in Edge => Len(todo[c]) < Len(Puts(job[c])) - Len(premises[job[c]])

\* The client dies, or loses its connection, while the handler runs on.
Abandon(c) ==
    /\ Called(c) /\ heard[c]
    /\ heard' = [heard EXCEPT ![c] = FALSE]
    /\ UNCHANGED <<objects, kv, pc, job, todo, seq, entry, acked>>

\* The handler returns an error and closes its batch, or the client ends between two
\* of its calls (a put that runs on after its client is Put, then Fail).
Fail(c) ==
    /\ pc[c] # "idle"
    /\ Idle(c)
    /\ UNCHANGED <<objects, kv, acked>>

\* The daemon is killed and restarted: every handler ends.
CrashDaemon ==
    /\ pc' = [c \in Call |-> "idle"]
    /\ job' = [c \in Call |-> None]
    /\ todo' = [c \in Call |-> <<>>]
    /\ heard' = [c \in Call |-> TRUE]
    /\ seq' = [c \in Call |-> 0]
    /\ entry' = [c \in Call |-> None]
    /\ UNCHANGED <<objects, kv, acked>>

Init ==
    /\ objects = {}
    /\ kv = EmptyDB
    /\ pc = [c \in Call |-> "idle"]
    /\ job = [c \in Call |-> None]
    /\ todo = [c \in Call |-> <<>>]
    /\ heard = [c \in Call |-> TRUE]
    /\ seq = [c \in Call |-> 0]
    /\ entry = [c \in Call |-> None]
    /\ acked = {}

Next ==
    \/ \E c \in Call :
        \/ \E e \in Edge : StartCommit(c, e)
        \/ \E r \in Raw : StartAppend(c, r)
        \/ Put(c) \/ LenInBatch(c) \/ PrevHashInBatch(c) \/ CommitBatch(c)
        \/ Return(c) \/ Abandon(c) \/ Fail(c)
    \/ CrashDaemon

Spec == Init /\ [][Next]_vars

-----------------------------------------------------------------------------
(***************************************************************************)
(* What the read methods answer.                                           *)
(***************************************************************************)

IncomingEdges(n) == {k[2] : k \in {x \in kv.c : x[1] = n}}

OutgoingEdges(n) == {k[2] : k \in {x \in kv.o : x[1] = n}}

AllEdges == {t[1] : t \in kv.e}

\* The premises come in the order of their positions.
GetConnectivity(h) ==
    LET rows == {r \in kv.p : r[1] = h}
    IN  [ premises   |-> [i \in {r[2] : r \in rows} |->
                             (CHOOSE r \in rows : r[2] = i)[3]],
          conclusion |-> (CHOOSE t \in kv.e : t[1] = h)[2] ]

\* The entries that Get(0), Get(1), ... return up to Len().
Entries == [i \in 1 .. kv.len |-> kv.l[i - 1]]

\* Types of the variables; the two tables of the log have the same keys.
GoTypeOK ==
    /\ objects \subseteq Address
    /\ kv.len \in Nat
    /\ DOMAIN kv.l = DOMAIN kv.h
    /\ \A s \in DOMAIN kv.l : kv.l[s] \in LogRow({DaemonKey})
    /\ \A c \in Call : entry[c] \in LogRow({DaemonKey}) \cup {None}
    /\ acked \subseteq LogRow({DaemonKey})

\* Whatever overlaps, the numbers below Len() are all there, each entry is stored
\* under its own number beside its own hash, and verifies on its own.
EntriesSound ==
    /\ 0 .. kv.len - 1 \subseteq DOMAIN kv.l
    /\ \A s \in DOMAIN kv.l :
           /\ kv.l[s].seq = s
           /\ kv.h[s] = kv.l[s].entry_hash
           /\ verify_entry(kv.l[s])

\* Whatever overlaps, the graph names only blobs that are in the object store, and
\* an edge that was answered for is in the graph.
GraphSound ==
    /\ \A e \in Edge : EdgeRow(e) \in kv.e =>
           \A i \in DOMAIN Puts(e) : Puts(e)[i] \in objects
    /\ \A r \in acked : r.payload \in Edge => EdgeRow(r.payload) \in kv.e

\* What overlapping calls leave intact.
OverlapSound == GoTypeOK /\ EntriesSound /\ GraphSound

\* Traversing the graph and asking for an edge's connectivity agree: an edge is found
\* from a node exactly if the node is its conclusion, or one of its premises.
IndexesAgree ==
    /\ \A n \in Address : IncomingEdges(n) \cup OutgoingEdges(n) \subseteq AllEdges
    /\ \A h \in AllEdges, n \in Address :
           LET c == GetConnectivity(h)
           IN  /\ h \in IncomingEdges(n) <=> c.conclusion = n
               /\ h \in OutgoingEdges(n) <=> \E i \in DOMAIN c.premises : c.premises[i] = n
               /\ n = c.conclusion \/ h \in OutgoingEdges(n) => n \in kv.n

\* The log that is read back is one chain from the genesis sentinel, as
\* verify_history demands.
GoHashChain == ChainVerifies(Entries)

\* An entry that a client got from Append or CommitEdge stays in the log at its number.
GoAckedDurable ==
    \A r \in acked : r.seq < kv.len /\ kv.l[r.seq] = r

-----------------------------------------------------------------------------
L == INSTANCE Ledger WITH
        Signer <- {DaemonKey},
        entries <- [i \in DOMAIN Entries |->
                       [signer |-> Entries[i].signer_pubkey, payload |-> Entries[i].payload]],
        edges <- {e \in Edge : EdgeRow(e) \in kv.e}

\* The engine behaves like the atomic ledger.
GoImplementsLedger == L!LedgerSpec
==============================================================================
