------------------------------- MODULE Storage -------------------------------
(***************************************************************************)
(* The SQLite backend (storage.py, append_log.py, graph_index.py,          *)
(* object_store.py) as several operating-system processes use it on one    *)
(* data directory: the seed script, the API server and any other client of *)
(* verify_and_commit.  Each process is single-threaded and runs one        *)
(* operation at a time, statement by statement; a process may be killed    *)
(* between any two statements.                                             *)
(*                                                                         *)
(* objects is the directory of blobs.  db is the committed content of      *)
(* index.db, view what the holder of the write lock sees of it inside its  *)
(* transaction.                                                            *)
(***************************************************************************)
EXTENDS EdgeRecords, FiniteSets

CONSTANTS
    Proc,           \* processes that opened a Storage
    Key, keyOf,     \* signing keys, and the key each process signs with
    MaxLog          \* bound on the number of log entries

ASSUME StorageAssumption ==
    /\ keyOf \in [Proc -> Key]
    /\ None \notin Proc
    /\ MaxLog \in Nat

VARIABLES
    objects,        \* content addresses of the blobs on disk
    db,             \* committed tables: nodes, edges, premises, log
    view,           \* the same tables as the open transaction sees them
    lock,           \* the process inside BEGIN IMMEDIATE ... COMMIT, or None
    pc,             \* where each process is in its operation
    job,            \* the payload (edge or roster) each process works on
    todo,           \* content addresses of the blobs still to be put
    seq,            \* the count that a standalone append read
    row,            \* the entry that each process built
    acked           \* the entries that were returned to a caller

vars == <<objects, db, view, lock, pc, job, todo, seq, row, acked>>

-----------------------------------------------------------------------------
(***************************************************************************)
(* The tables, and what the statements of register_edge and append do to   *)
(* them.  An edge hash is the address of a record that holds its premises  *)
(* and its conclusion, so INSERT OR IGNORE adds what is missing and        *)
(* ignores only rows that are equal.                                       *)
(***************************************************************************)

EmptyTables == [nodes |-> {}, edges |-> {}, premises |-> {}, log |-> <<>>]

register_edge(tables, e) ==
    [tables EXCEPT !.nodes    = @ \cup Endpoints(e),
                   !.edges    = @ \cup {EdgeRow(e)},
                   !.premises = @ \cup PremiseRows(e)]

InsertRow(tables, r) == [tables EXCEPT !.log = Append(@, r)]

\* SELECT COUNT(*) FROM log
Count(tables) == Len(tables.log)

\* Mutation: seq is declared without PRIMARY KEY.
KeyNeverTaken(tables, s) == FALSE

\* seq is the PRIMARY KEY of the log table.
KeyTaken(tables, s) == \E i \in DOMAIN tables.log : tables.log[i].seq = s

\* Mutation: the link is that of the entry before, not its hash.
PrevLink(tables, s) ==
    IF s = 0 THEN GENESIS_PREV_HASH
    ELSE tables.log[CHOOSE i \in DOMAIN tables.log : tables.log[i].seq = s - 1].prev_log_hash

PrevHash(tables, s) ==
    IF s = 0 THEN GENESIS_PREV_HASH
    ELSE tables.log[CHOOSE i \in DOMAIN tables.log : tables.log[i].seq = s - 1].entry_hash

-----------------------------------------------------------------------------
Idle(p) ==
    /\ pc' = [pc EXCEPT ![p] = "idle"]
    /\ todo' = [todo EXCEPT ![p] = <<>>]
    /\ seq' = [seq EXCEPT ![p] = 0]
    /\ row' = [row EXCEPT ![p] = None]
    /\ job' = [job EXCEPT ![p] = None]

Goto(p, label) == pc' = [pc EXCEPT ![p] = label]

\* Every operation under way may still add an entry.
Room == Len(db.log) + Cardinality({p \in Proc : pc[p] # "idle"}) < MaxLog

\* verify_and_commit after a verdict that is not a veto: the edge is built and
\* the blobs to put are known.
StartCommit(p, e) ==
    /\ pc[p] = "idle" /\ Room
    /\ job' = [job EXCEPT ![p] = e]
    /\ todo' = [todo EXCEPT ![p] = Puts(e)]
    /\ Goto(p, "put")
    /\ UNCHANGED <<objects, db, view, lock, seq, row, acked>>

\* objects.put: the temporary file is invisible, os.replace makes the whole
\* blob visible, and a blob that is already there is left alone.
Put(p) ==
    /\ pc[p] = "put" /\ todo[p] # <<>>
    /\ objects' = objects \cup {Head(todo[p])}
    /\ todo' = [todo EXCEPT ![p] = Tail(@)]
    /\ UNCHANGED <<db, view, lock, pc, job, seq, row, acked>>

\* Mutation: the transaction does not wait for the object writes.
BeginEarly(p) ==
    /\ pc[p] = "put"
    /\ lock = None
    /\ lock' = p
    /\ view' = db
    /\ Goto(p, "register")
    /\ UNCHANGED <<objects, db, job, todo, seq, row, acked>>

\* BEGIN IMMEDIATE
Begin(p) ==
    /\ pc[p] = "put" /\ todo[p] = <<>>
    /\ lock = None
    /\ lock' = p
    /\ view' = db
    /\ Goto(p, "register")
    /\ UNCHANGED <<objects, db, job, todo, seq, row, acked>>

\* Mutation: register_edge commits its own statements.
RegisterAutocommit(p) ==
    /\ pc[p] = "register"
    /\ view' = register_edge(view, job[p])
    /\ db' = view'
    /\ Goto(p, "append")
    /\ UNCHANGED <<objects, lock, job, todo, seq, row, acked>>

\* graph.register_edge inside the transaction
Register(p) ==
    /\ pc[p] = "register"
    /\ view' = register_edge(view, job[p])
    /\ Goto(p, "append")
    /\ UNCHANGED <<objects, db, lock, job, todo, seq, row, acked>>

\* log.append inside the transaction: the write lock is held, so nobody can
\* come between its SELECTs and its INSERT.
AppendInTx(p) ==
    /\ pc[p] = "append"
    /\ LET s == Count(view)
           r == LogEntry(s, keyOf[p], job[p], PrevHash(view, s))
       IN  /\ ~KeyTaken(view, s)
           /\ row' = [row EXCEPT ![p] = r]
           /\ view' = InsertRow(view, r)
    /\ Goto(p, "commit")
    /\ UNCHANGED <<objects, db, lock, job, todo, seq, acked>>

\* Mutation: the transaction is closed without COMMIT.
CommitForgotten(p) ==
    /\ pc[p] = "commit"
    /\ view' = db
    /\ lock' = None
    /\ Goto(p, "return")
    /\ UNCHANGED <<objects, db, job, todo, seq, row, acked>>

\* COMMIT
Commit(p) ==
    /\ pc[p] = "commit"
    /\ db' = view
    /\ lock' = None
    /\ Goto(p, "return")
    /\ UNCHANGED <<objects, view, job, todo, seq, row, acked>>

\* Mutation: what was written before the exception is committed.
RollbackCommits(p) ==
    /\ pc[p] \in {"register", "append", "commit"}
    /\ db' = view
    /\ lock' = None
    /\ Idle(p)
    /\ UNCHANGED <<objects, view, acked>>

\* Mutation: the exception leaves the transaction open.
RollbackForgotten(p) ==
    /\ pc[p] \in {"register", "append", "commit"}
    /\ view' = db
    /\ Idle(p)
    /\ UNCHANGED <<objects, db, lock, acked>>

\* except BaseException: ROLLBACK, raise
Rollback(p) ==
    /\ pc[p] \in {"register", "append", "commit"}
    /\ view' = db
    /\ lock' = None
    /\ Idle(p)
    /\ UNCHANGED <<objects, db, acked>>

\* The entry is returned to the caller.
Return(p) ==
    /\ pc[p] = "return"
    /\ acked' = acked \cup {row[p]}
    /\ Idle(p)
    /\ UNCHANGED <<objects, db, view, lock>>

-----------------------------------------------------------------------------
(***************************************************************************)
(* log.append outside a transaction, as commit_roster calls it: the shared *)
(* connection is in autocommit mode, so the two SELECTs and the INSERT are *)
(* separate transactions.                                                  *)
(***************************************************************************)

AppendCount(p, r) ==
    /\ pc[p] = "idle" /\ Room
    /\ job' = [job EXCEPT ![p] = r]
    /\ seq' = [seq EXCEPT ![p] = Count(db)]
    /\ Goto(p, "prev")
    /\ UNCHANGED <<objects, db, view, lock, todo, row, acked>>

AppendPrev(p) ==
    /\ pc[p] = "prev"
    /\ row' = [row EXCEPT ![p] =
                   LogEntry(seq[p], keyOf[p], job[p], PrevHash(db, seq[p]))]
    /\ Goto(p, "insert")
    /\ UNCHANGED <<objects, db, view, lock, job, todo, seq, acked>>

AppendInsert(p) ==
    /\ pc[p] = "insert"
    /\ lock = None
    /\ ~KeyTaken(db, seq[p])
    /\ db' = InsertRow(db, row[p])
    /\ view' = db'
    /\ Goto(p, "return")
    /\ UNCHANGED <<objects, lock, job, todo, seq, row, acked>>

\* Mutation: INSERT OR REPLACE.
AppendReplaces(p) ==
    /\ pc[p] = "insert"
    /\ lock = None
    /\ KeyTaken(db, seq[p])
    /\ db' = [db EXCEPT !.log = [@ EXCEPT ![seq[p] + 1] = row[p]]]
    /\ view' = db'
    /\ Goto(p, "return")
    /\ UNCHANGED <<objects, lock, job, todo, seq, row, acked>>

\* IntegrityError: another process took the sequence number.
AppendConflict(p) ==
    /\ pc[p] = "insert"
    /\ lock = None
    /\ KeyTaken(db, seq[p])
    /\ Idle(p)
    /\ UNCHANGED <<objects, db, view, lock, acked>>

-----------------------------------------------------------------------------
\* A statement outside a transaction raises: the file write fails, or the busy
\* timeout passes while another process holds the write lock.
Raise(p) ==
    /\ pc[p] \in {"put", "prev", "insert"}
    /\ Idle(p)
    /\ UNCHANGED <<objects, db, view, lock, acked>>

\* The process is killed; SQLite drops its transaction and its lock.  It starts
\* again with nothing but the data directory.
Crash(p) ==
    /\ pc[p] # "idle"
    /\ Idle(p)
    /\ IF lock = p THEN lock' = None /\ view' = db ELSE UNCHANGED <<lock, view>>
    /\ UNCHANGED <<objects, db, acked>>

Init ==
    /\ objects = {}
    /\ db = EmptyTables
    /\ view = EmptyTables
    /\ lock = None
    /\ pc = [p \in Proc |-> "idle"]
    /\ job = [p \in Proc |-> None]
    /\ todo = [p \in Proc |-> <<>>]
    /\ seq = [p \in Proc |-> 0]
    /\ row = [p \in Proc |-> None]
    /\ acked = {}

\* The statements of an operation that has started.
Step(p) ==
    \/ Put(p) \/ Begin(p) \/ Register(p) \/ AppendInTx(p) \/ Commit(p)
    \/ Rollback(p) \/ Return(p)
    \/ AppendPrev(p) \/ AppendInsert(p) \/ AppendConflict(p) \/ Raise(p)

Next ==
    \E p \in Proc :
        \/ \E e \in Edge : StartCommit(p, e)
        \/ \E r \in Raw : AppendCount(p, r)
        \/ Step(p)
        \/ Crash(p)

\* The scheduler runs every process that is not waiting for its caller.
Fairness == \A p \in Proc : WF_vars(Step(p))

Spec == Init /\ [][Next]_vars

FairSpec == Spec /\ Fairness

-----------------------------------------------------------------------------
Tables ==
    [ nodes : SUBSET Address,
      edges : SUBSET (Address \X Address),
      premises : SUBSET (Address \X Nat \X Address),
      log : Seq(LogRow(Key)) ]

Label == {"idle", "put", "register", "append", "commit", "return", "prev", "insert"}

\* Types of the variables; rows of the log are signed entries, and an open
\* transaction sees well-formed tables too.
TypeOK ==
    /\ objects \in SUBSET Address
    /\ db \in Tables
    /\ view \in Tables
    /\ lock \in Proc \cup {None}
    /\ pc \in [Proc -> Label]
    /\ job \in [Proc -> Payload \cup {None}]
    /\ todo \in [Proc -> Seq(Address)]
    /\ seq \in [Proc -> Nat]
    /\ row \in [Proc -> LogRow(Key) \cup {None}]
    /\ acked \in SUBSET LogRow(Key)

Numbered(rows) == \A i \in DOMAIN rows : rows[i].seq = i - 1

\* The log is numbered 0, 1, 2, ... in order, every entry verifies and links to
\* the one before it, although append computes the number and the link from what
\* it read before other processes committed.
HashChain == Numbered(db.log) /\ ChainVerifies(db.log)

\* An edge is in the graph exactly when it is in the log: commit_edge_tx changes
\* both or neither, whatever is interrupted.
GraphMatchesLog ==
    \A e \in Edge :
        EdgeRow(e) \in db.edges <=> \E i \in DOMAIN db.log : db.log[i].payload = e

\* Whatever the graph names can be read back: the record of every edge, the
\* records of its nodes and its proof artifact are in the object store.
GraphResolves ==
    \A e \in Edge :
        EdgeRow(e) \in db.edges =>
            \A i \in DOMAIN Puts(e) : Puts(e)[i] \in objects

\* The tables of the graph are closed: an edge comes with all its premise rows
\* and all its endpoints, and no premise row belongs to an unknown edge.
GraphComplete ==
    /\ \A e \in Edge : EdgeRow(e) \in db.edges =>
           Endpoints(e) \subseteq db.nodes /\ PremiseRows(e) \subseteq db.premises
    /\ \A r \in db.premises : \E t \in db.edges : t[1] = r[1]

InLog(r) == r.seq + 1 \in DOMAIN db.log /\ db.log[r.seq + 1] = r

\* An entry that append or commit_edge_tx returned stays in the log, at the
\* number it was returned with.
AckedDurable == \A r \in acked : InLog(r)

\* No step, crash or rollback takes back what was committed: the log only grows at
\* its end, and neither the graph nor the object store loses anything.
AppendOnly ==
    [][ /\ Len(db.log) <= Len(db'.log)
        /\ \A i \in DOMAIN db.log : db'.log[i] = db.log[i]
        /\ db.nodes \subseteq db'.nodes
        /\ db.edges \subseteq db'.edges
        /\ db.premises \subseteq db'.premises
        /\ objects \subseteq objects' ]_vars

\* A process that holds the write lock gives it back, by COMMIT, by ROLLBACK or by
\* dying, so no failure of one process blocks the others for good.
LockReleased == \A p \in Proc : (lock = p) ~> (lock # p)

-----------------------------------------------------------------------------
(***************************************************************************)
(* The inductive invariant behind these properties: what each process      *)
(* knows about the shared state at each statement.                         *)
(***************************************************************************)

InTx == {"register", "append", "commit"}

\* The write lock is held exactly from BEGIN IMMEDIATE to COMMIT or ROLLBACK.
Locking(p) == lock = p <=> pc[p] \in InTx

Working(p) ==
    /\ pc[p] \in InTx \cup {"put"} => job[p] \in Edge
    /\ pc[p] \in {"prev", "insert"} => job[p] \in Raw

\* Nobody else writes between the statements of a transaction, so what it sees is
\* the committed tables plus its own statements.
TransactionView(p) ==
    /\ pc[p] = "register" => view = db
    /\ pc[p] = "append" => view = register_edge(db, job[p])
    /\ pc[p] = "commit" =>
           /\ row[p] = LogEntry(Count(db), keyOf[p], job[p], PrevHash(db, Count(db)))
           /\ view = InsertRow(register_edge(db, job[p]), row[p])

\* A standalone append works with a number that is free or was taken since.
StandaloneAppend(p) ==
    /\ pc[p] \in {"prev", "insert"} => seq[p] <= Count(db)
    /\ pc[p] = "insert" =>
           row[p] = LogEntry(seq[p], keyOf[p], job[p], PrevHash(db, seq[p]))

\* The blobs of an edge are on disk or still to be put, and all on disk once the
\* transaction has begun.
BlobsFirst(p) ==
    pc[p] \in InTx \cup {"put"} =>
        \A i \in DOMAIN Puts(job[p]) :
            \/ Puts(job[p])[i] \in objects
            \/ pc[p] = "put" /\ \E j \in DOMAIN todo[p] : todo[p][j] = Puts(job[p])[i]

Returning(p) == pc[p] = "return" => row[p] \in LogRow(Key) /\ InLog(row[p])

ProcessInvariant(p) ==
    /\ Locking(p) /\ Working(p) /\ TransactionView(p)
    /\ StandaloneAppend(p) /\ BlobsFirst(p) /\ Returning(p)

\* What every statement of every process preserves: each process is right about the
\* shared state, and the shared state is right.
StorageInvariant ==
    /\ TypeOK
    /\ lock = None => view = db
    /\ \A p \in Proc : ProcessInvariant(p)
    /\ HashChain
    /\ AckedDurable
    /\ GraphMatchesLog
    /\ GraphResolves
    /\ GraphComplete

-----------------------------------------------------------------------------
(***************************************************************************)
(* The refinement mapping: the committed rows, without numbers, links and  *)
(* signatures, and the edges whose row is committed.                       *)
(***************************************************************************)

entriesBar ==
    [i \in DOMAIN db.log |-> [signer  |-> db.log[i].signer_pubkey,
                              payload |-> db.log[i].payload]]

edgesBar == {e \in Edge : EdgeRow(e) \in db.edges}

L == INSTANCE Ledger WITH Signer <- Key, entries <- entriesBar, edges <- edgesBar

\* With all its statements, locks, failures and crashes, the backend behaves like
\* the atomic ledger.
ImplementsLedger == L!LedgerSpec
==============================================================================
