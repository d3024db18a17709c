---------------------------- MODULE StorageProofs ----------------------------
(***************************************************************************)
(* The SQLite backend keeps its log chained, its graph and its log in step *)
(* and its blobs ahead of both, for every number of processes, every set   *)
(* of edges and every interleaving, failure and crash.                     *)
(***************************************************************************)
EXTENDS Storage, SequenceTheorems, TLAPS

USE EdgeRecordsAssumption, StorageAssumption

-----------------------------------------------------------------------------
(***************************************************************************)
(* Facts about the values.                                                 *)
(***************************************************************************)

LEMMA HashInjective == \A x, y : Hash(x) = Hash(y) => x = y
  BY DEF Hash

\* An entry built from well-typed parts is a well-typed row.
LEMMA LogEntryType ==
    ASSUME NEW s \in Nat, NEW k \in Key, NEW d \in Payload, NEW l \in Link
    PROVE  LogEntry(s, k, d, l) \in LogRow(Key)
  <1>1. Hash(d) \in Address
    BY DEF Address, Payload
  <1>2. Sign(k, SignatureMessage(s, k, Hash(d), l))
            \in {"ed25519"} \X Key \X (Nat \X Key \X Address \X Link)
    BY <1>1 DEF Sign, SignatureMessage
  <1> QED
    BY <1>1, <1>2 DEF LogEntry, LogRow

\* An entry built by append verifies.
LEMMA LogEntryVerifies ==
    \A s, k, d, l : verify_entry(LogEntry(s, k, d, l))
  BY DEF verify_entry, LogEntry, Verify

LEMMA EdgeFacts ==
    ASSUME NEW e \in Edge
    PROVE  /\ EdgeRow(e) \in Address \X Address
           /\ Endpoints(e) \subseteq Address
           /\ PremiseRows(e) \subseteq Address \X Nat \X Address
           /\ Puts(e) \in Seq(Address)
           /\ \A f \in Edge : EdgeRow(f) = EdgeRow(e) => f = e
  <1>1. Hash(e) \in Address /\ Hash(conclusion[e]) \in Address
    BY DEF Address
  <1>2. \A i \in DOMAIN premises[e] : i \in Nat /\ Hash(premises[e][i]) \in Address
    BY DEF Address
  <1>3. proof[e] # None => Hash(proof[e]) \in Address
    BY DEF Address
  <1>4. Puts(e) \in Seq(Address)
    <2>1. [i \in DOMAIN premises[e] |-> Hash(premises[e][i])] \in Seq(Address)
      BY <1>2
    <2>2. <<Hash(conclusion[e]), Hash(e)>> \in Seq(Address)
      BY <1>1
    <2>3. (IF proof[e] = None THEN <<>> ELSE <<Hash(proof[e])>>) \in Seq(Address)
      BY <1>3
    <2> QED
      BY <2>1, <2>2, <2>3 DEF Puts
  <1>5. \A f \in Edge : EdgeRow(f) = EdgeRow(e) => f = e
    BY HashInjective DEF EdgeRow
  <1> QED
    BY <1>1, <1>2, <1>4, <1>5 DEF EdgeRow, Endpoints, PremiseRows

\* In a numbered log the row with number s - 1 is the one at position s.
LEMMA PrevHashValue ==
    ASSUME NEW d \in Tables, Numbered(d.log), NEW s \in 0 .. Len(d.log)
    PROVE  /\ PrevHash(d, s) = IF s = 0 THEN GENESIS_PREV_HASH ELSE d.log[s].entry_hash
           /\ PrevHash(d, s) \in Link
  <1> d.log \in Seq(LogRow(Key))
    BY DEF Tables
  <1>1. CASE s = 0
    BY <1>1 DEF PrevHash, Link
  <1>2. CASE s # 0
    <2>1. s \in DOMAIN d.log /\ d.log[s].seq = s - 1
      BY <1>2 DEF Numbered
    <2>2. \A i \in DOMAIN d.log : d.log[i].seq = s - 1 => i = s
      BY <1>2 DEF Numbered
    <2>3. (CHOOSE i \in DOMAIN d.log : d.log[i].seq = s - 1) = s
      BY <2>1, <2>2
    <2>4. PrevHash(d, s) = d.log[s].entry_hash
      BY <1>2, <2>3 DEF PrevHash
    <2>5. d.log[s] \in LogRow(Key)
      BY <2>1
    <2> QED
      BY <1>2, <2>4, <2>5 DEF LogRow, Link
  <1> QED
    BY <1>1, <1>2

\* Appending the entry that append builds keeps the log numbered and chained.
LEMMA ChainExtended ==
    ASSUME NEW d \in Tables, Numbered(d.log), ChainVerifies(d.log),
           NEW k \in Key, NEW x \in Payload,
           NEW r, r = LogEntry(Count(d), k, x, PrevHash(d, Count(d)))
    PROVE  /\ r \in LogRow(Key)
           /\ r.seq = Len(d.log) /\ r.payload = x /\ r.signer_pubkey = k
           /\ Append(d.log, r) \in Seq(LogRow(Key))
           /\ Numbered(Append(d.log, r))
           /\ ChainVerifies(Append(d.log, r))
  <1> DEFINE log == d.log
             n == Len(log)
             new == Append(log, r)
  <1>0. log \in Seq(LogRow(Key)) /\ n \in Nat
    BY DEF Tables
  <1>1. /\ PrevHash(d, n) = IF n = 0 THEN GENESIS_PREV_HASH ELSE log[n].entry_hash
        /\ PrevHash(d, n) \in Link
    BY <1>0, PrevHashValue
  <1>2. r \in LogRow(Key)
    BY <1>0, <1>1, LogEntryType DEF Count
  <1>3. /\ r.seq = n /\ r.payload = x /\ r.signer_pubkey = k
        /\ r.prev_log_hash = PrevHash(d, n)
    BY DEF LogEntry, Count
  <1>4. verify_entry(r)
    BY LogEntryVerifies
  <1>5. /\ new \in Seq(LogRow(Key)) /\ DOMAIN new = 1 .. n + 1
        /\ new[n + 1] = r /\ \A i \in 1 .. n : new[i] = log[i]
    BY <1>0, <1>2
  <1>6. Numbered(new)
    BY <1>0, <1>3, <1>5 DEF Numbered
  <1>7. ChainVerifies(new)
    <2> SUFFICES ASSUME NEW i \in 1 .. n + 1
                 PROVE  /\ verify_entry(new[i])
                        /\ new[i].prev_log_hash =
                               IF i = 1 THEN GENESIS_PREV_HASH ELSE new[i - 1].entry_hash
      BY <1>5 DEF ChainVerifies
    <2>1. CASE i = n + 1
      BY <1>0, <1>1, <1>3, <1>4, <1>5, <2>1
    <2>2. CASE i # n + 1
      <3>1. i \in DOMAIN log /\ new[i] = log[i] /\ (i # 1 => new[i - 1] = log[i - 1])
        BY <1>0, <1>5, <2>2
      <3> QED
        BY <3>1 DEF ChainVerifies
    <2> QED
      BY <2>1, <2>2
  <1> QED
    BY <1>2, <1>3, <1>5, <1>6, <1>7

-----------------------------------------------------------------------------
(***************************************************************************)
(* What a step of one process leaves in place for the others and for the   *)
(* shared state.                                                           *)
(***************************************************************************)

Same(q) == /\ pc'[q] = pc[q] /\ job'[q] = job[q] /\ todo'[q] = todo[q]
           /\ seq'[q] = seq[q] /\ row'[q] = row[q]

\* Blobs only appear, so a process that did not move still has its blobs in order.
LEMMA BlobsKept ==
    ASSUME NEW q \in Proc, BlobsFirst(q), Same(q), objects \subseteq objects'
    PROVE  BlobsFirst(q)'
  <1> SUFFICES ASSUME pc'[q] \in InTx \cup {"put"}, NEW i \in DOMAIN Puts(job'[q])
               PROVE  \/ Puts(job'[q])[i] \in objects'
                      \/ /\ pc'[q] = "put"
                         /\ \E j \in DOMAIN todo'[q] : todo'[q][j] = Puts(job'[q])[i]
    BY DEF BlobsFirst, Puts, InTx
  <1>1. pc'[q] = pc[q] /\ job'[q] = job[q] /\ todo'[q] = todo[q]
    BY DEF Same
  <1>2. \/ Puts(job[q])[i] \in objects
        \/ pc[q] = "put" /\ \E j \in DOMAIN todo[q] : todo[q][j] = Puts(job[q])[i]
    BY <1>1 DEF BlobsFirst
  <1> QED
    BY <1>1, <1>2

\* A process that did not move, while the committed tables stayed the same.
LEMMA OthersKept ==
    ASSUME NEW q \in Proc, ProcessInvariant(q), Same(q),
           UNCHANGED db, objects \subseteq objects',
           lock = q => UNCHANGED <<lock, view>>,
           lock' = q => lock = q
    PROVE  ProcessInvariant(q)'
  <1> USE DEF ProcessInvariant
  <1>1. Locking(q)' /\ Working(q)'
    BY DEF Same, Locking, Working, InTx
  <1>2. TransactionView(q)'
    <2>1. pc[q] \in InTx => view' = view
      BY DEF Locking
    <2> QED
      BY <2>1 DEF Same, TransactionView, InTx, register_edge, InsertRow, Count, PrevHash
  <1>3. StandaloneAppend(q)'
    BY DEF Same, StandaloneAppend, Count, PrevHash
  <1>4. Returning(q)'
    BY DEF Same, Returning, InLog
  <1> QED
    BY <1>1, <1>2, <1>3, <1>4, BlobsKept

\* A process that did not move, while another committed one entry.
LEMMA OthersKeptOnGrowth ==
    ASSUME StorageInvariant, db' \in Tables, Numbered(db'.log),
           NEW q \in Proc, Same(q), objects \subseteq objects',
           lock # q, lock' # q,
           NEW r \in LogRow(Key), db'.log = Append(db.log, r)
    PROVE  ProcessInvariant(q)'
  <1> USE DEF ProcessInvariant
  <1>0. /\ ProcessInvariant(q) /\ pc[q] \notin InTx
        /\ db \in Tables /\ db.log \in Seq(LogRow(Key)) /\ Numbered(db.log)
        /\ seq[q] \in Nat
    BY DEF StorageInvariant, Locking, TypeOK, Tables, HashChain
  <1>1. Len(db'.log) = Len(db.log) + 1 /\ \A i \in DOMAIN db.log : db'.log[i] = db.log[i]
    BY <1>0
  <1>2. Locking(q)' /\ Working(q)' /\ TransactionView(q)'
    BY <1>0 DEF Same, Locking, Working, InTx, TransactionView
  <1>3. StandaloneAppend(q)'
    <2>1. ASSUME pc[q] \in {"prev", "insert"}
          PROVE  /\ seq[q] \in 0 .. Len(db.log) /\ seq[q] \in 0 .. Len(db'.log)
                 /\ PrevHash(db', seq[q]) = PrevHash(db, seq[q])
      <3>1. seq[q] \in 0 .. Len(db.log) /\ seq[q] \in 0 .. Len(db'.log)
        BY <1>0, <1>1, <2>1 DEF StandaloneAppend, Count
      <3>2. PrevHash(db, seq[q]) =
                IF seq[q] = 0 THEN GENESIS_PREV_HASH ELSE db.log[seq[q]].entry_hash
        BY <1>0, <3>1, PrevHashValue
      <3>3. PrevHash(db', seq[q]) =
                IF seq[q] = 0 THEN GENESIS_PREV_HASH ELSE db'.log[seq[q]].entry_hash
        BY <1>0, <3>1, PrevHashValue
      <3> QED
        BY <1>0, <1>1, <3>1, <3>2, <3>3
    <2>2. seq[q] <= Len(db.log) => seq[q] <= Len(db'.log)
      BY <1>0, <1>1
    <2> QED
      BY <1>0, <2>1, <2>2 DEF Same, StandaloneAppend, Count
  <1>4. Returning(q)'
    <2> SUFFICES ASSUME pc'[q] = "return"
                 PROVE  row'[q] \in LogRow(Key) /\ InLog(row[q])'
      BY DEF Returning, Same, InLog
    <2>1. row'[q] = row[q] /\ row[q] \in LogRow(Key) /\ InLog(row[q])
      BY <1>0 DEF Same, Returning
    <2>2. row[q].seq + 1 \in DOMAIN db.log /\ db.log[row[q].seq + 1] = row[q]
      BY <2>1 DEF InLog
    <2>3. row[q].seq + 1 \in DOMAIN db'.log /\ db'.log[row[q].seq + 1] = row[q]
      BY <1>0, <1>1, <2>2
    <2> QED
      BY <2>1, <2>3 DEF InLog
  <1> QED
    BY <1>0, <1>2, <1>3, <1>4, BlobsKept

LEMMA SharedKept ==
    ASSUME StorageInvariant, UNCHANGED db, objects \subseteq objects'
    PROVE  HashChain' /\ GraphMatchesLog' /\ GraphResolves' /\ GraphComplete'
  BY DEF StorageInvariant, HashChain, GraphMatchesLog, GraphResolves, GraphComplete

LEMMA AckedKept ==
    ASSUME StorageInvariant, UNCHANGED <<db, acked>>
    PROVE  AckedDurable'
  BY DEF StorageInvariant, AckedDurable, InLog

\* The conjuncts about the shared state and the processes put together.
LEMMA Assemble ==
    ASSUME StorageInvariant, UNCHANGED <<db, acked>>, objects \subseteq objects',
           TypeOK', (lock = None => view = db)',
           NEW p \in Proc, ProcessInvariant(p)',
           \A q \in Proc \ {p} : Same(q),
           \A q \in Proc \ {p} : lock = q => UNCHANGED <<lock, view>>,
           \A q \in Proc \ {p} : lock' = q => lock = q
    PROVE  StorageInvariant'
  <1>1. ASSUME NEW q \in Proc, q # p
        PROVE  ProcessInvariant(q)'
    BY <1>1, OthersKept DEF StorageInvariant
  <1> QED
    BY <1>1, SharedKept, AckedKept DEF StorageInvariant

-----------------------------------------------------------------------------
(***************************************************************************)
(* One lemma per statement of an operation.                                *)
(***************************************************************************)

\* The part of the invariant that steps which commit nothing rely on.
LEMMA Parts ==
    ASSUME StorageInvariant, NEW p \in Proc
    PROVE  TypeOK /\ ProcessInvariant(p) /\ (lock = None => view = db) /\ HashChain
  BY DEF StorageInvariant

\* A process that dropped its operation owes nothing, and nobody else moved.
LEMMA Dropped ==
    ASSUME TypeOK, NEW p \in Proc, Idle(p), lock' # p
    PROVE  /\ ProcessInvariant(p)'
           /\ \A q \in Proc \ {p} : Same(q)
           /\ pc' \in [Proc -> Label] /\ job' \in [Proc -> Payload \cup {None}]
           /\ todo' \in [Proc -> Seq(Address)] /\ seq' \in [Proc -> Nat]
           /\ row' \in [Proc -> LogRow(Key) \cup {None}]
  <1>1. /\ pc' \in [Proc -> Label] /\ job' \in [Proc -> Payload \cup {None}]
        /\ todo' \in [Proc -> Seq(Address)] /\ seq' \in [Proc -> Nat]
        /\ row' \in [Proc -> LogRow(Key) \cup {None}]
    <2>1. <<>> \in Seq(Address) /\ 0 \in Nat /\ "idle" \in Label
      BY DEF Label
    <2> QED
      BY <2>1 DEF TypeOK, Idle
  <1>2. \A q \in Proc \ {p} : Same(q)
    BY DEF TypeOK, Idle, Same
  <1>3. pc'[p] = "idle"
    BY DEF TypeOK, Idle
  <1>4. ProcessInvariant(p)'
    BY <1>3 DEF ProcessInvariant, Locking, Working, TransactionView, StandaloneAppend,
                BlobsFirst, Returning, InTx
  <1> QED
    BY <1>1, <1>2, <1>4

\* Rollback, an exception, a lost race for a number and a crash.
LEMMA DropStep ==
    ASSUME StorageInvariant, NEW p \in Proc,
           Rollback(p) \/ Raise(p) \/ AppendConflict(p) \/ Crash(p)
    PROVE  StorageInvariant'
  <1> USE DEF Rollback, Raise, AppendConflict, Crash
  <1>1. TypeOK /\ ProcessInvariant(p) /\ (lock = None => view = db)
    BY Parts
  <1>2. Idle(p) /\ UNCHANGED <<objects, db, acked>>
    OBVIOUS
  <1>3. lock = p <=> pc[p] \in InTx
    BY <1>1 DEF ProcessInvariant, Locking
  <1>4. \/ lock = p /\ lock' = None /\ view' = db
        \/ lock # p /\ UNCHANGED <<lock, view>>
    BY <1>3 DEF InTx
  <1>5. lock' # p
    BY <1>4
  <1>6. TypeOK'
    BY <1>1, <1>2, <1>4, <1>5, Dropped DEF TypeOK
  <1>7. (lock = None => view = db)'
    BY <1>1, <1>2, <1>4
  <1>8. \A q \in Proc \ {p} : Same(q) /\ (lock = q => UNCHANGED <<lock, view>>)
                                    /\ (lock' = q => lock = q)
    BY <1>1, <1>2, <1>4, <1>5, Dropped
  <1> QED
    BY <1>1, <1>2, <1>5, <1>6, <1>7, <1>8, Dropped, Assemble

\* The entry that is handed to the caller is in the log.
LEMMA ReturnStep ==
    ASSUME StorageInvariant, NEW p \in Proc, Return(p)
    PROVE  StorageInvariant'
  <1> USE DEF Return
  <1>1. TypeOK /\ ProcessInvariant(p) /\ (lock = None => view = db)
    BY Parts
  <1>2. row[p] \in LogRow(Key) /\ InLog(row[p]) /\ lock # p
    BY <1>1 DEF ProcessInvariant, Returning, Locking, InTx
  <1>3. TypeOK'
    BY <1>1, <1>2, Dropped DEF TypeOK
  <1>4. \A q \in Proc \ {p} : Same(q)
    BY <1>1, <1>2, Dropped
  <1>5. ASSUME NEW q \in Proc
        PROVE  ProcessInvariant(q)'
    <2>1. CASE q = p
      BY <1>1, <1>2, <2>1, Dropped
    <2>2. CASE q # p
      BY <1>4, <2>2, OthersKept DEF StorageInvariant
    <2> QED
      BY <2>1, <2>2
  <1>6. AckedDurable'
    BY <1>2 DEF StorageInvariant, AckedDurable, InLog
  <1>7. (lock = None => view = db)'
    BY <1>1
  <1> QED
    BY <1>3, <1>5, <1>6, <1>7, SharedKept DEF StorageInvariant

LEMMA StartCommitStep ==
    ASSUME StorageInvariant, NEW p \in Proc, NEW e \in Edge, StartCommit(p, e)
    PROVE  StorageInvariant'
  <1> USE DEF StartCommit, Goto
  <1>1. TypeOK /\ ProcessInvariant(p) /\ (lock = None => view = db)
    BY Parts
  <1>2. pc'[p] = "put" /\ job'[p] = e /\ todo'[p] = Puts(e) /\ lock' # p
    BY <1>1 DEF TypeOK, ProcessInvariant, Locking, InTx
  <1>3. TypeOK'
    <2>1. "put" \in Label /\ e \in Payload /\ Puts(e) \in Seq(Address)
      BY EdgeFacts DEF Label, Payload
    <2> QED
      BY <1>1, <2>1 DEF TypeOK
  <1>4. BlobsFirst(p)'
    BY <1>2 DEF BlobsFirst
  <1>5. ProcessInvariant(p)'
    BY <1>2, <1>4 DEF ProcessInvariant, Locking, Working, TransactionView,
                      StandaloneAppend, Returning, InTx
  <1>6. \A q \in Proc \ {p} : Same(q)
    BY <1>1 DEF TypeOK, Same
  <1> QED
    BY <1>1, <1>3, <1>5, <1>6, Assemble

LEMMA PutStep ==
    ASSUME StorageInvariant, NEW p \in Proc, Put(p)
    PROVE  StorageInvariant'
  <1> USE DEF Put
  <1>1. TypeOK /\ ProcessInvariant(p) /\ (lock = None => view = db)
    BY Parts
  <1>2. todo[p] \in Seq(Address) /\ todo[p] # <<>> /\ job[p] \in Edge
    BY <1>1 DEF TypeOK, ProcessInvariant, Working
  <1>3. Head(todo[p]) \in Address /\ Tail(todo[p]) \in Seq(Address)
    BY <1>2
  <1>4. TypeOK'
    BY <1>1, <1>3 DEF TypeOK
  <1>5. todo'[p] = Tail(todo[p])
    BY <1>1 DEF TypeOK
  <1>6. BlobsFirst(p)'
    <2> SUFFICES ASSUME NEW i \in DOMAIN Puts(job[p])
                 PROVE  \/ Puts(job[p])[i] \in objects'
                        \/ \E j \in DOMAIN todo'[p] : todo'[p][j] = Puts(job[p])[i]
      <3>1. pc'[p] = "put"
        OBVIOUS
      <3>2. Puts(job[p])' = Puts(job[p])
        BY DEF Puts
      <3> HIDE DEF Put
      <3> QED
        BY <3>1, <3>2 DEF BlobsFirst
    <2>1. CASE Puts(job[p])[i] \in objects
      BY <2>1
    <2>2. CASE \E j \in DOMAIN todo[p] : todo[p][j] = Puts(job[p])[i]
      <3>1. PICK j \in DOMAIN todo[p] : todo[p][j] = Puts(job[p])[i]
        BY <2>2
      <3>2. CASE j = 1
        BY <1>2, <3>1, <3>2
      <3>3. CASE j # 1
        <4>1. j - 1 \in DOMAIN Tail(todo[p]) /\ Tail(todo[p])[j - 1] = todo[p][j]
          BY <1>2, <3>3
        <4> QED
          BY <1>5, <3>1, <4>1
      <3> QED
        BY <3>2, <3>3
    <2> QED
      BY <1>1, <2>1, <2>2 DEF ProcessInvariant, BlobsFirst
  <1>7. ProcessInvariant(p)'
    BY <1>1, <1>6 DEF ProcessInvariant, Locking, Working, TransactionView,
                      StandaloneAppend, Returning, InTx
  <1>8. \A q \in Proc \ {p} : Same(q)
    BY <1>1 DEF TypeOK, Same
  <1> QED
    BY <1>1, <1>4, <1>7, <1>8, Assemble

LEMMA BeginStep ==
    ASSUME StorageInvariant, NEW p \in Proc, Begin(p)
    PROVE  StorageInvariant'
  <1> USE DEF Begin, Goto
  <1>1. TypeOK /\ ProcessInvariant(p)
    BY Parts
  <1>2. pc'[p] = "register" /\ job'[p] = job[p] /\ job[p] \in Edge
    BY <1>1 DEF TypeOK, ProcessInvariant, Working
  <1>3. TypeOK'
    <2>1. "register" \in Label
      BY DEF Label
    <2> QED
      BY <1>1, <2>1 DEF TypeOK
  <1>4. BlobsFirst(p)'
    <2>1. \A i \in DOMAIN Puts(job[p]) : Puts(job[p])[i] \in objects
      <3> ~ \E j \in DOMAIN todo[p] : TRUE
        OBVIOUS
      <3> QED
        BY <1>1 DEF ProcessInvariant, BlobsFirst
    <2> QED
      BY <1>2, <2>1 DEF BlobsFirst
  <1>5. ProcessInvariant(p)'
    BY <1>2, <1>4 DEF ProcessInvariant, Locking, Working, TransactionView,
                      StandaloneAppend, Returning, InTx
  <1>6. \A q \in Proc \ {p} : Same(q)
    BY <1>1 DEF TypeOK, Same
  <1> QED
    BY <1>3, <1>5, <1>6, Assemble

\* Registering an edge keeps the tables well-formed and does not touch the log.
LEMMA RegisterEdgeType ==
    ASSUME NEW d \in Tables, NEW e \in Edge
    PROVE  /\ register_edge(d, e) \in Tables
           /\ register_edge(d, e).log = d.log
           /\ register_edge(d, e).nodes = d.nodes \cup Endpoints(e)
           /\ register_edge(d, e).edges = d.edges \cup {EdgeRow(e)}
           /\ register_edge(d, e).premises = d.premises \cup PremiseRows(e)
  <1>1. /\ EdgeRow(e) \in Address \X Address /\ Endpoints(e) \subseteq Address
        /\ PremiseRows(e) \subseteq Address \X Nat \X Address
    BY EdgeFacts
  <1> QED
    BY <1>1 DEF register_edge, Tables

LEMMA InsertRowType ==
    ASSUME NEW d \in Tables, NEW r \in LogRow(Key)
    PROVE  /\ InsertRow(d, r) \in Tables
           /\ InsertRow(d, r).log = Append(d.log, r)
           /\ InsertRow(d, r).nodes = d.nodes
           /\ InsertRow(d, r).edges = d.edges
           /\ InsertRow(d, r).premises = d.premises
  <1>1. Append(d.log, r) \in Seq(LogRow(Key))
    BY DEF Tables
  <1> QED
    BY <1>1 DEF InsertRow, Tables

LEMMA RegisterStep ==
    ASSUME StorageInvariant, NEW p \in Proc, Register(p)
    PROVE  StorageInvariant'
  <1> USE DEF Register, Goto
  <1>1. TypeOK /\ ProcessInvariant(p)
    BY Parts
  <1>2. /\ pc'[p] = "append" /\ job'[p] = job[p] /\ job[p] \in Edge
        /\ lock = p /\ view = db
    BY <1>1 DEF TypeOK, ProcessInvariant, Working, Locking, TransactionView, InTx
  <1>3. view' = register_edge(db, job[p]) /\ view' \in Tables
    BY <1>1, <1>2, RegisterEdgeType DEF TypeOK
  <1>4. TypeOK'
    <2>1. "append" \in Label
      BY DEF Label
    <2> QED
      BY <1>1, <1>3, <2>1 DEF TypeOK
  <1>5. BlobsFirst(p)'
    <2>1. \A i \in DOMAIN Puts(job[p]) : Puts(job[p])[i] \in objects
      BY <1>1 DEF ProcessInvariant, BlobsFirst, InTx
    <2> QED
      BY <1>2, <2>1 DEF BlobsFirst
  <1>6. TransactionView(p)'
    BY <1>2, <1>3 DEF TransactionView, register_edge, EdgeRow, Endpoints, PremiseRows
  <1>7. ProcessInvariant(p)'
    BY <1>2, <1>5, <1>6 DEF ProcessInvariant, Locking, Working, StandaloneAppend,
                            Returning, InTx
  <1>8. \A q \in Proc \ {p} : Same(q)
    BY <1>1 DEF TypeOK, Same
  <1> QED
    BY <1>2, <1>4, <1>7, <1>8, Assemble

\* Inside a transaction the number is free and the entry links to the last row.
LEMMA AppendInTxStep ==
    ASSUME StorageInvariant, NEW p \in Proc, AppendInTx(p)
    PROVE  StorageInvariant'
  <1> USE DEF AppendInTx, Goto
  <1>1. TypeOK /\ ProcessInvariant(p) /\ HashChain
    BY Parts
  <1>2. /\ pc'[p] = "commit" /\ job'[p] = job[p] /\ job[p] \in Edge
        /\ lock = p /\ view = register_edge(db, job[p]) /\ keyOf[p] \in Key
        /\ db \in Tables
    BY <1>1 DEF TypeOK, ProcessInvariant, Working, Locking, TransactionView, InTx
  <1> DEFINE r == LogEntry(Count(db), keyOf[p], job[p], PrevHash(db, Count(db)))
  <1>3. view.log = db.log /\ view \in Tables
    BY <1>2, RegisterEdgeType
  <1>4. Count(view) = Count(db) /\ PrevHash(view, Count(view)) = PrevHash(db, Count(db))
    BY <1>3 DEF Count, PrevHash
  <1>5. r \in LogRow(Key)
    BY <1>1, <1>2, ChainExtended DEF HashChain, Payload
  <1>6. row' = [row EXCEPT ![p] = r] /\ row'[p] = r /\ view' = InsertRow(view, r)
    BY <1>1, <1>4 DEF TypeOK
  <1>7. view' = InsertRow(register_edge(db, job[p]), row'[p]) /\ view' \in Tables
    BY <1>2, <1>3, <1>5, <1>6, InsertRowType
  <1>8. TypeOK'
    <2>1. "commit" \in Label
      BY DEF Label
    <2> HIDE DEF r
    <2> QED
      BY <1>1, <1>5, <1>6, <1>7, <2>1 DEF TypeOK
  <1>9. BlobsFirst(p)'
    <2>1. \A i \in DOMAIN Puts(job[p]) : Puts(job[p])[i] \in objects
      BY <1>1 DEF ProcessInvariant, BlobsFirst, InTx
    <2> QED
      BY <1>2, <2>1 DEF BlobsFirst
  <1>10. TransactionView(p)'
    <2>1. db' = db
      OBVIOUS
    <2>2. row'[p] = LogEntry(Count(db'), keyOf[p], job'[p], PrevHash(db', Count(db')))
      BY <1>2, <1>6, <2>1
    <2>3. view' = InsertRow(register_edge(db', job'[p]), row'[p])
      BY <1>2, <1>7, <2>1
    <2> QED
      BY <1>2, <2>2, <2>3 DEF TransactionView
  <1>11. ProcessInvariant(p)'
    BY <1>2, <1>9, <1>10 DEF ProcessInvariant, Locking, Working, StandaloneAppend,
                             Returning, InTx
  <1>12. \A q \in Proc \ {p} : Same(q)
    BY <1>1, <1>6 DEF TypeOK, Same
  <1> QED
    BY <1>2, <1>8, <1>11, <1>12, Assemble

LEMMA AppendCountStep ==
    ASSUME StorageInvariant, NEW p \in Proc, NEW x \in Raw, AppendCount(p, x)
    PROVE  StorageInvariant'
  <1> USE DEF AppendCount, Goto
  <1>1. TypeOK /\ ProcessInvariant(p) /\ (lock = None => view = db)
    BY Parts
  <1>2. Count(db) \in Nat /\ Count(db') = Count(db)
    BY <1>1 DEF TypeOK, Tables, Count
  <1>3. pc'[p] = "prev" /\ job'[p] = x /\ seq'[p] = Count(db) /\ lock' # p
    BY <1>1 DEF TypeOK, ProcessInvariant, Locking, InTx
  <1>4. TypeOK'
    <2>1. "prev" \in Label /\ x \in Payload
      BY DEF Label, Payload
    <2> QED
      BY <1>1, <1>2, <2>1 DEF TypeOK
  <1>5. StandaloneAppend(p)'
    <2>1. seq'[p] <= Count(db')
      BY <1>2, <1>3
    <2> QED
      BY <1>3, <2>1 DEF StandaloneAppend
  <1>6. ProcessInvariant(p)'
    BY <1>3, <1>5 DEF ProcessInvariant, Locking, Working, TransactionView,
                      BlobsFirst, Returning, InTx
  <1>7. \A q \in Proc \ {p} : Same(q)
    BY <1>1 DEF TypeOK, Same
  <1> QED
    BY <1>1, <1>4, <1>6, <1>7, Assemble

LEMMA AppendPrevStep ==
    ASSUME StorageInvariant, NEW p \in Proc, AppendPrev(p)
    PROVE  StorageInvariant'
  <1> USE DEF AppendPrev, Goto
  <1>1. TypeOK /\ ProcessInvariant(p) /\ (lock = None => view = db) /\ HashChain
    BY Parts
  <1>2. /\ pc'[p] = "insert" /\ job'[p] = job[p] /\ job[p] \in Raw /\ lock' # p
        /\ seq'[p] = seq[p] /\ seq[p] \in Nat /\ seq[p] <= Count(db)
        /\ keyOf[p] \in Key /\ db \in Tables /\ db' = db
    BY <1>1 DEF TypeOK, ProcessInvariant, Working, Locking, StandaloneAppend, InTx
  <1> DEFINE r == LogEntry(seq[p], keyOf[p], job[p], PrevHash(db, seq[p]))
  <1>3. row' = [row EXCEPT ![p] = r] /\ row'[p] = r
    BY <1>1 DEF TypeOK
  <1>4. r \in LogRow(Key)
    <2>1. seq[p] \in 0 .. Len(db.log)
      BY <1>2 DEF Count, Tables
    <2>2. PrevHash(db, seq[p]) \in Link
      BY <1>1, <1>2, <2>1, PrevHashValue DEF HashChain
    <2> QED
      BY <1>2, <2>2, LogEntryType DEF Payload
  <1>5. TypeOK'
    <2>1. "insert" \in Label
      BY DEF Label
    <2> HIDE DEF r
    <2> QED
      BY <1>1, <1>3, <1>4, <2>1 DEF TypeOK
  <1>6. StandaloneAppend(p)'
    <2>1. seq'[p] <= Count(db')
      BY <1>2
    <2>2. row'[p] = LogEntry(seq'[p], keyOf[p], job'[p], PrevHash(db', seq'[p]))
      BY <1>2, <1>3
    <2> QED
      BY <2>1, <2>2 DEF StandaloneAppend
  <1>7. ProcessInvariant(p)'
    BY <1>2, <1>6 DEF ProcessInvariant, Locking, Working, TransactionView,
                      BlobsFirst, Returning, InTx
  <1>8. \A q \in Proc \ {p} : Same(q)
    BY <1>1 DEF TypeOK, Same
  <1> QED
    BY <1>1, <1>5, <1>7, <1>8, Assemble

\* A step that commits one entry, built from the committed tables, and with it the
\* edge that the entry is about.
LEMMA Growth ==
    ASSUME StorageInvariant, NEW p \in Proc, NEW r,
           job[p] \in Payload, keyOf[p] \in Key,
           r = LogEntry(Count(db), keyOf[p], job[p], PrevHash(db, Count(db))),
           db' \in Tables, db'.log = Append(db.log, r),
           row[p] = r, pc' = [pc EXCEPT ![p] = "return"],
           lock = None \/ lock = p, lock' = None, view' = db',
           UNCHANGED <<objects, job, todo, seq, row, acked>>,
           GraphMatchesLog', GraphResolves', GraphComplete'
    PROVE  StorageInvariant'
  <1>1. TypeOK /\ HashChain /\ db \in Tables /\ db.log \in Seq(LogRow(Key))
    BY DEF StorageInvariant, TypeOK, Tables
  <1>2. /\ r \in LogRow(Key) /\ r.seq = Len(db.log)
        /\ Numbered(db'.log) /\ ChainVerifies(db'.log)
    BY <1>1, ChainExtended DEF HashChain
  <1>3. /\ Len(db'.log) = Len(db.log) + 1 /\ db'.log[Len(db.log) + 1] = r
        /\ DOMAIN db'.log = 1 .. Len(db.log) + 1
        /\ \A i \in DOMAIN db.log : db'.log[i] = db.log[i]
    BY <1>1, <1>2
  <1>4. HashChain'
    BY <1>2 DEF HashChain
  <1>5. TypeOK'
    <2>1. "return" \in Label
      BY DEF Label
    <2> QED
      BY <1>1, <2>1 DEF TypeOK
  <1>6. \A q \in Proc \ {p} : Same(q) /\ lock # q /\ lock' # q
    BY <1>1 DEF TypeOK, Same
  <1>7. ASSUME NEW q \in Proc, q # p
        PROVE  ProcessInvariant(q)'
    BY <1>2, <1>6, <1>7, OthersKeptOnGrowth
  <1>8. ProcessInvariant(p)'
    <2>1. pc'[p] = "return" /\ row'[p] = r /\ lock' # p
      BY <1>1 DEF TypeOK
    <2>2. r.seq + 1 \in DOMAIN db'.log /\ db'.log[r.seq + 1] = r
      BY <1>1, <1>2, <1>3
    <2>3. Returning(p)'
      BY <1>2, <2>1, <2>2 DEF Returning, InLog
    <2> QED
      BY <2>1, <2>3 DEF ProcessInvariant, Locking, Working, TransactionView,
                        StandaloneAppend, BlobsFirst, InTx
  <1>9. AckedDurable'
    <2> SUFFICES ASSUME NEW a \in acked
                 PROVE  a.seq + 1 \in DOMAIN db'.log /\ db'.log[a.seq + 1] = a
      BY DEF AckedDurable, InLog
    <2>1. a.seq + 1 \in DOMAIN db.log /\ db.log[a.seq + 1] = a
      BY DEF StorageInvariant, AckedDurable, InLog
    <2> QED
      BY <1>1, <1>3, <2>1
  <1> QED
    BY <1>4, <1>5, <1>7, <1>8, <1>9 DEF StorageInvariant

\* What COMMIT makes durable: one entry, and the rows of its edge.
LEMMA CommitEffect ==
    ASSUME StorageInvariant, NEW p \in Proc, Commit(p)
    PROVE  /\ job[p] \in Edge /\ lock = p /\ objects' = objects
           /\ row[p] = LogEntry(Count(db), keyOf[p], job[p], PrevHash(db, Count(db)))
           /\ row[p] \in LogRow(Key)
           /\ row[p].payload = job[p] /\ row[p].signer_pubkey = keyOf[p]
           /\ db' \in Tables /\ db'.log = Append(db.log, row[p])
           /\ db'.nodes = db.nodes \cup Endpoints(job[p])
           /\ db'.edges = db.edges \cup {EdgeRow(job[p])}
           /\ db'.premises = db.premises \cup PremiseRows(job[p])
  <1> USE DEF Commit, Goto
  <1>1. TypeOK /\ ProcessInvariant(p) /\ HashChain
    BY Parts
  <1> DEFINE e == job[p]
             r == row[p]
             d == register_edge(db, e)
  <1>2. /\ e \in Edge /\ e \in Payload /\ keyOf[p] \in Key /\ lock = p /\ db \in Tables
        /\ r = LogEntry(Count(db), keyOf[p], e, PrevHash(db, Count(db)))
        /\ db' = InsertRow(d, r)
    BY <1>1 DEF TypeOK, ProcessInvariant, Working, Locking, TransactionView, InTx, Payload
  <1>3. r \in LogRow(Key) /\ r.payload = e /\ r.signer_pubkey = keyOf[p]
    BY <1>1, <1>2, ChainExtended DEF HashChain
  <1> HIDE DEF e, r
  <1>4. /\ d \in Tables /\ d.log = db.log /\ d.nodes = db.nodes \cup Endpoints(e)
        /\ d.edges = db.edges \cup {EdgeRow(e)}
        /\ d.premises = db.premises \cup PremiseRows(e)
    BY <1>2, RegisterEdgeType
  <1> HIDE DEF d
  <1>5. /\ db' \in Tables /\ db'.log = Append(d.log, r) /\ db'.nodes = d.nodes
        /\ db'.edges = d.edges /\ db'.premises = d.premises
    <2> DEFINE t == InsertRow(d, r)
    <2>1. /\ t \in Tables /\ t.log = Append(d.log, r) /\ t.nodes = d.nodes
          /\ t.edges = d.edges /\ t.premises = d.premises
      BY <1>3, <1>4, InsertRowType
    <2>2. db' = t
      BY <1>2
    <2> HIDE DEF t
    <2> QED
      BY <2>1, <2>2
  <1> QED
    BY <1>2, <1>3, <1>4, <1>5 DEF e, r

LEMMA CommitStep ==
    ASSUME StorageInvariant, NEW p \in Proc, Commit(p)
    PROVE  StorageInvariant'
  <1> USE DEF Commit, Goto
  <1>1. TypeOK /\ ProcessInvariant(p) /\ HashChain
    BY Parts
  <1> DEFINE e == job[p]
             r == row[p]
  <1>2. /\ e \in Edge /\ e \in Payload /\ keyOf[p] \in Key /\ lock = p
        /\ db.log \in Seq(LogRow(Key))
        /\ r = LogEntry(Count(db), keyOf[p], e, PrevHash(db, Count(db)))
    BY <1>1, CommitEffect DEF TypeOK, Tables, Payload
  <1>3. r \in LogRow(Key) /\ r.payload = e
    BY CommitEffect
  <1>4. /\ db' \in Tables /\ db'.log = Append(db.log, r)
        /\ db'.nodes = db.nodes \cup Endpoints(e)
        /\ db'.edges = db.edges \cup {EdgeRow(e)}
        /\ db'.premises = db.premises \cup PremiseRows(e)
    BY CommitEffect
  <1>5. GraphMatchesLog'
    <2> SUFFICES ASSUME NEW f \in Edge
                 PROVE  EdgeRow(f) \in db'.edges <=>
                            \E i \in DOMAIN db'.log : db'.log[i].payload = f
      BY DEF GraphMatchesLog
    <2>1. EdgeRow(f) \in db.edges <=> \E i \in DOMAIN db.log : db.log[i].payload = f
      BY DEF StorageInvariant, GraphMatchesLog
    <2>2. EdgeRow(f) \in db'.edges <=> EdgeRow(f) \in db.edges \/ f = e
      BY <1>2, <1>4, EdgeFacts
    <2>3. /\ DOMAIN db'.log = 1 .. Len(db.log) + 1 /\ db'.log[Len(db.log) + 1] = r
          /\ \A i \in DOMAIN db.log : i \in DOMAIN db'.log /\ db'.log[i] = db.log[i]
          /\ \A i \in DOMAIN db'.log : i \in DOMAIN db.log \/ i = Len(db.log) + 1
      BY <1>2, <1>3, <1>4
    <2>4. (\E i \in DOMAIN db'.log : db'.log[i].payload = f)
              <=> (\E i \in DOMAIN db.log : db.log[i].payload = f) \/ f = e
      <3> HIDE DEF r, e
      <3>1. Len(db.log) + 1 \in DOMAIN db'.log
        BY <1>2, <2>3
      <3> QED
        BY <1>3, <2>3, <3>1
    <2> QED
      BY <2>1, <2>2, <2>4
  <1>6. GraphResolves'
    <2> SUFFICES ASSUME NEW f \in Edge, EdgeRow(f) \in db'.edges
                 PROVE  \A i \in DOMAIN Puts(f) : Puts(f)[i] \in objects
      BY DEF GraphResolves
    <2>1. CASE EdgeRow(f) \in db.edges
      BY <2>1 DEF StorageInvariant, GraphResolves
    <2>2. CASE EdgeRow(f) \notin db.edges
      <3>1. f = e
        BY <1>2, <1>4, <2>2, EdgeFacts
      <3> QED
        BY <1>1, <3>1 DEF ProcessInvariant, BlobsFirst, InTx
    <2> QED
      BY <2>1, <2>2
  <1>7. GraphComplete'
    <2>1. ASSUME NEW f \in Edge, EdgeRow(f) \in db'.edges
          PROVE  Endpoints(f) \subseteq db'.nodes /\ PremiseRows(f) \subseteq db'.premises
      <3>1. CASE EdgeRow(f) \in db.edges
        BY <1>4, <3>1 DEF StorageInvariant, GraphComplete
      <3>2. CASE EdgeRow(f) \notin db.edges
        <4>1. f = e
          BY <1>2, <1>4, <2>1, <3>2, EdgeFacts
        <4> QED
          BY <1>4, <4>1
      <3> QED
        BY <3>1, <3>2
    <2>2. ASSUME NEW x \in db'.premises
          PROVE  \E t \in db'.edges : t[1] = x[1]
      <3>1. CASE x \in db.premises
        BY <1>4, <3>1 DEF StorageInvariant, GraphComplete
      <3>2. CASE x \in PremiseRows(e)
        <4>1. EdgeRow(e)[1] = Hash(e) /\ x[1] = Hash(e)
          BY <3>2 DEF EdgeRow, PremiseRows
        <4> QED
          BY <1>4, <4>1
      <3> QED
        BY <1>4, <2>2, <3>1, <3>2
    <2> QED
      BY <2>1, <2>2 DEF GraphComplete
  <1> QED
    BY <1>2, <1>4, <1>5, <1>6, <1>7, Growth

\* A number that is not taken is the next one, however old the SELECT is.
LEMMA InsertEffect ==
    ASSUME StorageInvariant, NEW p \in Proc, AppendInsert(p)
    PROVE  /\ job[p] \in Raw /\ lock = None /\ objects' = objects
           /\ row[p] = LogEntry(Count(db), keyOf[p], job[p], PrevHash(db, Count(db)))
           /\ row[p] \in LogRow(Key)
           /\ row[p].payload = job[p] /\ row[p].signer_pubkey = keyOf[p]
           /\ db' \in Tables /\ db'.log = Append(db.log, row[p])
           /\ db'.nodes = db.nodes /\ db'.edges = db.edges /\ db'.premises = db.premises
  <1> USE DEF AppendInsert, Goto
  <1>1. TypeOK /\ ProcessInvariant(p) /\ HashChain
    BY Parts
  <1> DEFINE r == row[p]
  <1>2. /\ job[p] \in Raw /\ job[p] \in Payload
        /\ keyOf[p] \in Key /\ db \in Tables
        /\ db.log \in Seq(LogRow(Key)) /\ seq[p] \in Nat /\ seq[p] <= Count(db)
        /\ r = LogEntry(seq[p], keyOf[p], job[p], PrevHash(db, seq[p]))
    BY <1>1 DEF TypeOK, Tables, ProcessInvariant, Working, StandaloneAppend, Payload
  <1>3. seq[p] = Count(db)
    <2> SUFFICES ASSUME seq[p] < Len(db.log)
                 PROVE  FALSE
      BY <1>2 DEF Count
    <2>1. seq[p] + 1 \in DOMAIN db.log
      BY <1>2
    <2>2. db.log[seq[p] + 1].seq = seq[p]
      BY <1>1, <1>2, <2>1 DEF HashChain, Numbered
    <2> QED
      BY <2>1, <2>2 DEF KeyTaken
  <1>4. r \in LogRow(Key) /\ r.payload = job[p] /\ r.signer_pubkey = keyOf[p]
    BY <1>1, <1>2, <1>3, ChainExtended DEF HashChain
  <1>5. /\ db' \in Tables /\ db'.log = Append(db.log, r) /\ db'.nodes = db.nodes
        /\ db'.edges = db.edges /\ db'.premises = db.premises
    BY <1>2, <1>4, InsertRowType
  <1> QED
    BY <1>2, <1>3, <1>4, <1>5

LEMMA AppendInsertStep ==
    ASSUME StorageInvariant, NEW p \in Proc, AppendInsert(p)
    PROVE  StorageInvariant'
  <1> USE DEF AppendInsert, Goto
  <1> DEFINE r == row[p]
  <1>2. /\ job[p] \in Payload /\ job[p] \notin Edge
        /\ keyOf[p] \in Key /\ db.log \in Seq(LogRow(Key))
    BY InsertEffect, Parts DEF TypeOK, Tables, Payload
  <1>3. r = LogEntry(Count(db), keyOf[p], job[p], PrevHash(db, Count(db)))
    BY InsertEffect
  <1>4. r \in LogRow(Key) /\ r.payload = job[p]
    BY InsertEffect
  <1>5. /\ db' \in Tables /\ db'.log = Append(db.log, r) /\ db'.nodes = db.nodes
        /\ db'.edges = db.edges /\ db'.premises = db.premises
    BY InsertEffect
  <1>6. GraphMatchesLog'
    <2> SUFFICES ASSUME NEW f \in Edge
                 PROVE  EdgeRow(f) \in db.edges <=>
                            \E i \in DOMAIN db'.log : db'.log[i].payload = f
      BY <1>5 DEF GraphMatchesLog
    <2>1. EdgeRow(f) \in db.edges <=> \E i \in DOMAIN db.log : db.log[i].payload = f
      BY DEF StorageInvariant, GraphMatchesLog
    <2>2. /\ db'.log[Len(db.log) + 1] = r
          /\ \A i \in DOMAIN db.log : i \in DOMAIN db'.log /\ db'.log[i] = db.log[i]
          /\ \A i \in DOMAIN db'.log : i \in DOMAIN db.log \/ i = Len(db.log) + 1
      <3> HIDE DEF r
      <3> QED
        BY <1>2, <1>4, <1>5
    <2> HIDE DEF r
    <2> QED
      BY <1>2, <1>4, <2>1, <2>2
  <1>7. GraphResolves' /\ GraphComplete'
    BY <1>5 DEF StorageInvariant, GraphResolves, GraphComplete
  <1> QED
    BY <1>2, <1>3, <1>5, <1>6, <1>7, Growth

-----------------------------------------------------------------------------
LEMMA InitInvariant == Init => StorageInvariant
  <1> SUFFICES ASSUME Init
               PROVE  StorageInvariant
    OBVIOUS
  <1> USE DEF Init, EmptyTables
  <1>1. TypeOK
    BY DEF TypeOK, Tables, Label
  <1>2. \A p \in Proc : ProcessInvariant(p)
    BY DEF ProcessInvariant, Locking, Working, TransactionView, StandaloneAppend,
           BlobsFirst, Returning, InTx
  <1>3. HashChain
    BY DEF HashChain, Numbered, ChainVerifies
  <1>4. AckedDurable /\ GraphMatchesLog /\ GraphResolves /\ GraphComplete
    BY DEF AckedDurable, GraphMatchesLog, GraphResolves, GraphComplete
  <1> QED
    BY <1>1, <1>2, <1>3, <1>4 DEF StorageInvariant

LEMMA StepInvariant == StorageInvariant /\ [Next]_vars => StorageInvariant'
  <1> SUFFICES ASSUME StorageInvariant, [Next]_vars
               PROVE  StorageInvariant'
    OBVIOUS
  <1>1. CASE Next
    <2>1. PICK p \in Proc : \/ \E e \in Edge : StartCommit(p, e)
                            \/ \E x \in Raw : AppendCount(p, x)
                            \/ Step(p)
                            \/ Crash(p)
      BY <1>1 DEF Next
    <2> QED
      BY <2>1, StartCommitStep, AppendCountStep, PutStep, BeginStep, RegisterStep,
         AppendInTxStep, CommitStep, ReturnStep, AppendPrevStep, AppendInsertStep,
         DropStep DEF Step
  <1>2. CASE UNCHANGED vars
    BY <1>2 DEF vars, StorageInvariant, TypeOK, ProcessInvariant, Locking, Working,
                TransactionView, StandaloneAppend, BlobsFirst, Returning, InLog,
                HashChain, AckedDurable, GraphMatchesLog, GraphResolves, GraphComplete
  <1> QED
    BY <1>1, <1>2

\* Every process is right about the shared state at each of its statements, and the
\* shared state is right, in every execution of the SQLite backend.
THEOREM StorageCorrect == Spec => []StorageInvariant
  BY InitInvariant, StepInvariant, PTL DEF Spec

\* The signed log of the SQLite backend is a verified hash chain, numbered without
\* gaps, although standalone appends compute number and link in separate statements.
THEOREM LogIsChained == Spec => []HashChain
  <1>1. StorageInvariant => HashChain
    BY DEF StorageInvariant
  <1> QED
    BY <1>1, StorageCorrect, PTL

\* commit_edge_tx is atomic: an edge is in the graph exactly when it is in the log.
THEOREM GraphAndLogAgree == Spec => []GraphMatchesLog
  <1>1. StorageInvariant => GraphMatchesLog
    BY DEF StorageInvariant
  <1> QED
    BY <1>1, StorageCorrect, PTL

\* The graph never names an edge whose record, nodes or proof cannot be read back.
THEOREM GraphIsReadable == Spec => []GraphResolves
  <1>1. StorageInvariant => GraphResolves
    BY DEF StorageInvariant
  <1> QED
    BY <1>1, StorageCorrect, PTL

\* What append or commit_edge_tx returned to a caller is in the log for good.
THEOREM ReturnedEntriesStay == Spec => []AckedDurable
  <1>1. StorageInvariant => AckedDurable
    BY DEF StorageInvariant
  <1> QED
    BY <1>1, StorageCorrect, PTL

-----------------------------------------------------------------------------
(***************************************************************************)
(* Only COMMIT and a standalone INSERT change the committed tables, and    *)
(* both do what one step of the abstract ledger does.                      *)
(***************************************************************************)

LEMMA StepEffect ==
    ASSUME StorageInvariant, [Next]_vars
    PROVE  \/ db' = db /\ objects \subseteq objects'
           \/ \E p \in Proc : Commit(p) \/ AppendInsert(p)
  <1>1. CASE Next
    <2>1. PICK p \in Proc : \/ \E e \in Edge : StartCommit(p, e)
                            \/ \E x \in Raw : AppendCount(p, x)
                            \/ Step(p)
                            \/ Crash(p)
      BY <1>1 DEF Next
    <2> QED
      BY <2>1 DEF Step, StartCommit, AppendCount, Put, Begin, Register, AppendInTx,
                  Rollback, Return, AppendPrev, AppendConflict, Raise, Crash
  <1>2. CASE UNCHANGED vars
    BY <1>2 DEF vars
  <1> QED
    BY <1>1, <1>2

\* Committed rows, registered edges and stored blobs are never changed or removed.
THEOREM NothingIsTakenBack == Spec => AppendOnly
  <1>1. ASSUME StorageInvariant, [Next]_vars
        PROVE  /\ Len(db.log) <= Len(db'.log)
               /\ \A i \in DOMAIN db.log : db'.log[i] = db.log[i]
               /\ db.nodes \subseteq db'.nodes
               /\ db.edges \subseteq db'.edges
               /\ db.premises \subseteq db'.premises
               /\ objects \subseteq objects'
    <2>0. db.log \in Seq(LogRow(Key))
      BY <1>1 DEF StorageInvariant, TypeOK, Tables
    <2>1. CASE db' = db /\ objects \subseteq objects'
      BY <2>0, <2>1
    <2>2. ASSUME NEW p \in Proc, Commit(p) \/ AppendInsert(p)
          PROVE  /\ Len(db.log) <= Len(db'.log)
                 /\ \A i \in DOMAIN db.log : db'.log[i] = db.log[i]
                 /\ db.nodes \subseteq db'.nodes
                 /\ db.edges \subseteq db'.edges
                 /\ db.premises \subseteq db'.premises
                 /\ objects \subseteq objects'
      <3>1. /\ row[p] \in LogRow(Key) /\ db'.log = Append(db.log, row[p])
            /\ objects' = objects /\ db.nodes \subseteq db'.nodes
            /\ db.edges \subseteq db'.edges /\ db.premises \subseteq db'.premises
        <4>1. CASE Commit(p)
          BY <1>1, <4>1, CommitEffect
        <4>2. CASE AppendInsert(p)
          BY <1>1, <4>2, InsertEffect
        <4> QED
          BY <2>2, <4>1, <4>2
      <3> QED
        BY <2>0, <3>1
    <2> QED
      BY <1>1, <2>1, <2>2, StepEffect
  <1> QED
    BY <1>1, StorageCorrect, PTL DEF Spec, AppendOnly

\* One appended row is one appended entry of the abstract log.
LEMMA EntriesExtended ==
    ASSUME StorageInvariant, NEW r \in LogRow(Key), db'.log = Append(db.log, r)
    PROVE  entriesBar' = Append(entriesBar, [signer |-> r.signer_pubkey, payload |-> r.payload])
  <1> DEFINE n == Len(db.log)
             Bar(x) == [signer |-> x.signer_pubkey, payload |-> x.payload]
  <1>1. db.log \in Seq(LogRow(Key)) /\ n \in Nat
    BY DEF StorageInvariant, TypeOK, Tables
  <1>2. /\ DOMAIN db'.log = 1 .. n + 1 /\ DOMAIN db.log = 1 .. n
        /\ db'.log[n + 1] = r /\ \A i \in 1 .. n : db'.log[i] = db.log[i]
    BY <1>1
  <1>3. entriesBar = [i \in 1 .. n |-> Bar(db.log[i])]
    BY <1>2 DEF entriesBar
  <1>4. entriesBar' = [i \in 1 .. n + 1 |-> Bar(db'.log[i])]
    BY <1>2 DEF entriesBar
  <1>5. Len(entriesBar) = n
    BY <1>1, <1>3
  <1>6. Append(entriesBar, Bar(r)) =
            [i \in 1 .. n + 1 |-> IF i <= n THEN entriesBar[i] ELSE Bar(r)]
    BY <1>1, <1>3, <1>5
  <1>7. \A i \in 1 .. n + 1 :
            Bar(db'.log[i]) = IF i <= n THEN entriesBar[i] ELSE Bar(r)
    BY <1>1, <1>2, <1>3
  <1> HIDE DEF Bar, n
  <1>8. entriesBar' = Append(entriesBar, Bar(r))
    BY <1>4, <1>6, <1>7
  <1> QED
    BY <1>8 DEF Bar

\* The SQLite backend implements the atomic ledger: every statement, failure and
\* crash is a stutter, and COMMIT or a standalone INSERT is one ledger step.
THEOREM StorageImplementsLedger == Spec => ImplementsLedger
  <1>1. Init => L!LedgerInit
    BY DEF Init, EmptyTables, L!LedgerInit, entriesBar, edgesBar
  <1>2. ASSUME StorageInvariant, [Next]_vars
        PROVE  [L!LedgerNext]_(L!ledgerVars)
    <2>1. CASE db' = db
      BY <2>1 DEF L!ledgerVars, entriesBar, edgesBar
    <2>2. ASSUME NEW p \in Proc, Commit(p)
          PROVE  L!LedgerNext
      <3>1. /\ job[p] \in Edge /\ keyOf[p] \in Key /\ row[p] \in LogRow(Key)
            /\ row[p].payload = job[p] /\ row[p].signer_pubkey = keyOf[p]
            /\ db'.log = Append(db.log, row[p])
            /\ db'.edges = db.edges \cup {EdgeRow(job[p])}
        BY <1>2, <2>2, CommitEffect
      <3>2. entriesBar' = Append(entriesBar, [signer |-> keyOf[p], payload |-> job[p]])
        BY <1>2, <3>1, EntriesExtended
      <3>3. edgesBar' = edgesBar \cup {job[p]}
        BY <3>1, EdgeFacts DEF edgesBar
      <3>4. L!CommitEdge(keyOf[p], job[p])
        BY <3>2, <3>3 DEF L!CommitEdge
      <3> QED
        BY <3>1, <3>4 DEF L!LedgerNext
    <2>3. ASSUME NEW p \in Proc, AppendInsert(p)
          PROVE  L!LedgerNext
      <3>1. /\ job[p] \in Raw /\ keyOf[p] \in Key /\ row[p] \in LogRow(Key)
            /\ row[p].payload = job[p] /\ row[p].signer_pubkey = keyOf[p]
            /\ db'.log = Append(db.log, row[p]) /\ db'.edges = db.edges
        BY <1>2, <2>3, InsertEffect
      <3>2. entriesBar' = Append(entriesBar, [signer |-> keyOf[p], payload |-> job[p]])
        BY <1>2, <3>1, EntriesExtended
      <3>3. edgesBar' = edgesBar
        BY <3>1 DEF edgesBar
      <3>4. L!AppendRaw(keyOf[p], job[p])
        BY <3>2, <3>3 DEF L!AppendRaw
      <3> QED
        BY <3>1, <3>4 DEF L!LedgerNext
    <2> QED
      BY <1>2, <2>1, <2>2, <2>3, StepEffect
  <1> QED
    BY <1>1, <1>2, StorageCorrect, PTL DEF Spec, ImplementsLedger, L!LedgerSpec
==============================================================================
