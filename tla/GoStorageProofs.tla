--------------------------- MODULE GoStorageProofs ---------------------------
(***************************************************************************)
(* What the Go engine keeps right whatever calls overlap, and that it      *)
(* keeps a chained and durable log and implements the ledger if no two     *)
(* handlers are between the read of the log length and the commit of their *)
(* batch, for every set of edges, failure and restart of the daemon.       *)
(***************************************************************************)
EXTENDS GoStorage, TLAPS

USE EdgeRecordsAssumption, GoStorageAssumption

-----------------------------------------------------------------------------
(***************************************************************************)
(* The inductive invariant.                                                *)
(***************************************************************************)

Label == {"idle", "put", "prev", "commit", "return"}

EntryRow == LogRow({DaemonKey})

CallTypes ==
    /\ pc \in [Call -> Label]
    /\ job \in [Call -> Payload \cup {None}]
    /\ todo \in [Call -> Seq(Address)]
    /\ seq \in [Call -> Nat]
    /\ entry \in [Call -> EntryRow \cup {None}]

\* The database has the fields of EmptyDB and no others.
DatabaseShape ==
    kv = [ n |-> kv.n, e |-> kv.e, p |-> kv.p, c |-> kv.c, o |-> kv.o,
           l |-> kv.l, h |-> kv.h, len |-> kv.len ]

Registered == {e \in Edge : EdgeRow(e) \in kv.e}

\* Each of the five key prefixes of the graph holds the rows of the registered edges.
IndexRows ==
    /\ kv.e = {EdgeRow(e) : e \in Registered}
    /\ kv.n = UNION {Endpoints(e) : e \in Registered}
    /\ kv.p = UNION {PremiseRows(e) : e \in Registered}
    /\ kv.c = {<<Hash(conclusion[e]), Hash(e)>> : e \in Registered}
    /\ kv.o = UNION {{<<Hash(premises[e][i]), Hash(e)>> : i \in DOMAIN premises[e]}
                        : e \in Registered}

\* Everything but whether clients still listen.
unheard == <<objects, kv, pc, job, todo, seq, entry, acked>>

\* While an edge is committed, every blob of the edge is stored or still to be put.
BlobsFirst(c) ==
    pc[c] # "idle" /\ job[c] \in Edge =>
        \A i \in DOMAIN Puts(job[c]) :
            \/ Puts(job[c])[i] \in objects
            \/ pc[c] = "put" /\ \E j \in DOMAIN todo[c] : todo[c][j] = Puts(job[c])[i]

\* What a handler knows at each of its steps.  The numbers below the one it read stay
\* in the log, although by the time it commits Len() may be larger or smaller.
CallInvariant(c) ==
    /\ pc[c] # "idle" => job[c] \in Payload
    /\ pc[c] \in {"prev", "commit"} => \A s \in Nat : s < seq[c] => s \in DOMAIN kv.l
    /\ pc[c] = "commit" =>
           \E link \in Link : entry[c] = LogEntry(seq[c], DaemonKey, job[c], link)
    /\ pc[c] = "return" =>
           /\ entry[c] \in EntryRow /\ entry[c].payload = job[c]
           /\ job[c] \in Edge => EdgeRow(job[c]) \in kv.e
    /\ BlobsFirst(c)

GoInvariant ==
    /\ CallTypes
    /\ DatabaseShape
    /\ DOMAIN kv.l \subseteq Nat
    /\ OverlapSound
    /\ IndexRows
    /\ \A c \in Call : CallInvariant(c)

-----------------------------------------------------------------------------
(***************************************************************************)
(* Facts about the values.                                                 *)
(***************************************************************************)

LEMMA HashInjective == \A x, y : Hash(x) = Hash(y) => x = y
  BY DEF Hash

\* An entry built by appendInBatch is a row under its own number, and verifies.
LEMMA LogEntryFacts ==
    ASSUME NEW s \in Nat, NEW d \in Payload, NEW link \in Link
    PROVE  LET r == LogEntry(s, DaemonKey, d, link)
           IN  /\ r \in EntryRow /\ verify_entry(r)
               /\ r.seq = s /\ r.payload = d /\ r.prev_log_hash = link
               /\ r.signer_pubkey = DaemonKey /\ r.entry_hash \in Address
  <1>1. Hash(d) \in Address
    BY DEF Address, Payload
  <1>2. Sign(DaemonKey, SignatureMessage(s, DaemonKey, Hash(d), link))
            \in {"ed25519"} \X {DaemonKey} \X (Nat \X {DaemonKey} \X Address \X Link)
    BY <1>1 DEF Sign, SignatureMessage
  <1> QED
    BY <1>1, <1>2 DEF LogEntry, EntryRow, LogRow, verify_entry, Verify

LEMMA EdgeFacts ==
    ASSUME NEW e \in Edge
    PROVE  /\ Puts(e) \in Seq(Address)
           /\ \A f \in Edge : EdgeRow(f) = EdgeRow(e) => f = e
  <1>1. Hash(e) \in Address /\ Hash(conclusion[e]) \in Address
    BY DEF Address
  <1>2. \A i \in DOMAIN premises[e] : Hash(premises[e][i]) \in Address
    BY DEF Address
  <1>3. proof[e] # None => Hash(proof[e]) \in Address
    BY DEF Address
  <1>4. [i \in DOMAIN premises[e] |-> Hash(premises[e][i])] \in Seq(Address)
    BY <1>2
  <1>5. <<Hash(conclusion[e]), Hash(e)>> \in Seq(Address)
    BY <1>1
  <1>6. (IF proof[e] = None THEN <<>> ELSE <<Hash(proof[e])>>) \in Seq(Address)
    BY <1>3
  <1>7. Puts(e) \in Seq(Address)
    BY <1>4, <1>5, <1>6 DEF Puts
  <1> QED
    BY <1>7, HashInjective DEF EdgeRow

-----------------------------------------------------------------------------
(***************************************************************************)
(* Steps that leave the database alone.                                    *)
(***************************************************************************)

Same(c) == /\ pc'[c] = pc[c] /\ job'[c] = job[c] /\ todo'[c] = todo[c]
           /\ seq'[c] = seq[c] /\ entry'[c] = entry[c]

\* Puts is a function of the edge alone.
LEMMA BlobsFirstNext ==
    ASSUME NEW c \in Call,
           pc'[c] # "idle" /\ job'[c] \in Edge =>
               \A i \in DOMAIN Puts(job'[c]) :
                   \/ Puts(job'[c])[i] \in objects'
                   \/ pc'[c] = "put" /\ \E j \in DOMAIN todo'[c] : todo'[c][j] = Puts(job'[c])[i]
    PROVE  BlobsFirst(c)'
  BY DEF BlobsFirst, Puts

\* Blobs, edges and numbers only appear, so the other handlers still know what they
\* knew.
LEMMA OthersKept ==
    ASSUME NEW c \in Call, CallInvariant(c), Same(c), objects \subseteq objects',
           DOMAIN kv.l \subseteq DOMAIN kv'.l, kv.e \subseteq kv'.e
    PROVE  CallInvariant(c)'
  <1>1. BlobsFirst(c)'
    BY BlobsFirstNext DEF CallInvariant, BlobsFirst, Same
  <1> QED
    BY <1>1 DEF CallInvariant, Same, EdgeRow, LogEntry, EntryRow, LogRow

\* A handler that is idle knows nothing.
LEMMA IdleKnowsNothing ==
    ASSUME NEW c \in Call, pc'[c] = "idle"
    PROVE  CallInvariant(c)'
  BY DEF CallInvariant, BlobsFirst

\* The conjuncts put together, for a step of one handler that leaves the database.
LEMMA QuietStep ==
    ASSUME GoInvariant, NEW c \in Call, CallTypes', CallInvariant(c)',
           \A d \in Call \ {c} : Same(d),
           UNCHANGED kv, objects \subseteq objects', objects' \subseteq Address,
           acked' \subseteq EntryRow,
           \A r \in acked' \ acked : r.payload \in Edge => EdgeRow(r.payload) \in kv.e
    PROVE  GoInvariant'
  <1> USE DEF GoInvariant
  <1>1. \A d \in Call : CallInvariant(d)'
    BY OthersKept
  <1>2. DatabaseShape' /\ IndexRows' /\ EntriesSound'
    BY DEF OverlapSound, DatabaseShape, IndexRows, Registered, EntriesSound
  <1>3. GoTypeOK'
    BY DEF OverlapSound, GoTypeOK, CallTypes, EntryRow
  <1>4. GraphSound'
    BY DEF OverlapSound, GraphSound
  <1> QED
    BY <1>1, <1>2, <1>3, <1>4 DEF OverlapSound

\* A call begins.
LEMMA StartPreserves ==
    ASSUME GoInvariant, NEW c \in Call,
           \/ \E e \in Edge : StartCommit(c, e)
           \/ \E r \in Raw : StartAppend(c, r)
    PROVE  GoInvariant'
  <1> USE DEF GoInvariant
  <1>1. CASE \E e \in Edge : StartCommit(c, e)
    <2>1. PICK e \in Edge : StartCommit(c, e)
      BY <1>1
    <2>2. /\ pc'[c] = "put" /\ job'[c] = e /\ todo'[c] = Puts(e)
          /\ \A d \in Call \ {c} : Same(d)
          /\ UNCHANGED <<objects, kv, acked>> /\ CallTypes'
      BY <2>1, EdgeFacts DEF StartCommit, Goto, CallTypes, Same, Label, Payload
    <2>3. CallInvariant(c)'
      <3>1. BlobsFirst(c)'
        BY <2>2, BlobsFirstNext
      <3> QED
        BY <2>2, <3>1 DEF CallInvariant, Payload
    <2> QED
      BY <2>2, <2>3, QuietStep DEF OverlapSound, GoTypeOK, EntryRow
  <1>2. CASE \E r \in Raw : StartAppend(c, r)
    <2>1. PICK r \in Raw : StartAppend(c, r)
      BY <1>2
    <2>2. /\ pc'[c] = "put" /\ job'[c] = r /\ r \notin Edge
          /\ \A d \in Call \ {c} : Same(d)
          /\ UNCHANGED <<objects, kv, acked>> /\ CallTypes'
      BY <2>1 DEF StartAppend, Goto, CallTypes, Same, Label, Payload
    <2>3. CallInvariant(c)'
      BY <2>2 DEF CallInvariant, BlobsFirst, Payload
    <2> QED
      BY <2>2, <2>3, QuietStep DEF OverlapSound, GoTypeOK, EntryRow
  <1> QED
    BY <1>1, <1>2

LEMMA PutPreserves ==
    ASSUME GoInvariant, NEW c \in Call, Put(c)
    PROVE  GoInvariant'
  <1> USE DEF GoInvariant
  <1>1. /\ pc[c] = "put" /\ todo[c] \in Seq(Address) /\ todo[c] # <<>>
        /\ objects' = objects \cup {Head(todo[c])}
        /\ todo'[c] = Tail(todo[c])
        /\ pc'[c] = "put" /\ job'[c] = job[c]
        /\ UNCHANGED <<kv, acked, pc, job, seq, entry>>
        /\ \A d \in Call \ {c} : Same(d)
    BY DEF Put, CallTypes, Same
  <1>2. Head(todo[c]) \in Address /\ Tail(todo[c]) \in Seq(Address)
    BY <1>1
  <1>3. CallTypes' /\ objects' \subseteq Address
    BY <1>1, <1>2 DEF Put, CallTypes, OverlapSound, GoTypeOK
  <1>4. \A j \in DOMAIN todo[c] :
            todo[c][j] = Head(todo[c]) \/ \E k \in DOMAIN Tail(todo[c]) : Tail(todo[c])[k] = todo[c][j]
    <2> SUFFICES ASSUME NEW j \in DOMAIN todo[c], j # 1
                 PROVE  \E k \in DOMAIN Tail(todo[c]) : Tail(todo[c])[k] = todo[c][j]
      BY <1>1
    <2>1. j - 1 \in DOMAIN Tail(todo[c]) /\ Tail(todo[c])[j - 1] = todo[c][j]
      BY <1>1
    <2> QED
      BY <2>1
  <1>5. CallInvariant(c)'
    <2>1. BlobsFirst(c)'
      <3> SUFFICES ASSUME job[c] \in Edge, NEW i \in DOMAIN Puts(job[c])
                   PROVE  \/ Puts(job[c])[i] \in objects'
                          \/ \E j \in DOMAIN todo'[c] : todo'[c][j] = Puts(job[c])[i]
        BY <1>1, BlobsFirstNext
      <3>1. \/ Puts(job[c])[i] \in objects
            \/ \E j \in DOMAIN todo[c] : todo[c][j] = Puts(job[c])[i]
        BY <1>1 DEF CallInvariant, BlobsFirst
      <3> QED
        BY <1>1, <1>4, <3>1
    <2> QED
      BY <1>1, <2>1 DEF CallInvariant
  <1> QED
    BY <1>1, <1>3, <1>5, QuietStep DEF OverlapSound, GoTypeOK, EntryRow

\* The number is read from the live database.
LEMMA LenInBatchPreserves ==
    ASSUME GoInvariant, NEW c \in Call, LenInBatch(c)
    PROVE  GoInvariant'
  <1> USE DEF GoInvariant
  <1>1. /\ pc[c] = "put" /\ todo[c] = <<>> /\ pc'[c] = "prev" /\ seq'[c] = kv.len
        /\ UNCHANGED <<objects, kv, acked, job, todo, entry>>
        /\ \A d \in Call \ {c} : Same(d)
        /\ kv.len \in Nat /\ CallTypes'
    BY DEF LenInBatch, Goto, CallTypes, Same, Label, OverlapSound, GoTypeOK
  <1>2. \A s \in Nat : s < kv.len => s \in DOMAIN kv.l
    BY <1>1 DEF OverlapSound, EntriesSound
  <1>3. BlobsFirst(c)'
    <2>1. ~ \E j \in DOMAIN todo[c] : TRUE
      BY <1>1
    <2>2. job[c] \in Edge => \A i \in DOMAIN Puts(job[c]) : Puts(job[c])[i] \in objects
      BY <1>1, <2>1 DEF CallInvariant, BlobsFirst
    <2> QED
      BY <1>1, <2>2, BlobsFirstNext
  <1>4. CallInvariant(c)'
    BY <1>1, <1>2, <1>3 DEF CallInvariant
  <1> QED
    BY <1>1, <1>4, QuietStep DEF OverlapSound, GoTypeOK, EntryRow

\* The link is the hash stored under the number before; it is there.
LEMMA PrevHashPreserves ==
    ASSUME GoInvariant, NEW c \in Call, PrevHashInBatch(c)
    PROVE  /\ GoInvariant'
           /\ seq'[c] = seq[c] /\ kv' = kv
           /\ entry'[c].prev_log_hash =
                  IF seq[c] = 0 THEN GENESIS_PREV_HASH ELSE kv.h[seq[c] - 1]
  <1> USE DEF GoInvariant
  <1> DEFINE link == IF seq[c] = 0 THEN GENESIS_PREV_HASH ELSE kv.h[seq[c] - 1]
             r == LogEntry(seq[c], DaemonKey, job[c], link)
  <1>1. /\ pc[c] = "prev" /\ seq[c] \in Nat /\ job[c] \in Payload
        /\ \A s \in Nat : s < seq[c] => s \in DOMAIN kv.l
    BY DEF PrevHashInBatch, CallTypes, CallInvariant
  <1>2. link \in Link
    <2>1. CASE seq[c] = 0
      BY <2>1 DEF Link
    <2>2. CASE seq[c] # 0
      <3>1. seq[c] - 1 \in DOMAIN kv.l
        <4>1. seq[c] - 1 \in Nat /\ seq[c] - 1 < seq[c]
          BY <1>1, <2>2
        <4> QED
          BY <1>1, <4>1
      <3>2. kv.h[seq[c] - 1] = kv.l[seq[c] - 1].entry_hash /\ kv.l[seq[c] - 1] \in EntryRow
        BY <3>1 DEF OverlapSound, EntriesSound, GoTypeOK, EntryRow
      <3> QED
        BY <2>2, <3>2 DEF EntryRow, LogRow, Link
    <2> QED
      BY <2>1, <2>2
  <1> HIDE DEF link
  <1>3. r \in EntryRow /\ r.prev_log_hash = link
    BY <1>1, <1>2, LogEntryFacts
  <1>4. /\ pc'[c] = "commit" /\ entry'[c] = r
        /\ UNCHANGED <<objects, kv, acked, job, todo, seq>>
        /\ \A d \in Call \ {c} : Same(d)
    BY DEF PrevHashInBatch, Goto, CallTypes, Same, link
  <1>5. CallTypes'
    BY <1>3, <1>4 DEF PrevHashInBatch, Goto, CallTypes, Label
  <1>6. CallInvariant(c)'
    <2>1. BlobsFirst(c)'
      BY <1>1, <1>4, BlobsFirstNext DEF CallInvariant, BlobsFirst
    <2>2. entry'[c] = LogEntry(seq'[c], DaemonKey, job'[c], link)
      BY <1>4
    <2> QED
      BY <1>1, <1>2, <1>4, <2>1, <2>2 DEF CallInvariant
  <1> QED
    BY <1>3, <1>4, <1>5, <1>6, QuietStep DEF OverlapSound, GoTypeOK, EntryRow, link

\* The entry that is answered for was committed, with its edge.
LEMMA ReturnPreserves ==
    ASSUME GoInvariant, NEW c \in Call, Return(c) \/ Fail(c)
    PROVE  GoInvariant'
  <1> USE DEF GoInvariant
  <1>0. Idle(c) /\ UNCHANGED <<objects, kv>>
    BY DEF Return, Fail
  <1>1. pc'[c] = "idle" /\ \A d \in Call \ {c} : Same(d)
    BY <1>0 DEF Idle, CallTypes, Same
  <1>2. CallTypes'
    <2>1. <<>> \in Seq(Address) /\ 0 \in Nat /\ "idle" \in Label
      BY DEF Label
    <2> QED
      BY <1>0, <2>1 DEF Idle, CallTypes
  <1>3. /\ acked' \subseteq EntryRow
        /\ \A r \in acked' \ acked : r.payload \in Edge => EdgeRow(r.payload) \in kv.e
    <2>1. acked' \subseteq acked \/ (pc[c] = "return" /\ acked' \subseteq acked \cup {entry[c]})
      BY DEF Return, Fail
    <2>2. acked \subseteq EntryRow
      BY DEF OverlapSound, GoTypeOK, EntryRow
    <2> QED
      BY <2>1, <2>2 DEF CallInvariant
  <1> QED
    BY <1>0, <1>1, <1>2, <1>3, IdleKnowsNothing, QuietStep DEF OverlapSound, GoTypeOK

LEMMA CrashPreserves ==
    ASSUME GoInvariant, CrashDaemon
    PROVE  GoInvariant'
  <1> USE DEF GoInvariant, CrashDaemon
  <1>1. CallTypes'
    <2>1. <<>> \in Seq(Address)
      OBVIOUS
    <2> QED
      BY <2>1 DEF CallTypes, Label
  <1>2. \A c \in Call : CallInvariant(c)'
    BY IdleKnowsNothing
  <1>3. DatabaseShape' /\ IndexRows' /\ EntriesSound' /\ GraphSound'
    BY DEF OverlapSound, DatabaseShape, IndexRows, Registered, EntriesSound, GraphSound
  <1>4. GoTypeOK'
    BY <1>1 DEF OverlapSound, GoTypeOK, CallTypes, EntryRow
  <1> QED
    BY <1>1, <1>2, <1>3, <1>4 DEF OverlapSound
-----------------------------------------------------------------------------
(***************************************************************************)
(* The commit of a batch.                                                  *)
(***************************************************************************)

\* What the batch does to the database, field by field.
LEMMA BatchEffect ==
    ASSUME GoInvariant, NEW c \in Call, CommitBatch(c)
    PROVE  /\ DatabaseShape'
           /\ kv'.l = Set(kv.l, seq[c], entry[c])
           /\ kv'.h = Set(kv.h, seq[c], entry[c].entry_hash)
           /\ kv'.len = seq[c] + 1
           /\ IF job[c] \in Edge
              THEN /\ kv'.e = kv.e \cup {EdgeRow(job[c])}
                   /\ kv'.n = kv.n \cup Endpoints(job[c])
                   /\ kv'.p = kv.p \cup PremiseRows(job[c])
                   /\ kv'.c = kv.c \cup {<<Hash(conclusion[job[c]]), Hash(job[c])>>}
                   /\ kv'.o = kv.o \cup {<<Hash(premises[job[c]][i]), Hash(job[c])>>
                                             : i \in DOMAIN premises[job[c]]}
              ELSE /\ kv'.e = kv.e /\ kv'.n = kv.n /\ kv'.p = kv.p
                   /\ kv'.c = kv.c /\ kv'.o = kv.o
  <1> DEFINE d == IF job[c] \in Edge THEN RegisterEdge(kv, job[c]) ELSE kv
  <1>1. DatabaseShape
    BY DEF GoInvariant
  <1>2. /\ d = [ n |-> d.n, e |-> d.e, p |-> d.p, c |-> d.c, o |-> d.o,
                 l |-> d.l, h |-> d.h, len |-> d.len ]
        /\ d.l = kv.l /\ d.h = kv.h
        /\ IF job[c] \in Edge
           THEN /\ d.e = kv.e \cup {EdgeRow(job[c])}
                /\ d.n = kv.n \cup Endpoints(job[c])
                /\ d.p = kv.p \cup PremiseRows(job[c])
                /\ d.c = kv.c \cup {<<Hash(conclusion[job[c]]), Hash(job[c])>>}
                /\ d.o = kv.o \cup {<<Hash(premises[job[c]][i]), Hash(job[c])>>
                                        : i \in DOMAIN premises[job[c]]}
           ELSE d = kv
    BY <1>1 DEF DatabaseShape, RegisterEdge
  <1>3. kv' = AppendKeys(d, seq[c], entry[c])
    BY DEF CommitBatch
  <1> HIDE DEF d
  <1>4. /\ kv'.l = Set(d.l, seq[c], entry[c]) /\ kv'.h = Set(d.h, seq[c], entry[c].entry_hash)
        /\ kv'.len = seq[c] + 1
        /\ kv'.n = d.n /\ kv'.e = d.e /\ kv'.p = d.p /\ kv'.c = d.c /\ kv'.o = d.o
        /\ kv' = [ n |-> kv'.n, e |-> kv'.e, p |-> kv'.p, c |-> kv'.c, o |-> kv'.o,
                   l |-> kv'.l, h |-> kv'.h, len |-> kv'.len ]
    BY <1>2, <1>3 DEF AppendKeys
  <1> QED
    BY <1>2, <1>4 DEF DatabaseShape

\* The entry that is committed, and who moves.
LEMMA CommitFacts ==
    ASSUME GoInvariant, NEW c \in Call, CommitBatch(c)
    PROVE  /\ seq[c] \in Nat /\ job[c] \in Payload
           /\ entry[c] \in EntryRow /\ verify_entry(entry[c])
           /\ entry[c].seq = seq[c] /\ entry[c].payload = job[c]
           /\ entry[c].signer_pubkey = DaemonKey
           /\ \A s \in Nat : s < seq[c] => s \in DOMAIN kv.l
           /\ job[c] \in Edge => \A i \in DOMAIN Puts(job[c]) : Puts(job[c])[i] \in objects
           /\ pc'[c] = "return" /\ UNCHANGED <<objects, job, todo, seq, entry, acked>>
           /\ \A d \in Call \ {c} : Same(d)
           /\ CallTypes'
  <1> USE DEF GoInvariant
  <1>1. /\ pc[c] = "commit" /\ pc' = [pc EXCEPT ![c] = "return"]
        /\ UNCHANGED <<objects, job, todo, seq, entry, acked>>
    BY DEF CommitBatch, Goto
  <1>2. /\ seq[c] \in Nat /\ job[c] \in Payload
        /\ \A s \in Nat : s < seq[c] => s \in DOMAIN kv.l
        /\ job[c] \in Edge => \A i \in DOMAIN Puts(job[c]) : Puts(job[c])[i] \in objects
    BY <1>1 DEF CallTypes, CallInvariant, BlobsFirst
  <1>3. PICK link \in Link : entry[c] = LogEntry(seq[c], DaemonKey, job[c], link)
    BY <1>1 DEF CallInvariant
  <1>4. /\ entry[c] \in EntryRow /\ verify_entry(entry[c])
        /\ entry[c].seq = seq[c] /\ entry[c].payload = job[c]
        /\ entry[c].signer_pubkey = DaemonKey
    BY <1>2, <1>3, LogEntryFacts
  <1>5. pc'[c] = "return" /\ (\A d \in Call \ {c} : Same(d)) /\ CallTypes'
    BY <1>1 DEF CallTypes, Same, Label
  <1> QED
    BY <1>1, <1>2, <1>4, <1>5

\* The edge that is registered is new in all five prefixes, or changes none of them.
LEMMA IndexRowsKept ==
    ASSUME GoInvariant, NEW c \in Call, CommitBatch(c)
    PROVE  /\ IndexRows'
           /\ Registered' = IF job[c] \in Edge THEN Registered \cup {job[c]} ELSE Registered
  <1> USE DEF GoInvariant
  <1>1. CASE job[c] \in Edge
    <2> DEFINE x == job[c]
    <2>1. /\ kv'.e = kv.e \cup {EdgeRow(x)}
          /\ kv'.n = kv.n \cup Endpoints(x)
          /\ kv'.p = kv.p \cup PremiseRows(x)
          /\ kv'.c = kv.c \cup {<<Hash(conclusion[x]), Hash(x)>>}
          /\ kv'.o = kv.o \cup {<<Hash(premises[x][i]), Hash(x)>> : i \in DOMAIN premises[x]}
          /\ x \in Edge
      BY <1>1, BatchEffect
    <2> HIDE DEF x
    <2>2. Registered' = Registered \cup {x}
      BY <2>1, EdgeFacts DEF Registered, EdgeRow
    <2>3. kv'.e = {EdgeRow(e) : e \in Registered'}
      BY <2>1, <2>2 DEF IndexRows
    <2>4. kv'.n = UNION {Endpoints(e) : e \in Registered'}
      BY <2>1, <2>2 DEF IndexRows
    <2>5. kv'.p = UNION {PremiseRows(e) : e \in Registered'}
      BY <2>1, <2>2 DEF IndexRows
    <2>6. kv'.c = {<<Hash(conclusion[e]), Hash(e)>> : e \in Registered'}
      BY <2>1, <2>2 DEF IndexRows
    <2>7. kv'.o = UNION {{<<Hash(premises[e][i]), Hash(e)>> : i \in DOMAIN premises[e]}
                            : e \in Registered'}
      BY <2>1, <2>2 DEF IndexRows
    <2>8. IndexRows'
      BY <2>3, <2>4, <2>5, <2>6, <2>7 DEF IndexRows, EdgeRow, Endpoints, PremiseRows
    <2> QED
      BY <1>1, <2>2, <2>8 DEF x
  <1>2. CASE job[c] \notin Edge
    <2>1. /\ kv'.e = kv.e /\ kv'.n = kv.n /\ kv'.p = kv.p /\ kv'.c = kv.c /\ kv'.o = kv.o
      BY <1>2, BatchEffect
    <2>2. Registered' = Registered
      BY <2>1 DEF Registered, EdgeRow
    <2> QED
      BY <1>2, <2>1, <2>2 DEF IndexRows, EdgeRow, Endpoints, PremiseRows
  <1> QED
    BY <1>1, <1>2

LEMMA CommitPreserves ==
    ASSUME GoInvariant, NEW c \in Call, CommitBatch(c)
    PROVE  GoInvariant'
  <1> USE DEF GoInvariant
  <1> DEFINE s == seq[c]
             r == entry[c]
  <1>1. /\ s \in Nat /\ r \in EntryRow /\ verify_entry(r) /\ r.seq = s /\ r.payload = job[c]
        /\ \A t \in Nat : t < s => t \in DOMAIN kv.l
        /\ UNCHANGED <<objects, job, todo, seq, entry, acked>>
        /\ pc'[c] = "return" /\ \A d \in Call \ {c} : Same(d)
    BY CommitFacts
  <1>2. kv'.l = Set(kv.l, s, r) /\ kv'.h = Set(kv.h, s, r.entry_hash) /\ kv'.len = s + 1
    BY BatchEffect
  <1>3. kv.e \subseteq kv'.e /\ (job[c] \in Edge => EdgeRow(job[c]) \in kv'.e)
    BY BatchEffect
  <1> HIDE DEF s, r
  <1>4. /\ DOMAIN kv.l = DOMAIN kv.h /\ DOMAIN kv.l \subseteq Nat
        /\ DOMAIN kv'.l = DOMAIN kv.l \cup {s} /\ DOMAIN kv'.h = DOMAIN kv'.l
        /\ kv'.l[s] = r /\ kv'.h[s] = r.entry_hash
        /\ \A t \in DOMAIN kv.l : t # s => kv'.l[t] = kv.l[t] /\ kv'.h[t] = kv.h[t]
    <2>1. DOMAIN kv.l = DOMAIN kv.h /\ DOMAIN kv.l \subseteq Nat
      BY DEF OverlapSound, GoTypeOK
    <2>2. /\ DOMAIN kv'.l = DOMAIN kv.l \cup {s} /\ kv'.l[s] = r
          /\ \A t \in DOMAIN kv.l : t # s => kv'.l[t] = kv.l[t]
      BY <1>2 DEF Set
    <2>3. /\ DOMAIN kv'.h = DOMAIN kv.h \cup {s} /\ kv'.h[s] = r.entry_hash
          /\ \A t \in DOMAIN kv.h : t # s => kv'.h[t] = kv.h[t]
      BY <1>2 DEF Set
    <2> QED
      BY <2>1, <2>2, <2>3
  <1>5. CallTypes' /\ DatabaseShape' /\ IndexRows'
    BY CommitFacts, BatchEffect, IndexRowsKept
  <1>6. GoTypeOK'
    <2>1. kv'.len \in Nat
      BY <1>1, <1>2
    <2>2. \A t \in DOMAIN kv'.l : kv'.l[t] \in EntryRow
      BY <1>1, <1>4 DEF OverlapSound, GoTypeOK, EntryRow
    <2> QED
      BY <1>1, <1>4, <2>1, <2>2 DEF OverlapSound, GoTypeOK, EntryRow
  <1>7. EntriesSound'
    <2>1. 0 .. kv'.len - 1 \subseteq DOMAIN kv'.l
      BY <1>1, <1>2, <1>4
    <2>2. \A t \in DOMAIN kv'.l :
              kv'.l[t].seq = t /\ kv'.h[t] = kv'.l[t].entry_hash /\ verify_entry(kv'.l[t])
      BY <1>1, <1>4 DEF OverlapSound, EntriesSound
    <2> QED
      BY <2>1, <2>2 DEF EntriesSound, verify_entry, Verify, Sign, SignatureMessage, Hash
  <1>8. GraphSound'
    <2>1. \A e \in Edge : EdgeRow(e) \in kv'.e => \A i \in DOMAIN Puts(e) : Puts(e)[i] \in objects
      <3> SUFFICES ASSUME NEW e \in Edge, EdgeRow(e) \in kv'.e
                   PROVE  \A i \in DOMAIN Puts(e) : Puts(e)[i] \in objects
        OBVIOUS
      <3>1. CASE EdgeRow(e) \in kv.e
        BY <3>1 DEF OverlapSound, GraphSound
      <3>2. CASE EdgeRow(e) \notin kv.e
        <4>1. job[c] \in Edge /\ EdgeRow(e) = EdgeRow(job[c])
          BY <3>2, BatchEffect
        <4>2. e = job[c]
          BY <4>1, EdgeFacts
        <4> QED
          BY <4>1, <4>2, CommitFacts
      <3> QED
        BY <3>1, <3>2
    <2>2. \A x \in acked : x.payload \in Edge => EdgeRow(x.payload) \in kv'.e
      BY <1>3 DEF OverlapSound, GraphSound
    <2> QED
      BY <1>1, <2>1, <2>2 DEF GraphSound, Puts, EdgeRow
  <1>9. \A d \in Call : CallInvariant(d)'
    <2>1. \A d \in Call \ {c} : CallInvariant(d)'
      BY <1>1, <1>3, <1>4, OthersKept
    <2>2. CallInvariant(c)'
      <3>1. BlobsFirst(c)'
        BY <1>1, CommitFacts, BlobsFirstNext
      <3>2. /\ entry'[c] \in EntryRow /\ entry'[c].payload = job'[c]
            /\ job'[c] \in Edge => EdgeRow(job'[c]) \in kv'.e
            /\ job'[c] \in Payload
        BY <1>1, <1>3, CommitFacts DEF r
      <3> QED
        BY <1>1, <3>1, <3>2 DEF CallInvariant, EntryRow, LogRow, EdgeRow
    <2> QED
      BY <2>1, <2>2
  <1>10. DOMAIN kv'.l \subseteq Nat
    BY <1>1, <1>4
  <1>11. OverlapSound'
    BY <1>6, <1>7, <1>8 DEF OverlapSound
  <1> QED
    BY <1>5, <1>9, <1>10, <1>11
-----------------------------------------------------------------------------
LEMMA InitInvariant == Init => GoInvariant
  <1> SUFFICES ASSUME Init
               PROVE  GoInvariant
    OBVIOUS
  <1> USE DEF Init, EmptyDB
  <1>1. CallTypes
    BY DEF CallTypes, Label
  <1>2. OverlapSound
    <2>1. GoTypeOK
      BY DEF GoTypeOK
    <2>2. EntriesSound
      BY DEF EntriesSound
    <2>3. GraphSound
      BY DEF GraphSound
    <2> QED
      BY <2>1, <2>2, <2>3 DEF OverlapSound
  <1>3. DatabaseShape /\ DOMAIN kv.l \subseteq Nat
    BY DEF DatabaseShape
  <1>4. IndexRows
    BY DEF IndexRows, Registered
  <1>5. \A c \in Call : CallInvariant(c)
    BY DEF CallInvariant, BlobsFirst
  <1> QED
    BY <1>1, <1>2, <1>3, <1>4, <1>5 DEF GoInvariant

LEMMA StepInvariant == GoInvariant /\ [Next]_vars => GoInvariant'
  <1> SUFFICES ASSUME GoInvariant, [Next]_vars
               PROVE  GoInvariant'
    OBVIOUS
  <1>1. ASSUME NEW c \in Call,
               \/ (\E e \in Edge : StartCommit(c, e)) \/ \E r \in Raw : StartAppend(c, r)
               \/ Put(c) \/ LenInBatch(c) \/ PrevHashInBatch(c) \/ CommitBatch(c)
               \/ Return(c) \/ Fail(c)
        PROVE  GoInvariant'
    BY <1>1, StartPreserves, PutPreserves, LenInBatchPreserves, PrevHashPreserves,
       CommitPreserves, ReturnPreserves
  <1>2. CASE UNCHANGED unheard
    <2> USE <1>2 DEF unheard, GoInvariant
    <2>1. CallTypes' /\ DatabaseShape' /\ DOMAIN kv'.l \subseteq Nat /\ IndexRows'
      BY DEF CallTypes, DatabaseShape, IndexRows, Registered
    <2>2. OverlapSound'
      BY DEF OverlapSound, GoTypeOK, EntriesSound, GraphSound
    <2>3. \A c \in Call : CallInvariant(c)'
      BY OthersKept DEF Same
    <2> QED
      BY <2>1, <2>2, <2>3
  <1>3. UNCHANGED vars \/ (\E c \in Call : Abandon(c)) => UNCHANGED unheard
    BY DEF vars, Abandon, unheard
  <1> QED
    BY <1>1, <1>2, <1>3, CrashPreserves DEF Next

\* The invariant holds in every execution of the daemon.
THEOREM GoInvariantHolds == Spec => []GoInvariant
  BY InitInvariant, StepInvariant, PTL DEF Spec

\* Whatever calls overlap: no number below Len() is missing, every entry is stored under
\* its own number beside its own hash and verifies, the graph names stored blobs only,
\* and an edge that was answered for is in the graph.
THEOREM OverlapIsSound == Spec => []OverlapSound
  <1>1. GoInvariant => OverlapSound
    BY DEF GoInvariant
  <1> QED
    BY <1>1, GoInvariantHolds, PTL

-----------------------------------------------------------------------------
(***************************************************************************)
(* What the index answers.                                                 *)
(***************************************************************************)

\* A row of a prefix comes from a registered edge.
LEMMA RowsComeFromEdges ==
    ASSUME GoInvariant
    PROVE  /\ \A x : x \in kv.e <=> \E e \in Registered : x = <<Hash(e), Hash(conclusion[e])>>
           /\ \A x : x \in kv.c <=> \E e \in Registered : x = <<Hash(conclusion[e]), Hash(e)>>
           /\ \A x : x \in kv.o <=> \E e \in Registered : \E i \in DOMAIN premises[e] :
                                        x = <<Hash(premises[e][i]), Hash(e)>>
           /\ \A x : x \in kv.p <=> \E e \in Registered : \E i \in DOMAIN premises[e] :
                                        x = <<Hash(e), i, Hash(premises[e][i])>>
           /\ \A e \in Registered : Endpoints(e) \subseteq kv.n
  <1> USE DEF GoInvariant, IndexRows
  <1>1. \A x : x \in kv.e <=> \E e \in Registered : x = <<Hash(e), Hash(conclusion[e])>>
    BY DEF EdgeRow
  <1>2. \A x : x \in kv.c <=> \E e \in Registered : x = <<Hash(conclusion[e]), Hash(e)>>
    OBVIOUS
  <1>3. \A x : x \in kv.o <=> \E e \in Registered : \E i \in DOMAIN premises[e] :
                                  x = <<Hash(premises[e][i]), Hash(e)>>
    OBVIOUS
  <1>4. \A x : x \in kv.p <=> \E e \in Registered : x \in PremiseRows(e)
    OBVIOUS
  <1>5. \A e \in Registered : Endpoints(e) \subseteq kv.n
    OBVIOUS
  <1> QED
    BY <1>1, <1>2, <1>3, <1>4, <1>5 DEF PremiseRows

\* The connectivity of a registered edge is that of its record.
LEMMA ConnectivityIsRecorded ==
    ASSUME GoInvariant, NEW e \in Registered
    PROVE  /\ GetConnectivity(Hash(e)).conclusion = Hash(conclusion[e])
           /\ DOMAIN GetConnectivity(Hash(e)).premises = DOMAIN premises[e]
           /\ \A i \in DOMAIN premises[e] :
                  GetConnectivity(Hash(e)).premises[i] = Hash(premises[e][i])
  <1> DEFINE rows == {r \in kv.p : r[1] = Hash(e)}
             record(i) == <<Hash(e), i, Hash(premises[e][i])>>
             third(i) == (CHOOSE r \in rows : r[2] = i)[3]
             positions == {r[2] : r \in rows}
             end == (CHOOSE t \in kv.e : t[1] = Hash(e))[2]
  <1>1. \A f \in Registered : Hash(f) = Hash(e) => f = e
    BY HashInjective
  <1>2. \A r : r \in rows <=> \E i \in DOMAIN premises[e] : r = record(i)
    <2>1. ASSUME NEW r \in rows
          PROVE  \E i \in DOMAIN premises[e] : r = record(i)
      <3>1. PICK f \in Registered : \E i \in DOMAIN premises[f] :
                                        r = <<Hash(f), i, Hash(premises[f][i])>>
        BY RowsComeFromEdges
      <3> QED
        BY <1>1, <3>1
    <2>2. ASSUME NEW i \in DOMAIN premises[e]
          PROVE  record(i) \in rows
      BY RowsComeFromEdges
    <2> QED
      BY <2>1, <2>2
  <1> HIDE DEF rows
  <1>3. positions = DOMAIN premises[e]
    <2>1. \A r \in rows : r[2] \in DOMAIN premises[e]
      BY <1>2
    <2>2. \A i \in DOMAIN premises[e] : record(i) \in rows /\ record(i)[2] = i
      BY <1>2
    <2> HIDE DEF record
    <2>3. \A i \in DOMAIN premises[e] : i \in positions
      BY <2>2
    <2> QED
      BY <2>1, <2>3
  <1>4. ASSUME NEW i \in DOMAIN premises[e]
        PROVE  third(i) = Hash(premises[e][i])
    <2>1. record(i) \in rows /\ record(i)[2] = i
      BY <1>2
    <2>2. \A r \in rows : r[2] = i => r = record(i)
      BY <1>2
    <2> DEFINE chosen == CHOOSE r \in rows : r[2] = i
    <2>3. chosen \in rows /\ chosen[2] = i
      BY <2>1
    <2>4. third(i) = chosen[3]
      OBVIOUS
    <2> HIDE DEF chosen, third
    <2>5. chosen = record(i)
      BY <2>2, <2>3
    <2> QED
      BY <2>4, <2>5
  <1>5. end = Hash(conclusion[e])
    <2> DEFINE row == <<Hash(e), Hash(conclusion[e])>>
    <2>1. row \in kv.e /\ row[1] = Hash(e)
      BY RowsComeFromEdges
    <2>2. \A t \in kv.e : t[1] = Hash(e) => t = row
      BY <1>1, RowsComeFromEdges
    <2> DEFINE chosen == CHOOSE t \in kv.e : t[1] = Hash(e)
    <2>3. chosen \in kv.e /\ chosen[1] = Hash(e)
      BY <2>1
    <2>4. end = chosen[2]
      OBVIOUS
    <2> HIDE DEF chosen, end
    <2>5. chosen = row
      BY <2>2, <2>3
    <2> QED
      BY <2>4, <2>5
  <1>6. GetConnectivity(Hash(e)) = [premises |-> [i \in positions |-> third(i)], conclusion |-> end]
    BY DEF GetConnectivity, rows
  <1> HIDE DEF third, positions, end
  <1> QED
    BY <1>3, <1>4, <1>5, <1>6

LEMMA IndexRowsAgree == GoInvariant => IndexesAgree
  <1> SUFFICES ASSUME GoInvariant
               PROVE  IndexesAgree
    OBVIOUS
  <1>1. \A h : h \in AllEdges <=> \E e \in Registered : h = Hash(e)
    <2>1. \A h : h \in AllEdges <=> \E k \in kv.e : k[1] = h
      BY DEF AllEdges
    <2>2. \A e \in Registered : <<Hash(e), Hash(conclusion[e])>> \in kv.e
      BY RowsComeFromEdges
    <2>3. \A k \in kv.e : \E e \in Registered : k[1] = Hash(e)
      BY RowsComeFromEdges
    <2> QED
      BY <2>1, <2>2, <2>3
  <1>2. \A n, h : h \in IncomingEdges(n) <=>
                      \E e \in Registered : h = Hash(e) /\ n = Hash(conclusion[e])
    <2>1. \A n, h : h \in IncomingEdges(n) <=> \E k \in kv.c : k[1] = n /\ k[2] = h
      BY DEF IncomingEdges
    <2>2. ASSUME NEW e \in Registered
          PROVE  \E k \in kv.c : k[1] = Hash(conclusion[e]) /\ k[2] = Hash(e)
      <3>1. <<Hash(conclusion[e]), Hash(e)>> \in kv.c
        BY RowsComeFromEdges
      <3> QED
        BY <3>1
    <2>3. \A k \in kv.c : \E e \in Registered : k[2] = Hash(e) /\ k[1] = Hash(conclusion[e])
      BY RowsComeFromEdges
    <2>4. ASSUME NEW n, NEW h, h \in IncomingEdges(n)
          PROVE  \E e \in Registered : h = Hash(e) /\ n = Hash(conclusion[e])
      BY <2>1, <2>3, <2>4
    <2>5. ASSUME NEW n, NEW e \in Registered, n = Hash(conclusion[e])
          PROVE  Hash(e) \in IncomingEdges(n)
      BY <2>1, <2>2, <2>5
    <2> QED
      BY <2>4, <2>5
  <1>3. \A n, h : h \in OutgoingEdges(n) <=>
                      \E e \in Registered : \E i \in DOMAIN premises[e] :
                          h = Hash(e) /\ n = Hash(premises[e][i])
    <2>1. \A n, h : h \in OutgoingEdges(n) <=> \E k \in kv.o : k[1] = n /\ k[2] = h
      BY DEF OutgoingEdges
    <2>2. ASSUME NEW e \in Registered, NEW i \in DOMAIN premises[e]
          PROVE  \E k \in kv.o : k[1] = Hash(premises[e][i]) /\ k[2] = Hash(e)
      <3>1. <<Hash(premises[e][i]), Hash(e)>> \in kv.o
        BY RowsComeFromEdges
      <3> QED
        BY <3>1
    <2>3. ASSUME NEW k \in kv.o
          PROVE  \E e \in Registered : \E i \in DOMAIN premises[e] :
                     k[2] = Hash(e) /\ k[1] = Hash(premises[e][i])
      <3>1. PICK e \in Registered : \E i \in DOMAIN premises[e] :
                              k = <<Hash(premises[e][i]), Hash(e)>>
        BY RowsComeFromEdges
      <3> QED
        BY <3>1
    <2> QED
      BY <2>1, <2>2, <2>3
  <1>4. \A n : IncomingEdges(n) \cup OutgoingEdges(n) \subseteq AllEdges
    BY <1>1, <1>2, <1>3
  <1>5. \A e \in Registered : Endpoints(e) \subseteq kv.n
    BY RowsComeFromEdges
  <1>6. ASSUME NEW h \in AllEdges, NEW n \in Address
        PROVE  LET c == GetConnectivity(h)
               IN  /\ h \in IncomingEdges(n) <=> c.conclusion = n
                   /\ h \in OutgoingEdges(n) <=> \E i \in DOMAIN c.premises : c.premises[i] = n
                   /\ n = c.conclusion \/ h \in OutgoingEdges(n) => n \in kv.n
    <2>1. PICK e \in Registered : h = Hash(e)
      BY <1>1
    <2>2. /\ GetConnectivity(h).conclusion = Hash(conclusion[e])
          /\ DOMAIN GetConnectivity(h).premises = DOMAIN premises[e]
          /\ \A i \in DOMAIN premises[e] :
                 GetConnectivity(h).premises[i] = Hash(premises[e][i])
      BY <2>1, ConnectivityIsRecorded
    <2>3. /\ h \in IncomingEdges(n) <=> Hash(conclusion[e]) = n
          /\ h \in OutgoingEdges(n) <=> \E i \in DOMAIN premises[e] : Hash(premises[e][i]) = n
      <3>1. \A f \in Registered : Hash(f) = Hash(e) => f = e
        BY HashInjective
      <3> QED
        BY <1>2, <1>3, <2>1, <3>1
    <2>4. n = Hash(conclusion[e]) \/ h \in OutgoingEdges(n) => n \in kv.n
      BY <1>5, <2>3 DEF Endpoints
    <2> QED
      BY <2>2, <2>3, <2>4
  <1> QED
    BY <1>4, <1>6 DEF IndexesAgree

\* The two adjacency indexes, the premise rows and the edge records always tell the
\* same graph, whatever commits overlap.
THEOREM IndexesAlwaysAgree == Spec => []IndexesAgree
  BY GoInvariantHolds, IndexRowsAgree, PTL
-----------------------------------------------------------------------------
(***************************************************************************)
(* Batches apart.  Handlers whose batches overlap may take the same number *)
(* and the same link, and an answered entry is then lost (the run that     *)
(* expects a violation shows it).  What follows holds for any number of    *)
(* calls, abandoned ones included, with blobs put and answers sent at any  *)
(* time, as long as a handler reads the length only when no other handler  *)
(* has read it and not yet committed.  The daemon does not see to that.  A *)
(* single client that waits for its answers does, and if it gives a call   *)
(* up only as long as it makes no other before the handler has ended.      *)
(***************************************************************************)

InBatch(c) == pc[c] \in {"prev", "commit"}

BatchesApart == \A c, d \in Call : InBatch(c) /\ InBatch(d) => c = d

OneCallAtATime == \A c, d \in Call : c = d

Stored(r) == r.seq < kv.len /\ kv.l[r.seq] = r

\* Every entry of the log links to the one before it.
LinksRight ==
    \A s \in Nat : s < kv.len =>
        kv.l[s].prev_log_hash = IF s = 0 THEN GENESIS_PREV_HASH ELSE kv.h[s - 1]

\* What a handler has read is still so when it commits.
ReadsCurrent(c) ==
    /\ pc[c] \in {"prev", "commit"} => seq[c] = kv.len
    /\ pc[c] = "commit" =>
           entry[c].prev_log_hash = IF kv.len = 0 THEN GENESIS_PREV_HASH ELSE kv.h[kv.len - 1]
    /\ pc[c] = "return" => Stored(entry[c])

SerialInvariant ==
    /\ GoInvariant
    /\ LinksRight
    /\ GoAckedDurable
    /\ \A c \in Call : ReadsCurrent(c)

LEMMA SerialInit == Init => SerialInvariant
  BY InitInvariant
     DEF Init, EmptyDB, SerialInvariant, LinksRight, GoAckedDurable, ReadsCurrent, Stored

\* Steps that leave the database alone.
LEMMA SerialQuiet ==
    ASSUME SerialInvariant, GoInvariant', NEW c \in Call, UNCHANGED kv,
           \A d \in Call \ {c} : Same(d), ReadsCurrent(c)',
           \A r \in acked' \ acked : Stored(r)
    PROVE  SerialInvariant'
  <1>1. \A d \in Call : ReadsCurrent(d)'
    BY DEF SerialInvariant, ReadsCurrent, Stored, Same
  <1>2. LinksRight' /\ GoAckedDurable'
    BY DEF SerialInvariant, LinksRight, GoAckedDurable, Stored
  <1> QED
    BY <1>1, <1>2 DEF SerialInvariant

LEMMA SerialCommit ==
    ASSUME SerialInvariant, BatchesApart, GoInvariant', NEW c \in Call, CommitBatch(c)
    PROVE  /\ SerialInvariant'
           /\ seq[c] = kv.len /\ kv'.len = kv.len + 1 /\ kv'.l[kv.len] = entry[c]
           /\ \A s \in Nat : s < kv.len => kv'.l[s] = kv.l[s]
  <1> DEFINE n == kv.len
             r == entry[c]
  <1>1. GoInvariant /\ pc[c] = "commit"
    BY DEF SerialInvariant, CommitBatch
  <1>2. /\ n \in Nat /\ seq[c] = n /\ r.seq = n
        /\ r.prev_log_hash = IF n = 0 THEN GENESIS_PREV_HASH ELSE kv.h[n - 1]
        /\ pc'[c] = "return" /\ entry'[c] = r /\ acked' = acked
    BY <1>1, CommitFacts
       DEF SerialInvariant, ReadsCurrent, GoInvariant, OverlapSound, GoTypeOK
  <1>3. kv'.l = Set(kv.l, n, r) /\ kv'.h = Set(kv.h, n, r.entry_hash) /\ kv'.len = n + 1
    BY <1>1, <1>2, BatchEffect
  <1> HIDE DEF n, r
  <1>4. \A s \in Nat : s < n => s \in DOMAIN kv.l /\ s \in DOMAIN kv.h
    <2>1. DOMAIN kv.l = DOMAIN kv.h /\ 0 .. n - 1 \subseteq DOMAIN kv.l
      BY <1>1 DEF GoInvariant, OverlapSound, EntriesSound, GoTypeOK, n
    <2>2. \A s \in Nat : s < n => s \in 0 .. n - 1
      BY <1>2
    <2> QED
      BY <2>1, <2>2
  <1>5. kv'.l[n] = r /\ \A s \in Nat : s < n => kv'.l[s] = kv.l[s]
    BY <1>2, <1>3, <1>4 DEF Set
  <1>6. kv'.h[n] = r.entry_hash /\ \A s \in Nat : s < n => kv'.h[s] = kv.h[s]
    BY <1>2, <1>3, <1>4 DEF Set
  <1>7. LinksRight'
    <2> SUFFICES ASSUME NEW s \in Nat, s < n + 1
                 PROVE  kv'.l[s].prev_log_hash = IF s = 0 THEN GENESIS_PREV_HASH ELSE kv'.h[s - 1]
      BY <1>3 DEF LinksRight
    <2>1. s # 0 => kv'.h[s - 1] = kv.h[s - 1]
      BY <1>2, <1>6
    <2>2. CASE s = n
      BY <1>2, <1>5, <2>1, <2>2
    <2>3. CASE s < n
      BY <1>5, <2>1, <2>3 DEF SerialInvariant, LinksRight, n
    <2> QED
      BY <1>2, <2>2, <2>3
  <1>8. GoAckedDurable'
    <2> SUFFICES ASSUME NEW x \in acked
                 PROVE  x.seq < n + 1 /\ kv'.l[x.seq] = x
      BY <1>2, <1>3 DEF GoAckedDurable
    <2>1. x.seq \in Nat /\ x.seq < n /\ kv.l[x.seq] = x
      BY <1>1 DEF SerialInvariant, GoAckedDurable, GoInvariant, OverlapSound, GoTypeOK, LogRow, n
    <2> QED
      BY <1>2, <1>5, <2>1
  <1>9. ReadsCurrent(c)'
    BY <1>2, <1>3, <1>5 DEF ReadsCurrent, Stored
  \* No other handler is in its batch, and an entry that is about to be answered stays.
  <1>10. \A d \in Call : ReadsCurrent(d)'
    <2> SUFFICES ASSUME NEW d \in Call \ {c}
                 PROVE  ReadsCurrent(d)'
      BY <1>9
    <2>1. Same(d) /\ pc[d] \notin {"prev", "commit"}
      BY <1>1, CommitFacts DEF BatchesApart, InBatch
    <2>2. ASSUME pc[d] = "return"
          PROVE  entry[d].seq < n + 1 /\ kv'.l[entry[d].seq] = entry[d]
      <3>1. entry[d].seq \in Nat
        BY <1>1, <2>2 DEF GoInvariant, CallInvariant, EntryRow, LogRow
      <3>2. entry[d].seq < n /\ kv.l[entry[d].seq] = entry[d]
        BY <2>2 DEF SerialInvariant, ReadsCurrent, Stored, n
      <3> QED
        BY <1>2, <1>5, <3>1, <3>2
    <2> QED
      BY <1>3, <2>1, <2>2 DEF ReadsCurrent, Stored, Same
  <1>11. SerialInvariant'
    BY <1>7, <1>8, <1>10 DEF SerialInvariant
  <1> QED
    BY <1>2, <1>3, <1>5, <1>11 DEF n, r

LEMMA SerialStep == BatchesApart /\ SerialInvariant /\ [Next]_vars => SerialInvariant'
  <1> SUFFICES ASSUME BatchesApart, SerialInvariant, [Next]_vars
               PROVE  SerialInvariant'
    OBVIOUS
  <1>0. GoInvariant /\ GoInvariant' /\ CallTypes
    BY StepInvariant DEF SerialInvariant, GoInvariant
  <1>1. ASSUME NEW c \in Call, CommitBatch(c)
        PROVE  SerialInvariant'
    BY <1>0, <1>1, SerialCommit
  <1>2. ASSUME NEW c \in Call,
               \/ \E e \in Edge : StartCommit(c, e)
               \/ \E r \in Raw : StartAppend(c, r)
               \/ Put(c) \/ Fail(c)
        PROVE  SerialInvariant'
    <2>1. pc'[c] \in {"put", "idle"} /\ UNCHANGED <<kv, acked>>
      BY <1>0, <1>2 DEF StartCommit, StartAppend, Put, Fail, Idle, Goto, CallTypes
    <2>2. ReadsCurrent(c)'
      BY <2>1 DEF ReadsCurrent
    <2>3. \A d \in Call \ {c} : Same(d)
      BY <1>0, <1>2 DEF StartCommit, StartAppend, Put, Fail, Idle, Goto, CallTypes, Same
    <2> QED
      BY <1>0, <2>1, <2>2, <2>3, SerialQuiet
  <1>3. ASSUME NEW c \in Call, LenInBatch(c)
        PROVE  SerialInvariant'
    <2>1. pc'[c] = "prev" /\ seq'[c] = kv.len /\ UNCHANGED <<kv, acked>>
      BY <1>0, <1>3 DEF LenInBatch, Goto, CallTypes
    <2>2. ReadsCurrent(c)'
      BY <2>1 DEF ReadsCurrent
    <2>3. \A d \in Call \ {c} : Same(d)
      BY <1>0, <1>3 DEF LenInBatch, Goto, CallTypes, Same
    <2> QED
      BY <1>0, <2>1, <2>2, <2>3, SerialQuiet
  <1>4. ASSUME NEW c \in Call, PrevHashInBatch(c)
        PROVE  SerialInvariant'
    <2>1. /\ pc'[c] = "commit" /\ UNCHANGED <<kv, acked>> /\ seq'[c] = seq[c]
          /\ pc[c] = "prev"
          /\ entry'[c].prev_log_hash = IF seq[c] = 0 THEN GENESIS_PREV_HASH ELSE kv.h[seq[c] - 1]
      BY <1>0, <1>4, PrevHashPreserves DEF PrevHashInBatch, Goto, CallTypes
    <2>2. ReadsCurrent(c)'
      BY <2>1 DEF SerialInvariant, ReadsCurrent
    <2>3. \A d \in Call \ {c} : Same(d)
      BY <1>0, <1>4 DEF PrevHashInBatch, Goto, CallTypes, Same
    <2> QED
      BY <1>0, <2>1, <2>2, <2>3, SerialQuiet
  <1>5. ASSUME NEW c \in Call, Return(c)
        PROVE  SerialInvariant'
    <2>1. /\ pc'[c] = "idle" /\ UNCHANGED kv /\ pc[c] = "return"
          /\ acked' \subseteq acked \cup {entry[c]}
      BY <1>0, <1>5 DEF Return, Idle, CallTypes
    <2>2. ReadsCurrent(c)' /\ Stored(entry[c])
      BY <2>1 DEF SerialInvariant, ReadsCurrent
    <2>3. \A d \in Call \ {c} : Same(d)
      BY <1>0, <1>5 DEF Return, Idle, CallTypes, Same
    <2> QED
      BY <1>0, <2>1, <2>2, <2>3, SerialQuiet
  <1>6. CASE CrashDaemon \/ UNCHANGED vars \/ \E c \in Call : Abandon(c)
    <2>0. CrashDaemon \/ UNCHANGED unheard
      BY <1>6 DEF vars, Abandon, unheard
    <2>1. UNCHANGED <<kv, acked>>
      BY <2>0 DEF CrashDaemon, unheard
    <2>2. \A c \in Call : ReadsCurrent(c)'
      BY <2>0 DEF CrashDaemon, unheard, SerialInvariant, ReadsCurrent, Stored
    <2>3. LinksRight' /\ GoAckedDurable'
      BY <2>1 DEF SerialInvariant, LinksRight, GoAckedDurable
    <2> QED
      BY <1>0, <2>2, <2>3 DEF SerialInvariant
  <1> QED
    BY <1>1, <1>2, <1>3, <1>4, <1>5, <1>6 DEF Next

\* If batches are apart, every read of a handler is still right when it commits.
THEOREM SerialInvariantHolds == Spec /\ []BatchesApart => []SerialInvariant
  BY SerialInit, SerialStep, PTL DEF Spec

\* The log is one verified chain from the genesis sentinel, whatever fails and whenever
\* the daemon is killed, as long as batches are apart.
THEOREM GoLogIsChained == Spec /\ []BatchesApart => []GoHashChain
  <1>1. ASSUME SerialInvariant
        PROVE  GoHashChain
    <2>1. kv.len \in Nat /\ DOMAIN Entries = 1 .. kv.len
      BY <1>1 DEF SerialInvariant, GoInvariant, OverlapSound, GoTypeOK, Entries
    <2> SUFFICES ASSUME NEW i \in 1 .. kv.len
                 PROVE  /\ verify_entry(Entries[i])
                        /\ Entries[i].prev_log_hash =
                               IF i = 1 THEN GENESIS_PREV_HASH ELSE Entries[i - 1].entry_hash
      BY <2>1 DEF GoHashChain, ChainVerifies
    <2>2. /\ Entries[i] = kv.l[i - 1] /\ i - 1 \in Nat /\ i - 1 < kv.len
          /\ i # 1 => Entries[i - 1] = kv.l[i - 2] /\ i - 2 \in 0 .. kv.len - 1
      BY <2>1 DEF Entries
    <2>3. /\ verify_entry(kv.l[i - 1])
          /\ i # 1 => kv.h[i - 2] = kv.l[i - 2].entry_hash
      <3>1. i - 1 \in DOMAIN kv.l /\ (i # 1 => i - 2 \in DOMAIN kv.l)
        <4>1. 0 .. kv.len - 1 \subseteq DOMAIN kv.l
          BY <1>1 DEF SerialInvariant, GoInvariant, OverlapSound, EntriesSound
        <4>2. i - 1 \in 0 .. kv.len - 1 /\ (i # 1 => i - 2 \in 0 .. kv.len - 1)
          BY <2>1, <2>2
        <4> QED
          BY <4>1, <4>2
      <3>2. EntriesSound
        BY <1>1 DEF SerialInvariant, GoInvariant, OverlapSound
      <3> QED
        BY <3>1, <3>2 DEF EntriesSound
    <2>4. kv.l[i - 1].prev_log_hash =
              IF i - 1 = 0 THEN GENESIS_PREV_HASH ELSE kv.h[(i - 1) - 1]
      BY <1>1, <2>2 DEF SerialInvariant, LinksRight
    <2> QED
      BY <2>1, <2>2, <2>3, <2>4
  <1> QED
    BY <1>1, SerialInvariantHolds, PTL

\* An entry that a client got as its answer stays in the log at its number, as long as
\* batches are apart.
THEOREM GoAnsweredEntriesStay == Spec /\ []BatchesApart => []GoAckedDurable
  <1>1. SerialInvariant => GoAckedDurable
    BY DEF SerialInvariant
  <1> QED
    BY <1>1, SerialInvariantHolds, PTL
-----------------------------------------------------------------------------
(***************************************************************************)
(* The refinement: the commit of a batch is one step of the ledger, and    *)
(* everything else is a stutter.                                           *)
(***************************************************************************)

EntriesBar ==
    [i \in DOMAIN Entries |->
        [signer |-> Entries[i].signer_pubkey, payload |-> Entries[i].payload]]

\* One committed batch is one appended entry of the abstract log.
LEMMA EntriesExtended ==
    ASSUME SerialInvariant, BatchesApart, GoInvariant', NEW c \in Call, CommitBatch(c)
    PROVE  EntriesBar' = Append(EntriesBar, [signer |-> DaemonKey, payload |-> job[c]])
  <1> DEFINE n == kv.len
             Bar(r) == [signer |-> r.signer_pubkey, payload |-> r.payload]
             new == Bar(entry[c])
  <1>1. n \in Nat /\ GoInvariant
    BY DEF SerialInvariant, GoInvariant, OverlapSound, GoTypeOK
  <1>2. kv'.len = n + 1 /\ kv'.l[n] = entry[c] /\ \A s \in Nat : s < n => kv'.l[s] = kv.l[s]
    BY SerialCommit
  <1>3. new = [signer |-> DaemonKey, payload |-> job[c]]
    BY <1>1, CommitFacts
  <1>4. EntriesBar = [i \in 1 .. n |-> Bar(kv.l[i - 1])]
    BY <1>1 DEF EntriesBar, Entries
  <1>5. EntriesBar' = [i \in 1 .. n + 1 |-> Bar(kv'.l[i - 1])]
    BY <1>1, <1>2 DEF EntriesBar, Entries
  <1> HIDE DEF n, Bar
  <1>6. \A i \in 1 .. n + 1 : Bar(kv'.l[i - 1]) = IF i <= n THEN EntriesBar[i] ELSE new
    <2> SUFFICES ASSUME NEW i \in 1 .. n + 1
                 PROVE  Bar(kv'.l[i - 1]) = IF i <= n THEN EntriesBar[i] ELSE new
      OBVIOUS
    <2>1. CASE i = n + 1
      BY <1>1, <1>2, <2>1
    <2>2. CASE i # n + 1
      <3>1. i \in 1 .. n /\ i - 1 \in Nat /\ i - 1 < n
        BY <1>1, <2>2
      <3> QED
        BY <1>2, <1>4, <3>1
    <2> QED
      BY <2>1, <2>2
  <1> HIDE DEF new
  <1>7. Append(EntriesBar, new) = [i \in 1 .. n + 1 |-> IF i <= n THEN EntriesBar[i] ELSE new]
    <2>1. Len(EntriesBar) = n
      BY <1>1, <1>4
    <2> QED
      BY <1>1, <1>4, <2>1
  <1> QED
    BY <1>3, <1>5, <1>6, <1>7

\* The Go engine implements the atomic ledger, as long as batches are apart: every
\* read, failure and restart is a stutter.
THEOREM GoEngineImplementsLedger == Spec /\ []BatchesApart => GoImplementsLedger
  <1>1. Init => L!LedgerInit
    BY DEF Init, EmptyDB, L!LedgerInit, Entries
  <1>2. ASSUME SerialInvariant, BatchesApart, [Next]_vars
        PROVE  [L!LedgerNext]_(L!ledgerVars)
    <2>0. GoInvariant /\ GoInvariant'
      BY <1>2, StepInvariant DEF SerialInvariant
    <2>1. CASE kv' = kv
      BY <2>1 DEF L!ledgerVars, Entries, EdgeRow
    <2>2. ASSUME NEW c \in Call, CommitBatch(c)
          PROVE  L!LedgerNext
      <3>1. EntriesBar' = Append(EntriesBar, [signer |-> DaemonKey, payload |-> job[c]])
        BY <1>2, <2>0, <2>2, EntriesExtended
      <3>2. Registered' = IF job[c] \in Edge THEN Registered \cup {job[c]} ELSE Registered
        BY <2>0, <2>2, IndexRowsKept
      <3>3. job[c] \in Edge \cup Raw
        BY <2>0, <2>2, CommitFacts DEF Payload
      <3>4. CASE job[c] \in Edge
        <4>1. PICK e \in Edge : e = job[c]
          BY <3>4
        <4>2. L!CommitEdge(DaemonKey, e)
          BY <3>1, <3>2, <4>1 DEF L!CommitEdge, EntriesBar, Registered
        <4> QED
          BY <4>2 DEF L!LedgerNext
      <3>5. CASE job[c] \notin Edge
        <4>1. PICK r \in Raw : r = job[c]
          BY <3>3, <3>5
        <4>2. L!AppendRaw(DaemonKey, r)
          BY <3>1, <3>2, <3>5, <4>1 DEF L!AppendRaw, EntriesBar, Registered
        <4> QED
          BY <4>2 DEF L!LedgerNext
      <3> QED
        BY <3>4, <3>5
    <2>3. kv' = kv \/ \E c \in Call : CommitBatch(c)
      BY <1>2 DEF Next, StartCommit, StartAppend, Put, LenInBatch, PrevHashInBatch, Return,
                  Abandon, Fail, CrashDaemon, vars
    <2> QED
      BY <2>1, <2>2, <2>3
  <1> QED
    BY <1>1, <1>2, SerialInvariantHolds, PTL DEF Spec, GoImplementsLedger, L!LedgerSpec

\* If the daemon is at work on one call at a time, those that their clients have given up
\* included, nothing else has to be assumed: whatever fails, is given up or is killed, its
\* log is a durable chain, and it implements the ledger.
THEOREM OneCallSuffices ==
    ASSUME OneCallAtATime
    PROVE  Spec => [](GoHashChain /\ GoAckedDurable) /\ GoImplementsLedger
  <1>1. BatchesApart
    BY DEF OneCallAtATime, BatchesApart
  <1> QED
    BY <1>1, GoLogIsChained, GoAnsweredEntriesStay, GoEngineImplementsLedger, PTL
==============================================================================
