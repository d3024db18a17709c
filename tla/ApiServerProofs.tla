--------------------------- MODULE ApiServerProofs ---------------------------
(***************************************************************************)
(* The answers of the API server are right although every one of them      *)
(* comes from several reads of a storage that other processes write        *)
(* meanwhile, for all records and all clients.                             *)
(***************************************************************************)
EXTENDS ApiServer, MerkleLog, WellFoundedInduction, SequenceTheorems, FiniteSetTheorems, TLAPS

USE EdgeRecordsAssumption, ApiServerAssumption

\* The lemmas about the pure operators; they do not depend on a log in particular.
Op == INSTANCE OperatorProofs WITH PremiseSet <- PremiseSets

-----------------------------------------------------------------------------
(***************************************************************************)
(* The inductive invariant: storage first.                                 *)
(***************************************************************************)

Keys == {ServerKey, AuthorKey}

Rows == {LogEntry(n, key, p, link) : n \in Nat, key \in Keys, p \in Payload, link \in Link}

\* The log is a chain, and the blobs of its edges are there.
Whole ==
    /\ log \in Seq(Rows) /\ log # <<>>
    /\ ChainVerifies(log)
    /\ \A e \in Edge, i \in DOMAIN log : log[i].payload = e => Absentees(e) = {}

\* The reads for a request come one after another, so they see longer and longer logs.
Reads ==
    /\ reads \in Seq(Nat)
    /\ \A i \in DOMAIN reads : reads[i] >= 1 /\ reads[i] <= Len(log)
    /\ \A i, j \in DOMAIN reads : i <= j => reads[i] <= reads[j]

EdgeKinds == {"reproduce", "attest"}

Control ==
    /\ request \in Request \cup {NoRequest}
    /\ request = NoRequest => pc = "idle"
    /\ request # NoRequest => reads # <<>>
    /\ pc = "read" /\ request.kind = "verify_history" => pinned # None /\ Len(reads) = 1

-----------------------------------------------------------------------------
(***************************************************************************)
(* What the handlers know, and what their answers say, in terms of reads.  *)
(***************************************************************************)

\* The edge in hand is the one that was asked for.
EdgeInHand == report.edge \in Edge /\ request.address = Hash(report.edge)

\* The search of the log found nothing else, and missed nothing that was there in time.
SignedRight ==
    /\ report.signed => report.edge \in Graph(Len(log))
    /\ report.edge \in Graph(reads[1]) => report.signed

Reports == [edge : Edge \cup {None}, agrees : BOOLEAN, signed : BOOLEAN]

NotCommitted == \A e \in Edge : ~AboutCommitted(e)

Attested ==
    LET a == IF request.kind = "attest" THEN answer.body ELSE answer.body.attestation
    IN  /\ \E b \in BOOLEAN :
               /\ a = [named |-> signer[report.edge] \in Named, signed |-> report.signed, bound |-> b]
               /\ b => BlobThere(report.edge)
               /\ report.edge \in Graph(reads[1]) => b
        /\ request.kind = "reproduce" /\ answer.body.reproduced => Ok(a)

\* The answer is not a report.
Unreported ==
    pc = "idle" /\ answer # None /\ request.kind \in EdgeKinds /\ answer.status # 200

Handling ==
    /\ report \in Reports
    /\ pc \in {"resolve", "nodes", "proof", "search", "bind"} => request.kind \in EdgeKinds
    /\ pc \in {"nodes", "proof", "search", "bind"} => EdgeInHand
    /\ pc = "bind" => SignedRight
    /\ Unreported => NotCommitted \/ answer.body \in {"refused", "internal error"}
    /\ Answered(EdgeKinds, 200) => EdgeInHand /\ SignedRight /\ Attested

\* The two reads of the graph, whatever was missing from the object store then.
GraphRead ==
    Answered({"graph"}, 200) =>
        /\ Len(reads) = 3
        /\ answer.body = [nodes |-> Nodes(reads[2]), edges |-> Graph(reads[3])]

\* A client's anchor names a length that the log has had.
Pinned == pinned # None => pinned.of \in 1 .. Len(log) /\ pinned.root_hash = Root(pinned.of)

HistoryRead ==
    Answered({"verify_history"}, 200) =>
        /\ pinned # None /\ Len(reads) = 2
        /\ answer.body.valid = (Root(reads[2]) = pinned.root_hash)

ApiInvariant ==
    Whole /\ Reads /\ Control /\ Handling /\ GraphRead /\ Pinned /\ HistoryRead

-----------------------------------------------------------------------------
(***************************************************************************)
(* Facts about the values.                                                 *)
(***************************************************************************)

LEMMA HashInjective == \A x, y : Hash(x) = Hash(y) => x = y
  BY DEF Hash

\* Min returns a member.
LEMMA LeastElement ==
    ASSUME NEW S \in SUBSET Nat, S # {}
    PROVE  Min(S) \in S /\ \A m \in S : Min(S) <= m
  <1> DEFINE R == OpToRel(<, Nat)
  <1>1. IsWellFoundedOn(R, Nat)
    BY NatLessThanWellFounded
  <1>2. \A x, y \in Nat : y < x => <<y, x>> \in R
    BY DEF OpToRel
  <1> HIDE DEF R
  <1>3. PICK n \in S : \A m \in S : ~(<<m, n>> \in R)
    BY <1>1, WFMin
  <1>4. \A m \in S : n <= m
    <2> SUFFICES ASSUME NEW m \in S
                 PROVE  n <= m
      OBVIOUS
    <2>1. m \in Nat /\ n \in Nat /\ ~(m < n)
      BY <1>2, <1>3
    <2> QED
      BY <2>1
  <1>5. \E x \in S : \A y \in S : x =< y
    BY <1>4
  <1>6. Min(S) \in S /\ \A y \in S : Min(S) =< y
    BY <1>5 DEF Min
  <1> QED
    BY <1>6

LEMMA RowValues ==
    ASSUME NEW r \in Rows
    PROVE  r.payload \in Payload /\ r.entry_hash = Hash(r.payload) /\ verify_entry(r)
  BY DEF Rows, LogEntry, verify_entry, Verify

\* What commit appends is a row, of this edge and linked to the row before it.
LEMMA RowBuilt ==
    ASSUME NEW n \in Nat, NEW key \in Keys, NEW e \in Edge, NEW r \in Rows
    PROVE  /\ LogEntry(n, key, e, r.entry_hash) \in Rows
           /\ LogEntry(n, key, e, r.entry_hash).payload = e
           /\ LogEntry(n, key, e, r.entry_hash).prev_log_hash = r.entry_hash
  <1>1. r.entry_hash \in Link /\ e \in Payload
    BY RowValues DEF Link, Address, Payload
  <1>2. LogEntry(n, key, e, r.entry_hash) \in Rows
    BY <1>1 DEF Rows
  <1> QED
    BY <1>2 DEF LogEntry

\* The blobs of an edge: its nodes, then its record, then its proof.
LEMMA PutsValues ==
    ASSUME NEW e \in Edge
    PROVE  LET m == Len(premises[e])
           IN  /\ m \in Nat /\ DOMAIN premises[e] = 1 .. m
               /\ DOMAIN Puts(e) = 1 .. (IF proof[e] = None THEN m + 2 ELSE m + 3)
               /\ \A i \in 1 .. m : Puts(e)[i] = Hash(premises[e][i])
               /\ Puts(e)[m + 1] = Hash(conclusion[e])
               /\ Puts(e)[m + 2] = Hash(e)
               /\ proof[e] # None => Puts(e)[m + 3] = Hash(proof[e])
  <1> DEFINE m == Len(premises[e])
             A == [i \in DOMAIN premises[e] |-> Hash(premises[e][i])]
             B == <<Hash(conclusion[e]), Hash(e)>>
             C == IF proof[e] = None THEN <<>> ELSE <<Hash(proof[e])>>
  <1>1. premises[e] \in Seq(Node) /\ m \in Nat /\ DOMAIN premises[e] = 1 .. m
    OBVIOUS
  <1> DEFINE T == {Hash(d) : d \in Node} \cup {Hash(conclusion[e]), Hash(e), Hash(proof[e])}
  <1>2. A \in Seq(T) /\ Len(A) = m /\ \A i \in 1 .. m : A[i] = Hash(premises[e][i])
    BY <1>1
  <1>3. B \in Seq(T) /\ Len(B) = 2 /\ B[1] = Hash(conclusion[e]) /\ B[2] = Hash(e)
    OBVIOUS
  <1>4. /\ C \in Seq(T) /\ Len(C) = (IF proof[e] = None THEN 0 ELSE 1)
        /\ proof[e] # None => C[1] = Hash(proof[e])
    <2>1. CASE proof[e] = None
      BY <2>1
    <2>2. CASE proof[e] # None
      BY <2>2
    <2> QED
      BY <2>1, <2>2
  <1>5. Puts(e) = (A \o B) \o C
    BY DEF Puts
  <1> HIDE DEF A, B, C, T, m
  <1>6. /\ A \o B \in Seq(T) /\ Len(A \o B) = m + 2
        /\ \A i \in 1 .. m : (A \o B)[i] = A[i]
        /\ (A \o B)[m + 1] = B[1] /\ (A \o B)[m + 2] = B[2]
    <2>1. /\ A \o B \in Seq(T) /\ Len(A \o B) = m + 2
          /\ \A i \in 1 .. m + 2 : (A \o B)[i] = IF i <= m THEN A[i] ELSE B[i - m]
      <3>1. /\ A \o B \in Seq(T) /\ Len(A \o B) = Len(A) + Len(B)
            /\ \A i \in 1 .. Len(A) + Len(B) :
                   (A \o B)[i] = IF i <= Len(A) THEN A[i] ELSE B[i - Len(A)]
        <4>1. A \in Seq(T) /\ B \in Seq(T)
          BY <1>2, <1>3
        <4> QED
          BY <4>1, ConcatProperties
      <3> QED
        BY <1>2, <1>3, <3>1
    <2>2. m + 1 \in 1 .. m + 2 /\ m + 2 \in 1 .. m + 2 /\ (m + 1) - m = 1 /\ (m + 2) - m = 2
      BY <1>1
    <2> QED
      BY <1>1, <2>1, <2>2
  <1>7. /\ DOMAIN ((A \o B) \o C) = 1 .. (IF proof[e] = None THEN m + 2 ELSE m + 3)
        /\ \A i \in 1 .. m + 2 : ((A \o B) \o C)[i] = (A \o B)[i]
        /\ proof[e] # None => ((A \o B) \o C)[m + 3] = C[1]
    <2>1. /\ (A \o B) \o C \in Seq(T) /\ Len((A \o B) \o C) = m + 2 + Len(C)
          /\ \A i \in 1 .. m + 2 + Len(C) :
                 ((A \o B) \o C)[i] = IF i <= m + 2 THEN (A \o B)[i] ELSE C[i - (m + 2)]
      <3> DEFINE AB == A \o B
      <3>1. AB \in Seq(T) /\ Len(AB) = m + 2
        BY <1>6
      <3> HIDE DEF AB
      <3>2. /\ AB \o C \in Seq(T) /\ Len(AB \o C) = Len(AB) + Len(C)
            /\ \A i \in 1 .. Len(AB) + Len(C) :
                   (AB \o C)[i] = IF i <= Len(AB) THEN AB[i] ELSE C[i - Len(AB)]
        <4>1. AB \in Seq(T) /\ C \in Seq(T)
          BY <1>4, <3>1
        <4> QED
          BY <4>1, ConcatProperties
      <3>3. /\ AB \o C \in Seq(T) /\ Len(AB \o C) = m + 2 + Len(C)
            /\ \A i \in 1 .. m + 2 + Len(C) :
                   (AB \o C)[i] = IF i <= m + 2 THEN AB[i] ELSE C[i - (m + 2)]
        BY <3>1, <3>2
      <3> QED
        BY <3>3 DEF AB
    <2>2. DOMAIN ((A \o B) \o C) = 1 .. m + 2 + Len(C)
      BY <2>1
    <2>3. (m + 3) - (m + 2) = 1
      BY <1>1
    <2>4. CASE proof[e] = None
      BY <1>1, <1>4, <2>1, <2>2, <2>4
    <2>5. CASE proof[e] # None
      <3>1. Len(C) = 1 /\ m + 3 \in 1 .. m + 2 + Len(C) /\ ~(m + 3 <= m + 2)
        BY <1>1, <1>4, <2>5
      <3>2. ((A \o B) \o C)[m + 3] = C[1]
        BY <2>1, <2>3, <3>1
      <3>3. DOMAIN ((A \o B) \o C) = 1 .. m + 3
        BY <1>1, <2>2, <3>1
      <3>4. \A i \in 1 .. m + 2 : i \in 1 .. m + 2 + Len(C) /\ i <= m + 2
        BY <1>1, <3>1
      <3> QED
        BY <2>1, <2>5, <3>2, <3>3, <3>4
    <2> QED
      BY <2>4, <2>5
  <1> QED
    BY <1>1, <1>2, <1>3, <1>4, <1>5, <1>6, <1>7 DEF m

\* All blobs of an edge are there exactly if its record, its nodes and its proof are.
LEMMA BlobsOfAnEdge ==
    ASSUME NEW e \in Edge, Absentees(e) = {}
    PROVE  Hash(e) \in objects /\ Endpoints(e) \subseteq objects /\ BlobThere(e)
  <1> DEFINE m == Len(premises[e])
  <1>1. \A i \in DOMAIN Puts(e) : Puts(e)[i] \in objects
    BY DEF Absentees
  <1>2. m \in Nat /\ DOMAIN premises[e] = 1 .. m
    BY PutsValues
  <1>3. \A i \in 1 .. m + 2 : i \in DOMAIN Puts(e)
    <2>1. DOMAIN Puts(e) = 1 .. (IF proof[e] = None THEN m + 2 ELSE m + 3)
      BY PutsValues
    <2>2. CASE proof[e] = None
      BY <2>1, <2>2
    <2>3. CASE proof[e] # None
      BY <1>2, <2>1, <2>3
    <2> QED
      BY <2>2, <2>3
  <1>4. Hash(e) \in objects /\ Hash(conclusion[e]) \in objects
    <2>1. m + 1 \in 1 .. m + 2 /\ m + 2 \in 1 .. m + 2
      BY <1>2
    <2>2. Puts(e)[m + 1] \in objects /\ Puts(e)[m + 2] \in objects
      BY <1>1, <1>3, <2>1
    <2>3. Puts(e)[m + 1] = Hash(conclusion[e]) /\ Puts(e)[m + 2] = Hash(e)
      BY PutsValues
    <2> QED
      BY <2>2, <2>3
  <1>5. \A i \in 1 .. m : Hash(premises[e][i]) \in objects
    <2>1. \A i \in 1 .. m : Puts(e)[i] = Hash(premises[e][i])
      BY PutsValues
    <2>2. \A i \in 1 .. m : i \in 1 .. m + 2
      BY <1>2
    <2>3. \A i \in 1 .. m : Puts(e)[i] \in objects
      BY <1>1, <1>3, <2>2
    <2> QED
      BY <2>1, <2>3
  <1>6. BlobThere(e)
    <2> SUFFICES ASSUME proof[e] # None
                 PROVE  Hash(proof[e]) \in objects
      BY DEF BlobThere
    <2>1. DOMAIN Puts(e) = 1 .. m + 3 /\ Puts(e)[m + 3] = Hash(proof[e])
      BY PutsValues
    <2>2. m + 3 \in DOMAIN Puts(e)
      BY <1>2, <2>1
    <2> QED
      BY <1>1, <2>1, <2>2
  <1> QED
    BY <1>2, <1>4, <1>5, <1>6 DEF Endpoints

-----------------------------------------------------------------------------
(***************************************************************************)
(* Storage grows, and what a length of the log stands for does not change. *)
(***************************************************************************)

LEMMA RequestValues ==
    /\ request \in Request /\ request.kind = "commit" => request.edge \in Edge
    /\ request \in Request /\ request.kind = "path" => request.target \in Targets
    /\ NoRequest.kind = "none"
  BY DEF Request, NoRequest

LEMMA SecondRead ==
    ASSUME NEW r \in Seq(Nat), Len(r) = 2
    PROVE  2 \in DOMAIN r /\ r[2] \in Nat
  <1>1. 2 \in 1 .. Len(r)
    OBVIOUS
  <1>2. DOMAIN r = 1 .. Len(r)
    BY LenProperties
  <1> QED
    BY <1>1, <1>2, ElementOfSeq

LEMMA NumberAppended ==
    \A r \in Seq(Nat), n \in Nat :
        /\ Len(Append(r, n)) = Len(r) + 1
        /\ \A i \in 1 .. Len(r) : Append(r, n)[i] = r[i]
        /\ Append(r, n)[Len(r) + 1] = n
  OBVIOUS

LEMMA SecondAppended ==
    ASSUME NEW r \in Seq(Nat), NEW n \in Nat, Len(r) = 1
    PROVE  Len(Append(r, n)) = 2 /\ Append(r, n)[2] = n
  <1> DEFINE s == Append(r, n)
  <1>1. Len(s) = Len(r) + 1 /\ s[Len(r) + 1] = n
    BY NumberAppended, Zenon
  <1> HIDE DEF s
  <1>2. Len(s) = 2 /\ s[2] = n
    BY <1>1
  <1> QED
    BY <1>2, Zenon DEF s

LEMMA ThirdAppended ==
    ASSUME NEW r \in Seq(Nat), NEW n \in Nat, Len(r) = 2
    PROVE  Len(Append(r, n)) = 3 /\ Append(r, n)[2] = r[2] /\ Append(r, n)[3] = n
  <1> DEFINE s == Append(r, n)
  <1>1. Len(s) = Len(r) + 1 /\ s[Len(r) + 1] = n /\ \A i \in 1 .. Len(r) : s[i] = r[i]
    BY NumberAppended, Zenon
  <1> HIDE DEF s
  <1>2. 2 \in 1 .. Len(r)
    OBVIOUS
  <1>3. Len(s) = 3 /\ s[2] = r[2] /\ s[3] = n
    BY <1>1, <1>2
  <1> QED
    BY <1>3, Zenon DEF s

\* A handler that gives up changes nothing but the answer.
LEMMA GivenUp ==
    ASSUME Refuse \/ Fails
    PROVE  /\ pc # "idle" /\ pc' = "idle"
           /\ answer'.status # 200 /\ answer'.body \in {"refused", "internal error"}
           /\ UNCHANGED <<objects, log, request, reads, walk, report, pinned>>
  <1> USE DEF Respond, storageVars, localVars
  <1>1. CASE Refuse
    BY <1>1 DEF Refuse, FirstStep
  <1>2. CASE Fails
    <2>1. answer' = [status |-> 500, body |-> "internal error"]
      BY <1>2 DEF Fails
    <2>2. answer'.body = "internal error"
      BY <2>1
    <2>3. answer'.status # 200
      <3>1. answer'.status = 500
        BY <2>1
      <3> QED
        BY <3>1
    <2>4. /\ pc # "idle" /\ pc' = "idle"
          /\ UNCHANGED <<objects, log, request, reads, walk, report, pinned>>
      BY <1>2 DEF Fails
    <2> QED
      BY <2>2, <2>3, <2>4, Zenon
  <1> QED
    BY <1>1, <1>2

\* What a step does to the storage.
LEMMA StorageStep ==
    ASSUME Control, [Next]_vars
    PROVE  \/ UNCHANGED storageVars
           \/ log' = log /\ \E e \in Edge : PutBlob(e)
           \/ objects' = objects /\ \E e \in Edge, key \in Keys : CommitBy(key, e)
  <1>1. CASE \E e \in Edge : AuthorPut(e) \/ AuthorCommit(e)
    BY <1>1 DEF AuthorPut, AuthorCommit, Keys
  <1>2. CASE (\E r \in Request : Receive(r)) \/ Refuse \/ Fails \/ Restart
    BY <1>2, GivenUp DEF Receive, Restart, storageVars
  <1>3. CASE \/ query_reachable \/ PathLabels \/ PathWalk \/ PathEnd \/ GraphNodes \/ GraphEdges
             \/ AnchorRoot \/ AnchorCount \/ verify_history
    BY <1>3 DEF query_reachable, PathLabels, PathWalk, PathEnd, GraphNodes, GraphEdges, AnchorRoot,
                AnchorCount, verify_history, Respond, Goto, storageVars
  <1>4. CASE \/ ResolveEdge \/ ResolveNodes \/ ReVerify \/ SearchLog \/ CheckBinding
             \/ CommitVerdict
    <2> USE DEF Respond, Goto, storageVars
    <2>1. CASE ResolveEdge \/ ResolveNodes
      BY <2>1 DEF ResolveEdge, ResolveNodes
    <2>2. CASE ReVerify \/ SearchLog
      BY <2>2 DEF ReVerify, SearchLog
    <2>3. CASE CheckBinding
      BY <2>3 DEF CheckBinding
    <2>4. CASE CommitVerdict
      BY <2>4 DEF CommitVerdict
    <2> QED
      BY <1>4, <2>1, <2>2, <2>3, <2>4
  <1>5. CASE CommitPut \/ CommitEdge
    <2>1. request.kind = "commit" /\ request \in Request
      BY <1>5 DEF CommitPut, CommitEdge, At, Control
    <2>2. request.edge \in Edge
      BY <2>1, RequestValues
    <2> QED
      BY <1>5, <2>2 DEF CommitPut, CommitEdge, Keys
  <1>6. CASE UNCHANGED vars
    BY <1>6 DEF vars, storageVars
  <1> QED
    BY <1>1, <1>2, <1>3, <1>4, <1>5, <1>6 DEF Next, Handle

\* Nothing is lost.
Grows ==
    /\ objects \subseteq objects'
    /\ log' \in Seq(Rows) /\ Len(log') \in Nat /\ Len(log) \in Nat /\ Len(log) <= Len(log')
    /\ \A i \in 1 .. Len(log) : log'[i] = log[i]

LEMMA StorageGrows ==
    ASSUME Whole, Control, [Next]_vars
    PROVE  /\ Grows
           /\ \/ log' = log
              \/ \E e \in Edge :
                     /\ Absentees(e) = {} /\ objects' = objects
                     /\ Len(log') = Len(log) + 1 /\ log'[Len(log')] \in Rows
                     /\ log'[Len(log')].payload = e
                     /\ log'[Len(log')].prev_log_hash = log[Len(log)].entry_hash
  <1>0. log \in Seq(Rows) /\ Len(log) \in Nat /\ Len(log) >= 1
    BY DEF Whole
  <1>1. CASE UNCHANGED storageVars
    BY <1>0, <1>1 DEF Grows, storageVars
  <1>2. CASE log' = log /\ \E e \in Edge : PutBlob(e)
    BY <1>0, <1>2 DEF Grows, PutBlob
  <1>3. CASE objects' = objects /\ \E e \in Edge, key \in Keys : CommitBy(key, e)
    <2>1. PICK e \in Edge, key \in Keys : CommitBy(key, e)
      BY <1>3
    <2> DEFINE n == Len(log)
               last == log[n]
               r == LogEntry(n, key, e, last.entry_hash)
    <2>2. n \in Nat /\ last \in Rows
      BY <1>0
    <2>3. log' = Append(log, r) /\ Absentees(e) = {}
      BY <2>1 DEF CommitBy
    <2> HIDE DEF n, last
    <2>4. r \in Rows /\ r.payload = e /\ r.prev_log_hash = last.entry_hash
      BY <2>2, RowBuilt
    <2>5. r \in Rows /\ r.payload = e /\ r.prev_log_hash = log[Len(log)].entry_hash
      BY <2>4 DEF n, last
    <2> HIDE DEF r
    <2>6. /\ log' \in Seq(Rows) /\ Len(log') = Len(log) + 1 /\ log'[Len(log) + 1] = r
          /\ \A i \in 1 .. Len(log) : log'[i] = log[i]
      BY <1>0, <2>5, <2>3
    <2> QED
      BY <1>0, <1>3, <2>5, <2>3, <2>6 DEF Grows
  <1> QED
    BY <1>1, <1>2, <1>3, StorageStep

\* The graph, the nodes and the root of a length that the log has had are fixed.
LEMMA PastIsFixed ==
    ASSUME Grows, NEW n \in 0 .. Len(log)
    PROVE  /\ Graph(n)' = Graph(n) /\ Nodes(n)' = Nodes(n) /\ Root(n)' = Root(n)
           /\ \A e \in Edge :
                  (\E i \in 1 .. n : log'[i].payload = e) <=> (\E i \in 1 .. n : log[i].payload = e)
  <1>1. \A i \in 1 .. n : log'[i] = log[i]
    BY DEF Grows
  <1>2. Graph(n)' = Graph(n)
    BY <1>1 DEF Graph
  <1>3. EntryHashes(n)' = EntryHashes(n)
    BY <1>1 DEF EntryHashes
  <1>4. Nodes(n)' = Nodes(n)
    BY <1>2 DEF Nodes, Endpoints
  <1>5. Root(n)' = Root(n)
    BY <1>3 DEF Root, root_hash, Levels, NextLevel, LeafNode, InternalNode, EmptyRoot
  <1> QED
    BY <1>1, <1>2, <1>4, <1>5

LEMMA WholeStep == ASSUME Whole, Control, [Next]_vars PROVE Whole'
  <1>0. log \in Seq(Rows) /\ Len(log) \in Nat /\ Len(log) >= 1 /\ Grows
    BY StorageGrows DEF Whole
  <1>1. log' \in Seq(Rows) /\ log' # <<>>
    BY <1>0 DEF Grows
  <1>2. \A i \in DOMAIN log' : i \in 1 .. Len(log) \/ (i = Len(log) + 1 /\ i = Len(log') /\ log' # log)
    BY <1>0, StorageGrows DEF Grows
  <1>3. ChainVerifies(log')
    <2> SUFFICES ASSUME NEW i \in DOMAIN log'
                 PROVE  /\ verify_entry(log'[i])
                        /\ log'[i].prev_log_hash =
                               IF i = 1 THEN GENESIS_PREV_HASH ELSE log'[i - 1].entry_hash
      BY DEF ChainVerifies
    <2>1. CASE i \in 1 .. Len(log)
      <3>1. i \in DOMAIN log /\ log'[i] = log[i]
        BY <1>0, <2>1 DEF Grows
      <3>2. i # 1 => i - 1 \in 1 .. Len(log) /\ log'[i - 1] = log[i - 1]
        BY <1>0, <2>1 DEF Grows
      <3> QED
        BY <3>1, <3>2 DEF Whole, ChainVerifies
    <2>2. CASE i = Len(log) + 1 /\ i = Len(log') /\ log' # log
      <3>1. log'[i] \in Rows /\ log'[i].prev_log_hash = log[Len(log)].entry_hash
        BY <2>2, StorageGrows
      <3>2. i # 1 /\ log'[i - 1] = log[Len(log)]
        BY <1>0, <2>2 DEF Grows
      <3> QED
        BY <3>1, <3>2, RowValues
    <2> QED
      BY <1>2, <2>1, <2>2
  <1>4. ASSUME NEW e \in Edge, NEW i \in DOMAIN log', log'[i].payload = e
        PROVE  Absentees(e)' = {}
    <2>1. Absentees(e) = {}
      <3>1. CASE i \in 1 .. Len(log)
        <4>1. i \in DOMAIN log /\ log'[i] = log[i]
          BY <1>0, <3>1 DEF Grows
        <4> QED
          BY <1>4, <4>1 DEF Whole
      <3>2. CASE i = Len(log') /\ log' # log
        BY <1>4, <3>2, StorageGrows
      <3> QED
        BY <1>2, <3>1, <3>2
    <2> QED
      BY <1>0, <2>1 DEF Grows, Absentees, Puts
  <1> QED
    BY <1>1, <1>3, <1>4 DEF Whole, ChainVerifies, verify_entry, Verify

-----------------------------------------------------------------------------
(***************************************************************************)
(* The server's steps.                                                     *)
(***************************************************************************)

local == <<pc, request, reads, walk, report, pinned, answer>>

EdgeHandler == ResolveEdge \/ ResolveNodes \/ ReVerify \/ SearchLog \/ CheckBinding

\* Every step but that of a writer is one of the handler's for the request at hand.
LEMMA Dispatch ==
    ASSUME [Next]_vars
    PROVE  \/ UNCHANGED local
           \/ \E r \in Request : Receive(r)
           \/ Restart
           \/ /\ pc # "idle" /\ request' = request /\ UNCHANGED log
              /\ reads' \in {reads, Append(reads, Len(log))}
              /\ \/ Refuse \/ Fails
                 \/ request.kind = "reachable" /\ query_reachable
                 \/ request.kind = "path" /\ (PathLabels \/ PathWalk \/ PathEnd)
                 \/ request.kind = "graph" /\ (GraphNodes \/ GraphEdges)
                 \/ request.kind \in EdgeKinds /\ EdgeHandler
                 \/ request.kind = "anchor" /\ (AnchorRoot \/ AnchorCount)
                 \/ request.kind = "verify_history" /\ verify_history
                 \/ request.kind = "commit" /\ CommitVerdict
           \/ request.kind = "commit" /\ CommitEdge
  <1> USE DEF At, Goto, Respond, Reading, EdgeKinds, EdgeHandler, storageVars, localVars
  <1>1. CASE \E e \in Edge : AuthorPut(e) \/ AuthorCommit(e)
    BY <1>1 DEF AuthorPut, AuthorCommit, local
  <1>2. CASE (\E r \in Request : Receive(r)) \/ Restart
    BY <1>2
  <1>3. CASE Refuse \/ Fails
    BY <1>3, GivenUp
  <1>4. CASE query_reachable \/ PathLabels \/ PathWalk \/ PathEnd \/ GraphNodes \/ GraphEdges
    BY <1>4 DEF query_reachable, PathLabels, PathWalk, PathEnd, GraphNodes, GraphEdges
  <1>5. CASE AnchorRoot \/ AnchorCount \/ verify_history
    BY <1>5 DEF AnchorRoot, AnchorCount, verify_history
  <1>6. CASE EdgeHandler
    BY <1>6 DEF ResolveEdge, ResolveNodes, ReVerify, SearchLog, CheckBinding
  <1>7. CASE CommitVerdict
    <2>1. /\ request.kind = "commit" /\ pc = "verify"
          /\ request' = request /\ UNCHANGED log /\ reads' = reads
      BY <1>7 DEF CommitVerdict
    <2>2. pc # "idle"
      BY <2>1
    <2> QED
      BY <1>7, <2>1, <2>2, Zenon
  <1>8. CASE CommitPut \/ CommitEdge
    BY <1>8 DEF CommitPut, CommitEdge, local
  <1>9. CASE UNCHANGED vars
    BY <1>9 DEF vars, local
  <1> QED
    BY <1>1, <1>2, <1>3, <1>4, <1>5, <1>6, <1>7, <1>8, <1>9 DEF Next, Handle

LEMMA ReadsStep == ASSUME Whole, Control, Reads, [Next]_vars PROVE Reads'
  <1>0. /\ Len(log) \in Nat /\ Len(log') \in Nat /\ Len(log) >= 1 /\ Len(log) <= Len(log')
        /\ reads \in Seq(Nat)
        /\ \A i \in DOMAIN reads : reads[i] >= 1 /\ reads[i] <= Len(log)
        /\ \A i, j \in DOMAIN reads : i <= j => reads[i] <= reads[j]
    BY StorageGrows DEF Whole, Grows, Reads
  <1>1. CASE reads' = reads
    BY <1>0, <1>1 DEF Reads
  <1>2. CASE reads' = Append(reads, Len(log))
    <2>1. reads' \in Seq(Nat)
      BY <1>0, <1>2
    <2>2. \A i \in DOMAIN reads' :
              \/ i \in DOMAIN reads /\ reads'[i] = reads[i]
              \/ i = Len(reads) + 1 /\ reads'[i] = Len(log)
      BY <1>0, <1>2
    <2>3. \A i \in DOMAIN reads : i <= Len(reads)
      BY <1>0
    <2>4. \A i \in DOMAIN reads' : reads'[i] >= 1 /\ reads'[i] <= Len(log')
      BY <1>0, <2>2
    <2>5. \A i, j \in DOMAIN reads' : i <= j => reads'[i] <= reads'[j]
      BY <1>0, <2>2, <2>3
    <2> QED
      BY <2>1, <2>4, <2>5 DEF Reads
  <1>3. CASE reads' = <<Len(log)>>
    BY <1>0, <1>3 DEF Reads
  <1>4. CASE reads' = <<>>
    BY <1>4 DEF Reads
  <1>5. \/ reads' \in {reads, Append(reads, Len(log))}
        \/ reads' = <<Len(log)>> \/ reads' = <<>>
    BY Dispatch DEF local, Receive, Restart, CommitEdge
  <1> QED
    BY <1>1, <1>2, <1>3, <1>4, <1>5

LEMMA ControlStep == ASSUME Control, Reads, [Next]_vars PROVE Control'
  <1>1. CASE UNCHANGED local
    BY <1>1 DEF local, Control
  <1>2. CASE \E r \in Request : Receive(r)
    <2>1. PICK r \in Request : Receive(r)
      BY <1>2
    <2>2. r.kind # "none" /\ r # NoRequest
      BY DEF Request, NoRequest
    <2> QED
      BY <2>1, <2>2 DEF Control, Receive, FocusedClient
  <1>3. CASE Restart
    BY <1>3 DEF Restart, Control, NoRequest
  <1>4. CASE request.kind = "commit" /\ CommitEdge
    BY <1>4 DEF CommitEdge, Control, At
  <1>5. CASE /\ pc # "idle" /\ request' = request
             /\ reads' \in {reads, Append(reads, Len(log))}
             /\ pc' = "read" => request.kind # "verify_history"
    <2>1. reads' # <<>>
      BY <1>5 DEF Control, Reads
    <2> QED
      BY <1>5, <2>1 DEF Control
  <1>6. CASE /\ pc # "idle" /\ request' = request /\ pc' = "read"
             /\ request.kind = "verify_history"
    <2>1. UNCHANGED local \/ verify_history
      BY <1>6, Dispatch, GivenUp DEF Receive, Restart, EdgeKinds
    <2> QED
      BY <1>1, <1>6, <2>1 DEF verify_history, Respond
  <1> QED
    BY <1>1, <1>2, <1>3, <1>4, <1>5, <1>6, Dispatch

-----------------------------------------------------------------------------
(***************************************************************************)
(* POST /reproduce and POST /attest.                                       *)
(***************************************************************************)

\* What is committed has its blobs.
LEMMA CommittedIsStored ==
    ASSUME Whole, NEW n \in 0 .. Len(log), NEW e \in Graph(n)
    PROVE  /\ e \in Edge /\ Absentees(e) = {}
           /\ Hash(e) \in objects /\ Endpoints(e) \subseteq objects /\ BlobThere(e)
  <1>1. e \in Edge
    BY DEF Graph
  <1>2. PICK i \in 1 .. n : log[i].payload = e
    BY DEF Graph
  <1>3. Len(log) \in Nat /\ i \in DOMAIN log
    BY DEF Whole
  <1>4. Absentees(e) = {}
    BY <1>1, <1>2, <1>3 DEF Whole
  <1> QED
    BY <1>1, <1>4, BlobsOfAnEdge

\* What the handler knows of an edge stays true while others write.
LEMMA EdgeKnowledgeKept ==
    ASSUME Whole, Reads, Grows, reads # <<>>, UNCHANGED <<request, report>>,
           reads' \in {reads, Append(reads, Len(log))}
    PROVE  /\ EdgeInHand => EdgeInHand'
           /\ report.edge \in Edge /\ SignedRight => SignedRight'
           /\ NotCommitted => NotCommitted'
           /\ BlobThere(report.edge) => BlobThere(report.edge)'
           /\ \A e \in Edge : e \in Graph(reads[1])' => e \in Graph(reads[1])
  <1>1. /\ reads \in Seq(Nat) /\ 1 \in DOMAIN reads /\ reads'[1] = reads[1]
        /\ Len(log) \in Nat /\ Len(log') \in Nat /\ Len(log) <= Len(log')
    <2>1. reads \in Seq(Nat) /\ 1 \in DOMAIN reads
      BY DEF Reads
    <2>2. Len(log) \in Nat /\ Len(log') \in Nat /\ Len(log) <= Len(log')
      BY DEF Grows
    <2>3. Append(reads, Len(log))[1] = reads[1]
      BY <2>1, <2>2
    <2> QED
      BY <2>1, <2>2, <2>3
  <1>2. reads[1] \in 0 .. Len(log) /\ Len(log) \in 0 .. Len(log)
    BY <1>1 DEF Reads
  <1>3. \A e \in Edge : e \in Graph(reads[1])' <=> e \in Graph(reads[1])
    <2>1. \A e \in Edge : (\E i \in 1 .. reads[1] : log'[i].payload = e)
                               <=> (\E i \in 1 .. reads[1] : log[i].payload = e)
      BY <1>2, PastIsFixed
    <2> QED
      BY <1>1, <2>1 DEF Graph
  <1>4. \A e \in Edge : e \in Graph(Len(log)) => e \in Graph(Len(log))'
    BY <1>1 DEF Graph, Grows
  <1>5. EdgeInHand => EdgeInHand'
    BY DEF EdgeInHand, Hash
  <1>6. report.edge \in Edge /\ SignedRight => SignedRight'
    BY <1>3, <1>4 DEF SignedRight
  <1>7. NotCommitted => NotCommitted'
    BY <1>3 DEF NotCommitted, AboutCommitted, Hash
  <1>8. BlobThere(report.edge) => BlobThere(report.edge)'
    BY DEF BlobThere, Grows, Hash
  <1> QED
    BY <1>3, <1>5, <1>6, <1>7, <1>8

\* An edge in the log has its blobs, so one that lacks some is not in the log.
LEMMA HandledIsStored ==
    ASSUME Whole, reads[1] \in 0 .. Len(log), EdgeInHand,
           ~(Endpoints(report.edge) \subseteq objects /\ BlobThere(report.edge))
    PROVE  NotCommitted
  <1> SUFFICES ASSUME NEW e \in Edge, AboutCommitted(e)
               PROVE  FALSE
    BY DEF NotCommitted
  <1>1. e \in Graph(reads[1]) /\ request.address = Hash(e)
    BY DEF AboutCommitted
  <1>2. e = report.edge
    BY <1>1, HashInjective DEF EdgeInHand
  <1>3. Endpoints(e) \subseteq objects /\ BlobThere(e)
    BY <1>1, CommittedIsStored
  <1> QED
    BY <1>2, <1>3

LEMMA EdgeHandlerStep ==
    ASSUME Whole, Reads, Control, Handling, [Next]_vars,
           request.kind \in EdgeKinds, EdgeHandler
    PROVE  Handling'
  <1>0. /\ request' = request /\ request.kind # "none" /\ reads # <<>>
        /\ log' = log /\ objects' = objects /\ report \in Reports
    BY RequestValues DEF EdgeHandler, ResolveEdge, ResolveNodes, ReVerify, SearchLog, CheckBinding,
       Respond, Goto, storageVars, Control, EdgeKinds, Handling
  <1>1. Grows /\ Len(log) \in Nat /\ reads \in Seq(Nat) /\ 1 \in DOMAIN reads
        /\ reads[1] \in 0 .. Len(log) /\ Len(log) \in 0 .. Len(log)
    BY <1>0, StorageGrows DEF Reads, Grows
  <1> USE DEF EdgeKinds
  <1>2. CASE ResolveEdge
    <2>1. CASE \E e \in Edge : request.address = Hash(e) /\ Hash(e) \in objects
      <3> DEFINE chosen == CHOOSE e \in Edge : request.address = Hash(e)
      <3>1. chosen \in Edge /\ request.address = Hash(chosen)
        BY <2>1
      <3>2. report' = [report EXCEPT !.edge = chosen] /\ pc' \in {"nodes", "search"}
        BY <1>2, <2>1 DEF ResolveEdge, Goto
      <3> HIDE DEF chosen
      <3>3. report' \in Reports /\ report'.edge = chosen
        BY <1>0, <3>1, <3>2 DEF Reports
      <3> QED
        BY <1>0, <3>1, <3>2, <3>3 DEF Handling, Answered, Unreported, EdgeInHand, Hash
    <2>2. CASE ~\E e \in Edge : request.address = Hash(e) /\ Hash(e) \in objects
      <3>1. /\ answer' = [status |-> 404, body |-> "edge not found"] /\ pc' = "idle"
            /\ reads' = reads /\ report' = report
        BY <1>2, <2>2 DEF ResolveEdge, Respond, localVars
      <3>2. NotCommitted
        BY <1>1, <2>2, CommittedIsStored DEF NotCommitted, AboutCommitted
      <3>3. NotCommitted'
        BY <1>0, <1>1, <3>1, <3>2, EdgeKnowledgeKept
      <3>4. answer'.status = 404 /\ pc' = "idle" /\ report' \in Reports
        BY <1>0, <3>1
      <3>5. ~Answered(EdgeKinds, 200)'
        BY <3>4 DEF Answered
      <3> QED
        BY <3>3, <3>4, <3>5 DEF Handling
    <2> QED
      BY <2>1, <2>2
  <1>3. CASE ResolveNodes
    <2>0. report' = report /\ reads' = reads /\ EdgeInHand
      BY <1>3 DEF ResolveNodes, At, Goto, Respond, localVars, Handling
    <2>1. CASE pc' = "proof"
      BY <1>0, <1>1, <2>0, <2>1, EdgeKnowledgeKept DEF Handling, Answered, Unreported
    <2>2. CASE ~(Endpoints(report.edge) \subseteq objects)
      <3>1. answer' = [status |-> 500, body |-> "node not resolvable"] /\ pc' = "idle"
        BY <1>3, <2>2 DEF ResolveNodes, Respond
      <3>2. NotCommitted
        BY <1>1, <2>0, <2>2, HandledIsStored
      <3>3. NotCommitted'
        BY <1>0, <1>1, <2>0, <3>2, EdgeKnowledgeKept
      <3>4. answer'.status = 500 /\ pc' = "idle" /\ report' \in Reports
        BY <1>0, <2>0, <3>1
      <3>5. ~Answered(EdgeKinds, 200)'
        BY <3>4 DEF Answered
      <3> QED
        BY <3>3, <3>4, <3>5 DEF Handling
    <2> QED
      BY <1>3, <2>1, <2>2 DEF ResolveNodes, Goto
  <1>4. CASE ReVerify
    <2>0. reads' = reads /\ EdgeInHand
      BY <1>4 DEF ReVerify, At, Goto, Respond, localVars, Handling
    <2>1. /\ pc' = "search"
          /\ \E agrees \in BOOLEAN : report' = [report EXCEPT !.agrees = agrees]
      BY <1>4 DEF ReVerify, Goto
    <2>2. report' \in Reports /\ report'.edge = report.edge
      BY <1>0, <2>1 DEF Reports
    <2> QED
      BY <1>0, <2>0, <2>1, <2>2 DEF Handling, Answered, Unreported, EdgeInHand, Hash
  <1>5. CASE SearchLog
    <2> DEFINE found == FindLogEntry(report.edge)
    <2>1. /\ report' = [report EXCEPT !.signed = found # {} /\ verify_entry(log[Min(found)])]
          /\ reads' = Append(reads, Len(log)) /\ pc' = "bind" /\ EdgeInHand
      BY <1>5 DEF SearchLog, Reading, Goto, At, Handling
    <2>2. found # {} <=> report.edge \in Graph(Len(log))
      <3>1. \A i \in 1 .. Len(log) : log[i].entry_hash = Hash(log[i].payload)
        BY RowValues DEF Whole
      <3>2. found = {i \in 1 .. Len(log) : log[i].payload = report.edge}
        BY <3>1, HashInjective DEF FindLogEntry
      <3>3. report.edge \in Graph(Len(log)) <=> \E i \in 1 .. Len(log) : log[i].payload = report.edge
        BY <2>1 DEF Graph, EdgeInHand
      <3> QED
        BY <3>2, <3>3
    <2>3. found # {} => verify_entry(log[Min(found)])
      <3>1. found \in SUBSET Nat /\ found \subseteq 1 .. Len(log)
        BY <1>1 DEF FindLogEntry
      <3>2. found # {} => Min(found) \in 1 .. Len(log)
        BY <3>1, LeastElement
      <3> QED
        BY <3>2, RowValues DEF Whole
    <2> DEFINE signed == found # {} /\ verify_entry(log[Min(found)])
    <2>4. signed \in BOOLEAN /\ (signed <=> report.edge \in Graph(Len(log)))
      BY <2>2, <2>3
    <2>5. report' = [report EXCEPT !.signed = signed]
      BY <2>1
    <2> HIDE DEF signed, found
    <2>6. report' \in Reports /\ report'.edge = report.edge /\ report'.signed = signed
      BY <1>0, <2>4, <2>5 DEF Reports
    <2>7. EdgeInHand'
      BY <1>0, <2>1, <2>6 DEF EdgeInHand, Hash
    <2>8. SignedRight'
      <3>1. reads'[1] = reads[1]
        BY <1>1, <2>1
      <3>2. Graph(reads[1])' \subseteq Graph(Len(log))
        BY <1>0, <1>1, <3>1 DEF Graph
      <3>3. Graph(Len(log))' = Graph(Len(log))
        BY <1>0 DEF Graph
      <3> QED
        BY <2>4, <2>6, <3>2, <3>3 DEF SignedRight
    <2> QED
      BY <1>0, <2>1, <2>6, <2>7, <2>8 DEF Handling, Answered, Unreported
  <1>6. CASE CheckBinding
    <2>1. /\ pc = "bind" /\ pc' = "idle" /\ reads' = reads /\ report' = report
          /\ answer' = [status |-> 200,
                        body |-> IF request.kind = "attest" THEN Attestation
                                 ELSE [attestation |-> Attestation,
                                       reproduced  |-> report.agrees /\ Ok(Attestation)]]
      BY <1>6 DEF CheckBinding, At, Respond, localVars
    <2>2. EdgeInHand /\ SignedRight
      BY <2>1 DEF Handling
    <2>3. EdgeInHand' /\ SignedRight'
      BY <1>0, <1>1, <2>1, <2>2, EdgeKnowledgeKept DEF EdgeInHand
    <2>4. report.edge \in Graph(reads[1]) => BlobThere(report.edge)
      BY <1>1, CommittedIsStored
    <2>5. Attested'
      <3> DEFINE A == [named |-> signer[report.edge] \in Named, signed |-> report.signed,
                       bound |-> BlobThere(report.edge)]
                 a == IF request'.kind = "attest" THEN answer'.body ELSE answer'.body.attestation
      <3>1. a = A
        BY <1>0, <2>1 DEF Attestation
      <3>2. request'.kind = "reproduce" /\ answer'.body.reproduced => Ok(A)
        BY <1>0, <2>1 DEF Attestation
      <3>3. \E b \in BOOLEAN :
                /\ A = [named |-> signer[report.edge] \in Named, signed |-> report.signed, bound |-> b]
                /\ b => BlobThere(report.edge)
                /\ report.edge \in Graph(reads[1]) => b
        <4>1. BlobThere(report.edge) \in BOOLEAN
          BY DEF BlobThere
        <4> QED
          BY <2>4, <4>1
      <3> HIDE DEF A
      <3>4. BlobThere(report.edge) => BlobThere(report.edge)'
        BY <1>0, <1>1, <2>1, EdgeKnowledgeKept
      <3>5. report'.edge \in Graph(reads[1])' => report.edge \in Graph(reads[1])
        BY <1>0, <2>1 DEF Graph
      <3> QED
        BY <2>1, <3>1, <3>2, <3>3, <3>4, <3>5 DEF Attested, Ok
    <2> QED
      BY <1>0, <2>1, <2>3, <2>5 DEF Handling, Answered, Unreported
  <1> QED
    BY <1>2, <1>3, <1>4, <1>5, <1>6 DEF EdgeHandler

LEMMA HandlingStep ==
    ASSUME Whole, Reads, Control, Handling, [Next]_vars
    PROVE  Handling'
  <1>0. Grows /\ report \in Reports /\ NoReport \in Reports
    BY StorageGrows DEF Handling, Reports, NoReport
  <1> USE DEF EdgeKinds
  <1>1. CASE UNCHANGED local
    <2>1. CASE request.kind \in EdgeKinds
      <3>1. reads # <<>> /\ UNCHANGED <<request, report>> /\ reads' \in {reads, Append(reads, Len(log))}
        BY <1>1, <2>1, RequestValues DEF local, Control
      <3>2. Attested /\ EdgeInHand => Attested'
        <4>1. SUFFICES ASSUME Attested, EdgeInHand
                       PROVE  Attested'
          OBVIOUS
        <4>2. BlobThere(report.edge) => BlobThere(report.edge)'
          BY <1>0, <3>1, EdgeKnowledgeKept
        <4>3. report'.edge \in Graph(reads[1])' => report.edge \in Graph(reads[1])
          BY <1>0, <1>1, <3>1, <4>1, EdgeKnowledgeKept DEF EdgeInHand, local
        <4> QED
          BY <1>1, <4>1, <4>2, <4>3 DEF Attested, Ok, local
      <3>3. /\ EdgeInHand => EdgeInHand'
            /\ EdgeInHand /\ SignedRight => SignedRight'
            /\ NotCommitted => NotCommitted'
        BY <1>0, <3>1, EdgeKnowledgeKept DEF EdgeInHand
      <3>4. /\ pc' = pc /\ answer' = answer /\ report' = report /\ request' = request
            /\ Answered(EdgeKinds, 200)' = Answered(EdgeKinds, 200) /\ Unreported' = Unreported
        BY <1>1 DEF local, Answered, Unreported
      <3>5. /\ Answered(EdgeKinds, 200)' => EdgeInHand' /\ SignedRight' /\ Attested'
            /\ Unreported' => NotCommitted' \/ answer'.body \in {"refused", "internal error"}
        BY <3>2, <3>3, <3>4, Zenon DEF Handling
      <3>6. /\ report' \in Reports
            /\ pc' \in {"resolve", "nodes", "proof", "search", "bind"} => request'.kind \in EdgeKinds
            /\ pc' \in {"nodes", "proof", "search", "bind"} => EdgeInHand'
            /\ pc' = "bind" => SignedRight'
        BY <3>3, <3>4 DEF Handling
      <3> QED
        BY <3>5, <3>6 DEF Handling
    <2>2. CASE request.kind \notin EdgeKinds
      BY <1>1, <2>2 DEF local, Handling, Answered, Unreported
    <2> QED
      BY <2>1, <2>2
  <1>2. CASE \E r \in Request : Receive(r)
    <2>1. PICK r \in Request : Receive(r)
      BY <1>2
    <2>2. /\ pc' \in {"resolve", "verify", "read"} /\ request' = r /\ report' = NoReport
          /\ pc' = "resolve" => r.kind \in EdgeKinds
      BY <2>1 DEF Receive, FirstStep
    <2> QED
      BY <1>0, <2>2 DEF Handling, Answered, Unreported
  <1>3. CASE Restart
    BY <1>0, <1>3, RequestValues DEF Restart, Handling, Answered, Unreported
  <1>4. CASE request.kind = "commit" /\ CommitEdge
    BY <1>0, <1>4 DEF CommitEdge, Handling, Answered, Unreported
  <1>5. CASE Refuse \/ Fails
    <2>1. /\ pc' = "idle" /\ report' = report /\ answer'.status # 200
          /\ answer'.body \in {"refused", "internal error"}
      BY <1>5, GivenUp
    <2> QED
      BY <1>0, <2>1 DEF Handling, Answered, Unreported
  <1>6. CASE /\ request' = request /\ request.kind \notin EdgeKinds
             /\ \/ query_reachable \/ PathLabels \/ PathWalk \/ PathEnd \/ GraphNodes \/ GraphEdges
                \/ AnchorRoot \/ AnchorCount \/ verify_history \/ CommitVerdict
    <2>1. pc' \in {"idle", "walk", "read", "put"} /\ report' = report
      BY <1>6 DEF query_reachable, PathLabels, PathWalk, PathEnd, GraphNodes, GraphEdges, AnchorRoot,
         AnchorCount, verify_history, CommitVerdict, Respond, Goto, localVars
    <2> QED
      BY <1>0, <1>6, <2>1 DEF Handling, Answered, Unreported
  <1>7. CASE request.kind \in EdgeKinds /\ EdgeHandler
    BY <1>7, EdgeHandlerStep
  <1> QED
    BY <1>1, <1>2, <1>3, <1>4, <1>5, <1>6, <1>7, Dispatch

-----------------------------------------------------------------------------
(***************************************************************************)
(* GET /query/graph, GET /anchor and POST /verify_history.                 *)
(***************************************************************************)

LEMMA GraphReadStep ==
    ASSUME Whole, Reads, Control, GraphRead, [Next]_vars
    PROVE  GraphRead'
  <1>0. Grows /\ Len(log) \in Nat /\ reads \in Seq(Nat)
    BY StorageGrows DEF Reads, Grows
  <1>1. CASE UNCHANGED local
    <2> SUFFICES ASSUME Answered({"graph"}, 200)
                 PROVE  GraphRead'
      BY <1>1 DEF local, GraphRead, Answered
    <2>1. /\ Len(reads) = 3
          /\ answer.body = [nodes |-> Nodes(reads[2]), edges |-> Graph(reads[3])]
      BY DEF GraphRead
    <2>2. reads[2] \in 0 .. Len(log) /\ reads[3] \in 0 .. Len(log)
      <3>1. 2 \in DOMAIN reads /\ 3 \in DOMAIN reads
        BY <1>0, <2>1
      <3> QED
        BY <1>0, <3>1 DEF Reads
    <2> DEFINE n == reads[2]
               m == reads[3]
    <2>3. PICK a, b \in 0 .. Len(log) : a = n /\ b = m
      BY <2>2
    <2>4. Nodes(a)' = Nodes(a) /\ Graph(b)' = Graph(b)
      BY <1>0, PastIsFixed
    <2>5. Nodes(reads[2])' = Nodes(a)' /\ Graph(reads[3])' = Graph(b)'
      BY <1>1, <2>3 DEF local, Nodes, Graph, Endpoints
    <2> QED
      BY <1>1, <2>1, <2>3, <2>4, <2>5 DEF local, GraphRead
  <1>2. CASE request'.kind # "graph"
    BY <1>2 DEF GraphRead, Answered
  <1>3. CASE pc' # "idle"
    BY <1>3 DEF GraphRead, Answered
  <1>4. CASE Refuse \/ Fails
    BY <1>4, GivenUp DEF GraphRead, Answered
  <1>5. CASE GraphEdges
    <2>1. /\ Len(reads) = 2 /\ reads' = Append(reads, Len(log))
          /\ log' = log /\ objects' = objects
          /\ answer' = [status |-> 200, body |-> GraphBody(reads[2], Len(log))]
      BY <1>5 DEF GraphEdges, Reading, Respond, storageVars
    <2>2. Len(reads') = 3 /\ reads'[2] = reads[2] /\ reads'[3] = Len(log) /\ reads[2] \in 0 .. Len(log)
      <3>1. 2 \in DOMAIN reads
        BY <1>0, <2>1
      <3>2. reads[2] \in 0 .. Len(log)
        BY <1>0, <3>1 DEF Reads
      <3>3. Len(reads') = 3 /\ reads'[2] = reads[2] /\ reads'[3] = Len(log)
        <4>1. reads \in Seq(Nat) /\ Len(log) \in Nat
          BY <1>0 DEF Reads
        <4> QED
          BY <2>1, <4>1, ThirdAppended
      <3> QED
        BY <3>2, <3>3
    <2>3. Nodes(reads[2]) \subseteq objects
      BY <2>2, CommittedIsStored DEF Nodes
    <2>4. \A e \in Graph(Len(log)) : Hash(e) \in objects
      BY <1>0, CommittedIsStored
    <2>5. GraphBody(reads[2], Len(log)) = [nodes |-> Nodes(reads[2]), edges |-> Graph(Len(log))]
      BY <2>3, <2>4 DEF GraphBody
    <2>6. Nodes(reads[2])' = Nodes(reads[2]) /\ Graph(reads[3])' = Graph(Len(log))
      BY <2>1, <2>2 DEF Nodes, Graph, Endpoints
    <2> QED
      BY <2>1, <2>2, <2>5, <2>6 DEF GraphRead
  <1>6. CASE GraphNodes
    BY <1>6 DEF GraphNodes, Goto, GraphRead, Answered
  <1> QED
    BY <1>1, <1>2, <1>3, <1>4, <1>5, <1>6, Dispatch, RequestValues
       DEF Receive, FirstStep, Restart, CommitEdge, EdgeKinds

LEMMA PinnedStep ==
    ASSUME Whole, Reads, Control, Pinned, HistoryRead, [Next]_vars
    PROVE  Pinned' /\ HistoryRead'
  <1>0. Grows /\ Len(log) \in Nat /\ Len(log') \in Nat /\ Len(log) <= Len(log') /\ reads \in Seq(Nat)
    BY StorageGrows DEF Reads, Grows
  <1>p. ASSUME pinned' = pinned
        PROVE  Pinned'
    <2> SUFFICES ASSUME pinned # None
                 PROVE  Pinned'
      BY <1>p DEF Pinned
    <2>1. pinned.of \in 1 .. Len(log) /\ pinned.root_hash = Root(pinned.of)
      BY DEF Pinned
    <2>2. PICK n \in 0 .. Len(log) : n = pinned.of
      BY <1>0, <2>1
    <2>3. Root(n)' = Root(n)
      BY <1>0, PastIsFixed
    <2>4. Root(pinned.of)' = Root(n)'
      BY <1>p, <2>2 DEF Root, EntryHashes
    <2> QED
      BY <1>0, <1>p, <2>1, <2>2, <2>3, <2>4 DEF Pinned
  <1>1. CASE UNCHANGED local
    <2>1. Pinned'
      BY <1>1, <1>p DEF local
    <2>2. HistoryRead'
      <3> SUFFICES ASSUME Answered({"verify_history"}, 200)
                   PROVE  HistoryRead'
        BY <1>1 DEF local, HistoryRead, Answered
      <3>1. /\ pinned # None /\ Len(reads) = 2
            /\ answer.body.valid = (Root(reads[2]) = pinned.root_hash)
        BY DEF HistoryRead
      <3>2. reads[2] \in 0 .. Len(log)
        <4>1. 2 \in DOMAIN reads
          BY <1>0, <3>1
        <4> QED
          BY <1>0, <4>1 DEF Reads
      <3>3. PICK n \in 0 .. Len(log) : n = reads[2]
        BY <3>2
      <3>4. Root(n)' = Root(n) /\ Root(reads[2])' = Root(n)'
        BY <1>0, <1>1, <3>3, PastIsFixed DEF local, Root, EntryHashes
      <3> QED
        BY <1>1, <3>1, <3>3, <3>4 DEF local, HistoryRead
    <2> QED
      BY <2>1, <2>2
  <1>2. CASE AnchorCount
    <2>1. /\ Len(reads) = 2 /\ log' = log /\ request' = request /\ request.kind = "anchor"
          /\ pinned' = [root_hash |-> Root(reads[2]), of |-> reads[2]]
      BY <1>2 DEF AnchorCount, At, Respond, storageVars
    <2>2. 2 \in DOMAIN reads
      BY <1>0, <2>1
    <2>3. reads[2] \in 1 .. Len(log)
      BY <1>0, <2>2 DEF Reads
    <2>4. pinned'.of = reads[2] /\ pinned'.root_hash = Root(reads[2])
      BY <2>1
    <2>5. Root(pinned.of)' = Root(reads[2])
      BY <2>1, <2>4 DEF Root, EntryHashes
    <2> QED
      BY <2>1, <2>3, <2>4, <2>5 DEF Pinned, HistoryRead, Answered
  <1>3. CASE verify_history
    <2>1. /\ log' = log /\ request' = request /\ request.kind = "verify_history"
          /\ pc = "read" /\ pinned' = pinned /\ reads' = Append(reads, Len(log))
          /\ answer'.body.valid = HistoryVerifies(Len(log), pinned.root_hash)
      BY <1>3 DEF verify_history, At, Respond, Reading, storageVars
    <2>2. pinned # None /\ Len(reads) = 1
      BY <2>1 DEF Control
    <2>3. Len(reads') = 2 /\ reads'[2] = Len(log)
      BY <1>0, <2>1, <2>2, SecondAppended
    <2>4. ChainVerifies(SubSeq(log, 1, Len(log)))
      <3>1. SubSeq(log, 1, Len(log)) = log
        BY DEF Whole
      <3> QED
        BY <3>1 DEF Whole
    <2>5. HistoryVerifies(Len(log), pinned.root_hash) = (Root(Len(log)) = pinned.root_hash)
      BY <2>4 DEF HistoryVerifies
    <2>6. Root(reads[2])' = Root(Len(log))
      BY <2>1, <2>3 DEF Root, EntryHashes
    <2> QED
      BY <1>p, <2>1, <2>2, <2>3, <2>5, <2>6 DEF HistoryRead
  <1>4. CASE Refuse \/ Fails
    BY <1>4, <1>p, GivenUp DEF HistoryRead, Answered
  <1>5. CASE \E r \in Request : Receive(r)
    <2>1. pinned' = pinned /\ pc' # "idle"
      BY <1>5 DEF Receive, FirstStep
    <2> QED
      BY <1>p, <2>1 DEF HistoryRead, Answered
  <1>6. CASE Restart \/ (request.kind = "commit" /\ CommitEdge)
    <2>1. pinned' = pinned /\ request'.kind # "verify_history"
      BY <1>6, RequestValues DEF Restart, CommitEdge
    <2> QED
      BY <1>p, <2>1 DEF HistoryRead, Answered
  <1>7. CASE /\ request' = request /\ request.kind # "verify_history"
             /\ \/ query_reachable \/ PathLabels \/ PathWalk \/ PathEnd \/ GraphNodes \/ GraphEdges
                \/ AnchorRoot \/ EdgeHandler \/ CommitVerdict
    <2>1. pinned' = pinned
      BY <1>7 DEF query_reachable, PathLabels, PathWalk, PathEnd, GraphNodes, GraphEdges, AnchorRoot,
         EdgeHandler, ResolveEdge, ResolveNodes, ReVerify, SearchLog, CheckBinding,
         CommitVerdict, Respond, Goto
    <2> QED
      BY <1>7, <1>p, <2>1 DEF HistoryRead, Answered
  <1> QED
    BY <1>1, <1>2, <1>3, <1>4, <1>5, <1>6, <1>7, Dispatch DEF EdgeKinds

-----------------------------------------------------------------------------
(***************************************************************************)
(* The results.                                                            *)
(***************************************************************************)

LEMMA ApiInit == Init => ApiInvariant
  <1> SUFFICES ASSUME Init
               PROVE  ApiInvariant
    OBVIOUS
  <1> DEFINE r == LogEntry(0, AuthorKey, Genesis, GENESIS_PREV_HASH)
  <1>1. /\ log = <<r>> /\ pc = "idle" /\ request = NoRequest /\ reads = <<>>
        /\ report = NoReport /\ pinned = None /\ answer = None
    BY DEF Init
  <1>2. r \in Rows /\ r.payload = Genesis /\ r.prev_log_hash = GENESIS_PREV_HASH
    <2>1. 0 \in Nat /\ AuthorKey \in Keys /\ Genesis \in Payload /\ GENESIS_PREV_HASH \in Link
      BY DEF Keys, Payload, Link
    <2>2. \E n \in Nat, key \in Keys, p \in Payload, link \in Link : r = LogEntry(n, key, p, link)
      BY <2>1
    <2>3. r \in Rows
      BY <2>2 DEF Rows
    <2> QED
      BY <2>3 DEF LogEntry
  <1> HIDE DEF r
  <1>3. Whole
    <2>1. log \in Seq(Rows) /\ log # <<>> /\ DOMAIN log = {1} /\ log[1] = r
      BY <1>1, <1>2
    <2>2. Genesis \notin Edge
      OBVIOUS
    <2> QED
      BY <1>2, <2>1, <2>2, RowValues DEF Whole, ChainVerifies
  <1>4. Reads /\ Control
    BY <1>1 DEF Reads, Control
  <1>5. Handling
    BY <1>1, RequestValues DEF Handling, Answered, Unreported, Reports, NoReport, EdgeKinds
  <1>6. GraphRead /\ Pinned /\ HistoryRead
    BY <1>1, RequestValues DEF GraphRead, Pinned, HistoryRead, Answered
  <1> QED
    BY <1>3, <1>4, <1>5, <1>6 DEF ApiInvariant

\* The parts of the invariant hold whatever the other processes write between the
\* server's reads.
THEOREM ApiInvariantHolds == Spec => []ApiInvariant
  <1>1. ApiInvariant /\ [Next]_vars => ApiInvariant'
    BY WholeStep, ReadsStep, ControlStep, HandlingStep, GraphReadStep, PinnedStep DEF ApiInvariant
  <1> QED
    BY <1>1, ApiInit, PTL DEF Spec

\* An ok is never a lie and never withheld from what was there in time.
THEOREM AttestationIsExact == Spec => []AttestationExact
  <1>1. ApiInvariant => AttestationExact
    <2> SUFFICES ASSUME ApiInvariant, Answered({"attest", "reproduce"}, 200),
                        NEW e \in Edge, request.address = Hash(e)
                 PROVE  LET a == IF request.kind = "attest" THEN answer.body ELSE answer.body.attestation
                            there == e \in Graph(Len(log)) /\ signer[e] \in Named /\ BlobThere(e)
                        IN  /\ Ok(a) => there
                            /\ e \in Graph(reads[1]) /\ signer[e] \in Named => Ok(a)
                            /\ request.kind = "reproduce" /\ answer.body.reproduced => there
      BY DEF AttestationExact
    <2> DEFINE a == IF request.kind = "attest" THEN answer.body ELSE answer.body.attestation
    <2>1. Answered(EdgeKinds, 200)
      BY DEF Answered, EdgeKinds
    <2>2. EdgeInHand /\ SignedRight /\ Attested
      BY <2>1 DEF ApiInvariant, Handling
    <2>3. report.edge = e
      BY <2>2, HashInjective DEF EdgeInHand
    <2>4. PICK b \in BOOLEAN :
              /\ a = [named |-> signer[e] \in Named, signed |-> report.signed, bound |-> b]
              /\ b => BlobThere(e)
              /\ e \in Graph(reads[1]) => b
      BY <2>2, <2>3 DEF Attested
    <2>5. Ok(a) = (signer[e] \in Named /\ report.signed /\ b)
      <3>1. report.signed \in BOOLEAN
        <4>1. report \in Reports
          BY DEF ApiInvariant, Handling
        <4> QED
          BY <4>1 DEF Reports
      <3>2. a.named = (signer[e] \in Named) /\ a.signed = report.signed /\ a.bound = b
        BY <2>4
      <3> HIDE DEF a
      <3> QED
        BY <3>1, <3>2 DEF Ok
    <2>6. /\ report.signed => e \in Graph(Len(log))
          /\ e \in Graph(reads[1]) => report.signed
          /\ request.kind = "reproduce" /\ answer.body.reproduced => Ok(a)
      BY <2>2, <2>3 DEF SignedRight, Attested
    <2> HIDE DEF a
    <2>7. /\ Ok(a) => e \in Graph(Len(log)) /\ signer[e] \in Named /\ BlobThere(e)
          /\ e \in Graph(reads[1]) /\ signer[e] \in Named => Ok(a)
          /\ request.kind = "reproduce" /\ answer.body.reproduced =>
                 e \in Graph(Len(log)) /\ signer[e] \in Named /\ BlobThere(e)
      BY <2>4, <2>5, <2>6
    <2> QED
      BY <2>7 DEF a
  <1> QED
    BY <1>1, ApiInvariantHolds, PTL

LEMMA GraphsGrow ==
    ASSUME NEW n \in Nat, NEW m \in Nat, n <= m
    PROVE  Graph(n) \subseteq Graph(m) /\ Nodes(n) \subseteq UNION {Endpoints(e) : e \in Graph(m)}
  <1>1. \A i \in 1 .. n : i \in 1 .. m
    OBVIOUS
  <1>2. Graph(n) \subseteq Graph(m)
    BY <1>1 DEF Graph
  <1> QED
    BY <1>2 DEF Nodes

\* The nodes are read before the edges, and nothing the edges need is still missing.
THEOREM GraphAnswersAreWhole == Spec => []GraphAnswerWhole
  <1>1. ApiInvariant => GraphAnswerWhole
    <2> SUFFICES ASSUME ApiInvariant, Answered({"graph"}, 200)
                 PROVE  /\ Graph(reads[1]) \subseteq answer.body.edges
                        /\ Nodes(reads[1]) \subseteq answer.body.nodes
                        /\ answer.body.nodes \subseteq UNION {Endpoints(e) : e \in answer.body.edges}
      BY DEF GraphAnswerWhole
    <2>1. /\ Len(reads) = 3
          /\ answer.body = [nodes |-> Nodes(reads[2]), edges |-> Graph(reads[3])]
      BY DEF ApiInvariant, GraphRead
    <2>2. 1 \in DOMAIN reads /\ 2 \in DOMAIN reads /\ 3 \in DOMAIN reads
      BY <2>1 DEF ApiInvariant, Reads
    <2>3. /\ reads[1] \in Nat /\ reads[2] \in Nat /\ reads[3] \in Nat
          /\ reads[1] <= reads[2] /\ reads[1] <= reads[3] /\ reads[2] <= reads[3]
      BY <2>2 DEF ApiInvariant, Reads
    <2>4. /\ Graph(reads[1]) \subseteq Graph(reads[3])
          /\ Nodes(reads[2]) \subseteq UNION {Endpoints(e) : e \in Graph(reads[3])}
      BY <2>3, GraphsGrow
    <2>5. Nodes(reads[1]) \subseteq Nodes(reads[2])
      BY <2>3, GraphsGrow DEF Nodes
    <2> QED
      BY <2>1, <2>4, <2>5
  <1> QED
    BY <1>1, ApiInvariantHolds, PTL

-----------------------------------------------------------------------------
(***************************************************************************)
(* What resolves, resolves with its nodes.  Node and edge records have     *)
(* different key sets and are never the same bytes.  An artifact is any    *)
(* bytes a client sends: where it is, byte for byte, an edge record that   *)
(* was not committed, the record resolves and its nodes need not.          *)
(***************************************************************************)

DistinctRecords == Edge \cap (Node \cup Proof) = {}

NodesFirst == \A e \in Edge : Hash(e) \in objects => Endpoints(e) \subseteq objects

Resolving ==
    /\ NodesFirst
    /\ pc = "nodes" => Hash(report.edge) \in objects
    /\ Unreported => answer.body # "node not resolvable"

\* The blob written next is a node's, or the record after all nodes, or the artifact.
LEMMA NextPutValues ==
    ASSUME NEW e \in Edge, NEW h \in NextPut(e)
    PROVE  \/ h \in {Hash(d) : d \in Node \cup Proof}
           \/ h = Hash(e) /\ Endpoints(e) \subseteq objects
  <1> DEFINE m == Len(premises[e])
             first == Min(Absentees(e))
  <1>1. Absentees(e) # {} /\ h = Puts(e)[first]
    BY DEF NextPut
  <1>2. m \in Nat /\ DOMAIN premises[e] = 1 .. m
    BY PutsValues
  <1>3. DOMAIN Puts(e) = IF proof[e] = None THEN 1 .. m + 2 ELSE 1 .. m + 3
    <2>1. CASE proof[e] = None
      BY <2>1, PutsValues
    <2>2. CASE proof[e] # None
      BY <2>2, PutsValues
    <2> QED
      BY <2>1, <2>2
  <1>4. Absentees(e) \in SUBSET Nat /\ Absentees(e) \subseteq DOMAIN Puts(e)
    BY <1>2, <1>3 DEF Absentees
  <1>5. first \in Absentees(e) /\ \A j \in Absentees(e) : first <= j
    BY <1>1, <1>4, LeastElement
  <1> HIDE DEF first
  <1>6. first \in DOMAIN Puts(e) /\ first \in Nat
    BY <1>4, <1>5
  <1>7. \A i \in 1 .. m : premises[e][i] \in Node /\ Puts(e)[i] = Hash(premises[e][i])
    <2>1. premises[e] \in Seq(Node)
      OBVIOUS
    <2> QED
      BY <1>2, <2>1, PutsValues
  <1>8. CASE first \in 1 .. m
    BY <1>1, <1>7, <1>8
  <1>9. CASE first = m + 1
    <2>1. h = Hash(conclusion[e]) /\ conclusion[e] \in Node
      BY <1>1, <1>9, PutsValues
    <2> QED
      BY <2>1
  <1>10. CASE first = m + 2
    <2>1. h = Hash(e)
      BY <1>1, <1>10, PutsValues
    <2>2. \A j \in 1 .. m + 1 : j \in DOMAIN Puts(e) /\ j \notin Absentees(e)
      BY <1>2, <1>3, <1>5, <1>10
    <2>3. \A j \in 1 .. m + 1 : Puts(e)[j] \in objects
      BY <2>2 DEF Absentees
    <2>4. m + 1 \in 1 .. m + 1 /\ \A j \in 1 .. m : j \in 1 .. m + 1
      BY <1>2
    <2>5. Hash(conclusion[e]) \in objects
      BY <2>3, <2>4, PutsValues
    <2>6. \A j \in DOMAIN premises[e] : Hash(premises[e][j]) \in objects
      BY <1>2, <1>7, <2>3, <2>4
    <2> QED
      BY <2>1, <2>5, <2>6 DEF Endpoints
  <1>11. CASE first = m + 3 /\ proof[e] # None
    <2>1. h = Hash(proof[e]) /\ proof[e] \in Proof
      BY <1>1, <1>11, PutsValues
    <2> QED
      BY <2>1
  <1>12. \/ first \in 1 .. m \/ first = m + 1 \/ first = m + 2
         \/ first = m + 3 /\ proof[e] # None
    BY <1>2, <1>3, <1>6
  <1> QED
    BY <1>8, <1>9, <1>10, <1>11, <1>12

LEMMA NodesFirstStep ==
    ASSUME DistinctRecords, NodesFirst, Control, [Next]_vars
    PROVE  NodesFirst' /\ objects \subseteq objects'
  <1>1. CASE objects' = objects
    BY <1>1 DEF NodesFirst, Endpoints, Hash
  <1>2. CASE \E f \in Edge : PutBlob(f)
    <2>0. PICK f \in Edge : PutBlob(f)
      BY <1>2
    <2>1. PICK h \in NextPut(f) : objects' = objects \cup {h}
      BY <2>0 DEF PutBlob
    <2>2. ASSUME NEW e \in Edge, Hash(e) \in objects'
          PROVE  Endpoints(e) \subseteq objects
      <3>1. CASE Hash(e) \in objects
        BY <3>1 DEF NodesFirst
      <3>2. CASE Hash(e) = h
        <4>1. h \notin {Hash(d) : d \in Node \cup Proof}
          BY <3>2, HashInjective DEF DistinctRecords
        <4>2. h = Hash(f) /\ Endpoints(f) \subseteq objects
          BY <4>1, NextPutValues
        <4> QED
          BY <3>2, <4>2, HashInjective
      <3> QED
        BY <2>1, <2>2, <3>1, <3>2
    <2> QED
      BY <2>1, <2>2 DEF NodesFirst, Endpoints, Hash
  <1> QED
    BY <1>1, <1>2, StorageStep DEF CommitBy, storageVars

LEMMA OtherAnswers ==
    ASSUME NodesFirst', pc' # "nodes",
           \/ pc' # "idle" \/ request'.kind \notin EdgeKinds
           \/ answer'.status = 200 \/ answer'.body # "node not resolvable"
    PROVE  Resolving'
  <1>1. Unreported' => answer'.body # "node not resolvable"
    BY DEF Unreported
  <1> QED
    BY <1>1 DEF Resolving

LEMMA ResolvingStep ==
    ASSUME DistinctRecords, ApiInvariant, Resolving, [Next]_vars
    PROVE  Resolving'
  <1>0. NodesFirst' /\ objects \subseteq objects'
    BY NodesFirstStep DEF ApiInvariant, Resolving
  <1> USE DEF EdgeKinds
  <1>1. CASE UNCHANGED local
    BY <1>0, <1>1 DEF local, Resolving, Unreported, Hash
  <1>2. CASE (\E r \in Request : Receive(r)) \/ Restart \/ (request.kind = "commit" /\ CommitEdge)
    <2>1. pc' # "nodes" /\ (pc' # "idle" \/ request'.kind \notin EdgeKinds)
      BY <1>2, RequestValues DEF Receive, FirstStep, Restart, CommitEdge
    <2> QED
      BY <1>0, <2>1, OtherAnswers
  <1>3. CASE Refuse \/ Fails
    <2>1. pc' # "nodes" /\ answer'.body # "node not resolvable"
      BY <1>3, GivenUp
    <2> QED
      BY <1>0, <2>1, OtherAnswers
  <1>4. CASE /\ request' = request /\ request.kind \notin EdgeKinds
             /\ \/ query_reachable \/ PathLabels \/ PathWalk \/ PathEnd \/ GraphNodes \/ GraphEdges
                \/ AnchorRoot \/ AnchorCount \/ verify_history \/ CommitVerdict
    <2>1. pc' # "nodes"
      BY <1>4 DEF query_reachable, PathLabels, PathWalk, PathEnd, GraphNodes, GraphEdges, AnchorRoot,
         AnchorCount, verify_history, CommitVerdict, Respond, Goto
    <2> QED
      BY <1>0, <1>4, <2>1, OtherAnswers
  <1>5. CASE EdgeHandler
    <2>1. CASE ResolveEdge
      <3>1. CASE \E e \in Edge : request.address = Hash(e) /\ Hash(e) \in objects
        <4> DEFINE chosen == CHOOSE e \in Edge : request.address = Hash(e)
        <4>1. Hash(chosen) \in objects
          BY <3>1
        <4>2. report' = [report EXCEPT !.edge = chosen] /\ pc' \in {"nodes", "search"}
          BY <2>1, <3>1 DEF ResolveEdge, Goto
        <4> HIDE DEF chosen
        <4>3. report'.edge = chosen
          BY <4>2 DEF ApiInvariant, Handling, Reports
        <4> QED
          BY <1>0, <4>1, <4>2, <4>3 DEF Resolving, Unreported, Hash
      <3>2. CASE ~\E e \in Edge : request.address = Hash(e) /\ Hash(e) \in objects
        <4>1. answer' = [status |-> 404, body |-> "edge not found"] /\ pc' = "idle"
          BY <2>1, <3>2 DEF ResolveEdge, Respond
        <4>2. answer'.body # "node not resolvable"
          BY <4>1
        <4> QED
          BY <1>0, <4>1, <4>2, OtherAnswers
      <3> QED
        BY <3>1, <3>2
    <2>2. CASE ResolveNodes
      <3>1. Endpoints(report.edge) \subseteq objects
        <4>1. pc = "nodes"
          BY <2>2 DEF ResolveNodes, At
        <4>2. EdgeInHand
          BY <4>1 DEF ApiInvariant, Handling
        <4>3. report.edge \in Edge /\ Hash(report.edge) \in objects
          BY <4>1, <4>2 DEF EdgeInHand, Resolving
        <4> QED
          BY <4>3 DEF Resolving, NodesFirst
      <3>2. pc' = "proof"
        BY <2>2, <3>1 DEF ResolveNodes, Goto
      <3> QED
        BY <1>0, <3>2 DEF Resolving, Unreported
    <2>3. CASE ReVerify
      <3>1. pc' = "search"
        BY <2>3 DEF ReVerify, Goto
      <3> QED
        BY <1>0, <3>1, OtherAnswers
    <2>4. CASE SearchLog
      BY <1>0, <2>4 DEF SearchLog, Goto, Resolving, Unreported
    <2>5. CASE CheckBinding
      <3>1. pc' = "idle" /\ answer'.status = 200
        BY <2>5 DEF CheckBinding, Respond
      <3> QED
        BY <1>0, <3>1, OtherAnswers
    <2> QED
      BY <1>5, <2>1, <2>2, <2>3, <2>4, <2>5 DEF EdgeHandler
  <1> QED
    BY <1>1, <1>2, <1>3, <1>4, <1>5, Dispatch

\* An edge that was in the log when the request came is never answered as missing, and no
\* record is found whose nodes are not: what a client gets instead of a report of such an
\* edge is the answer to a bad body or to an exception of the handler.
THEOREM CommittedIsResolved == DistinctRecords => (Spec => []CommittedResolves)
  <1> SUFFICES ASSUME DistinctRecords
               PROVE  Spec => []CommittedResolves
    OBVIOUS
  <1>1. Init => Resolving
    BY DEF Init, Resolving, NodesFirst, Unreported
  <1>2. ApiInvariant /\ Resolving /\ [Next]_vars => Resolving'
    BY ResolvingStep
  <1>3. ApiInvariant /\ Resolving => CommittedResolves
    <2> SUFFICES ASSUME ApiInvariant, Resolving, pc = "idle", answer # None, request.kind \in EdgeKinds
                 PROVE  /\ \A e \in Edge : AboutCommitted(e) /\ answer.status # 200 =>
                               answer.body \in {"refused", "internal error"}
                        /\ answer.status # 200 => answer.body # "node not resolvable"
      BY DEF CommittedResolves, EdgeKinds
    <2>1. answer.status # 200 => Unreported
      BY DEF Unreported
    <2>2. Unreported => NotCommitted \/ answer.body \in {"refused", "internal error"}
      BY DEF ApiInvariant, Handling
    <2>3. Unreported => answer.body # "node not resolvable"
      BY DEF Resolving
    <2> QED
      BY <2>1, <2>2, <2>3 DEF NotCommitted
  <1> QED
    BY <1>1, <1>2, <1>3, ApiInvariantHolds, PTL DEF Spec

-----------------------------------------------------------------------------
(***************************************************************************)
(* The verdict on a history.                                               *)
(***************************************************************************)

LEMMA SameTree == \A a : Op!root_hash(a) = root_hash(a)
  BY DEF root_hash, Levels, NextLevel, LeafNode, InternalNode, EmptyRoot,
         Op!root_hash, Op!Levels, Op!NextLevel, Op!LeafNode, Op!InternalNode, Op!EmptyRoot

LEMMA SameRootSameEntries ==
    ASSUME NEW S, NEW a \in Seq(S), NEW b \in Seq(S), root_hash(a) = root_hash(b)
    PROVE  /\ \A i \in DOMAIN a : \E j \in DOMAIN b : a[i] = b[j]
           /\ \A j \in DOMAIN b : \E i \in DOMAIN a : b[j] = a[i]
  <1>1. Op!root_hash(a) = Op!root_hash(b)
    BY SameTree
  <1> QED
    BY <1>1, Op!SameRootSameEntries

LEMMA HashesOfALength ==
    ASSUME Whole, NEW n \in 0 .. Len(log)
    PROVE  /\ EntryHashes(n) \in Seq({log[i].entry_hash : i \in 1 .. Len(log)})
           /\ DOMAIN EntryHashes(n) = 1 .. n
           /\ \A i \in 1 .. n : EntryHashes(n)[i] = Hash(log[i].payload)
  <1>1. n \in Nat /\ \A i \in 1 .. n : i \in 1 .. Len(log)
    BY DEF Whole
  <1>2. \A i \in 1 .. n : log[i].entry_hash = Hash(log[i].payload)
    BY <1>1, RowValues DEF Whole
  <1> DEFINE S == {log[i].entry_hash : i \in 1 .. Len(log)}
  <1>3. \A i \in 1 .. n : log[i].entry_hash \in S
    BY <1>1
  <1> HIDE DEF S
  <1>4. EntryHashes(n) \in [1 .. n -> S]
    BY <1>3 DEF EntryHashes
  <1>5. EntryHashes(n) \in Seq(S)
    BY <1>1, <1>4
  <1> QED
    BY <1>2, <1>5 DEF EntryHashes, S

LEMMA RootBindsPayloads ==
    ASSUME Whole, NEW n \in 0 .. Len(log), NEW m \in 0 .. Len(log), Root(n) = Root(m)
    PROVE  {log[i].payload : i \in 1 .. n} = {log[i].payload : i \in 1 .. m}
  <1> DEFINE S == {log[i].entry_hash : i \in 1 .. Len(log)}
             a == EntryHashes(n)
             b == EntryHashes(m)
  <1>1. /\ a \in Seq(S) /\ DOMAIN a = 1 .. n /\ \A i \in 1 .. n : a[i] = Hash(log[i].payload)
        /\ b \in Seq(S) /\ DOMAIN b = 1 .. m /\ \A i \in 1 .. m : b[i] = Hash(log[i].payload)
    BY HashesOfALength
  <1>2. root_hash(a) = root_hash(b)
    BY DEF Root
  <1> HIDE DEF a, b, S
  <1>3. /\ \A i \in DOMAIN a : \E j \in DOMAIN b : a[i] = b[j]
        /\ \A j \in DOMAIN b : \E i \in DOMAIN a : b[j] = a[i]
    <2>1. a \in Seq(S) /\ b \in Seq(S)
      BY <1>1
    <2> QED
      BY <1>2, <2>1, SameRootSameEntries
  <1>4. ASSUME NEW i \in 1 .. n
        PROVE  \E j \in 1 .. m : log[i].payload = log[j].payload
    <2>1. PICK j \in 1 .. m : a[i] = b[j]
      BY <1>1, <1>3
    <2> QED
      BY <1>1, <2>1, HashInjective
  <1>5. ASSUME NEW i \in 1 .. m
        PROVE  \E j \in 1 .. n : log[i].payload = log[j].payload
    <2>1. PICK j \in 1 .. n : b[i] = a[j]
      BY <1>1, <1>3
    <2> QED
      BY <1>1, <2>1, HashInjective
  <1>6. ASSUME NEW p \in {log[i].payload : i \in 1 .. n}
        PROVE  p \in {log[i].payload : i \in 1 .. m}
    BY <1>4
  <1>7. ASSUME NEW p \in {log[i].payload : i \in 1 .. m}
        PROVE  p \in {log[i].payload : i \in 1 .. n}
    BY <1>5
  <1> QED
    BY <1>6, <1>7

\* A verdict speaks of the one length the server has read, and of all of it.
THEOREM VerdictIsExact == Spec => []HistoryVerdictExact
  <1>1. ApiInvariant => HistoryVerdictExact
    <2> SUFFICES ASSUME ApiInvariant, Answered({"verify_history"}, 200)
                 PROVE  /\ answer.body.valid => {log[i].payload : i \in 1 .. reads[2]} =
                                                    {log[i].payload : i \in 1 .. pinned.of}
                        /\ reads[2] = pinned.of => answer.body.valid
      BY DEF HistoryVerdictExact
    <2>1. /\ pinned # None /\ Len(reads) = 2
          /\ answer.body.valid = (Root(reads[2]) = pinned.root_hash)
      BY DEF ApiInvariant, HistoryRead
    <2>2. pinned.of \in 1 .. Len(log) /\ pinned.root_hash = Root(pinned.of)
      BY <2>1 DEF ApiInvariant, Pinned
    <2>3. Len(log) \in Nat
      BY DEF ApiInvariant, Whole
    <2>4. reads[2] \in 0 .. Len(log)
      <3>1. 2 \in DOMAIN reads /\ reads \in Seq(Nat)
        BY <2>1 DEF ApiInvariant, Reads
      <3> QED
        BY <2>3, <3>1 DEF ApiInvariant, Reads
    <2>5. pinned.of \in 0 .. Len(log)
      BY <2>2, <2>3
    <2>6. Root(reads[2]) = Root(pinned.of) =>
              {log[i].payload : i \in 1 .. reads[2]} = {log[i].payload : i \in 1 .. pinned.of}
      BY <2>4, <2>5, RootBindsPayloads DEF ApiInvariant
    <2> QED
      BY <2>1, <2>2, <2>6
  <1> QED
    BY <1>1, ApiInvariantHolds, PTL

-----------------------------------------------------------------------------
(***************************************************************************)
(* The tree behind the root a client pins: module MerkleLog, a log of any  *)
(* length over any set of entry hashes.                                    *)
(***************************************************************************)

LEMMA LeavesTyped == TreeSpec => [](leaves \in Seq(Leaf))
  <1>1. TreeInit => leaves \in Seq(Leaf)
    BY DEF TreeInit
  <1>2. leaves \in Seq(Leaf) /\ [TreeNext]_leaves => (leaves \in Seq(Leaf))'
    <2> SUFFICES ASSUME leaves \in Seq(Leaf), [TreeNext]_leaves
                 PROVE  leaves' \in Seq(Leaf)
      OBVIOUS
    <2>1. CASE leaves' = leaves
      BY <2>1
    <2>2. CASE TreeNext
      <3>1. PICK h \in Leaf : leaves' = Append(leaves, h)
        BY <2>2, Zenon DEF TreeNext, append
      <3>2. \A T : \A s \in Seq(T), x \in T : Append(s, x) \in Seq(T)
        OBVIOUS
      <3> QED
        BY <3>1, <3>2, Zenon
    <2> QED
      BY <2>1, <2>2
  <1> QED
    BY <1>1, <1>2, PTL DEF TreeSpec

LEMMA SameProof ==
    \A a, i : Op!inclusion_proof(a, i) = inclusion_proof(a, i)
  BY DEF inclusion_proof, Depth, Levels, NextLevel, LeafNode, InternalNode, Sibling, Position,
         Op!inclusion_proof, Op!Depth, Op!Levels, Op!NextLevel, Op!LeafNode, Op!InternalNode,
         Op!Sibling, Op!Position

LEMMA SameVerdict ==
    \A p, root : Op!verify_inclusion(p, root) <=> verify_inclusion(p, root)
  BY DEF verify_inclusion, Climbed, Climb, LeafNode, InternalNode, Position,
         Op!verify_inclusion, Op!Climbed, Op!Climb, Op!LeafNode, Op!InternalNode, Op!Position

\* For a given entry_count the root determines the whole history.
THEOREM RootIsBinding == TreeSpec => []RootBindsHistory
  <1>1. leaves \in Seq(Leaf) => RootBindsHistory
    <2> SUFFICES ASSUME leaves \in Seq(Leaf), NEW other \in [DOMAIN leaves -> Leaf],
                        root_hash(other) = root_hash(leaves)
                 PROVE  other = leaves
      BY DEF RootBindsHistory
    <2>1. other \in Seq(Leaf) /\ Len(other) = Len(leaves)
      <3>1. DOMAIN leaves = 1 .. Len(leaves) /\ Len(leaves) \in Nat
        OBVIOUS
      <3>2. other \in [1 .. Len(leaves) -> Leaf]
        BY <3>1
      <3> QED
        BY <3>1, <3>2
    <2>2. Op!root_hash(other) = Op!root_hash(leaves)
      BY SameTree
    <2> QED
      BY <2>1, <2>2, Op!SameRootSameLog
  <1> QED
    BY <1>1, LeavesTyped, PTL

\* inclusion_proof and verify_inclusion agree, at every length of the log.
THEOREM InclusionIsExact == TreeSpec => []ProofsExact
  <1>1. leaves \in Seq(Leaf) => ProofsExact
    <2> SUFFICES ASSUME leaves \in Seq(Leaf)
                 PROVE  ProofsExact
      OBVIOUS
    <2>1. ProofsComplete
      <3> SUFFICES ASSUME NEW i \in DOMAIN leaves
                   PROVE  verify_inclusion(inclusion_proof(leaves, i - 1), root_hash(leaves))
        BY DEF ProofsComplete
      <3>1. Op!verify_inclusion(Op!inclusion_proof(leaves, i - 1), Op!root_hash(leaves))
        BY Op!EntryVerifies
      <3> QED
        BY <3>1, SameTree, SameProof, SameVerdict
    <2>2. ProofsSound
      <3> SUFFICES ASSUME NEW i \in DOMAIN leaves, NEW j \in DOMAIN leaves, NEW h \in Leaf,
                          verify_inclusion([leaf_hash |-> h, index |-> j - 1,
                                            path |-> inclusion_proof(leaves, i - 1).path],
                                           root_hash(leaves))
                   PROVE  leaves[j] = h
        BY DEF ProofsSound
      <3>1. Op!verify_inclusion([leaf_hash |-> h, index |-> j - 1,
                                 path |-> Op!inclusion_proof(leaves, i - 1).path],
                                Op!root_hash(leaves))
        BY SameTree, SameProof, SameVerdict
      <3> QED
        BY <3>1, Op!OnlyEntryVerifies
    <2> QED
      BY <2>1, <2>2 DEF ProofsExact
  <1> QED
    BY <1>1, LeavesTyped, PTL

-----------------------------------------------------------------------------
(***************************************************************************)
(* path_discovery.  The walk is compared with the nodes that are reached   *)
(* from the target in the graph of the first read: those are the least set *)
(* with the target that is closed under blocking premises.  The number of  *)
(* nodes bounds the rounds in which they are found, so that there have to  *)
(* be finitely many.                                                       *)
(***************************************************************************)

FiniteRecords == IsFiniteSet(Node)

ClosedBack(edges, enough, N) ==
    \A e \in edges : conclusion[e] \in N => Q!Blocking(e, enough) \subseteq N

LEMMA BlockingNodes == \A e \in Edge : \A enough : Q!Blocking(e, enough) \subseteq Node
  <1> SUFFICES ASSUME NEW e \in Edge, NEW enough
               PROVE  Q!Blocking(e, enough) \subseteq Node
    OBVIOUS
  <1>1. premises[e] \in Seq(Node)
    OBVIOUS
  <1>2. Range(premises[e]) \subseteq Node
    BY <1>1 DEF Range
  <1> QED
    BY <1>2 DEF Q!Blocking, PremiseSets

\* The records make a graph to which the lemmas apply, and the operators are the same.
LEMMA RecordsAreGraph == FiniteRecords => Op!FiniteGraph
  <1>1. \A e \in Edge : PremiseSets[e] \in SUBSET Node
    <2> SUFFICES ASSUME NEW e \in Edge
                 PROVE  PremiseSets[e] \in SUBSET Node
      OBVIOUS
    <2>1. premises[e] \in Seq(Node)
      OBVIOUS
    <2> QED
      BY <2>1 DEF PremiseSets, Range
  <1>2. PremiseSets \in [Edge -> SUBSET Node]
    BY <1>1 DEF PremiseSets
  <1>3. IsFiniteSet(Node) => Op!IsFiniteSet(Node)
    BY DEF IsFiniteSet, Op!IsFiniteSet
  <1> QED
    BY <1>2, <1>3 DEF FiniteRecords, Op!FiniteGraph, Op!Kappa

LEMMA SameQueries ==
    ASSUME NEW edges, NEW n
    PROVE  /\ \A k : Q!Established(edges, k) = Op!Established(edges, k)
           /\ \A k, d : Q!Within(edges, k, d) = Op!Within(edges, k, d)
           /\ \A enough : Q!Reached(edges, n, enough) = Op!Reached(edges, n, enough)
           /\ Q!KappaOf(edges, n) = Op!KappaOf(edges, n)
           /\ Q!DepthOf(edges, n) = Op!DepthOf(edges, n)
  <1>1. \A k : Q!Established(edges, k) = Op!Established(edges, k)
    BY DEF Q!Established, Op!Established
  <1>2. \A k, d : Q!Within(edges, k, d) = Op!Within(edges, k, d)
    BY DEF Q!Within, Op!Within
  <1>3. Q!Cardinality(Node) = Op!Cardinality(Node)
    BY DEF Q!Cardinality, Op!Cardinality
  <1>4. \A enough : Q!Reached(edges, n, enough) = Op!Reached(edges, n, enough)
    BY <1>3 DEF Q!Reached, Op!Reached, Q!Blocking, Op!Blocking
  <1>5. Q!KappaOf(edges, n) = Op!KappaOf(edges, n)
    BY <1>1 DEF Q!KappaOf, Op!KappaOf, Q!Kappa, Op!Kappa, Q!Absent, Op!Absent, Q!Max, Op!Max
  <1>6. Q!DepthOf(edges, n) = Op!DepthOf(edges, n)
    <2> DEFINE A == {d \in 0 .. Q!Cardinality(Node) : n \in Q!Within(edges, 0, d)}
               B == {d \in 0 .. Op!Cardinality(Node) : n \in Op!Within(edges, 0, d)}
    <2>1. A = B
      BY <1>2, <1>3
    <2>2. \A S : Q!Min(S) = Op!Min(S)
      BY DEF Q!Min, Op!Min
    <2>3. Q!DepthOf(edges, n) = IF n \in Q!Established(edges, 0) THEN Q!Min(A) ELSE Q!Absent
      BY DEF Q!DepthOf
    <2>4. Op!DepthOf(edges, n) = IF n \in Op!Established(edges, 0) THEN Op!Min(B) ELSE Op!Absent
      BY DEF Op!DepthOf
    <2>5. Q!Absent = Op!Absent
      BY DEF Q!Absent, Op!Absent
    <2> HIDE DEF A, B
    <2> QED
      BY <1>1, <2>1, <2>2, <2>3, <2>4, <2>5
  <1> QED
    BY <1>1, <1>2, <1>4, <1>5, <1>6

\* The nodes that are reached.
LEMMA ReachedValues ==
    ASSUME FiniteRecords, NEW edges \in SUBSET Edge, NEW target \in Node, NEW enough
    PROVE  LET R == Q!Reached(edges, target, enough)
           IN  /\ target \in R /\ R \in SUBSET Node
               /\ ClosedBack(edges, enough, R)
               /\ \A C : target \in C /\ ClosedBack(edges, enough, C) => R \subseteq C
  <1> DEFINE R == Q!Reached(edges, target, enough)
             S == Op!Reached(edges, target, enough)
  <1>1. /\ target \in S /\ S \in SUBSET Node
        /\ Op!ClosedBack(edges, enough, S)
        /\ \A C : target \in C /\ Op!ClosedBack(edges, enough, C) => S \subseteq C
    BY RecordsAreGraph, Op!ReachedIsLeast
  <1>2. \A C : ClosedBack(edges, enough, C) <=> Op!ClosedBack(edges, enough, C)
    BY DEF ClosedBack, Op!ClosedBack, Q!Blocking, Op!Blocking
  <1>3. R = S
    BY SameQueries
  <1> HIDE DEF R, S
  <1> QED
    BY <1>1, <1>2, <1>3 DEF R

\* What was found missing on the way, and what is still to be visited, for the edges
\* of the first read, the target and the strength of the request.
WalkRight(w, edges, target, k) ==
    LET enough == Q!Established(edges, k)
        incoming(n) == {e \in edges : conclusion[e] = n}
    IN  /\ target \notin enough
        /\ target \in w.todo \cup w.visited
        /\ w.todo \cup w.visited \subseteq Q!Reached(edges, target, enough)
        /\ \A e \in edges : conclusion[e] \in w.visited =>
               Q!Blocking(e, enough) \subseteq w.todo \cup w.visited
        /\ w.missing = UNION {Q!MissingAt(n, incoming(n), enough) : n \in w.visited}

LabelOf(edges, target, k) ==
    [established |-> target \in Q!Established(edges, k),
     kappa       |-> Q!KappaOf(edges, target),
     depth       |-> Q!DepthOf(edges, target)]

PathBody(edges, target, k) ==
    LET enough == Q!Established(edges, k)
    IN  [label   |-> LabelOf(edges, target, k),
         missing |-> IF target \in enough THEN {} ELSE Q!Missing(edges, target, enough)]

PathEdges == Graph(reads[2]) \ Refuting

Walking ==
    /\ pc = "read" /\ request.kind = "path" => Len(reads) = 1
    /\ pc = "walk" =>
           /\ request.kind = "path" /\ Len(reads) = 2
           /\ WalkRight(walk, PathEdges, request.target, request.min_kappa)
    /\ Answered({"path"}, 200) =>
           /\ Len(reads) = 2
           /\ answer.body = PathBody(PathEdges, request.target, request.min_kappa)

LEMMA WalkStart ==
    ASSUME FiniteRecords, NEW edges \in SUBSET Edge, NEW target \in Node, NEW k,
           target \notin Q!Established(edges, k)
    PROVE  WalkRight([todo |-> {target}, visited |-> {}, missing |-> {}], edges, target, k)
  <1>1. target \in Q!Reached(edges, target, Q!Established(edges, k))
    <2> DEFINE enough == Q!Established(edges, k)
    <2> HIDE DEF enough
    <2>1. target \in Q!Reached(edges, target, enough)
      BY ReachedValues
    <2> QED
      BY <2>1 DEF enough
  <1> QED
    BY <1>1 DEF WalkRight

\* A node is taken from the stack, and the blocking premises of its edges put on it.
Round(w, edges, k, n) ==
    LET enough == Q!Established(edges, k)
        incoming == {e \in edges : conclusion[e] = n}
        pushed == UNION {Q!Blocking(e, enough) : e \in incoming}
    IN  [todo    |-> (w.todo \cup pushed) \ (w.visited \cup {n}),
         visited |-> w.visited \cup {n},
         missing |-> w.missing \cup Q!MissingAt(n, incoming, enough)]

LEMMA WalkRound ==
    ASSUME FiniteRecords, NEW edges \in SUBSET Edge, NEW target \in Node, NEW k, NEW w,
           WalkRight(w, edges, target, k), NEW n \in w.todo,
           NEW v, v = Round(w, edges, k, n)
    PROVE  WalkRight(v, edges, target, k)
  <1> DEFINE enough == Q!Established(edges, k)
             incoming(m) == {e \in edges : conclusion[e] = m}
             pushed == UNION {Q!Blocking(e, enough) : e \in incoming(n)}
             R == Q!Reached(edges, target, enough)
             missing(m) == Q!MissingAt(m, incoming(m), enough)
  <1>1. /\ target \notin enough
        /\ target \in w.todo \cup w.visited
        /\ w.todo \cup w.visited \subseteq R
        /\ \A e \in edges : conclusion[e] \in w.visited =>
               Q!Blocking(e, enough) \subseteq w.todo \cup w.visited
        /\ w.missing = UNION {missing(m) : m \in w.visited}
    BY DEF WalkRight
  <1>2. /\ v.todo = (w.todo \cup pushed) \ (w.visited \cup {n})
        /\ v.visited = w.visited \cup {n}
        /\ v.missing = w.missing \cup missing(n)
    BY DEF Round
  <1>3. ClosedBack(edges, enough, R)
    <2> HIDE DEF enough
    <2>1. ClosedBack(edges, enough, Q!Reached(edges, target, enough))
      BY ReachedValues
    <2> QED
      BY <2>1
  <1> HIDE DEF R, missing
  <1>4. pushed \subseteq R
    BY <1>1, <1>3 DEF ClosedBack
  <1>5. v.todo \cup v.visited = w.todo \cup pushed \cup w.visited
    BY <1>2
  <1>6. v.todo \cup v.visited \subseteq R /\ target \in v.todo \cup v.visited
    BY <1>1, <1>4, <1>5
  <1>7. \A e \in edges : conclusion[e] \in v.visited => Q!Blocking(e, enough) \subseteq v.todo \cup v.visited
    <2> SUFFICES ASSUME NEW e \in edges, conclusion[e] \in v.visited
                 PROVE  Q!Blocking(e, enough) \subseteq v.todo \cup v.visited
      OBVIOUS
    <2>1. CASE conclusion[e] = n
      <3>1. Q!Blocking(e, enough) \subseteq pushed
        BY <2>1
      <3> QED
        BY <1>5, <3>1
    <2>2. CASE conclusion[e] \in w.visited
      BY <1>1, <1>5, <2>2
    <2> QED
      BY <1>2, <2>1, <2>2
  <1>8. v.missing = UNION {missing(m) : m \in v.visited}
    BY <1>1, <1>2
  <1> QED
    BY <1>1, <1>6, <1>7, <1>8 DEF WalkRight, R, missing

\* When the stack is empty, what was visited is closed: it is all that is reached.
LEMMA WalkOver ==
    ASSUME FiniteRecords, NEW edges \in SUBSET Edge, NEW target \in Node, NEW k, NEW w,
           WalkRight(w, edges, target, k), w.todo = {}
    PROVE  w.missing = Q!Missing(edges, target, Q!Established(edges, k))
  <1> DEFINE enough == Q!Established(edges, k)
             R == Q!Reached(edges, target, enough)
  <1>1. /\ target \in w.visited /\ w.visited \subseteq R
        /\ ClosedBack(edges, enough, w.visited)
        /\ w.missing = UNION {Q!MissingAt(n, {e \in edges : conclusion[e] = n}, enough) : n \in w.visited}
    BY DEF WalkRight, ClosedBack
  <1>2. R \subseteq w.visited
    BY <1>1, ReachedValues
  <1>3. w.visited = R
    BY <1>1, <1>2
  <1> HIDE DEF enough, R
  <1> QED
    BY <1>1, <1>3 DEF Q!Missing, R, enough

\* While the handler works, the edges of its first read stay what they were, they are
\* those that resolve, and the reads of the walk miss none of them.
LEMMA FirstReadKept ==
    ASSUME Whole, Reads, Len(reads) = 2
    PROVE  /\ PathEdges \in SUBSET Edge
           /\ Derivations(reads[2]) = PathEdges
           /\ \A n : Incoming(n) = {e \in PathEdges : conclusion[e] = n}
           /\ Grows /\ UNCHANGED reads => PathEdges' = PathEdges
  <1>1. Len(log) \in Nat /\ reads[2] \in 0 .. Len(log)
    <2>1. reads \in Seq(Nat) /\ \A i \in DOMAIN reads : reads[i] <= Len(log)
      BY DEF Reads
    <2>2. Len(log) \in Nat
      BY DEF Whole
    <2>3. 2 \in DOMAIN reads /\ reads[2] \in Nat
      <3>1. Len(reads) = 2
        OBVIOUS
      <3> QED
        BY <2>1, <3>1, SecondRead
    <2>4. reads[2] <= Len(log)
      BY <2>1, <2>3
    <2> QED
      BY <2>2, <2>3, <2>4
  <1>2. PathEdges \in SUBSET Edge
    BY DEF PathEdges, Graph
  <1>3. \A e \in Graph(reads[2]) : Hash(e) \in objects
    BY <1>1, CommittedIsStored
  <1>4. Derivations(reads[2]) = PathEdges
    BY <1>3 DEF Derivations, PathEdges
  <1>5. Graph(reads[2]) \subseteq Graph(Len(log))
    BY <1>1, GraphsGrow
  <1>6. \A n : Incoming(n) = {e \in PathEdges : conclusion[e] = n}
    BY <1>4, <1>5 DEF Incoming, EdgeMap, PathEdges
  <1>7. ASSUME Grows, UNCHANGED reads
        PROVE  PathEdges' = PathEdges
    <2>1. PICK n \in 0 .. Len(log) : n = reads[2]
      BY <1>1
    <2>2. Graph(n)' = Graph(n)
      BY <1>7, PastIsFixed
    <2>3. Graph(reads[2])' = Graph(n)'
      BY <1>7, <2>1 DEF Graph
    <2> QED
      BY <2>1, <2>2, <2>3 DEF PathEdges
  <1> QED
    BY <1>2, <1>4, <1>6, <1>7

LEMMA LabelIs == \A edges : Label(edges) = LabelOf(edges, request.target, request.min_kappa)
  BY DEF Label, LabelOf, Enough

LEMMA PathLabelsStep ==
    ASSUME FiniteRecords, ApiInvariant, Walking, [Next]_vars, PathLabels
    PROVE  Walking'
  <1>1. /\ pc = "read" /\ request.kind = "path" /\ request' = request /\ log' = log
        /\ reads' = Append(reads, Len(log)) /\ Len(reads) = 1
    BY DEF PathLabels, At, Reading, Respond, Goto, storageVars, Walking
  <1>2. request.target \in Node
    <2>1. request \in Request
      BY <1>1 DEF ApiInvariant, Control
    <2> QED
      BY <1>1, <2>1, RequestValues
  <1>3. Len(reads') = 2 /\ reads'[2] = Len(log)
    <2>1. reads \in Seq(Nat) /\ Len(log) \in Nat
      BY DEF ApiInvariant, Reads, Whole
    <2> QED
      BY <1>1, <2>1, SecondAppended
  <1> DEFINE E == Graph(Len(log)) \ Refuting
  <1>4. PathEdges' = E
    BY <1>1, <1>3 DEF PathEdges, Graph
  <1>5. E \in SUBSET Edge /\ Derivations(Len(log)) = E
    <2>1. Len(log) \in 0 .. Len(log)
      BY DEF ApiInvariant, Whole
    <2>2. \A e \in Graph(Len(log)) : Hash(e) \in objects
      BY <2>1, CommittedIsStored DEF ApiInvariant
    <2> QED
      BY <2>2 DEF Derivations, Graph
  <1> HIDE DEF E
  <1> DEFINE t == request.target
             k == request.min_kappa
  <1>6. Label(Derivations(Len(log))) = LabelOf(E, t, k)
    BY <1>5, LabelIs
  <1>7. LabelOf(E, t, k).established = (t \in Q!Established(E, k))
    BY DEF LabelOf
  <1>8. CASE t \in Q!Established(E, k)
    <2>1. /\ pc' = "idle"
          /\ answer' = [status |-> 200, body |-> [label |-> LabelOf(E, t, k), missing |-> {}]]
      <3> HIDE DEF t, k
      <3> QED
        BY <1>6, <1>7, <1>8 DEF PathLabels, Respond
    <2>2. answer'.body = PathBody(E, t, k)
      BY <1>8, <2>1 DEF PathBody
    <2> QED
      BY <1>1, <1>3, <1>4, <2>1, <2>2 DEF Walking
  <1>9. CASE t \notin Q!Established(E, k)
    <2>1. pc' = "walk" /\ walk' = [todo |-> {t}, visited |-> {}, missing |-> {}]
      <3> HIDE DEF t, k
      <3>1. pc' = "walk" /\ walk' = [NoWalk EXCEPT !.todo = {request.target}]
        BY <1>6, <1>7, <1>9 DEF PathLabels, Goto
      <3> QED
        BY <3>1 DEF NoWalk, t
    <2>2. WalkRight(walk', E, t, k)
      <3> HIDE DEF t, k
      <3>1. t \in Node
        BY <1>2 DEF t
      <3> QED
        BY <1>5, <1>9, <2>1, <3>1, WalkStart
    <2> QED
      BY <1>1, <1>3, <1>4, <2>1, <2>2 DEF Walking, Answered
  <1> QED
    BY <1>8, <1>9

LEMMA PathWalkStep ==
    ASSUME FiniteRecords, ApiInvariant, Walking, [Next]_vars, PathWalk \/ PathEnd
    PROVE  Walking'
  <1>1. /\ pc = "walk" /\ request.kind = "path" /\ request' = request /\ reads' = reads
        /\ Len(reads) = 2 /\ WalkRight(walk, PathEdges, request.target, request.min_kappa)
    BY DEF PathWalk, PathEnd, At, Respond, Goto, Walking
  <1>2. request.target \in Node
    <2>1. request \in Request
      BY <1>1 DEF ApiInvariant, Control
    <2> QED
      BY <1>1, <2>1, RequestValues
  <1>3. /\ PathEdges \in SUBSET Edge /\ Derivations(reads[2]) = PathEdges
        /\ \A n : Incoming(n) = {e \in PathEdges : conclusion[e] = n}
        /\ PathEdges' = PathEdges
    <2>1. Whole /\ Reads /\ Control
      BY DEF ApiInvariant
    <2>2. Grows
      BY <2>1, StorageGrows
    <2> QED
      BY <1>1, <2>1, <2>2, FirstReadKept
  <1> DEFINE E == PathEdges
             t == request.target
             k == request.min_kappa
             enough == Q!Established(E, k)
  <1>4. CASE PathWalk
    <2>1. PICK n \in walk.todo : walk' = WalkNode(n)
      BY <1>4 DEF PathWalk
    <2>2. pc' = "walk"
      BY <1>4 DEF PathWalk, Goto
    <2>3. WalkNode(n) = Round(walk, E, k, n)
      <3>1. EdgeMap = E /\ Incoming(n) = {e \in E : conclusion[e] = n}
        BY <1>3 DEF EdgeMap
      <3> HIDE DEF E
      <3> QED
        BY <3>1 DEF WalkNode, Round, Enough
    <2>4. WalkRight(walk', E, t, k)
      <3> HIDE DEF E, t, k
      <3>1. t \in Node /\ E \in SUBSET Edge /\ WalkRight(walk, E, t, k)
        BY <1>1, <1>2, <1>3 DEF E, t, k
      <3> QED
        BY <2>1, <2>3, <3>1, WalkRound
    <2> QED
      BY <1>1, <1>3, <2>2, <2>4 DEF Walking, Answered
  <1>5. CASE PathEnd
    <2>1. /\ walk.todo = {} /\ pc' = "idle"
          /\ answer' = [status |-> 200, body |-> [label |-> Label(EdgeMap), missing |-> walk.missing]]
      BY <1>5 DEF PathEnd, Respond
    <2>2. Label(EdgeMap) = LabelOf(E, t, k)
      BY <1>3, LabelIs DEF EdgeMap
    <2>3. walk.missing = Q!Missing(E, t, enough) /\ t \notin enough
      <3> HIDE DEF E, t, k
      <3>1. t \in Node /\ E \in SUBSET Edge /\ WalkRight(walk, E, t, k)
        BY <1>1, <1>2, <1>3 DEF E, t, k
      <3>2. t \notin enough
        BY <3>1 DEF WalkRight
      <3> QED
        BY <2>1, <3>1, <3>2, WalkOver
    <2>4. answer'.body = PathBody(E, t, k)
      BY <2>1, <2>2, <2>3 DEF PathBody
    <2> QED
      BY <1>1, <1>3, <2>1, <2>4 DEF Walking
  <1> QED
    BY <1>4, <1>5

LEMMA WalkingStep ==
    ASSUME FiniteRecords, ApiInvariant, Walking, [Next]_vars
    PROVE  Walking'
  <1>0. Whole /\ Reads /\ Control /\ Grows
    BY StorageGrows DEF ApiInvariant
  <1>1. CASE UNCHANGED local
    <2>1. Len(reads) = 2 => PathEdges' = PathEdges
      BY <1>0, <1>1, FirstReadKept DEF local
    <2>2. pc' = "walk" => /\ Len(reads') = 2 /\ request'.kind = "path"
                          /\ WalkRight(walk', PathEdges', request'.target, request'.min_kappa)
      BY <1>1, <2>1 DEF local, Walking
    <2>3. Answered({"path"}, 200)' =>
              /\ Len(reads') = 2
              /\ answer'.body = PathBody(PathEdges', request'.target, request'.min_kappa)
      BY <1>1, <2>1 DEF local, Walking, Answered
    <2> QED
      BY <1>1, <2>2, <2>3 DEF local, Walking
  <1>2. CASE \E r \in Request : Receive(r)
    <2>1. pc' # "walk" /\ pc' # "idle" /\ reads' = <<Len(log)>>
      BY <1>2 DEF Receive, FirstStep
    <2>2. Len(reads') = 1
      BY <2>1
    <2> QED
      BY <2>1, <2>2 DEF Walking, Answered
  <1>3. CASE Restart \/ (request.kind = "commit" /\ CommitEdge)
    <2>1. pc' = "idle" /\ request'.kind # "path"
      BY <1>3, RequestValues DEF Restart, CommitEdge
    <2> QED
      BY <2>1 DEF Walking, Answered
  <1>4. CASE Refuse \/ Fails
    <2>1. pc' = "idle" /\ answer'.status # 200
      BY <1>4, GivenUp
    <2> QED
      BY <2>1 DEF Walking, Answered
  <1>5. CASE PathLabels \/ PathWalk \/ PathEnd
    BY <1>5, PathLabelsStep, PathWalkStep
  <1>6. CASE /\ request' = request /\ request.kind # "path"
             /\ \/ query_reachable \/ GraphNodes \/ GraphEdges \/ EdgeHandler
                \/ AnchorRoot \/ AnchorCount \/ verify_history \/ CommitVerdict
    <2>1. pc' # "walk"
      BY <1>6 DEF query_reachable, GraphNodes, GraphEdges, AnchorRoot, AnchorCount, verify_history,
         EdgeHandler, ResolveEdge, ResolveNodes, ReVerify, SearchLog, CheckBinding,
         CommitVerdict, Respond, Goto
    <2> QED
      BY <1>6, <2>1 DEF Walking, Answered
  <1> QED
    BY <1>1, <1>2, <1>3, <1>4, <1>5, <1>6, Dispatch DEF EdgeKinds

\* The answer is that of one state of the graph, the one of the first read.
THEOREM PathAnswersAreSnapshots == FiniteRecords => (Spec => []PathIsSnapshot)
  <1> SUFFICES ASSUME FiniteRecords
               PROVE  Spec => []PathIsSnapshot
    OBVIOUS
  <1>1. Init => Walking
    BY RequestValues DEF Init, Walking, Answered
  <1>2. ApiInvariant /\ Walking /\ [Next]_vars => Walking'
    BY WalkingStep
  <1>3. ApiInvariant /\ Walking => PathIsSnapshot
    <2> SUFFICES ASSUME ApiInvariant, Walking, Answered({"path"}, 200)
                 PROVE  LET edges == Derivations(reads[2])
                            enough == Q!Established(edges, request.min_kappa)
                        IN  /\ answer.body.label = Label(edges)
                            /\ answer.body.missing = IF request.target \in enough THEN {}
                                                     ELSE Q!Missing(edges, request.target, enough)
      BY DEF PathIsSnapshot
    <2>1. /\ Len(reads) = 2
          /\ answer.body = PathBody(PathEdges, request.target, request.min_kappa)
      BY DEF Walking
    <2>2. Derivations(reads[2]) = PathEdges
      BY <2>1, FirstReadKept DEF ApiInvariant
    <2>3. Label(PathEdges) = LabelOf(PathEdges, request.target, request.min_kappa)
      BY LabelIs
    <2> QED
      BY <2>1, <2>2, <2>3 DEF PathBody
  <1> QED
    BY <1>1, <1>2, <1>3, ApiInvariantHolds, PTL DEF Spec

-----------------------------------------------------------------------------
(***************************************************************************)
(* The labels of an answer say what they should: they are computed by the  *)
(* operators of module GraphQueries, which are what the loops of reachable *)
(* end with (LoopsAnswerQueries of module ReachabilityProofs).             *)
(***************************************************************************)

ClosedForward(edges, k, C) ==
    \A e \in edges : strength[e] >= k /\ PremiseSets[e] \subseteq C => conclusion[e] \in C

(***************************************************************************)
(* A claim has a label of at least k exactly if it belongs to every set    *)
(* that is closed under the edges of at least strength k, and a depth of   *)
(* at most d exactly if d steps derive it.                                 *)
(***************************************************************************)
THEOREM LabelsMeanDerivability ==
    ASSUME FiniteRecords, NEW edges \in SUBSET Edge, NEW n \in Node
    PROVE  /\ \A k \in 0 .. 4 :
                  Q!KappaOf(edges, n) >= k <=>
                      \A C \in SUBSET Node : ClosedForward(edges, k, C) => n \in C
           /\ \A d \in Nat :
                  n \in Q!Within(edges, 0, d) <=>
                      Q!DepthOf(edges, n) # Q!Absent /\ Q!DepthOf(edges, n) <= d
  <1>1. ASSUME NEW k \in 0 .. 4
        PROVE  Q!KappaOf(edges, n) >= k <=>
                   \A C \in SUBSET Node : ClosedForward(edges, k, C) => n \in C
    <2> DEFINE E == Op!Established(edges, k)
    <2>1. n \in E <=> Op!KappaOf(edges, n) >= k
      BY RecordsAreGraph, Op!KappaOfIsStrongest DEF Op!Kappa
    <2>2. /\ E \in SUBSET Node /\ Op!ClosedForward(edges, k, E)
          /\ \A C \in SUBSET Node : Op!ClosedForward(edges, k, C) => E \subseteq C
      BY RecordsAreGraph, Op!EstablishedIsLeast
    <2>3. \A C : ClosedForward(edges, k, C) <=> Op!ClosedForward(edges, k, C)
      BY DEF ClosedForward, Op!ClosedForward
    <2> HIDE DEF E
    <2>4. Q!KappaOf(edges, n) = Op!KappaOf(edges, n)
      BY SameQueries
    <2>5. n \in E <=> \A C \in SUBSET Node : ClosedForward(edges, k, C) => n \in C
      BY <2>2, <2>3
    <2> QED
      BY <2>1, <2>4, <2>5
  <1>2. \A d \in Nat : n \in Op!Within(edges, 0, d) <=>
                           Op!DepthOf(edges, n) # Op!Absent /\ Op!DepthOf(edges, n) <= d
    BY RecordsAreGraph, Op!DepthOfIsLeast
  <1>3. Q!Absent = Op!Absent
    BY DEF Q!Absent, Op!Absent
  <1> QED
    BY <1>1, <1>2, <1>3, SameQueries

-----------------------------------------------------------------------------
(***************************************************************************)
(* What the server and the processes beside it write is the abstract       *)
(* ledger, which holds the roster from the start.                          *)
(***************************************************************************)

Signed == [i \in DOMAIN log |-> [signer |-> log[i].signer_pubkey, payload |-> log[i].payload]]

Store == INSTANCE Ledger WITH
             Signer <- Keys, entries <- Signed, edges <- Graph(Len(log))

\* The ledger after its first step.
GenesisLogged ==
    /\ Signed = <<[signer |-> AuthorKey, payload |-> Genesis]>>
    /\ Graph(Len(log)) = {}

LEMMA ApiLedgerStep == Whole /\ Control /\ [Next]_vars => [Store!LedgerNext]_(Store!ledgerVars)
  <1> SUFFICES ASSUME Whole, Control, [Next]_vars
               PROVE  [Store!LedgerNext]_(Store!ledgerVars)
    OBVIOUS
  <1>0. log \in Seq(Rows) /\ Len(log) \in Nat /\ Len(log) >= 1
    BY DEF Whole
  <1>1. CASE log' = log
    <2>1. Signed' = Signed /\ Graph(Len(log))' = Graph(Len(log))
      BY <1>1 DEF Signed, Graph
    <2> QED
      BY <2>1 DEF Store!ledgerVars
  <1>2. CASE \E e \in Edge, key \in Keys : CommitBy(key, e)
    <2>1. PICK e \in Edge, key \in Keys : CommitBy(key, e)
      BY <1>2
    <2> DEFINE n == Len(log)
               r == LogEntry(n, key, e, log[n].entry_hash)
               entry == [signer |-> key, payload |-> e]
    <2>2. log' = Append(log, r)
      BY <2>1 DEF CommitBy
    <2>3. r.signer_pubkey = key /\ r.payload = e
      BY DEF LogEntry
    <2> HIDE DEF r
    <2>4. /\ DOMAIN log = 1 .. n /\ DOMAIN log' = 1 .. n + 1 /\ Len(log') = n + 1 /\ n \in Nat
          /\ log'[n + 1] = r /\ \A i \in 1 .. n : log'[i] = log[i]
      BY <1>0, <2>2
    <2>n. \A i : i \in 1 .. n + 1 <=> i \in 1 .. n \/ i = n + 1
      <3> HIDE DEF n
      <3> QED
        BY <2>4
    <2>5. Signed' = Append(Signed, entry)
      <3>1. Signed = [i \in 1 .. n |-> [signer |-> log[i].signer_pubkey, payload |-> log[i].payload]]
        BY <2>4 DEF Signed
      <3>2. Signed' = [i \in 1 .. n + 1 |-> [signer  |-> log'[i].signer_pubkey,
                                             payload |-> log'[i].payload]]
        BY <2>4 DEF Signed
      <3>3. \A i \in 1 .. n : Signed'[i] = Signed[i]
        BY <2>4, <3>1, <3>2
      <3>4. Signed'[n + 1] = entry
        BY <2>3, <2>4, <3>2
      <3> HIDE DEF entry, n
      <3>5. Signed' = [i \in 1 .. n + 1 |-> IF i = n + 1 THEN entry ELSE Signed[i]]
        <4>1. \A i \in 1 .. n + 1 : Signed'[i] = IF i = n + 1 THEN entry ELSE Signed[i]
          BY <2>n, <3>3, <3>4
        <4> QED
          BY <3>2, <4>1
      <3>6. Signed = [i \in 1 .. n |-> Signed[i]] /\ Len(Signed) = n
        BY <2>4, <3>1
      <3> QED
        BY <2>4, <3>5, <3>6
    <2>6. Graph(Len(log))' = Graph(Len(log)) \cup {e}
      <3>1. \A x : (\E i \in 1 .. n + 1 : log'[i].payload = x) <=>
                       (\E i \in 1 .. n : log[i].payload = x) \/ e = x
        BY <2>3, <2>4, <2>n
      <3> QED
        BY <2>4, <3>1 DEF Graph
    <2>7. Store!CommitEdge(key, e)
      BY <2>5, <2>6 DEF Store!CommitEdge
    <2> QED
      BY <2>7 DEF Store!LedgerNext
  <1> QED
    BY <1>1, <1>2, StorageStep DEF storageVars

\* Whoever commits, and wherever a handler or a process stops: the log of the server and
\* its graph grow together by whole edges, as the ledger does.
THEOREM ServerUsesLedger ==
    Spec => GenesisLogged /\ [][Store!LedgerNext]_(Store!ledgerVars)
  <1>1. Init => GenesisLogged
    <2> SUFFICES ASSUME Init
                 PROVE  GenesisLogged
      OBVIOUS
    <2>1. log = <<LogEntry(0, AuthorKey, Genesis, GENESIS_PREV_HASH)>>
      BY DEF Init
    <2>2. /\ LogEntry(0, AuthorKey, Genesis, GENESIS_PREV_HASH).signer_pubkey = AuthorKey
          /\ LogEntry(0, AuthorKey, Genesis, GENESIS_PREV_HASH).payload = Genesis
      BY DEF LogEntry
    <2>3. /\ Len(log) = 1 /\ DOMAIN log = {1}
          /\ log[1].signer_pubkey = AuthorKey /\ log[1].payload = Genesis
      BY <2>1, <2>2
    <2>4. Genesis \notin Edge
      OBVIOUS
    <2>5. Graph(Len(log)) = {}
      BY <2>3, <2>4 DEF Graph
    <2>6. Signed = [i \in {1} |-> [signer |-> AuthorKey, payload |-> Genesis]]
      BY <2>3 DEF Signed
    <2> QED
      BY <2>5, <2>6 DEF GenesisLogged
  <1>2. ApiInvariant => Whole /\ Control
    BY DEF ApiInvariant
  <1> QED
    BY <1>1, <1>2, ApiLedgerStep, ApiInvariantHolds, PTL DEF Spec
=============================================================================
