----------------------------- MODULE EdgeRecords -----------------------------
(***************************************************************************)
(* The records both backends store: node, edge and proof blobs named by    *)
(* their content address, and the rows that the graph index keeps for an   *)
(* edge.  An edge record contains the addresses of its premises, of its    *)
(* conclusion and of its proof, so all of them are functions of the edge.  *)
(***************************************************************************)
EXTENDS SignedLog

CONSTANTS
    Node,           \* node records
    Edge,           \* edge records that passed verification
    Proof,          \* proof artifacts
    Raw,            \* payloads logged without an edge: rosters
    premises,       \* Edge -> the sequence of its premises
    conclusion,     \* Edge -> its conclusion
    proof,          \* Edge -> its proof artifact, or None
    None            \* no process, no job, no row, no proof

ASSUME EdgeRecordsAssumption ==
    /\ premises \in [Edge -> Seq(Node)]
    /\ conclusion \in [Edge -> Node]
    /\ proof \in [Edge -> Proof \cup {None}]
    /\ None \notin Proof \cup Edge \cup Raw
    /\ Edge \cap Raw = {}

Payload == Edge \cup Raw

Address == {Hash(d) : d \in Node \cup Edge \cup Proof \cup Raw}

EdgeRow(e) == <<Hash(e), Hash(conclusion[e])>>

PremiseRows(e) ==
    {<<Hash(e), i, Hash(premises[e][i])>> : i \in DOMAIN premises[e]}

Endpoints(e) ==
    {Hash(conclusion[e])} \cup {Hash(premises[e][i]) : i \in DOMAIN premises[e]}

\* The blobs that verify_and_commit has written when the graph learns of an edge,
\* in order: the node payloads, the edge record, the proof artifact if any.
Puts(e) ==
    [i \in DOMAIN premises[e] |-> Hash(premises[e][i])]
        \o <<Hash(conclusion[e]), Hash(e)>>
        \o (IF proof[e] = None THEN <<>> ELSE <<Hash(proof[e])>>)

-----------------------------------------------------------------------------
(***************************************************************************)
(* Types of the log's rows.                                                *)
(***************************************************************************)

Link == Address \cup {GENESIS_PREV_HASH}

LogRow(Key) ==
    [ seq : Nat, signer_pubkey : Key, entry_hash : Address, prev_log_hash : Link,
      signature : {"ed25519"} \X Key \X (Nat \X Key \X Address \X Link),
      payload : Payload ]
==============================================================================
