------------------------------- MODULE Ledger --------------------------------
(***************************************************************************)
(* What the storage layer promises its callers, without files, locks,      *)
(* transactions or crashes: an append-only sequence of signed payloads and *)
(* a set of graph edges, where committing an edge changes both at once and *)
(* appending a raw payload (the roster) changes only the sequence.         *)
(***************************************************************************)
EXTENDS Naturals, Sequences

CONSTANTS
    Signer,     \* public keys that sign log entries
    Edge,       \* edge records
    Raw         \* payloads appended without an edge: rosters

VARIABLES
    entries,    \* the log: who signed what, in order
    edges       \* the edges of the graph

ledgerVars == <<entries, edges>>

LedgerInit ==
    /\ entries = <<>>
    /\ edges = {}

\* One reasoning step becomes visible in the log and in the graph together.
CommitEdge(signer, e) ==
    /\ entries' = Append(entries, [signer |-> signer, payload |-> e])
    /\ edges' = edges \cup {e}

\* A payload is logged that the graph knows nothing of.
AppendRaw(signer, r) ==
    /\ entries' = Append(entries, [signer |-> signer, payload |-> r])
    /\ UNCHANGED edges

LedgerNext ==
    \E signer \in Signer :
        \/ \E e \in Edge : CommitEdge(signer, e)
        \/ \E r \in Raw : AppendRaw(signer, r)

LedgerSpec == LedgerInit /\ [][LedgerNext]_ledgerVars
==============================================================================
