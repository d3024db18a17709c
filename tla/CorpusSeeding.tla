---------------------------- MODULE CorpusSeeding ----------------------------
(***************************************************************************)
(* The loop of the seed script (seed_phaser.py) over the real corpus, and  *)
(* the queries it ends with.  A spectral check may run into its timeout,   *)
(* the script may die between any two steps, also between the write of an  *)
(* edge's blob and its transaction, and it may be run again.  The files    *)
(* and processes around the loop are in module Seeding.                    *)
(***************************************************************************)
EXTENDS Corpus, Integers

CONSTANT MaxRuns        \* bound of the model: how often the script is started

ASSUME CorpusSeedingAssumption == MaxRuns \in Nat

VARIABLES
    next,           \* the edge the loop is at; after the last one, the loop has ended
    pc,             \* "build", "commit" or "transaction"
    blobs,          \* the edges whose record is in the object store
    committed,      \* the edges in the log and the graph
    unmatched,      \* the edges whose row in the report is REJECTED or MISMATCH
    runs            \* how often the script was started

loopVars == <<next, pc, blobs, committed, unmatched, runs>>

Edges == DOMAIN CORPUS_EDGES

-----------------------------------------------------------------------------
\* Mutation: an analogy gets the label of the other types without a checker.
AwardWithoutDefault(type) == IF type = "spectral" THEN 2 ELSE 1

\* The label a step is stored with; no definition of the corpus is on the roster.
Award(type) ==
    CASE type = "spectral" -> 2
      [] type = "analogy"  -> 0
      [] OTHER             -> 1

Premises == [i \in Edges |-> CORPUS_EDGES[i].premises]
Conclusions == [i \in Edges |-> CORPUS_EDGES[i].conclusion]
Strengths == [i \in Edges |-> Award(CORPUS_EDGES[i].type)]

Q == INSTANCE GraphQueries WITH
        Edge <- Edges, PremiseSet <- Premises, conclusion <- Conclusions, strength <- Strengths

\* A refutation derives nothing.
Derivations == {i \in committed : CORPUS_EDGES[i].type # "refutation"}

-----------------------------------------------------------------------------
AtEdge(label) == pc = label /\ next \in Edges

MayTimeOut == CORPUS_EDGES[next].type = "spectral"

Row(matched) ==
    /\ unmatched' = IF matched THEN unmatched ELSE unmatched \cup {next}
    /\ next' = next + 1
    /\ pc' = "build"
    /\ UNCHANGED runs

\* The first verification fails: REJECTED.
Rejected ==
    /\ AtEdge("build") /\ MayTimeOut
    /\ Row(FALSE)
    /\ UNCHANGED <<blobs, committed>>

\* The record is there already: SKIP.
Skipped ==
    /\ AtEdge("build") /\ next \in blobs
    /\ Row(TRUE)
    /\ UNCHANGED <<blobs, committed>>

Proposed ==
    /\ AtEdge("build") /\ next \notin blobs
    /\ pc' = "commit"
    /\ UNCHANGED <<next, blobs, committed, unmatched, runs>>

\* verify_and_commit verifies again, and fails this time: MISMATCH.
RejectedLate ==
    /\ AtEdge("commit") /\ MayTimeOut
    /\ Row(FALSE)
    /\ UNCHANGED <<blobs, committed>>

PutRecord ==
    /\ AtEdge("commit")
    /\ blobs' = blobs \cup {next}
    /\ pc' = "transaction"
    /\ UNCHANGED <<next, committed, unmatched, runs>>

\* MATCH, or MISMATCH if the label is not the expected one.
Commit ==
    /\ AtEdge("transaction")
    /\ committed' = committed \cup {next}
    /\ Row(Strengths[next] = CORPUS_EDGES[next].expected)
    /\ UNCHANGED blobs

\* The script has ended or was killed, and is started again.
RunAgain ==
    /\ runs < MaxRuns
    /\ next > 1 \/ pc # "build"
    /\ next' = 1 /\ pc' = "build" /\ unmatched' = {} /\ runs' = runs + 1
    /\ UNCHANGED <<blobs, committed>>

LoopInit ==
    /\ next = 1 /\ pc = "build"
    /\ blobs = {} /\ committed = {} /\ unmatched = {}
    /\ runs = 1

LoopNext ==
    \/ Rejected \/ Skipped \/ Proposed \/ RejectedLate \/ PutRecord \/ Commit
    \/ RunAgain

LoopSpec == LoopInit /\ [][LoopNext]_loopVars

-----------------------------------------------------------------------------
\* "The tool must report this truthfully rather than inflate it": at no moment of any
\* run does the graph, over all five threads and their bridges, derive the hypothesis
\* at K1, or anything at K2 but what a spectral check has confirmed.
NothingInflated ==
    /\ 7 \notin Q!Established(Derivations, 1)
    /\ Q!Established(Derivations, 2) \subseteq {32, 33, 34}
    /\ Q!Established(Derivations, 3) = {}

\* The exit criteria of the script: when it has ended and every record in the object
\* store is committed, the phaser result is established at K1 in one step, the
\* hypothesis only at K0, and the path to it names the Hilbert-Polya operator,
\* whichever checks ran into their timeout and however often the script was run.
\* (After a death before a transaction the orphaned record is skipped for good.)
ExitCriteriaMet ==
    next = Len(CORPUS_EDGES) + 1 /\ blobs = committed =>
        LET gaps == Q!Missing(Derivations, 7, Q!Established(Derivations, 1))
        IN  /\ Q!KappaOf(Derivations, 5) = 1
            /\ Q!DepthOf(Derivations, 5) = 1
            /\ Q!KappaOf(Derivations, 7) = 0
            /\ 9 \in UNION {{m.conclusion} \cup m.blocking : m \in gaps}
            /\ unmatched \subseteq {i \in Edges : CORPUS_EDGES[i].type = "spectral"}
==============================================================================
