---------------------------- MODULE GraphQueries -----------------------------
(***************************************************************************)
(* The answers of the two queries for a given set of derivation edges.     *)
(* Module Reachability has the loops that compute them, and shows that     *)
(* they end with these labels in whatever order the edges are visited.     *)
(***************************************************************************)
EXTENDS Integers, FiniteSetsExt

CONSTANTS
    Node,           \* content addresses of nodes
    Edge,           \* edges
    PremiseSet,     \* Edge -> the set of its premises
    conclusion,     \* Edge -> its conclusion
    strength        \* Edge -> its label, 0 .. 4 for K0, K1, K2, K3 and K_INF

Kappa == 0 .. 4
Absent == -1        \* no label, no depth

\* The nodes that the edges of at least strength k derive in at most d steps.
Within(edges, k, d) ==
    LET strong == {e \in edges : strength[e] >= k}
        level[i \in 0 .. d] ==
            LET below == IF i = 0 THEN {} ELSE level[i - 1]
            IN  below \cup {conclusion[e] : e \in {f \in strong : PremiseSet[f] \subseteq below}}
    IN  level[d]

\* All nodes that they derive: rounds are added until one adds nothing.
Established(edges, k) ==
    LET strong == {e \in edges : strength[e] >= k}
        close[S \in SUBSET Node] ==
            LET next == S \cup {conclusion[e] : e \in {f \in strong : PremiseSet[f] \subseteq S}}
            IN  IF next = S THEN S ELSE close[next]
    IN  close[{}]

\* The label of a node: the strongest at which it is derivable.
KappaOf(edges, n) == Max({Absent} \cup {k \in Kappa : n \in Established(edges, k)})

\* The depth of its shallowest derivation.
DepthOf(edges, n) ==
    IF n \in Established(edges, 0)
    THEN Min({d \in 0 .. Cardinality(Node) : n \in Within(edges, 0, d)})
    ELSE Absent

-----------------------------------------------------------------------------
(***************************************************************************)
(* path_discovery, for the nodes that are good enough.                     *)
(***************************************************************************)

Blocking(e, enough) == PremiseSet[e] \ enough

\* Mutation: only leaves are reported.
MissingLeaf(n, incoming, enough) ==
    IF incoming = {} THEN {[conclusion |-> n, blocking |-> {}]} ELSE {}

\* What one node on the walk back adds to the missing edges, given the edges that
\* conclude it: a leaf needs a definition, a blocked edge its blocking premises.
MissingAt(n, incoming, enough) ==
    IF incoming = {} THEN {[conclusion |-> n, blocking |-> {}]}
    ELSE {[conclusion |-> n, blocking |-> Blocking(e, enough)] :
              e \in {f \in incoming : Blocking(f, enough) # {}}}

\* The nodes the walk reaches from the target.
Reached(edges, target, enough) ==
    LET reached[i \in 0 .. Cardinality(Node)] ==
            IF i = 0 THEN {target}
            ELSE LET before == reached[i - 1]
                 IN  before \cup UNION {Blocking(e, enough) :
                                            e \in {f \in edges : conclusion[f] \in before}}
    IN  reached[Cardinality(Node)]

Missing(edges, target, enough) ==
    UNION {MissingAt(n, {e \in edges : conclusion[e] = n}, enough) :
               n \in Reached(edges, target, enough)}
==============================================================================
