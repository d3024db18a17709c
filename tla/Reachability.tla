---------------------------- MODULE Reachability -----------------------------
(***************************************************************************)
(* reachable (reachability.py): AND-OR derivability over the derivation    *)
(* edges, with strength and depth.  Three loops over the edges: the seeds, *)
(* then strengths until a pass raises none, then depths until a pass       *)
(* lowers none.  A pass visits the edges in the order of their hashes,     *)
(* about which nothing is known: here, in any order.                       *)
(*                                                                         *)
(* Edge is what _derivation_edges keeps: edges that resolve, are active,   *)
(* are no refutation and were not vetoed.  Of the premises only the set    *)
(* matters.  The labels K0, K1, K2, K3 and K_INF are the numbers 0 .. 4.   *)
(***************************************************************************)
EXTENDS Integers, FiniteSetsExt

CONSTANTS
    Node,           \* content addresses of nodes
    Edge            \* the derivation edges

\* The graph of a store is finite.
ASSUME ReachabilityAssumption == IsFiniteSet(Node) /\ IsFiniteSet(Edge)

Kappa == 0 .. 4
K_INF == 4
Absent == -1        \* not a key of the dictionary

VARIABLES
    premises, conclusion, strength,     \* the records of the edges
    extra_seeds,                        \* hypothetical seeds of the query
    kappa, depth, best_edge,            \* the three dictionaries of _fixpoint
    phase, todo, changed                \* the loop, the rest of its pass, its flag

graph == <<premises, conclusion, strength, extra_seeds>>
vars == <<premises, conclusion, strength, extra_seeds,
          kappa, depth, best_edge, phase, todo, changed>>

-----------------------------------------------------------------------------
min_kappa(ks) == Min(ks)

PathKappa(h) == min_kappa({strength[h]} \cup {kappa[p] : p \in premises[h]})

\* Mutation: the shallowest premise counts.
PathDepthFirst(h) == 1 + Min({depth[p] : p \in premises[h]})

PathDepth(h) == 1 + Max({depth[p] : p \in premises[h]})

Init ==
    /\ premises \in [Edge -> SUBSET Node]
    /\ conclusion \in [Edge -> Node]
    /\ strength \in [Edge -> Kappa]
    /\ extra_seeds \in SUBSET Node
    /\ kappa = [n \in Node |-> Absent]
    /\ depth = [n \in Node |-> Absent]
    /\ best_edge = [n \in Node |-> {}]
    /\ phase = "seed" /\ todo = Edge /\ changed = FALSE

Visiting(p, h) ==
    /\ phase = p /\ h \in todo
    /\ todo' = todo \ {h}
    /\ UNCHANGED <<graph, phase>>

\* An edge that the loop passes over.
Unaffected == UNCHANGED <<kappa, depth, best_edge, changed>>

\* _seed for a zero-premise edge: the strongest label stays, the last edge wins.
SeedEdge(h) ==
    /\ Visiting("seed", h)
    /\ premises[h] = {}
    /\ kappa' = [kappa EXCEPT ![conclusion[h]] = IF strength[h] > @ THEN strength[h] ELSE @]
    /\ depth' = [depth EXCEPT ![conclusion[h]] = 0]
    /\ best_edge' = [best_edge EXCEPT ![conclusion[h]] = {h}]
    /\ UNCHANGED changed

PassOverSeed(h) == Visiting("seed", h) /\ premises[h] # {} /\ Unaffected

\* _seed for every hypothetical seed, which has no edge; then the first pass.
SeedExtra ==
    /\ phase = "seed" /\ todo = {}
    /\ kappa' = [n \in Node |-> IF n \in extra_seeds THEN K_INF ELSE kappa[n]]
    /\ depth' = [n \in Node |-> IF n \in extra_seeds THEN 0 ELSE depth[n]]
    /\ phase' = "kappa" /\ todo' = Edge /\ changed' = FALSE
    /\ UNCHANGED <<graph, best_edge>>

\* An edge with premises, all of which have a label.
Fires(h) == premises[h] # {} /\ \A p \in premises[h] : kappa[p] # Absent

\* The conclusion has no label yet, or a weaker one.
Raises(h) == Fires(h) /\ PathKappa(h) > kappa[conclusion[h]]

\* Mutation: the pass does not notice that it raised a label.
RaiseUnnoticed(h) ==
    /\ Visiting("kappa", h)
    /\ Raises(h)
    /\ kappa' = [kappa EXCEPT ![conclusion[h]] = PathKappa(h)]
    /\ best_edge' = [best_edge EXCEPT ![conclusion[h]] = {h}]
    /\ UNCHANGED <<depth, changed>>

Raise(h) ==
    /\ Visiting("kappa", h)
    /\ Raises(h)
    /\ kappa' = [kappa EXCEPT ![conclusion[h]] = PathKappa(h)]
    /\ best_edge' = [best_edge EXCEPT ![conclusion[h]] = {h}]
    /\ changed' = TRUE
    /\ UNCHANGED depth

PassOverKappa(h) == Visiting("kappa", h) /\ ~Raises(h) /\ Unaffected

\* An edge with premises whose depths are known, to an established conclusion, by
\* which the conclusion is reached at all or sooner.
Shortens(h) ==
    /\ premises[h] # {}
    /\ kappa[conclusion[h]] # Absent
    /\ \A p \in premises[h] : depth[p] # Absent
    /\ depth[conclusion[h]] = Absent \/ PathDepth(h) < depth[conclusion[h]]

Shorten(h) ==
    /\ Visiting("depth", h)
    /\ Shortens(h)
    /\ depth' = [depth EXCEPT ![conclusion[h]] = PathDepth(h)]
    /\ changed' = TRUE
    /\ UNCHANGED <<kappa, best_edge>>

PassOverDepth(h) == Visiting("depth", h) /\ ~Shortens(h) /\ Unaffected

\* Mutation: the loops never end.
PassForEver ==
    /\ phase \in {"kappa", "depth"} /\ todo = {}
    /\ todo' = Edge /\ changed' = FALSE
    /\ UNCHANGED <<graph, kappa, depth, best_edge, phase>>

\* while changed: changed = False
NextPass ==
    /\ phase \in {"kappa", "depth"} /\ todo = {} /\ changed
    /\ todo' = Edge /\ changed' = FALSE
    /\ UNCHANGED <<graph, kappa, depth, best_edge, phase>>

EndKappa ==
    /\ phase = "kappa" /\ todo = {} /\ ~changed
    /\ phase' = "depth" /\ todo' = Edge
    /\ UNCHANGED <<graph, kappa, depth, best_edge, changed>>

EndDepth ==
    /\ phase = "depth" /\ todo = {} /\ ~changed
    /\ phase' = "done"
    /\ UNCHANGED <<graph, kappa, depth, best_edge, todo, changed>>

Next ==
    \/ \E h \in Edge : \/ SeedEdge(h) \/ PassOverSeed(h)
                       \/ Raise(h) \/ PassOverKappa(h)
                       \/ Shorten(h) \/ PassOverDepth(h)
    \/ SeedExtra \/ NextPass \/ EndKappa \/ EndDepth

Spec == Init /\ [][Next]_vars

\* The query runs on: nothing it does can block.
FairSpec == Spec /\ WF_vars(Next)

-----------------------------------------------------------------------------
(***************************************************************************)
(* _collect_proof_tree: the edges found by following best_edge from the    *)
(* target.  Every round of Cone follows the pointers one edge further, so  *)
(* one round per edge is enough.                                           *)
(***************************************************************************)

\* Mutation: only the target's own edge is followed.
ConeOfOne(target) == {target}

Cone(target) ==
    LET cone[k \in 0 .. Cardinality(Edge)] ==
            IF k = 0 THEN {target}
            ELSE cone[k - 1] \cup
                 UNION {premises[h] : h \in UNION {best_edge[n] : n \in cone[k - 1]}}
    IN  cone[Cardinality(Edge)]

ProofTree(target) == UNION {best_edge[n] : n \in Cone(target)}

-----------------------------------------------------------------------------
(***************************************************************************)
(* path_discovery: the same labels without hypothetical seeds, then a walk *)
(* back from a target that is not established at strength k, through the   *)
(* premises that are not, to what is missing.                              *)
(***************************************************************************)

AtLeast(k) == {n \in Node : kappa[n] >= k}

\* Mutation: a premise that is established too weakly does not block.
BlockingUnlabelled(h, k) == {p \in premises[h] : kappa[p] = Absent}

Blocking(h, k) == premises[h] \ AtLeast(k)

\* Every round takes the blocking premises of the edges into what was visited.
Visited(target, k) ==
    LET visited[i \in 0 .. Cardinality(Node)] ==
            IF i = 0 THEN {target}
            ELSE visited[i - 1] \cup
                 UNION {Blocking(h, k) : h \in {g \in Edge : conclusion[g] \in visited[i - 1]}}
    IN  visited[Cardinality(Node)]

\* A node that nothing concludes needs a definition; an edge with a blocking premise
\* needs that premise.
MissingEdges(target, k) ==
    LET leaf(n) == \A h \in Edge : conclusion[h] # n
        blocked == {h \in Edge : conclusion[h] \in Visited(target, k) /\ Blocking(h, k) # {}}
    IN  {[conclusion |-> n, blocking |-> {}] : n \in {m \in Visited(target, k) : leaf(m)}}
        \cup {[conclusion |-> conclusion[h], blocking |-> Blocking(h, k)] : h \in blocked}

-----------------------------------------------------------------------------
(***************************************************************************)
(* The reference: what is derivable at strength k is the least set that    *)
(* holds the seeds and is closed under the edges of at least that          *)
(* strength.                                                               *)
(***************************************************************************)

ClosedUnder(edges, k, S) ==
    /\ extra_seeds \subseteq S
    /\ \A h \in edges :
           strength[h] >= k /\ premises[h] \subseteq S => conclusion[h] \in S

Derivable(edges, k) == {n \in Node : \A S \in SUBSET Node : ClosedUnder(edges, k, S) => n \in S}

\* What would be derivable if the nodes of G were granted.
DerivableGranted(G, k) ==
    {n \in Node : \A S \in SUBSET Node : G \subseteq S /\ ClosedUnder(Edge, k, S) => n \in S}

\* What is derivable in d steps; seeds take none.
WithinDepth(d) ==
    LET level[i \in 0 .. d] ==
            IF i = 0
            THEN extra_seeds \cup {conclusion[h] : h \in {g \in Edge : premises[g] = {}}}
            ELSE level[i - 1] \cup
                 {conclusion[h] : h \in {g \in Edge : premises[g] \subseteq level[i - 1]}}
    IN  level[d]

\* The labels are the max-min fixpoint: a node has a label of at least k exactly if
\* it is derivable from the seeds through edges of at least strength k, cycles and
\* corroborating paths included, in whatever order the edges are visited.
KappaIsBest == phase = "done" => \A k \in Kappa : AtLeast(k) = Derivable(Edge, k)

\* The depth is that of the shallowest derivation, and every node that has a label
\* has a depth, so that looking the depth up cannot fail.
DepthIsMinimal ==
    phase = "done" =>
        \A n \in Node, d \in 0 .. Cardinality(Node) :
            n \in WithinDepth(d) <=> depth[n] # Absent /\ depth[n] <= d

\* The edges that are returned as the proof tree of an established node do derive
\* it, although the pointers are overwritten while labels rise.
ProofTreeDerives ==
    phase = "done" =>
        \A n \in Node : kappa[n] # Absent => n \in Derivable(ProofTree(n), 0)

\* The frontier of a target that is not established names every way to it: while the
\* target and the blocking nodes that were named are not granted, granting all other
\* nodes does not make the target derivable.
FrontierBlocks ==
    phase = "done" /\ extra_seeds = {} =>
        \A k \in Kappa : \A target \in Node \ AtLeast(k) :
            LET named == {target} \cup UNION {m.blocking : m \in MissingEdges(target, k)}
            IN  target \notin DerivableGranted(Node \ named, k)

\* All three loops end.
Terminates == <>(phase = "done")
==============================================================================
