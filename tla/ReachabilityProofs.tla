------------------------- MODULE ReachabilityProofs --------------------------
(***************************************************************************)
(* What _fixpoint, the proof tree and path_discovery return is right, for  *)
(* every set of edges, every graph and every order of visits.              *)
(***************************************************************************)
EXTENDS Reachability, WellFoundedInduction, FiniteSetTheorems, TLAPS

-----------------------------------------------------------------------------
(***************************************************************************)
(* The inductive invariant.  A label is never higher than what every       *)
(* closed set justifies; while a pass has changed nothing, no edge that it *)
(* has visited could have raised a label.                                  *)
(***************************************************************************)

\* The types, but for the depths, which the labels do not depend on.
LabelTypes ==
    /\ premises \in [Edge -> SUBSET Node]
    /\ conclusion \in [Edge -> Node]
    /\ strength \in [Edge -> Kappa]
    /\ extra_seeds \in SUBSET Node
    /\ kappa \in [Node -> Kappa \cup {Absent}]
    /\ phase \in {"seed", "kappa", "depth", "done"}
    /\ todo \in SUBSET Edge
    /\ changed \in BOOLEAN

LabelsJustified ==
    \A k \in Kappa : \A S \in SUBSET Node :
        ClosedUnder(Edge, k, S) => AtLeast(k) \subseteq S

Seeded(h) == premises[h] = {} => kappa[conclusion[h]] >= strength[h]

SeedsLabelled ==
    /\ phase = "seed" => \A h \in Edge \ todo : Seeded(h)
    /\ phase # "seed" => /\ \A h \in Edge : Seeded(h)
                         /\ \A n \in extra_seeds : kappa[n] = K_INF

VisitedSettled ==
    /\ phase = "kappa" /\ ~changed => \A h \in Edge \ todo : ~Raises(h)
    /\ phase \in {"depth", "done"} => \A h \in Edge : ~Raises(h)

FixpointInvariant == LabelTypes /\ LabelsJustified /\ SeedsLabelled /\ VisitedSettled

-----------------------------------------------------------------------------
\* The weakest of some labels is one of them, and none is weaker.
LEMMA MinLabel ==
    ASSUME NEW S \in SUBSET Kappa, S # {}
    PROVE  min_kappa(S) \in S /\ \A x \in S : min_kappa(S) <= x
  <1>1. \E m \in S : \A x \in S : m <= x
    <2>1. CASE 0 \in S
      BY <2>1 DEF Kappa
    <2>2. CASE 0 \notin S /\ 1 \in S
      BY <2>2 DEF Kappa
    <2>3. CASE 0 \notin S /\ 1 \notin S /\ 2 \in S
      BY <2>3 DEF Kappa
    <2>4. CASE 0 \notin S /\ 1 \notin S /\ 2 \notin S /\ 3 \in S
      BY <2>4 DEF Kappa
    <2>5. CASE 0 \notin S /\ 1 \notin S /\ 2 \notin S /\ 3 \notin S
      <3>1. \A x \in S : x = 4
        BY <2>5 DEF Kappa
      <3>2. PICK m \in S : TRUE
        OBVIOUS
      <3> QED
        BY <3>1, <3>2
    <2> QED
      BY <2>1, <2>2, <2>3, <2>4, <2>5
  <1> QED
    BY <1>1 DEF min_kappa, Min

\* An edge whose premises have labels passes on the weakest of them and its own.
LEMMA PathKappaValue ==
    ASSUME LabelTypes, NEW h \in Edge, Fires(h)
    PROVE  /\ PathKappa(h) \in Kappa
           /\ \A k \in Kappa : PathKappa(h) >= k <=>
                  strength[h] >= k /\ \A p \in premises[h] : kappa[p] >= k
  <1> DEFINE S == {strength[h]} \cup {kappa[p] : p \in premises[h]}
  <1>1. S \in SUBSET Kappa /\ S # {}
    BY DEF LabelTypes, Fires
  <1>2. PathKappa(h) \in S /\ \A x \in S : PathKappa(h) <= x
    BY <1>1, MinLabel DEF PathKappa
  <1>3. PathKappa(h) \in Kappa
    BY <1>1, <1>2
  <1>4. \A k \in Kappa : PathKappa(h) >= k <=> \A x \in S : x >= k
    BY <1>1, <1>2, <1>3 DEF Kappa
  <1>5. \A k : (\A x \in S : x >= k) <=>
            strength[h] >= k /\ \A p \in premises[h] : kappa[p] >= k
    OBVIOUS
  <1> QED
    BY <1>3, <1>4, <1>5

\* A closed set that justified the labels before justifies one that was raised along
\* an edge with labelled premises.
LEMMA RaisedIsJustified ==
    ASSUME LabelTypes, LabelsJustified, NEW h \in Edge, Fires(h),
           NEW k \in Kappa, NEW S \in SUBSET Node, ClosedUnder(Edge, k, S),
           PathKappa(h) >= k
    PROVE  conclusion[h] \in S
  <1>1. strength[h] >= k /\ \A p \in premises[h] : kappa[p] >= k
    BY PathKappaValue
  <1>2. premises[h] \subseteq AtLeast(k)
    BY <1>1 DEF AtLeast, LabelTypes
  <1>3. premises[h] \subseteq S
    BY <1>2 DEF LabelsJustified
  <1> QED
    BY <1>1, <1>3 DEF ClosedUnder

\* What a step that leaves the labels alone keeps.
LEMMA LabelsKept ==
    ASSUME LabelTypes, LabelsJustified, UNCHANGED <<graph, kappa>>
    PROVE  LabelsJustified' /\ \A h \in Edge : Seeded(h)' = Seeded(h) /\ Raises(h)' = Raises(h)
  BY DEF graph, LabelsJustified, ClosedUnder, AtLeast, Seeded, Raises, Fires, PathKappa

LEMMA InitInvariant == Init => FixpointInvariant
  <1> SUFFICES ASSUME Init
               PROVE  FixpointInvariant
    OBVIOUS
  <1> USE DEF Init
  <1>1. LabelTypes
    BY DEF LabelTypes, Kappa
  <1>2. LabelsJustified
    BY DEF LabelsJustified, AtLeast, Absent, Kappa
  <1> QED
    BY <1>1, <1>2 DEF FixpointInvariant, SeedsLabelled, VisitedSettled

LEMMA SeedEdgeStep ==
    ASSUME FixpointInvariant, NEW h \in Edge, SeedEdge(h)
    PROVE  FixpointInvariant'
  <1> USE DEF SeedEdge, Visiting, graph
  <1> DEFINE c == conclusion[h]
  <1>0. LabelTypes /\ LabelsJustified /\ SeedsLabelled /\ c \in Node /\ strength[h] \in Kappa
    BY DEF FixpointInvariant, LabelTypes
  <1>1. LabelTypes'
    BY <1>0 DEF LabelTypes, Kappa
  <1>2. /\ \A n \in Node : n # c => kappa'[n] = kappa[n]
        /\ kappa'[c] = IF strength[h] > kappa[c] THEN strength[h] ELSE kappa[c]
        /\ kappa[c] \in Kappa \cup {Absent}
    BY <1>0 DEF LabelTypes
  <1>3. LabelsJustified'
    <2> SUFFICES ASSUME NEW k \in Kappa, NEW S \in SUBSET Node, ClosedUnder(Edge, k, S),
                        NEW n \in Node, kappa'[n] >= k
                 PROVE  n \in S
      BY DEF LabelsJustified, ClosedUnder, AtLeast
    <2>1. CASE kappa[n] >= k
      BY <1>0, <2>1 DEF LabelsJustified, AtLeast
    <2>2. CASE ~(kappa[n] >= k)
      <3>1. n = c /\ strength[h] >= k
        BY <1>2, <2>2
      <3> QED
        BY <3>1 DEF ClosedUnder
    <2> QED
      BY <2>1, <2>2
  <1>4. SeedsLabelled'
    <2> SUFFICES ASSUME NEW g \in Edge \ todo', premises[g] = {}
                 PROVE  kappa'[conclusion[g]] >= strength[g]
      BY DEF SeedsLabelled, Seeded
    <2>0. conclusion[g] \in Node /\ strength[g] \in Kappa
      BY <1>0 DEF LabelTypes
    <2>1. CASE g = h
      BY <1>0, <1>2, <2>1 DEF Kappa, Absent
    <2>2. CASE g # h
      <3>1. kappa[conclusion[g]] >= strength[g]
        BY <1>0, <2>2 DEF SeedsLabelled, Seeded
      <3> QED
        BY <1>0, <1>2, <2>0, <3>1 DEF Kappa, Absent
    <2> QED
      BY <2>1, <2>2
  <1> QED
    BY <1>1, <1>3, <1>4 DEF FixpointInvariant, VisitedSettled

LEMMA SeedExtraStep ==
    ASSUME FixpointInvariant, SeedExtra
    PROVE  FixpointInvariant'
  <1> USE DEF SeedExtra, graph
  <1>0. LabelTypes /\ LabelsJustified /\ SeedsLabelled /\ extra_seeds \subseteq Node
    BY DEF FixpointInvariant, LabelTypes
  <1>1. LabelTypes'
    <2>1. kappa' \in [Node -> Kappa \cup {Absent}]
      BY <1>0 DEF LabelTypes, Kappa, K_INF
    <2> QED
      BY <1>0, <2>1 DEF LabelTypes
  <1>2. \A n \in Node : kappa'[n] = IF n \in extra_seeds THEN K_INF ELSE kappa[n]
    OBVIOUS
  <1>3. LabelsJustified'
    <2> SUFFICES ASSUME NEW k \in Kappa, NEW S \in SUBSET Node, ClosedUnder(Edge, k, S),
                        NEW n \in Node, kappa'[n] >= k
                 PROVE  n \in S
      BY DEF LabelsJustified, ClosedUnder, AtLeast
    <2>1. CASE n \in extra_seeds
      BY <2>1 DEF ClosedUnder
    <2>2. CASE n \notin extra_seeds
      BY <1>0, <1>2, <2>2 DEF LabelsJustified, AtLeast
    <2> QED
      BY <2>1, <2>2
  <1>4. SeedsLabelled'
    <2>1. ASSUME NEW g \in Edge, premises[g] = {}
          PROVE  kappa'[conclusion[g]] >= strength[g]
      <3>1. /\ kappa[conclusion[g]] >= strength[g] /\ conclusion[g] \in Node
            /\ strength[g] \in Kappa
        BY <1>0, <2>1 DEF SeedsLabelled, Seeded, LabelTypes
      <3> QED
        BY <1>2, <3>1 DEF Kappa, K_INF
    <2> QED
      BY <1>0, <1>2, <2>1 DEF SeedsLabelled, Seeded
  <1>5. VisitedSettled'
    BY DEF VisitedSettled
  <1> QED
    BY <1>1, <1>3, <1>4, <1>5 DEF FixpointInvariant

LEMMA RaiseStep ==
    ASSUME FixpointInvariant, NEW h \in Edge, Raise(h)
    PROVE  FixpointInvariant'
  <1> USE DEF Raise, Visiting, graph
  <1> DEFINE c == conclusion[h]
  <1>0. /\ LabelTypes /\ LabelsJustified /\ SeedsLabelled /\ c \in Node
        /\ Fires(h) /\ PathKappa(h) > kappa[c]
    BY DEF FixpointInvariant, LabelTypes, Raises
  <1>1. PathKappa(h) \in Kappa
    BY <1>0, PathKappaValue
  <1>2. LabelTypes'
    BY <1>0, <1>1 DEF LabelTypes
  <1>3. /\ \A n \in Node : n # c => kappa'[n] = kappa[n]
        /\ kappa'[c] = PathKappa(h) /\ kappa[c] \in Kappa \cup {Absent}
    BY <1>0 DEF LabelTypes
  <1>4. LabelsJustified'
    <2> SUFFICES ASSUME NEW k \in Kappa, NEW S \in SUBSET Node, ClosedUnder(Edge, k, S),
                        NEW n \in Node, kappa'[n] >= k
                 PROVE  n \in S
      BY DEF LabelsJustified, ClosedUnder, AtLeast
    <2>1. CASE n = c
      BY <1>0, <1>3, <2>1, RaisedIsJustified
    <2>2. CASE n # c
      BY <1>0, <1>3, <2>2 DEF LabelsJustified, AtLeast
    <2> QED
      BY <2>1, <2>2
  <1>5. SeedsLabelled'
    <2>1. \A n \in Node : kappa[n] <= kappa'[n] /\ kappa[n] \in Kappa \cup {Absent}
      BY <1>0, <1>1, <1>3 DEF LabelTypes, Kappa, Absent
    <2>2. ASSUME NEW g \in Edge, premises[g] = {}
          PROVE  kappa'[conclusion[g]] >= strength[g]
      <3>1. /\ kappa[conclusion[g]] >= strength[g] /\ conclusion[g] \in Node
            /\ strength[g] \in Kappa /\ kappa'[conclusion[g]] \in Kappa \cup {Absent}
        BY <1>0, <1>2, <2>2 DEF SeedsLabelled, Seeded, LabelTypes
      <3> QED
        BY <2>1, <3>1 DEF Kappa, Absent
    <2>3. ASSUME NEW n \in extra_seeds
          PROVE  kappa'[n] = K_INF
      <3>1. n \in Node /\ kappa[n] = K_INF
        BY <1>0 DEF SeedsLabelled, LabelTypes
      <3>2. n # c
        BY <1>0, <1>1, <3>1 DEF Kappa, K_INF
      <3> QED
        BY <1>3, <3>1, <3>2
    <2> QED
      BY <2>2, <2>3 DEF SeedsLabelled, Seeded
  <1>6. VisitedSettled'
    BY DEF VisitedSettled
  <1> QED
    BY <1>2, <1>4, <1>5, <1>6 DEF FixpointInvariant

\* The steps that leave the labels alone.
LEMMA QuietStep ==
    ASSUME FixpointInvariant,
           \/ \E h \in Edge : PassOverSeed(h) \/ PassOverKappa(h)
           \/ \E h \in Edge : Shorten(h) \/ PassOverDepth(h)
           \/ NextPass \/ EndKappa \/ EndDepth
           \/ UNCHANGED vars
    PROVE  FixpointInvariant'
  <1>0. LabelTypes /\ LabelsJustified /\ SeedsLabelled /\ VisitedSettled
    BY DEF FixpointInvariant
  <1>1. UNCHANGED <<graph, kappa>>
    BY DEF PassOverSeed, PassOverKappa, Shorten, PassOverDepth, NextPass, EndKappa,
           EndDepth, Visiting, Unaffected, graph, vars
  <1>2. LabelsJustified' /\ \A h \in Edge : Seeded(h)' = Seeded(h) /\ Raises(h)' = Raises(h)
    BY <1>0, <1>1, LabelsKept
  <1>3. ASSUME NEW h \in Edge, PassOverSeed(h)
        PROVE  LabelTypes' /\ SeedsLabelled' /\ VisitedSettled'
    BY <1>0, <1>2, <1>3 DEF PassOverSeed, Visiting, Unaffected, graph, LabelTypes,
                            SeedsLabelled, VisitedSettled, Seeded
  <1>4. ASSUME NEW h \in Edge, PassOverKappa(h)
        PROVE  LabelTypes' /\ SeedsLabelled' /\ VisitedSettled'
    BY <1>0, <1>2, <1>4 DEF PassOverKappa, Visiting, Unaffected, graph, LabelTypes,
                            SeedsLabelled, VisitedSettled
  <1>5. ASSUME NEW h \in Edge, Shorten(h) \/ PassOverDepth(h)
        PROVE  LabelTypes' /\ SeedsLabelled' /\ VisitedSettled'
    BY <1>0, <1>2, <1>5 DEF Shorten, PassOverDepth, Visiting, Unaffected, graph,
                            LabelTypes, SeedsLabelled, VisitedSettled
  <1>6. CASE NextPass
    BY <1>0, <1>2, <1>6 DEF NextPass, graph, LabelTypes, SeedsLabelled, VisitedSettled,
                            FixpointInvariant
  <1>7. CASE EndKappa
    BY <1>0, <1>2, <1>7 DEF EndKappa, graph, LabelTypes, SeedsLabelled, VisitedSettled,
                            FixpointInvariant
  <1>8. CASE EndDepth
    BY <1>0, <1>2, <1>8 DEF EndDepth, graph, LabelTypes, SeedsLabelled, VisitedSettled,
                            FixpointInvariant
  <1>9. CASE UNCHANGED vars
    BY <1>0, <1>2, <1>9 DEF vars, graph, LabelTypes, SeedsLabelled, VisitedSettled,
                            FixpointInvariant
  <1> QED
    BY <1>2, <1>3, <1>4, <1>5, <1>6, <1>7, <1>8, <1>9 DEF FixpointInvariant

LEMMA StepInvariant == FixpointInvariant /\ [Next]_vars => FixpointInvariant'
  BY SeedEdgeStep, SeedExtraStep, RaiseStep, QuietStep DEF Next

\* When the strength loop has ended, the labelled nodes are closed.
LEMMA LabelledIsClosed ==
    ASSUME FixpointInvariant, phase \in {"depth", "done"}, NEW k \in Kappa
    PROVE  ClosedUnder(Edge, k, AtLeast(k)) /\ AtLeast(k) \in SUBSET Node
  <1>0. LabelTypes /\ SeedsLabelled /\ VisitedSettled
    BY DEF FixpointInvariant
  <1>1. extra_seeds \subseteq AtLeast(k)
    BY <1>0 DEF SeedsLabelled, LabelTypes, AtLeast, Kappa, K_INF
  <1>2. ASSUME NEW h \in Edge, strength[h] >= k, premises[h] \subseteq AtLeast(k)
        PROVE  conclusion[h] \in AtLeast(k)
    <2>0. /\ conclusion[h] \in Node /\ strength[h] \in Kappa
          /\ kappa[conclusion[h]] \in Kappa \cup {Absent}
      BY <1>0 DEF LabelTypes
    <2>1. CASE premises[h] = {}
      <3>1. kappa[conclusion[h]] >= strength[h]
        BY <1>0, <2>1 DEF SeedsLabelled, Seeded
      <3> QED
        BY <1>2, <2>0, <3>1 DEF AtLeast, Kappa, Absent
    <2>2. CASE premises[h] # {}
      <3>1. \A p \in premises[h] : kappa[p] >= k /\ kappa[p] # Absent
        BY <1>2 DEF AtLeast, Kappa, Absent
      <3>2. Fires(h)
        BY <2>2, <3>1 DEF Fires
      <3>3. PathKappa(h) \in Kappa /\ PathKappa(h) >= k
        BY <1>0, <1>2, <3>1, <3>2, PathKappaValue
      <3>4. ~(PathKappa(h) > kappa[conclusion[h]])
        BY <1>0, <3>2 DEF VisitedSettled, Raises
      <3> QED
        BY <2>0, <3>3, <3>4 DEF AtLeast, Kappa, Absent
    <2> QED
      BY <2>1, <2>2
  <1> QED
    BY <1>1, <1>2 DEF ClosedUnder, AtLeast

-----------------------------------------------------------------------------
(***************************************************************************)
(* Throughout the query every label is justified by the graph, every seed  *)
(* has its label, and what a quiet pass of the strength loop has visited   *)
(* stays settled.                                                          *)
(***************************************************************************)
THEOREM FixpointCorrect == Spec => []FixpointInvariant
  BY InitInvariant, StepInvariant, PTL DEF Spec

(***************************************************************************)
(* When the query ends, a node has a label of at least k exactly if it is  *)
(* derivable at strength k: the set of nodes so labelled is closed, since  *)
(* no edge could raise another label, and within every closed set.         *)
(***************************************************************************)
THEOREM LabelsAreBest == Spec => []KappaIsBest
  <1>1. FixpointInvariant => KappaIsBest
    <2> SUFFICES ASSUME FixpointInvariant, phase = "done", NEW k \in Kappa
                 PROVE  AtLeast(k) = Derivable(Edge, k)
      BY DEF KappaIsBest
    <2>0. LabelTypes /\ LabelsJustified /\ SeedsLabelled /\ VisitedSettled
      BY DEF FixpointInvariant
    <2>1. AtLeast(k) \subseteq Derivable(Edge, k)
      BY <2>0 DEF LabelsJustified, Derivable, AtLeast
    <2>2. ClosedUnder(Edge, k, AtLeast(k)) /\ AtLeast(k) \in SUBSET Node
      BY LabelledIsClosed
    <2>3. Derivable(Edge, k) \subseteq AtLeast(k)
      BY <2>2 DEF Derivable
    <2> QED
      BY <2>1, <2>3
  <1> QED
    BY <1>1, FixpointCorrect, PTL

-----------------------------------------------------------------------------
(***************************************************************************)
(* The lemmas about rounds and about the graph queries, for the graph of   *)
(* this module.                                                            *)
(***************************************************************************)

G == INSTANCE OperatorProofs WITH PremiseSet <- premises

LEMMA SameCardinality == \A S : G!Cardinality(S) = Cardinality(S)
  BY DEF Cardinality, G!Cardinality

LEMMA SameFiniteness == \A S : G!IsFiniteSet(S) <=> IsFiniteSet(S)
  BY DEF IsFiniteSet, G!IsFiniteSet

LEMMA GraphIsFinite == LabelTypes => G!FiniteGraph
  BY ReachabilityAssumption, SameFiniteness DEF LabelTypes, G!FiniteGraph, Kappa, G!Kappa

-----------------------------------------------------------------------------
(***************************************************************************)
(* The recursions of the module are rounds: sets of nodes that grow by a   *)
(* step.                                                                   *)
(***************************************************************************)

Seeds == extra_seeds \cup {conclusion[h] : h \in {g \in Edge : premises[g] = {}}}

Deeper(N) == N \cup {conclusion[h] : h \in {g \in Edge : premises[g] \subseteq N}}

\* The edges that the pointers of some nodes name, and the nodes one edge further.
Pointers(N) == UNION {best_edge[n] : n \in N}

Followed(N) == N \cup UNION {premises[h] : h \in Pointers(N)}

PointerTypes == best_edge \in [Node -> SUBSET Edge]

LEMMA WithinRounds ==
    ASSUME LabelTypes, NEW d \in Nat
    PROVE  /\ [N \in SUBSET Node |-> Deeper(N)] \in [SUBSET Node -> SUBSET Node]
           /\ Seeds \in SUBSET Node
           /\ \E f : /\ G!IsRounds(f, Seeds, [N \in SUBSET Node |-> Deeper(N)], d)
                     /\ WithinDepth(d) = f[d]
  <1> DEFINE m == d
             start == Seeds
             step == [N \in SUBSET Node |-> Deeper(N)]
             Solves(f) == f = [i \in 0 .. m |-> IF i = 0 THEN start ELSE Deeper(f[i - 1])]
             level == CHOOSE f : Solves(f)
  <1>0. m \in Nat
    OBVIOUS
  <1>1. step \in [SUBSET Node -> SUBSET Node] /\ start \in SUBSET Node
    BY DEF LabelTypes, Deeper, Seeds
  <1>2. WithinDepth(d) = level[m]
    BY DEF WithinDepth, Seeds, Deeper
  <1> HIDE DEF level, m, start
  <1>3. PICK f : G!IsRounds(f, start, step, m)
    <2> HIDE DEF step
    <2> QED
      BY <1>0, <1>1, G!RoundsExist
  <1>4. Solves(f)
    <2>1. /\ f = [i \in 0 .. m |-> IF i = 0 THEN start ELSE step[f[i - 1]]]
          /\ f \in [0 .. m -> SUBSET Node]
      <3> HIDE DEF step
      <3> QED
        BY <1>0, <1>3, G!RoundsSolve DEF G!IsRounds
    <2>2. \A i \in 0 .. m : i # 0 => i - 1 \in 0 .. m
      BY <1>0
    <2>3. \A i \in 0 .. m : i # 0 => step[f[i - 1]] = Deeper(f[i - 1])
      BY <2>1, <2>2
    <2> QED
      BY <2>1, <2>3
  <1>5. Solves(level)
    <2> HIDE DEF Solves
    <2> QED
      BY <1>4 DEF level
  <1>6. /\ level[0] = start
        /\ \A i \in 0 .. m : i + 1 <= m => level[i + 1] = Deeper(level[i])
    <2>1. \A i \in 0 .. m : level[i] = IF i = 0 THEN start ELSE Deeper(level[i - 1])
      BY <1>5
    <2>2. 0 \in 0 .. m /\ \A i \in 0 .. m : i + 1 <= m => i + 1 \in 0 .. m /\ i + 1 # 0 /\ (i + 1) - 1 = i
      BY <1>0
    <2> QED
      BY <2>1, <2>2
  <1>7. \A i \in 0 .. m : i + 1 <= m /\ level[i] \in SUBSET Node => level[i + 1] = step[level[i]]
    BY <1>6
  <1>8. level[m] = f[m]
    <2> HIDE DEF step
    <2> QED
      BY <1>0, <1>3, <1>6, <1>7, G!RoundsFollowed
  <1> QED
    BY <1>1, <1>2, <1>3, <1>8 DEF m, start

LEMMA ConeRounds ==
    ASSUME LabelTypes, PointerTypes, NEW target \in Node
    PROVE  /\ [N \in SUBSET Node |-> Followed(N)] \in [SUBSET Node -> SUBSET Node]
           /\ {target} \in SUBSET Node
           /\ \E f : /\ G!IsRounds(f, {target}, [N \in SUBSET Node |-> Followed(N)], Cardinality(Edge))
                     /\ Cone(target) = f[Cardinality(Edge)]
  <1> DEFINE m == Cardinality(Edge)
             start == {target}
             step == [N \in SUBSET Node |-> Followed(N)]
             Solves(f) == f = [i \in 0 .. m |-> IF i = 0 THEN start ELSE Followed(f[i - 1])]
             level == CHOOSE f : Solves(f)
  <1>0. m \in Nat
    BY ReachabilityAssumption, FS_CardinalityType
  <1>1. step \in [SUBSET Node -> SUBSET Node] /\ start \in SUBSET Node
    BY DEF LabelTypes, PointerTypes, Followed, Pointers
  <1>2. Cone(target) = level[m]
    BY DEF Cone, Followed, Pointers
  <1> HIDE DEF level, m, start
  <1>3. PICK f : G!IsRounds(f, start, step, m)
    <2> HIDE DEF step
    <2> QED
      BY <1>0, <1>1, G!RoundsExist
  <1>4. Solves(f)
    <2>1. /\ f = [i \in 0 .. m |-> IF i = 0 THEN start ELSE step[f[i - 1]]]
          /\ f \in [0 .. m -> SUBSET Node]
      <3> HIDE DEF step
      <3> QED
        BY <1>0, <1>3, G!RoundsSolve DEF G!IsRounds
    <2>2. \A i \in 0 .. m : i # 0 => i - 1 \in 0 .. m
      BY <1>0
    <2>3. \A i \in 0 .. m : i # 0 => step[f[i - 1]] = Followed(f[i - 1])
      BY <2>1, <2>2
    <2> QED
      BY <2>1, <2>3
  <1>5. Solves(level)
    <2> HIDE DEF Solves
    <2> QED
      BY <1>4 DEF level
  <1>6. /\ level[0] = start
        /\ \A i \in 0 .. m : i + 1 <= m => level[i + 1] = Followed(level[i])
    <2>1. \A i \in 0 .. m : level[i] = IF i = 0 THEN start ELSE Followed(level[i - 1])
      BY <1>5
    <2>2. 0 \in 0 .. m /\ \A i \in 0 .. m : i + 1 <= m => i + 1 \in 0 .. m /\ i + 1 # 0 /\ (i + 1) - 1 = i
      BY <1>0
    <2> QED
      BY <2>1, <2>2
  <1>7. \A i \in 0 .. m : i + 1 <= m /\ level[i] \in SUBSET Node => level[i + 1] = step[level[i]]
    BY <1>6
  <1>8. level[m] = f[m]
    <2> HIDE DEF step
    <2> QED
      BY <1>0, <1>3, <1>6, <1>7, G!RoundsFollowed
  <1> QED
    BY <1>1, <1>2, <1>3, <1>8 DEF m, start

LEMMA WithinValues ==
    ASSUME LabelTypes
    PROVE  /\ WithinDepth(0) = Seeds
           /\ \A d \in Nat : WithinDepth(d) \in SUBSET Node /\ WithinDepth(d + 1) = Deeper(WithinDepth(d))
  <1> DEFINE step == [N \in SUBSET Node |-> Deeper(N)]
  <1>1. ASSUME NEW d \in Nat
        PROVE  \E f : G!IsRounds(f, Seeds, step, d) /\ WithinDepth(d) = f[d]
    BY WithinRounds
  <1>2. WithinDepth(0) = Seeds
    <2>1. PICK f : G!IsRounds(f, Seeds, step, 0) /\ WithinDepth(0) = f[0]
      BY <1>1
    <2> QED
      BY <2>1 DEF G!IsRounds
  <1>3. ASSUME NEW d \in Nat
        PROVE  WithinDepth(d) \in SUBSET Node /\ WithinDepth(d + 1) = Deeper(WithinDepth(d))
    <2>1. PICK f : G!IsRounds(f, Seeds, step, d) /\ WithinDepth(d) = f[d]
      BY <1>1
    <2>n. d + 1 \in Nat
      OBVIOUS
    <2>2. PICK g : G!IsRounds(g, Seeds, step, d + 1) /\ WithinDepth(d + 1) = g[d + 1]
      <3> HIDE DEF step
      <3> QED
        BY <1>1, <2>n
    <2>3. d \in 0 .. d /\ d \in 0 .. d + 1 /\ d <= d + 1 /\ d + 1 \in Nat
      OBVIOUS
    <2>4. WithinDepth(d) \in SUBSET Node
      BY <2>1, <2>3 DEF G!IsRounds
    <2>5. f[d] = g[d]
      <3> HIDE DEF step
      <3> QED
        BY <2>1, <2>2, <2>3, G!RoundsAgree
    <2>6. g[d + 1] = step[g[d]]
      <3> HIDE DEF step
      <3> QED
        BY <2>2, <2>3 DEF G!IsRounds
    <2> QED
      BY <2>1, <2>2, <2>4, <2>5, <2>6
  <1> QED
    BY <1>2, <1>3

LEMMA WithinGrows ==
    ASSUME LabelTypes
    PROVE  \A d, e \in Nat : d <= e => WithinDepth(d) \subseteq WithinDepth(e)
  <1> SUFFICES ASSUME NEW d \in Nat
               PROVE  \A e \in Nat : d <= e => WithinDepth(d) \subseteq WithinDepth(e)
    OBVIOUS
  <1> DEFINE P == {e \in Nat : d <= e => WithinDepth(d) \subseteq WithinDepth(e)}
  <1>1. 0 \in P
    OBVIOUS
  <1>2. ASSUME NEW e \in P
        PROVE  e + 1 \in P
    <2>1. e \in Nat /\ WithinDepth(e + 1) = Deeper(WithinDepth(e))
      BY WithinValues
    <2>2. WithinDepth(e) \subseteq WithinDepth(e + 1)
      BY <2>1 DEF Deeper
    <2>3. CASE d <= e
      BY <2>1, <2>2, <2>3
    <2>4. CASE d = e + 1
      BY <2>1, <2>4
    <2>5. CASE ~(d <= e + 1)
      BY <2>1, <2>5
    <2>6. d <= e \/ d = e + 1 \/ ~(d <= e + 1)
      BY <2>1
    <2> QED
      BY <2>3, <2>4, <2>5, <2>6
  <1>3. P = Nat
    <2>1. P \in SUBSET Nat
      OBVIOUS
    <2> HIDE DEF P
    <2> QED
      BY <1>1, <1>2, <2>1, G!SetInduction
  <1> QED
    BY <1>3

\* The cone is closed: every round that adds nodes follows an edge for the first time.
LEMMA ConeClosed ==
    ASSUME LabelTypes, PointerTypes, NEW target \in Node
    PROVE  /\ target \in Cone(target) /\ Cone(target) \in SUBSET Node
           /\ \A h \in ProofTree(target) : premises[h] \subseteq Cone(target)
  <1> DEFINE step == [N \in SUBSET Node |-> Followed(N)]
             mark == [N \in SUBSET Node |-> Pointers(N)]
  <1>1. PICK f : G!IsRounds(f, {target}, step, Cardinality(Edge)) /\ Cone(target) = f[Cardinality(Edge)]
    BY ConeRounds
  <1>2. step \in [SUBSET Node -> SUBSET Node] /\ {target} \in SUBSET Node
    BY ConeRounds
  <1>3. mark \in [SUBSET Node -> SUBSET Edge]
    BY DEF PointerTypes, Pointers
  <1>4. ASSUME NEW N \in SUBSET Node
        PROVE  /\ N \subseteq step[N] /\ mark[N] \subseteq mark[step[N]]
               /\ mark[step[N]] = mark[N] => step[step[N]] = step[N]
    <2>1. step[N] = Followed(N) /\ Followed(N) \in SUBSET Node
      BY <1>2
    <2>2. mark[N] = Pointers(N) /\ mark[step[N]] = Pointers(Followed(N))
      BY <2>1
    <2>3. step[step[N]] = Followed(Followed(N))
      BY <2>1
    <2>4. N \subseteq Followed(N) /\ Pointers(N) \subseteq Pointers(Followed(N))
      BY DEF Followed, Pointers
    <2>5. Pointers(Followed(N)) = Pointers(N) => Followed(Followed(N)) = Followed(N)
      BY DEF Followed
    <2> QED
      BY <2>1, <2>2, <2>3, <2>4, <2>5
  <1>5. step[{target}] = {target} \/ mark[{target}] # {}
    BY <1>2 DEF Followed
  <1>6. G!SettledIn(f[Cardinality(Edge)], {target}, step)
    <2> DEFINE base == {target}
    <2> HIDE DEF step, mark
    <2>1. G!Marking(mark, base, step)
      BY <1>4, <1>5 DEF G!Marking
    <2>c. G!Cardinality(Edge) = Cardinality(Edge) /\ G!IsFiniteSet(Edge)
      BY ReachabilityAssumption, SameCardinality, SameFiniteness
    <2>2. base \in SUBSET Node /\ G!IsRounds(f, base, step, G!Cardinality(Edge))
      BY <1>1, <1>2, <2>c
    <2> HIDE DEF base
    <2>3. G!SettledIn(f[G!Cardinality(Edge)], base, step)
      BY <1>2, <1>3, <2>1, <2>2, <2>c, G!RoundsSettle
    <2>4. G!SettledIn(f[Cardinality(Edge)], base, step)
      BY <2>3, <2>c
    <2> QED
      BY <2>4 DEF base
  <1>7. {target} \subseteq Cone(target) /\ Cone(target) \in SUBSET Node
        /\ Followed(Cone(target)) = Cone(target)
    BY <1>1, <1>6 DEF G!SettledIn
  <1> QED
    BY <1>7 DEF ProofTree, Followed, Pointers

\* And so is what path_discovery visits: it is what the walk of the queries reaches.
LEMMA VisitedIsReached ==
    \A target, k : Visited(target, k) = G!Reached(Edge, target, AtLeast(k))
  <1> SUFFICES ASSUME NEW target, NEW k
               PROVE  Visited(target, k) = G!Reached(Edge, target, AtLeast(k))
    OBVIOUS
  <1>1. G!Cardinality(Node) = Cardinality(Node)
    BY SameCardinality
  <1> DEFINE enough == AtLeast(k)
  <1>2. \A h : Blocking(h, k) = G!Blocking(h, enough)
    BY DEF Blocking, G!Blocking
  <1> QED
    BY <1>1, <1>2 DEF Visited, G!Reached, Blocking, G!Blocking

LEMMA VisitedClosed ==
    ASSUME LabelTypes, NEW target \in Node, NEW k
    PROVE  /\ target \in Visited(target, k)
           /\ \A h \in Edge : conclusion[h] \in Visited(target, k) =>
                  Blocking(h, k) \subseteq Visited(target, k)
  <1> DEFINE R == G!Reached(Edge, target, AtLeast(k))
  <1>1. target \in R /\ G!ClosedBack(Edge, AtLeast(k), R)
    BY GraphIsFinite, G!ReachedIsLeast
  <1> HIDE DEF R
  <1>2. Visited(target, k) = R
    BY VisitedIsReached DEF R
  <1> QED
    BY <1>1, <1>2 DEF G!ClosedBack, G!Blocking, Blocking

-----------------------------------------------------------------------------
(***************************************************************************)
(* The frontier of path_discovery.  What it names is visited, and no edge  *)
(* that concludes a named node can do without another named one: the nodes *)
(* that are not named, and the edges, never lead to the target.            *)
(***************************************************************************)
THEOREM FrontierIsComplete == Spec => []FrontierBlocks
  <1>1. FixpointInvariant => FrontierBlocks
    <2> SUFFICES ASSUME FixpointInvariant, phase = "done", extra_seeds = {},
                        NEW k \in Kappa, NEW target \in Node \ AtLeast(k)
                 PROVE  LET named == {target} \cup UNION {m.blocking : m \in MissingEdges(target, k)}
                        IN  target \notin DerivableGranted(Node \ named, k)
      BY DEF FrontierBlocks
    <2> DEFINE blocked == {h \in Edge : conclusion[h] \in Visited(target, k) /\ Blocking(h, k) # {}}
               named == {target} \cup UNION {m.blocking : m \in MissingEdges(target, k)}
               S == Node \ named
    <2>1. LabelTypes
      BY DEF FixpointInvariant
    <2>2. named = {target} \cup UNION {Blocking(h, k) : h \in blocked}
      <3> DEFINE leaves == {[conclusion |-> n, blocking |-> {}] :
                               n \in {m \in Visited(target, k) : \A h \in Edge : conclusion[h] # m}}
                 more == {[conclusion |-> conclusion[h], blocking |-> Blocking(h, k)] : h \in blocked}
      <3>1. MissingEdges(target, k) = leaves \cup more
        BY DEF MissingEdges
      <3>2. \A m \in leaves : m.blocking = {}
        OBVIOUS
      <3>3. UNION {m.blocking : m \in more} = UNION {Blocking(h, k) : h \in blocked}
        <4>1. \A m \in more : \E h \in blocked : m.blocking = Blocking(h, k)
          OBVIOUS
        <4>2. \A h \in blocked : \E m \in more : m.blocking = Blocking(h, k)
          <5> SUFFICES ASSUME NEW h \in blocked
                       PROVE  \E m \in more : m.blocking = Blocking(h, k)
            OBVIOUS
          <5>1. [conclusion |-> conclusion[h], blocking |-> Blocking(h, k)] \in more
            OBVIOUS
          <5> QED
            BY <5>1
        <4> HIDE DEF more, blocked
        <4> QED
          BY <4>1, <4>2
      <3> HIDE DEF leaves, more, blocked
      <3> QED
        BY <3>1, <3>2, <3>3
    <2>3. /\ target \in Visited(target, k)
          /\ \A h \in Edge : conclusion[h] \in Visited(target, k) =>
                 Blocking(h, k) \subseteq Visited(target, k)
      BY <2>1, VisitedClosed
    <2> HIDE DEF named
    <2>4. named \subseteq Visited(target, k)
      BY <2>2, <2>3
    <2>5. named \cap AtLeast(k) = {}
      BY <2>2 DEF Blocking
    <2>6. ClosedUnder(Edge, k, AtLeast(k))
      BY LabelledIsClosed
    <2>7. ASSUME NEW h \in Edge, strength[h] >= k, premises[h] \subseteq S
          PROVE  conclusion[h] \in S
      <3>1. SUFFICES ASSUME conclusion[h] \in named
                     PROVE  FALSE
        BY <2>1 DEF LabelTypes
      <3>2. Blocking(h, k) \subseteq named
        BY <2>2, <2>4, <3>1
      <3>3. Blocking(h, k) = {}
        BY <2>7, <3>2 DEF Blocking
      <3>4. premises[h] \subseteq AtLeast(k)
        BY <3>3 DEF Blocking
      <3>5. conclusion[h] \in AtLeast(k)
        BY <2>6, <2>7, <3>4 DEF ClosedUnder
      <3> QED
        BY <2>5, <3>1, <3>5
    <2>8. ClosedUnder(Edge, k, S) /\ Node \ named \subseteq S /\ S \in SUBSET Node /\ target \notin S
      BY <2>2, <2>7 DEF ClosedUnder
    <2>9. target \notin DerivableGranted(Node \ named, k)
      BY <2>8 DEF DerivableGranted
    <2> QED
      BY <2>9 DEF named
  <1> QED
    BY <1>1, FixpointCorrect, PTL

-----------------------------------------------------------------------------
(***************************************************************************)
(* The proof tree.  best_edge points to the last edge that gave a node its *)
(* label, and is overwritten while labels rise.  A pointer only ever leads *)
(* to premises with labels at least as strong, and these had theirs        *)
(* before; so the invariant goes strength by strength: every set that is   *)
(* closed under the pointers of the nodes with a label of at least k holds *)
(* all those nodes.                                                        *)
(***************************************************************************)

PointersConclude == \A n \in Node : \A h \in best_edge[n] : conclusion[h] = n

PointersClosed(k, S) ==
    /\ extra_seeds \subseteq S
    /\ \A n \in AtLeast(k) : \A h \in best_edge[n] : premises[h] \subseteq S => n \in S

PointersDerive ==
    \A k \in Kappa : \A S \in SUBSET Node : PointersClosed(k, S) => AtLeast(k) \subseteq S

PointerInvariant == PointerTypes /\ PointersConclude /\ PointersDerive

\* A zero-premise edge derives its conclusion from nothing.
LEMMA SeedPointer ==
    ASSUME FixpointInvariant, PointerInvariant, NEW h \in Edge, SeedEdge(h)
    PROVE  PointerInvariant'
  <1> USE DEF SeedEdge, Visiting, graph
  <1> DEFINE c == conclusion[h]
  <1>1. /\ LabelTypes /\ c \in Node /\ premises[h] = {}
        /\ PointerTypes /\ PointersConclude /\ PointersDerive
    BY DEF FixpointInvariant, LabelTypes, PointerInvariant
  <1>2. /\ best_edge'[c] = {h} /\ \A n \in Node : n # c => best_edge'[n] = best_edge[n]
        /\ \A n \in Node : n # c => kappa'[n] = kappa[n]
        /\ PointerTypes'
    BY <1>1 DEF PointerTypes, LabelTypes
  <1>3. PointersConclude'
    BY <1>1, <1>2 DEF PointersConclude
  <1>4. ASSUME NEW k \in Kappa, NEW S \in SUBSET Node, PointersClosed(k, S)'
        PROVE  AtLeast(k)' \subseteq S
    <2>1. /\ extra_seeds \subseteq S
          /\ \A n \in Node : kappa'[n] >= k =>
                 \A g \in best_edge'[n] : premises[g] \subseteq S => n \in S
      BY <1>4 DEF PointersClosed, AtLeast
    <2>2. kappa'[c] >= k => c \in S
      BY <1>1, <1>2, <2>1
    <2>3. kappa[c] >= k => kappa'[c] >= k
      BY <1>1 DEF LabelTypes, Kappa, Absent
    <2>4. PointersClosed(k, S)
      BY <1>2, <2>1, <2>2, <2>3 DEF PointersClosed, AtLeast
    <2>5. AtLeast(k) \subseteq S
      BY <1>1, <2>4 DEF PointersDerive
    <2> QED
      BY <1>2, <2>2, <2>5 DEF AtLeast
  <1> QED
    BY <1>2, <1>3, <1>4 DEF PointerInvariant, PointersDerive

\* The premises of the new pointer are stronger than the label was that it replaces:
\* they are derived without it.
LEMMA RaisePointer ==
    ASSUME FixpointInvariant, PointerInvariant, NEW h \in Edge, Raise(h)
    PROVE  PointerInvariant'
  <1> USE DEF Raise, Visiting, graph
  <1> DEFINE c == conclusion[h]
             new == PathKappa(h)
  <1>1. /\ LabelTypes /\ c \in Node /\ PointerTypes /\ PointersConclude /\ PointersDerive
        /\ Fires(h) /\ new > kappa[c] /\ kappa[c] \in Kappa \cup {Absent}
    BY DEF FixpointInvariant, LabelTypes, PointerInvariant, Raises
  <1>2. new \in Kappa /\ premises[h] \subseteq AtLeast(new)
    <2>1. new \in Kappa /\ (new >= new <=> strength[h] >= new /\ \A p \in premises[h] : kappa[p] >= new)
      BY <1>1, PathKappaValue
    <2>2. premises[h] \in SUBSET Node
      BY <1>1 DEF LabelTypes
    <2> HIDE DEF new
    <2>3. new >= new
      BY <2>1 DEF Kappa
    <2> QED
      BY <2>1, <2>2, <2>3 DEF AtLeast
  <1>3. /\ best_edge'[c] = {h} /\ \A n \in Node : n # c => best_edge'[n] = best_edge[n]
        /\ kappa'[c] = new /\ \A n \in Node : n # c => kappa'[n] = kappa[n]
        /\ PointerTypes'
    BY <1>1 DEF PointerTypes, LabelTypes
  <1>4. PointersConclude'
    BY <1>1, <1>3 DEF PointersConclude
  <1> HIDE DEF new
  <1>5. ASSUME NEW k \in Kappa, NEW S \in SUBSET Node, PointersClosed(k, S)'
        PROVE  AtLeast(k)' \subseteq S
    <2>1. /\ extra_seeds \subseteq S
          /\ \A n \in Node : kappa'[n] >= k =>
                 \A g \in best_edge'[n] : premises[g] \subseteq S => n \in S
      BY <1>5 DEF PointersClosed, AtLeast
    <2>2. CASE k > new
      <3>1. ~(kappa[c] >= k) /\ ~(kappa'[c] >= k)
        BY <1>1, <1>2, <1>3, <2>2 DEF Kappa, Absent
      <3>2. PointersClosed(k, S)
        BY <1>3, <2>1, <3>1 DEF PointersClosed, AtLeast
      <3> QED
        BY <1>1, <1>3, <3>1, <3>2 DEF PointersDerive, AtLeast
    <2>3. CASE ~(k > new)
      <3>1. k <= new /\ ~(kappa[c] >= new) /\ kappa'[c] >= k
        BY <1>1, <1>2, <1>3, <2>3 DEF Kappa, Absent
      <3>2. \A n \in Node : kappa[n] >= new => n # c /\ kappa'[n] >= k
        <4> SUFFICES ASSUME NEW n \in Node, kappa[n] >= new
                     PROVE  n # c /\ kappa'[n] >= k
          OBVIOUS
        <4>1. n # c /\ kappa[n] \in Kappa \cup {Absent}
          BY <1>1, <3>1 DEF LabelTypes
        <4> QED
          BY <1>2, <1>3, <3>1, <4>1 DEF Kappa, Absent
      <3>3. PointersClosed(new, S)
        BY <1>3, <2>1, <3>2 DEF PointersClosed, AtLeast
      <3>4. premises[h] \subseteq S
        BY <1>1, <1>2, <3>3 DEF PointersDerive
      <3>5. c \in S
        BY <1>1, <1>3, <2>1, <3>1, <3>4
      <3>6. PointersClosed(k, S)
        BY <1>3, <2>1, <3>5 DEF PointersClosed, AtLeast
      <3> QED
        BY <1>1, <1>3, <3>5, <3>6 DEF PointersDerive, AtLeast
    <2> QED
      BY <2>2, <2>3
  <1> QED
    BY <1>3, <1>4, <1>5 DEF PointerInvariant, PointersDerive

\* A hypothetical seed is in every closed set; the other steps leave labels and
\* pointers alone.
LEMMA OtherPointers ==
    ASSUME FixpointInvariant, PointerInvariant, SeedExtra \/ UNCHANGED <<graph, kappa, best_edge>>
    PROVE  PointerInvariant'
  <1>1. LabelTypes /\ PointerTypes /\ PointersConclude /\ PointersDerive
    BY DEF FixpointInvariant, PointerInvariant
  <1>2. UNCHANGED <<graph, best_edge>>
    BY DEF SeedExtra
  <1>3. \A n \in Node : n \notin extra_seeds => kappa'[n] = kappa[n]
    BY DEF SeedExtra
  <1>4. \A k \in Kappa : \A n \in Node : kappa[n] >= k => kappa'[n] >= k
    <2>1. CASE SeedExtra
      <3> SUFFICES ASSUME NEW k \in Kappa, NEW n \in Node, kappa[n] >= k
                   PROVE  kappa'[n] >= k
        OBVIOUS
      <3>1. kappa'[n] = IF n \in extra_seeds THEN K_INF ELSE kappa[n]
        BY <2>1 DEF SeedExtra
      <3> QED
        BY <3>1 DEF Kappa, K_INF
    <2> QED
      BY <2>1
  <1>5. PointerTypes' /\ PointersConclude'
    BY <1>1, <1>2 DEF PointerTypes, PointersConclude, graph
  <1>6. ASSUME NEW k \in Kappa, NEW S \in SUBSET Node, PointersClosed(k, S)'
        PROVE  AtLeast(k)' \subseteq S
    <2>1. extra_seeds \subseteq S /\ PointersClosed(k, S)
      BY <1>2, <1>4, <1>6 DEF PointersClosed, AtLeast, graph
    <2>2. AtLeast(k) \subseteq S
      BY <1>1, <2>1 DEF PointersDerive
    <2> QED
      BY <1>3, <2>1, <2>2 DEF AtLeast
  <1> QED
    BY <1>5, <1>6 DEF PointerInvariant, PointersDerive

LEMMA PointerStep == FixpointInvariant /\ PointerInvariant /\ [Next]_vars => PointerInvariant'
  <1> SUFFICES ASSUME FixpointInvariant, PointerInvariant, [Next]_vars
               PROVE  PointerInvariant'
    OBVIOUS
  <1>1. CASE \E h \in Edge : SeedEdge(h)
    BY <1>1, SeedPointer
  <1>2. CASE \E h \in Edge : Raise(h)
    BY <1>2, RaisePointer
  <1>3. CASE \E h \in Edge : PassOverSeed(h) \/ PassOverKappa(h) \/ Shorten(h) \/ PassOverDepth(h)
    BY <1>3, OtherPointers DEF PassOverSeed, PassOverKappa, Shorten, PassOverDepth, Visiting, Unaffected, graph
  <1>4. CASE SeedExtra \/ NextPass \/ EndKappa \/ EndDepth \/ UNCHANGED vars
    BY <1>4, OtherPointers DEF NextPass, EndKappa, EndDepth, vars, graph
  <1> QED
    BY <1>1, <1>2, <1>3, <1>4 DEF Next

LEMMA InitPointers == Init => PointerInvariant
  BY DEF Init, PointerInvariant, PointerTypes, PointersConclude, PointersDerive, PointersClosed,
         AtLeast, Absent, Kappa

(***************************************************************************)
(* The edges of the proof tree derive the target: its cone is closed under *)
(* the pointers, so that a set that is closed under the tree is, with all  *)
(* nodes outside the cone, closed under all pointers.                      *)
(***************************************************************************)
THEOREM ProofTreesDerive == Spec => []ProofTreeDerives
  <1>1. FixpointInvariant /\ PointerInvariant => ProofTreeDerives
    <2> SUFFICES ASSUME FixpointInvariant, PointerInvariant,
                        NEW n \in Node, kappa[n] # Absent,
                        NEW S \in SUBSET Node, ClosedUnder(ProofTree(n), 0, S)
                 PROVE  n \in S
      BY DEF ProofTreeDerives, Derivable
    <2> DEFINE C == Cone(n)
               T == S \cup (Node \ C)
    <2>1. LabelTypes /\ PointerTypes /\ PointersConclude /\ PointersDerive
      BY DEF FixpointInvariant, PointerInvariant
    <2>2. n \in C /\ C \in SUBSET Node /\ \A h \in ProofTree(n) : premises[h] \subseteq C
      BY <2>1, ConeClosed
    <2>3. ProofTree(n) = UNION {best_edge[m] : m \in C}
      BY DEF ProofTree
    <2> HIDE DEF C
    <2>4. ASSUME NEW m \in AtLeast(0), NEW h \in best_edge[m], premises[h] \subseteq T
          PROVE  m \in T
      <3>1. m \in Node
        BY DEF AtLeast
      <3>2. CASE m \in C
        <4>1. h \in ProofTree(n) /\ conclusion[h] = m /\ h \in Edge
          BY <2>1, <2>3, <3>1, <3>2 DEF PointersConclude, PointerTypes
        <4>2. premises[h] \subseteq S
          BY <2>2, <2>4, <4>1
        <4>3. strength[h] >= 0
          BY <2>1, <4>1 DEF LabelTypes, Kappa
        <4> QED
          BY <4>1, <4>2, <4>3 DEF ClosedUnder
      <3> QED
        BY <3>1, <3>2
    <2>5. PointersClosed(0, T) /\ T \in SUBSET Node /\ 0 \in Kappa
      BY <2>4 DEF PointersClosed, ClosedUnder, Kappa
    <2>6. AtLeast(0) \subseteq T
      BY <2>1, <2>5 DEF PointersDerive
    <2>7. n \in AtLeast(0)
      BY <2>1 DEF LabelTypes, AtLeast, Kappa, Absent
    <2> QED
      BY <2>2, <2>6, <2>7
  <1> QED
    BY <1>1, FixpointCorrect, InitPointers, PointerStep, PTL DEF Spec

-----------------------------------------------------------------------------
(***************************************************************************)
(* The depths.  A depth is that of some derivation, and only labelled      *)
(* nodes have one; seeds have none but zero; while a pass has changed      *)
(* nothing, no edge that it has visited could have lowered a depth.        *)
(***************************************************************************)

DepthTypes == depth \in [Node -> Nat \cup {Absent}]

DepthsReached ==
    \A n \in Node, d \in Nat : depth[n] = d => kappa[n] # Absent /\ n \in WithinDepth(d)

AtZero(h) == premises[h] = {} => depth[conclusion[h]] = 0

SeedsAtZero ==
    /\ phase = "seed" => \A h \in Edge \ todo : AtZero(h)
    /\ phase # "seed" => /\ \A h \in Edge : AtZero(h)
                         /\ \A n \in extra_seeds : depth[n] = 0

DepthsSettled ==
    /\ phase = "depth" /\ ~changed => \A h \in Edge \ todo : ~Shortens(h)
    /\ phase = "done" => \A h \in Edge : ~Shortens(h)

DepthInvariant == DepthTypes /\ DepthsReached /\ SeedsAtZero /\ DepthsSettled

\* A finite set of nodes with depths has a deepest.
LEMMA DeepestExists ==
    ASSUME NEW f, NEW T, IsFiniteSet(T), T # {}, \A p \in T : f[p] \in Nat
    PROVE  \E p \in T : \A q \in T : f[q] <= f[p]
  <1> DEFINE Deepest(W) == \E p \in W : \A q \in W : f[q] <= f[p]
             P == {n \in Nat : \A W \in SUBSET T : Cardinality(W) = n /\ W # {} => Deepest(W)}
  <1>1. \A W \in SUBSET T : IsFiniteSet(W) /\ Cardinality(W) \in Nat
    BY FS_Subset, FS_CardinalityType
  <1>2. 0 \in P
    BY <1>1, FS_EmptySet
  <1>3. ASSUME NEW n \in P
        PROVE  n + 1 \in P
    <2>1. n \in Nat /\ \A W \in SUBSET T : Cardinality(W) = n /\ W # {} => Deepest(W)
      OBVIOUS
    <2>2. ASSUME NEW W \in SUBSET T, Cardinality(W) = n + 1, W # {}
          PROVE  Deepest(W)
      <3>1. PICK x \in W : TRUE
        BY <2>2
      <3> DEFINE V == W \ {x}
      <3>2. V \in SUBSET T /\ Cardinality(V) = n
        <4>1. Cardinality(V) = Cardinality(W) - 1
          BY <1>1, <2>2, <3>1, FS_RemoveElement
        <4> QED
          BY <2>1, <2>2, <4>1
      <3>3. \A q \in W : q = x \/ q \in V
        OBVIOUS
      <3>4. \A q \in W : f[q] \in Nat
        BY <2>2
      <3>5. CASE V = {}
        <4>1. \A q \in W : f[q] <= f[x]
          BY <3>3, <3>4, <3>5
        <4> QED
          BY <3>1, <4>1
      <3>6. CASE V # {}
        <4>1. PICK p \in V : \A q \in V : f[q] <= f[p]
          BY <2>1, <3>2, <3>6
        <4>2. f[p] \in Nat /\ f[x] \in Nat /\ p \in W
          BY <3>1, <3>4
        <4>3. CASE f[x] <= f[p]
          BY <3>3, <4>1, <4>2, <4>3
        <4>4. CASE ~(f[x] <= f[p])
          <5>1. \A q \in W : f[q] <= f[x]
            <6> SUFFICES ASSUME NEW q \in W
                         PROVE  f[q] <= f[x]
              OBVIOUS
            <6>1. f[q] \in Nat
              BY <3>4
            <6> QED
              BY <3>3, <4>1, <4>2, <4>4, <6>1
          <5> QED
            BY <3>1, <5>1
        <4> QED
          BY <4>3, <4>4
      <3> QED
        BY <3>5, <3>6
    <2> HIDE DEF Deepest
    <2> QED
      BY <2>1, <2>2
  <1>4. P = Nat
    <2>1. P \in SUBSET Nat
      OBVIOUS
    <2> HIDE DEF P
    <2> QED
      BY <1>2, <1>3, <2>1, G!SetInduction
  <1>5. Cardinality(T) \in P
    BY <1>1, <1>4
  <1> QED
    BY <1>5

\* The path through an edge is one deeper than its deepest premise.
LEMMA PathDepthValue ==
    ASSUME LabelTypes, DepthTypes, NEW h \in Edge, premises[h] # {},
           \A p \in premises[h] : depth[p] # Absent
    PROVE  \E m \in Nat : /\ PathDepth(h) = m + 1
                          /\ \E p \in premises[h] : depth[p] = m
                          /\ \A p \in premises[h] : depth[p] \in Nat /\ depth[p] <= m
  <1>1. premises[h] \in SUBSET Node
    BY DEF LabelTypes
  <1>2. \A p \in premises[h] : depth[p] \in Nat
    BY <1>1 DEF DepthTypes
  <1>3. IsFiniteSet(premises[h])
    BY <1>1, FS_Subset, ReachabilityAssumption
  <1>4. PICK p \in premises[h] : \A q \in premises[h] : depth[q] <= depth[p]
    BY <1>2, <1>3, DeepestExists
  <1> DEFINE D == {depth[q] : q \in premises[h]}
             m == depth[p]
  <1>5. m \in Nat /\ m \in D /\ \A x \in D : m >= x /\ x \in Nat
    BY <1>2, <1>4
  <1>6. Max(D) = m
    <2> HIDE DEF D, m
    <2>1. Max(D) \in D /\ \A x \in D : Max(D) >= x
      BY <1>5 DEF Max
    <2>2. Max(D) >= m /\ m >= Max(D) /\ Max(D) \in Nat
      BY <1>5, <2>1
    <2> QED
      BY <1>5, <2>2
  <1>7. PathDepth(h) = m + 1
    BY <1>5, <1>6 DEF PathDepth
  <1> QED
    BY <1>2, <1>4, <1>5, <1>7

LEMMA WithinKept == UNCHANGED graph => \A d \in Nat : WithinDepth(d)' = WithinDepth(d)
  BY DEF graph, WithinDepth

LEMMA SeedDepth ==
    ASSUME FixpointInvariant, DepthInvariant, NEW h \in Edge, SeedEdge(h)
    PROVE  DepthInvariant'
  <1> USE DEF SeedEdge, Visiting
  <1> DEFINE c == conclusion[h]
  <1>1. /\ LabelTypes /\ c \in Node /\ strength[h] \in Kappa /\ kappa[c] \in Kappa \cup {Absent}
        /\ DepthTypes /\ DepthsReached /\ SeedsAtZero
    BY DEF FixpointInvariant, LabelTypes, DepthInvariant
  <1>2. /\ depth'[c] = 0 /\ \A n \in Node : n # c => depth'[n] = depth[n] /\ kappa'[n] = kappa[n]
        /\ kappa'[c] = IF strength[h] > kappa[c] THEN strength[h] ELSE kappa[c]
        /\ depth' \in [Node -> Nat \cup {Absent}]
    BY <1>1 DEF DepthTypes, LabelTypes
  <1>3. DepthsReached'
    <2> SUFFICES ASSUME NEW n \in Node, NEW d \in Nat, depth'[n] = d
                 PROVE  kappa'[n] # Absent /\ n \in WithinDepth(d)
      BY WithinKept DEF DepthsReached
    <2>1. CASE n = c
      <3>1. kappa'[c] # Absent
        BY <1>1, <1>2 DEF Kappa, Absent
      <3>2. c \in WithinDepth(0)
        BY <1>1, WithinValues DEF Seeds
      <3> QED
        BY <1>2, <2>1, <3>1, <3>2
    <2>2. CASE n # c
      BY <1>1, <1>2, <2>2 DEF DepthsReached
    <2> QED
      BY <2>1, <2>2
  <1>4. SeedsAtZero'
    <2> SUFFICES ASSUME NEW g \in Edge \ todo', premises[g] = {}
                 PROVE  depth'[conclusion[g]] = 0
      BY DEF SeedsAtZero, AtZero, graph
    <2>1. conclusion[g] \in Node
      BY <1>1 DEF LabelTypes
    <2>2. g # h => depth[conclusion[g]] = 0
      BY <1>1 DEF SeedsAtZero, AtZero
    <2> QED
      BY <1>2, <2>1, <2>2
  <1> QED
    BY <1>2, <1>3, <1>4 DEF DepthInvariant, DepthTypes, DepthsSettled

LEMMA ExtraDepths ==
    ASSUME FixpointInvariant, DepthInvariant, SeedExtra
    PROVE  DepthInvariant'
  <1> USE DEF SeedExtra
  <1>1. LabelTypes /\ DepthTypes /\ DepthsReached /\ SeedsAtZero
    BY DEF FixpointInvariant, DepthInvariant
  <1>2. /\ \A n \in Node : depth'[n] = IF n \in extra_seeds THEN 0 ELSE depth[n]
        /\ \A n \in Node : kappa'[n] = IF n \in extra_seeds THEN K_INF ELSE kappa[n]
        /\ UNCHANGED <<premises, conclusion, extra_seeds>>
    BY DEF graph
  <1>3. DepthTypes'
    BY <1>1 DEF DepthTypes
  <1>4. DepthsReached'
    <2> SUFFICES ASSUME NEW n \in Node, NEW d \in Nat, depth'[n] = d
                 PROVE  kappa'[n] # Absent /\ n \in WithinDepth(d)
      BY WithinKept DEF DepthsReached
    <2>1. CASE n \in extra_seeds
      <3>1. d = 0 /\ kappa'[n] # Absent
        BY <1>2, <2>1 DEF K_INF, Absent
      <3> QED
        BY <1>1, <2>1, <3>1, WithinValues DEF Seeds
    <2>2. CASE n \notin extra_seeds
      BY <1>1, <1>2, <2>2 DEF DepthsReached
    <2> QED
      BY <2>1, <2>2
  <1>5. SeedsAtZero'
    <2>1. ASSUME NEW g \in Edge, premises[g] = {}
          PROVE  depth'[conclusion[g]] = 0
      <3>1. conclusion[g] \in Node /\ depth[conclusion[g]] = 0
        BY <1>1, <2>1 DEF LabelTypes, SeedsAtZero, AtZero
      <3> QED
        BY <1>2, <3>1
    <2>2. \A n \in extra_seeds : depth'[n] = 0
      BY <1>1, <1>2 DEF LabelTypes
    <2> QED
      BY <1>2, <2>1, <2>2 DEF SeedsAtZero, AtZero
  <1> QED
    BY <1>3, <1>4, <1>5 DEF DepthInvariant, DepthsSettled

LEMMA ShortenDepth ==
    ASSUME FixpointInvariant, DepthInvariant, NEW h \in Edge, Shorten(h)
    PROVE  DepthInvariant'
  <1> USE DEF Shorten, Visiting
  <1> DEFINE c == conclusion[h]
  <1>1. /\ LabelTypes /\ c \in Node /\ DepthTypes /\ DepthsReached /\ SeedsAtZero
        /\ premises[h] # {} /\ kappa[c] # Absent /\ \A p \in premises[h] : depth[p] # Absent
        /\ depth[c] = Absent \/ PathDepth(h) < depth[c]
    BY DEF FixpointInvariant, LabelTypes, DepthInvariant, Shortens
  <1>2. PICK m \in Nat : /\ PathDepth(h) = m + 1
                         /\ \A p \in premises[h] : depth[p] \in Nat /\ depth[p] <= m
    BY <1>1, PathDepthValue
  <1>3. /\ depth'[c] = m + 1 /\ \A n \in Node : n # c => depth'[n] = depth[n]
        /\ kappa' = kappa /\ UNCHANGED <<premises, conclusion, extra_seeds>>
        /\ depth' \in [Node -> Nat \cup {Absent}]
    <2>1. m + 1 \in Nat
      OBVIOUS
    <2> QED
      BY <1>1, <1>2, <2>1 DEF DepthTypes, graph
  <1>4. DepthsReached'
    <2> SUFFICES ASSUME NEW n \in Node, NEW d \in Nat, depth'[n] = d
                 PROVE  kappa'[n] # Absent /\ n \in WithinDepth(d)
      BY WithinKept DEF DepthsReached
    <2>1. CASE n = c
      <3>1. premises[h] \subseteq WithinDepth(m)
        <4> SUFFICES ASSUME NEW p \in premises[h]
                     PROVE  p \in WithinDepth(m)
          OBVIOUS
        <4>1. p \in Node /\ depth[p] \in Nat /\ depth[p] <= m
          BY <1>1, <1>2 DEF LabelTypes
        <4>2. p \in WithinDepth(depth[p])
          BY <1>1, <4>1 DEF DepthsReached
        <4> QED
          BY <1>1, <4>1, <4>2, WithinGrows
      <3>2. c \in WithinDepth(m + 1)
        BY <1>1, <3>1, WithinValues DEF Deeper
      <3> QED
        BY <1>1, <1>3, <2>1, <3>2
    <2>2. CASE n # c
      BY <1>1, <1>3, <2>2 DEF DepthsReached
    <2> QED
      BY <2>1, <2>2
  <1>5. \A n \in Node : depth[n] = 0 => depth'[n] = 0
    <2>1. depth[c] # 0
      <3>1. ~(m + 1 < 0)
        OBVIOUS
      <3> QED
        BY <1>1, <1>2, <3>1 DEF Absent
    <2> QED
      BY <1>3, <2>1
  <1>6. SeedsAtZero'
    <2>1. \A g \in Edge : AtZero(g)'
      BY <1>1, <1>3, <1>5 DEF SeedsAtZero, AtZero, LabelTypes
    <2>2. \A n \in extra_seeds : depth'[n] = 0
      BY <1>1, <1>5 DEF LabelTypes, SeedsAtZero
    <2> QED
      BY <1>3, <2>1, <2>2 DEF SeedsAtZero
  <1> QED
    BY <1>3, <1>4, <1>6 DEF DepthInvariant, DepthTypes, DepthsSettled

\* The other steps leave the depths alone.
LEMMA OtherDepths ==
    ASSUME FixpointInvariant, DepthInvariant,
           \/ \E h \in Edge : PassOverSeed(h) \/ Raise(h) \/ PassOverKappa(h) \/ PassOverDepth(h)
           \/ NextPass \/ EndKappa \/ EndDepth
           \/ UNCHANGED vars
    PROVE  DepthInvariant'
  <1>1. LabelTypes /\ DepthTypes /\ DepthsReached /\ SeedsAtZero /\ DepthsSettled
    BY DEF FixpointInvariant, DepthInvariant
  <1>2. UNCHANGED <<graph, depth>>
    BY DEF PassOverSeed, Raise, PassOverKappa, PassOverDepth, NextPass, EndKappa, EndDepth,
           Visiting, Unaffected, graph, vars
  <1>3. \A n \in Node : kappa[n] # Absent => kappa'[n] # Absent
    <2>1. ASSUME NEW h \in Edge, Raise(h)
          PROVE  \A n \in Node : kappa[n] # Absent => kappa'[n] # Absent
      <3>1. Fires(h) /\ kappa' = [kappa EXCEPT ![conclusion[h]] = PathKappa(h)]
        BY <2>1 DEF Raise, Raises
      <3>2. PathKappa(h) # Absent
        BY <1>1, <3>1, PathKappaValue DEF Kappa, Absent
      <3> QED
        BY <1>1, <3>1, <3>2 DEF LabelTypes
    <2> QED
      BY <2>1 DEF PassOverSeed, PassOverKappa, PassOverDepth, NextPass, EndKappa, EndDepth,
                  Unaffected, vars
  <1>4. DepthTypes' /\ DepthsReached'
    <2>1. DepthTypes'
      BY <1>1, <1>2 DEF DepthTypes
    <2>2. ASSUME NEW n \in Node, NEW d \in Nat, depth'[n] = d
          PROVE  kappa'[n] # Absent /\ n \in WithinDepth(d)
      BY <1>1, <1>2, <1>3, <2>2 DEF DepthsReached
    <2>3. \A d \in Nat : WithinDepth(d)' = WithinDepth(d)
      BY <1>2, WithinKept
    <2> QED
      BY <2>1, <2>2, <2>3 DEF DepthsReached
  <1>5. \A h \in Edge : AtZero(h)' = AtZero(h)
    BY <1>2 DEF AtZero, graph
  <1>6. ASSUME NEW h \in Edge, PassOverSeed(h)
        PROVE  SeedsAtZero' /\ DepthsSettled'
    BY <1>1, <1>2, <1>5, <1>6 DEF PassOverSeed, Visiting, SeedsAtZero, DepthsSettled, AtZero, graph
  <1>7. ASSUME NEW h \in Edge, Raise(h) \/ PassOverKappa(h)
        PROVE  SeedsAtZero' /\ DepthsSettled'
    BY <1>1, <1>2, <1>5, <1>7 DEF Raise, PassOverKappa, Visiting, SeedsAtZero, DepthsSettled, graph
  <1>8. ASSUME NextPass \/ EndKappa
        PROVE  SeedsAtZero' /\ DepthsSettled'
    BY <1>1, <1>2, <1>5, <1>8 DEF NextPass, EndKappa, SeedsAtZero, DepthsSettled, graph
  <1>9. ASSUME (\E h \in Edge : PassOverDepth(h)) \/ EndDepth \/ UNCHANGED vars
        PROVE  SeedsAtZero' /\ DepthsSettled'
    <2>1. UNCHANGED kappa
      BY <1>9 DEF PassOverDepth, Unaffected, EndDepth, vars
    <2>2. \A h \in Edge : Shortens(h)' = Shortens(h)
      BY <1>2, <2>1 DEF Shortens, PathDepth, graph
    <2>3. SeedsAtZero'
      BY <1>1, <1>2, <1>5, <1>9 DEF PassOverDepth, Visiting, EndDepth, vars, SeedsAtZero, graph
    <2>4. DepthsSettled'
      BY <1>1, <1>9, <2>2 DEF PassOverDepth, Visiting, Unaffected, EndDepth, vars, DepthsSettled
    <2> QED
      BY <2>3, <2>4
  <1>10. SeedsAtZero' /\ DepthsSettled'
    BY <1>6, <1>7, <1>8, <1>9
  <1> QED
    BY <1>4, <1>10 DEF DepthInvariant

LEMMA DepthStep == FixpointInvariant /\ DepthInvariant /\ [Next]_vars => DepthInvariant'
  BY SeedDepth, ExtraDepths, ShortenDepth, OtherDepths DEF Next

LEMMA InitDepths == Init => DepthInvariant
  BY DEF Init, DepthInvariant, DepthTypes, DepthsReached, SeedsAtZero, DepthsSettled, AtZero, Absent

\* When nothing can be lowered any more, what is derivable in d steps has a depth of at
\* most d: by induction on d.
LEMMA DepthsComplete ==
    ASSUME FixpointInvariant, DepthInvariant, phase = "done"
    PROVE  \A d \in Nat : \A n \in WithinDepth(d) : depth[n] \in Nat /\ depth[n] <= d
  <1> DEFINE P == {d \in Nat : \A n \in WithinDepth(d) : depth[n] \in Nat /\ depth[n] <= d}
  <1>0. /\ LabelTypes /\ VisitedSettled /\ DepthTypes /\ DepthsReached /\ SeedsAtZero /\ DepthsSettled
        /\ phase # "seed"
    BY DEF FixpointInvariant, DepthInvariant
  <1>1. 0 \in P
    <2>1. \A n \in Seeds : depth[n] = 0
      BY <1>0 DEF Seeds, SeedsAtZero, AtZero
    <2>2. WithinDepth(0) = Seeds
      BY <1>0, WithinValues
    <2> QED
      BY <2>1, <2>2
  <1>2. ASSUME NEW d \in P
        PROVE  d + 1 \in P
    <2>1. d \in Nat /\ \A n \in WithinDepth(d) : depth[n] \in Nat /\ depth[n] <= d
      OBVIOUS
    <2>2. WithinDepth(d + 1) = Deeper(WithinDepth(d)) /\ WithinDepth(d) \in SUBSET Node
      BY <1>0, <2>1, WithinValues
    <2>3. ASSUME NEW h \in Edge, premises[h] \subseteq WithinDepth(d)
          PROVE  depth[conclusion[h]] \in Nat /\ depth[conclusion[h]] <= d + 1
      <3> DEFINE c == conclusion[h]
      <3>1. CASE premises[h] = {}
        BY <1>0, <2>1, <3>1 DEF SeedsAtZero, AtZero
      <3>2. CASE premises[h] # {}
        <4>1. \A p \in premises[h] : p \in Node /\ depth[p] \in Nat /\ depth[p] <= d /\ depth[p] # Absent
          BY <2>1, <2>2, <2>3 DEF Absent
        <4>2. \A p \in premises[h] : kappa[p] # Absent
          BY <1>0, <4>1 DEF DepthsReached
        <4>3. Fires(h) /\ ~Raises(h)
          BY <1>0, <3>2, <4>2 DEF Fires, VisitedSettled
        <4>4. kappa[c] # Absent
          <5>1. PathKappa(h) \in Kappa /\ ~(PathKappa(h) > kappa[c])
            BY <1>0, <4>3, PathKappaValue DEF Raises
          <5> QED
            BY <5>1 DEF Kappa, Absent
        <4>5. PICK m \in Nat : PathDepth(h) = m + 1 /\ \E p \in premises[h] : depth[p] = m
          BY <1>0, <3>2, <4>1, PathDepthValue
        <4>6. m <= d
          BY <4>1, <4>5
        <4>7. depth[c] # Absent /\ ~(PathDepth(h) < depth[c])
          BY <1>0, <3>2, <4>1, <4>4 DEF DepthsSettled, Shortens
        <4>8. depth[c] \in Nat
          BY <1>0, <4>7 DEF DepthTypes, LabelTypes
        <4> QED
          BY <2>1, <4>5, <4>6, <4>7, <4>8
      <3> QED
        BY <3>1, <3>2
    <2>4. \A n \in WithinDepth(d) : depth[n] \in Nat /\ depth[n] <= d + 1
      BY <2>1
    <2>5. \A n \in WithinDepth(d + 1) : depth[n] \in Nat /\ depth[n] <= d + 1
      BY <2>2, <2>3, <2>4 DEF Deeper
    <2> QED
      BY <2>1, <2>5
  <1>3. P = Nat
    <2>1. P \in SUBSET Nat
      OBVIOUS
    <2> HIDE DEF P
    <2> QED
      BY <1>1, <1>2, <2>1, G!SetInduction
  <1> QED
    BY <1>3

\* What the invariant gives at the end, for depths of any size.
LEMMA DepthMeaning ==
    ASSUME FixpointInvariant, DepthInvariant, phase = "done"
    PROVE  \A n \in Node : \A d \in Nat :
               n \in WithinDepth(d) <=> depth[n] # Absent /\ depth[n] <= d
  <1> SUFFICES ASSUME NEW n \in Node, NEW d \in Nat
               PROVE  n \in WithinDepth(d) <=> depth[n] # Absent /\ depth[n] <= d
    OBVIOUS
  <1>1. n \in WithinDepth(d) => depth[n] # Absent /\ depth[n] <= d
    BY DepthsComplete DEF Absent
  <1>2. ASSUME depth[n] # Absent, depth[n] <= d
        PROVE  n \in WithinDepth(d)
    <2>1. depth[n] \in Nat /\ n \in WithinDepth(depth[n])
      BY <1>2 DEF DepthInvariant, DepthTypes, DepthsReached
    <2> QED
      BY <1>2, <2>1, WithinGrows DEF FixpointInvariant
  <1> QED
    BY <1>1, <1>2

(***************************************************************************)
(* When the query ends, a node has a depth of at most d exactly if it is   *)
(* derivable in d steps.                                                   *)
(***************************************************************************)
THEOREM DepthsAreMinimal == Spec => []DepthIsMinimal
  <1>1. FixpointInvariant /\ DepthInvariant => DepthIsMinimal
    <2>1. \A d \in 0 .. Cardinality(Node) : d \in Nat
      BY FS_CardinalityType, ReachabilityAssumption
    <2> QED
      BY <2>1, DepthMeaning DEF DepthIsMinimal
  <1> QED
    BY <1>1, FixpointCorrect, InitDepths, DepthStep, PTL DEF Spec

-----------------------------------------------------------------------------
(***************************************************************************)
(* The loops compute what module GraphQueries defines: modules ApiServer   *)
(* and CorpusSeeding, which answer by those operators, stand on this.      *)
(***************************************************************************)

\* Without hypothetical seeds, the sets of nodes agree.
LEMMA DerivableIsEstablished ==
    ASSUME LabelTypes, extra_seeds = {}
    PROVE  \A k \in Kappa : Derivable(Edge, k) = G!Established(Edge, k)
  <1> SUFFICES ASSUME NEW k \in Kappa
               PROVE  Derivable(Edge, k) = G!Established(Edge, k)
    OBVIOUS
  <1> DEFINE E == G!Established(Edge, k)
  <1>1. Edge \in SUBSET Edge
    OBVIOUS
  <1>2. /\ E \in SUBSET Node /\ G!ClosedForward(Edge, k, E)
        /\ \A C \in SUBSET Node : G!ClosedForward(Edge, k, C) => E \subseteq C
    BY <1>1, GraphIsFinite, G!EstablishedIsLeast
  <1>3. \A C \in SUBSET Node : ClosedUnder(Edge, k, C) <=> G!ClosedForward(Edge, k, C)
    BY DEF ClosedUnder, G!ClosedForward
  <1> HIDE DEF E
  <1>4. Derivable(Edge, k) = E
    BY <1>2, <1>3 DEF Derivable
  <1> QED
    BY <1>4 DEF E

LEMMA WithinDepthIsWithin ==
    ASSUME LabelTypes, extra_seeds = {}
    PROVE  \A d \in Nat : WithinDepth(d) = G!Within(Edge, 0, d)
  <1> DEFINE V(d) == WithinDepth(d)
             W(d) == G!Within(Edge, 0, d)
             P == {d \in Nat : V(d) = W(d)}
  <1>1. \A h \in Edge : strength[h] >= 0
    BY DEF LabelTypes, Kappa
  <1>2. \A N : Deeper(N) = G!Derived(Edge, 0, N)
    BY <1>1 DEF Deeper, G!Derived, G!Strong
  <1>3. Seeds = G!Derived(Edge, 0, {})
    <2>1. \A S : S \subseteq {} <=> S = {}
      OBVIOUS
    <2> QED
      BY <1>1, <2>1 DEF Seeds, G!Derived, G!Strong
  <1>4. /\ V(0) = Seeds /\ W(0) = G!Derived(Edge, 0, {})
        /\ \A d \in Nat : V(d + 1) = Deeper(V(d)) /\ W(d + 1) = G!Derived(Edge, 0, W(d))
    <2>1. Edge \in SUBSET Edge
      OBVIOUS
    <2>2. /\ G!Within(Edge, 0, 0) = G!Derived(Edge, 0, {})
          /\ \A d \in Nat : G!Within(Edge, 0, d + 1) = G!Derived(Edge, 0, G!Within(Edge, 0, d))
      BY <2>1, GraphIsFinite, G!WithinValues
    <2> QED
      BY <2>2, WithinValues
  <1> HIDE DEF V, W
  <1>5. 0 \in P
    BY <1>3, <1>4
  <1>6. ASSUME NEW d \in P
        PROVE  d + 1 \in P
    BY <1>2, <1>4
  <1>7. P = Nat
    <2>1. P \in SUBSET Nat
      OBVIOUS
    <2> HIDE DEF P
    <2> QED
      BY <1>5, <1>6, <2>1, G!SetInduction
  <1> QED
    BY <1>7 DEF V, W

LEMMA FrontierIsMissing ==
    \A k \in Kappa, target \in Node :
        MissingEdges(target, k) = G!Missing(Edge, target, AtLeast(k))
  <1> SUFFICES ASSUME NEW k \in Kappa, NEW target \in Node
               PROVE  MissingEdges(target, k) = G!Missing(Edge, target, AtLeast(k))
    OBVIOUS
  <1> DEFINE enough == AtLeast(k)
             R == G!Reached(Edge, target, enough)
             into(n) == {e \in Edge : conclusion[e] = n}
             gap(e) == [conclusion |-> conclusion[e], blocking |-> Blocking(e, k)]
             leaf(n) == [conclusion |-> n, blocking |-> {}]
  <1>1. Visited(target, k) = R
    BY VisitedIsReached
  <1>2. \A e : G!Blocking(e, enough) = Blocking(e, k)
    BY DEF G!Blocking, Blocking
  <1>3. \A n : G!MissingAt(n, into(n), enough) =
                   IF into(n) = {} THEN {leaf(n)}
                   ELSE {gap(e) : e \in {f \in into(n) : Blocking(f, k) # {}}}
    BY <1>2 DEF G!MissingAt
  <1>4. G!Missing(Edge, target, enough) = UNION {G!MissingAt(n, into(n), enough) : n \in R}
    BY DEF G!Missing
  <1>5. MissingEdges(target, k) =
            {leaf(n) : n \in {m \in R : into(m) = {}}}
            \cup {gap(e) : e \in {f \in Edge : conclusion[f] \in R /\ Blocking(f, k) # {}}}
    <2>1. \A n : (\A h \in Edge : conclusion[h] # n) <=> into(n) = {}
      OBVIOUS
    <2> HIDE DEF R
    <2> QED
      BY <1>1, <2>1 DEF MissingEdges
  <1> DEFINE at(n) == G!MissingAt(n, into(n), enough)
  <1> HIDE DEF R, gap, leaf
  <1>6. \A m : m \in MissingEdges(target, k) <=>
                   \/ \E n \in R : into(n) = {} /\ m = leaf(n)
                   \/ \E e \in Edge : conclusion[e] \in R /\ Blocking(e, k) # {} /\ m = gap(e)
    BY <1>5
  <1>7. \A n : \A m : m \in at(n) <=>
                   \/ into(n) = {} /\ m = leaf(n)
                   \/ \E e \in Edge : conclusion[e] = n /\ Blocking(e, k) # {} /\ m = gap(e)
    <2> SUFFICES ASSUME NEW n, NEW m
                 PROVE  m \in at(n) <=>
                            \/ into(n) = {} /\ m = leaf(n)
                            \/ \E e \in Edge : conclusion[e] = n /\ Blocking(e, k) # {} /\ m = gap(e)
      OBVIOUS
    <2>1. CASE into(n) = {}
      <3>1. \A e \in Edge : conclusion[e] # n
        BY <2>1
      <3>2. at(n) = {leaf(n)}
        BY <1>3, <2>1
      <3> QED
        BY <2>1, <3>1, <3>2
    <2>2. CASE into(n) # {}
      <3>1. at(n) = {gap(e) : e \in {f \in into(n) : Blocking(f, k) # {}}}
        BY <1>3, <2>2
      <3>2. \A e : e \in into(n) <=> e \in Edge /\ conclusion[e] = n
        OBVIOUS
      <3> HIDE DEF at, into
      <3> QED
        BY <2>2, <3>1, <3>2
    <2> QED
      BY <2>1, <2>2
  <1>8. \A m : m \in G!Missing(Edge, target, enough) <=> \E n \in R : m \in at(n)
    BY <1>4
  <1> HIDE DEF at, into, enough
  <1>9. \A m : m \in MissingEdges(target, k) <=> m \in G!Missing(Edge, target, enough)
    BY <1>6, <1>7, <1>8
  <1>10. MissingEdges(target, k) \subseteq G!Missing(Edge, target, enough)
         /\ G!Missing(Edge, target, enough) \subseteq MissingEdges(target, k)
    BY <1>9
  <1>11. MissingEdges(target, k) = G!Missing(Edge, target, enough)
    BY <1>10
  <1> QED
    BY <1>11 DEF enough

\* What reachable and path_discovery answer, read off their dictionaries, is what the
\* operators of module GraphQueries give.
AnswerIsQuery ==
    phase = "done" /\ extra_seeds = {} =>
        /\ \A k \in Kappa : AtLeast(k) = G!Established(Edge, k)
        /\ \A n \in Node : kappa[n] = G!KappaOf(Edge, n) /\ depth[n] = G!DepthOf(Edge, n)
        /\ \A k \in Kappa, target \in Node :
               MissingEdges(target, k) = G!Missing(Edge, target, AtLeast(k))

(***************************************************************************)
(* In whatever order the edges are visited, the loops end with the labels, *)
(* the depths and the missing edges of module GraphQueries.                *)
(***************************************************************************)
THEOREM LoopsAnswerQueries == Spec => []AnswerIsQuery
  <1>1. ASSUME FixpointInvariant, DepthInvariant, KappaIsBest
        PROVE  AnswerIsQuery
    <2> SUFFICES ASSUME phase = "done", extra_seeds = {}
                 PROVE  /\ \A k \in Kappa : AtLeast(k) = G!Established(Edge, k)
                        /\ \A n \in Node : /\ kappa[n] = G!KappaOf(Edge, n)
                                           /\ depth[n] = G!DepthOf(Edge, n)
      BY FrontierIsMissing DEF AnswerIsQuery
    <2>0. LabelTypes /\ DepthTypes /\ Edge \in SUBSET Edge
      BY <1>1 DEF FixpointInvariant, DepthInvariant
    <2>1. \A k \in Kappa : AtLeast(k) = G!Established(Edge, k)
      BY <1>1, <2>0, DerivableIsEstablished DEF KappaIsBest
    <2>2. ASSUME NEW n \in Node
          PROVE  kappa[n] = G!KappaOf(Edge, n)
      <3> DEFINE x == kappa[n]
                 y == G!KappaOf(Edge, n)
      <3>1. /\ y \in G!Kappa \cup {G!Absent}
            /\ \A k \in G!Kappa : n \in G!Established(Edge, k) <=> y >= k
        BY <2>0, GraphIsFinite, G!KappaOfIsStrongest
      <3>2. x \in -1 .. 4 /\ y \in -1 .. 4
        BY <2>0, <3>1 DEF LabelTypes, Kappa, Absent, G!Kappa, G!Absent
      <3>3. \A k \in 0 .. 4 : x >= k <=> y >= k
        BY <2>1, <3>1 DEF AtLeast, Kappa, G!Kappa
      <3> HIDE DEF x, y
      <3>4. x = y
        BY <3>2, <3>3
      <3> QED
        BY <3>4 DEF x, y
    <2>3. ASSUME NEW n \in Node
          PROVE  depth[n] = G!DepthOf(Edge, n)
      <3> DEFINE x == depth[n]
                 y == G!DepthOf(Edge, n)
      <3>1. /\ y \in Nat \cup {-1}
            /\ \A d \in Nat : n \in G!Within(Edge, 0, d) <=> y # -1 /\ y <= d
        BY <2>0, GraphIsFinite, G!DepthOfIsLeast DEF G!Absent
      <3>2. /\ x \in Nat \cup {-1}
            /\ \A d \in Nat : n \in WithinDepth(d) <=> x # -1 /\ x <= d
        BY <1>1, <2>0, DepthMeaning DEF DepthTypes, Absent
      <3>3. \A d \in Nat : WithinDepth(d) = G!Within(Edge, 0, d)
        BY <2>0, WithinDepthIsWithin
      <3> HIDE DEF x, y
      <3>4. \A d \in Nat : x # -1 /\ x <= d <=> y # -1 /\ y <= d
        BY <3>1, <3>2, <3>3
      <3>5. x = y
        <4>1. CASE x \in Nat
          <5>1. y # -1 /\ y <= x
            BY <3>4, <4>1
          <5>2. y \in Nat /\ x <= y
            BY <3>1, <3>4, <5>1
          <5> QED
            BY <4>1, <5>1, <5>2
        <4>2. CASE x = -1
          BY <3>1, <3>4, <4>2
        <4> QED
          BY <3>2, <4>1, <4>2
      <3> QED
        BY <3>5 DEF x, y
    <2> QED
      BY <2>1, <2>2, <2>3
  <1> QED
    BY <1>1, FixpointCorrect, LabelsAreBest, InitDepths, DepthStep, PTL DEF Spec
==============================================================================
