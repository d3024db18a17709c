----------------------------- MODULE Refutation ------------------------------
(***************************************************************************)
(* compute_active_subgraph (refutation.py): the labelling of the stored    *)
(* edges as IN, OUT or undecided.  The loop visits the edges pass after    *)
(* pass until a pass changes nothing.  A pass visits them in the order of  *)
(* their hashes, about which nothing is known: here, in any order.         *)
(*                                                                         *)
(* What the algorithm reads of a record is whether it is a REFUTATION and  *)
(* what its conclusion address resolves to: another edge, a claim (a       *)
(* proposition and a polarity), or neither.                                *)
(***************************************************************************)
EXTENDS Naturals, FiniteSets

CONSTANTS
    Edge,           \* the edges that resolve
    Proposition,    \* what a claim is about: its text and its domain
    Unresolved      \* a conclusion that is no known edge and no known node

Claim == {<<p, polarity>> : p \in Proposition, polarity \in BOOLEAN}

ASSUME RefutationAssumption ==
    /\ Edge \cap Claim = {}
    /\ Unresolved \notin Edge \cup Claim

VARIABLES
    refuting,       \* the edges of type REFUTATION
    concl,          \* Edge -> what its conclusion resolves to
    in, out,        \* in_edges and out_edges
    todo,           \* edges not yet visited in this pass
    changed,        \* whether this pass changed a label
    done            \* whether the loop has ended

vars == <<refuting, concl, in, out, todo, changed, done>>

-----------------------------------------------------------------------------
\* A refutation attacks the edge that it concludes.
Refutes(h, t) == h \in refuting /\ t \in Edge /\ concl[h] = t

\* Edges that conclude a proposition and its negation attack each other.
Contends(h, t) ==
    /\ concl[h] \in Claim /\ concl[t] \in Claim
    /\ concl[h][1] = concl[t][1]
    /\ concl[h][2] # concl[t][2]

\* attackers[h] of the code: the edges that h attacks.
Targets(h) == {t \in Edge : Refutes(h, t) \/ Contends(h, t)}

\* attacked_by[h] of the code.
AttackedBy(h) == {a \in Edge : h \in Targets(a)}

-----------------------------------------------------------------------------
\* Every attacker is already defeated.
Defended(h) == AttackedBy(h) \subseteq out

\* Mutation: the pass does not notice that it changed a label.
AcceptUnnoticed(h) ==
    /\ h \notin in \cup out /\ Defended(h)
    /\ in' = in \cup {h}
    /\ out' = out \cup Targets(h)
    /\ UNCHANGED changed

Accept(h) ==
    /\ h \notin in \cup out /\ Defended(h)
    /\ in' = in \cup {h}
    /\ out' = out \cup Targets(h)
    /\ changed' = TRUE

Skip(h) ==
    /\ h \in in \cup out \/ ~Defended(h)
    /\ UNCHANGED <<in, out, changed>>

\* The body of the for loop.
Visit(h) ==
    /\ h \in todo
    /\ todo' = todo \ {h}
    /\ Accept(h) \/ Skip(h)
    /\ UNCHANGED <<refuting, concl, done>>

\* Mutation: the loop goes on for ever.
PassWithoutEnd ==
    /\ todo = {} /\ ~done
    /\ todo' = Edge
    /\ changed' = FALSE
    /\ UNCHANGED <<refuting, concl, in, out, done>>

\* while changed: changed = False; for h in edges
NextPass ==
    /\ todo = {} /\ changed /\ ~done
    /\ todo' = Edge
    /\ changed' = FALSE
    /\ UNCHANGED <<refuting, concl, in, out, done>>

Finish ==
    /\ todo = {} /\ ~changed /\ ~done
    /\ done' = TRUE
    /\ UNCHANGED <<refuting, concl, in, out, todo, changed>>

Init ==
    /\ refuting \in SUBSET Edge
    /\ concl \in [Edge -> Edge \cup Claim \cup {Unresolved}]
    /\ in = {} /\ out = {}
    /\ todo = {} /\ changed = TRUE
    /\ done = FALSE

Next == (\E h \in Edge : Visit(h)) \/ NextPass \/ Finish

Spec == Init /\ [][Next]_vars

\* The loop runs on: nothing it does can block.
FairSpec == Spec /\ WF_vars(Next)

-----------------------------------------------------------------------------
(***************************************************************************)
(* Dung's grounded extension: the least fixed point of the function that   *)
(* maps a set of edges to the edges it defends.                            *)
(***************************************************************************)

Beaten(S) == {t \in Edge : \E h \in S : t \in Targets(h)}

DefendedBy(S) == {h \in Edge : AttackedBy(h) \subseteq Beaten(S)}

GroundedExtension(S) ==
    /\ S \in SUBSET Edge
    /\ DefendedBy(S) = S
    /\ \A T \in SUBSET Edge : DefendedBy(T) = T => S \subseteq T

TypeOK ==
    /\ refuting \in SUBSET Edge
    /\ concl \in [Edge -> Edge \cup Claim \cup {Unresolved}]
    /\ in \in SUBSET Edge /\ out \in SUBSET Edge /\ todo \in SUBSET Edge
    /\ changed \in BOOLEAN /\ done \in BOOLEAN

\* At no point is an edge both accepted and defeated, and no accepted edge attacks
\* another, although labels are handed out one visit at a time and never revised.
LabelsConsistent ==
    /\ in \cap out = {}
    /\ \A h, t \in in : t \notin Targets(h)

\* When the loop ends, the active subgraph is the grounded extension and the
\* defeated edges are exactly those that it attacks, in whatever order the edges
\* were visited.
ResultIsGrounded == done => GroundedExtension(in) /\ out = Beaten(in)

-----------------------------------------------------------------------------
(***************************************************************************)
(* The inductive invariant behind ResultIsGrounded.  The accepted edges    *)
(* belong to every fixed point; while a pass has changed nothing, no edge  *)
(* that it has visited could have been accepted.                           *)
(***************************************************************************)

DefeatedAreBeaten == out = Beaten(in)

AcceptedAreDefended == \A h \in in : Defended(h)

AcceptedInEveryFixedPoint ==
    \A T \in SUBSET Edge : DefendedBy(T) = T => in \subseteq T

VisitedAreSettled ==
    ~changed => \A h \in Edge \ todo : h \in in \cup out \/ ~Defended(h)

EndedSettled == done => todo = {} /\ ~changed

\* The labels handed out so far are right for good: accepted edges are defended by
\* accepted edges and lie in every fixed point, defeated ones are attacked by them.
LabellingInvariant ==
    /\ TypeOK
    /\ LabelsConsistent
    /\ DefeatedAreBeaten
    /\ AcceptedAreDefended
    /\ AcceptedInEveryFixedPoint
    /\ VisitedAreSettled
    /\ EndedSettled

\* The loop ends.
Terminates == <>done
==============================================================================
