-------------------------- MODULE RefutationProofs ---------------------------
(***************************************************************************)
(* compute_active_subgraph returns the grounded extension, for every set   *)
(* of edges, every attack relation and every order of visits.              *)
(***************************************************************************)
EXTENDS Refutation, TLAPS

\* A visit changes no record, so it changes no attack.
LEMMA AttacksUnchanged ==
    ASSUME UNCHANGED <<refuting, concl>>
    PROVE  /\ \A h \in Edge : Targets(h)' = Targets(h)
           /\ \A h \in Edge : AttackedBy(h)' = AttackedBy(h)
  <1>1. \A h \in Edge : Targets(h)' = Targets(h)
    BY DEF Targets, Refutes, Contends
  <1> QED
    BY <1>1 DEF AttackedBy

\* The set function whose least fixed point is the grounded extension does not
\* change either.
LEMMA DefenceUnchanged ==
    ASSUME UNCHANGED <<refuting, concl>>
    PROVE  \A T \in SUBSET Edge : DefendedBy(T)' = DefendedBy(T)
  <1> SUFFICES ASSUME NEW T \in SUBSET Edge
               PROVE  DefendedBy(T)' = DefendedBy(T)
    OBVIOUS
  <1>1. Beaten(T)' = Beaten(T)
    BY AttacksUnchanged DEF Beaten
  <1> QED
    BY <1>1, AttacksUnchanged DEF DefendedBy

\* Attacking and being attacked are converse.
LEMMA AttackConverse ==
    \A h, t \in Edge : t \in Targets(h) <=> h \in AttackedBy(t)
  BY DEF AttackedBy

LEMMA InitInvariant == Init => LabellingInvariant
  BY DEF Init, LabellingInvariant, TypeOK, LabelsConsistent, DefeatedAreBeaten, Beaten,
         AcceptedAreDefended, AcceptedInEveryFixedPoint, VisitedAreSettled, EndedSettled

\* Accepting an edge whose attackers are all defeated keeps the labels right.
LEMMA AcceptPreserves ==
    ASSUME LabellingInvariant,
           NEW h \in Edge,
           h \in todo, todo' = todo \ {h}, Accept(h),
           UNCHANGED <<refuting, concl, done>>
    PROVE  LabellingInvariant'
  <1> USE DEF LabellingInvariant
  <1>t. /\ \A x \in Edge : Targets(x)' = Targets(x)
        /\ \A x \in Edge : AttackedBy(x)' = AttackedBy(x)
        /\ \A x \in Edge : Targets(x) \subseteq Edge
        /\ \A x \in Edge : AttackedBy(x) \subseteq Edge
    BY AttacksUnchanged DEF Targets, AttackedBy
  <1>a. /\ h \notin in /\ h \notin out
        /\ AttackedBy(h) \subseteq out
        /\ in' = in \cup {h}
        /\ out' = out \cup Targets(h)
        /\ changed' = TRUE
        /\ in \subseteq Edge /\ out \subseteq Edge
    BY DEF Accept, Defended, TypeOK
  <1>1. TypeOK'
    BY <1>a, <1>t DEF TypeOK
  <1>2. \A t \in in' : t \notin Targets(h)
    BY <1>a, AttackConverse DEF AcceptedAreDefended, Defended
  <1>3. LabelsConsistent'
    <2>1. in' \cap out' = {}
      BY <1>a, <1>2 DEF LabelsConsistent
    <2>2. \A x \in in : h \notin Targets(x)
      BY <1>a, AttackConverse DEF LabelsConsistent
    <2>3. \A x, t \in in' : t \notin Targets(x)
      BY <1>a, <1>2, <2>2 DEF LabelsConsistent
    <2> QED
      BY <1>a, <1>t, <2>1, <2>3 DEF LabelsConsistent
  <1>4. DefeatedAreBeaten'
    <2>1. Beaten(in)' = Beaten(in) \cup Targets(h)
      BY <1>a, <1>t DEF Beaten
    <2> QED
      BY <1>a, <2>1 DEF DefeatedAreBeaten
  <1>5. AcceptedAreDefended'
    BY <1>a, <1>t DEF AcceptedAreDefended, Defended
  <1>6. AcceptedInEveryFixedPoint'
    <2> SUFFICES ASSUME NEW T \in SUBSET Edge, DefendedBy(T)' = T
                 PROVE  in' \subseteq T
      BY DEF AcceptedInEveryFixedPoint
    <2>1. DefendedBy(T) = T /\ in \subseteq T
      BY DefenceUnchanged DEF AcceptedInEveryFixedPoint
    <2>2. Beaten(in) \subseteq Beaten(T)
      BY <2>1 DEF Beaten
    <2>3. h \in DefendedBy(T)
      BY <1>a, <2>2 DEF DefendedBy, DefeatedAreBeaten
    <2> QED
      BY <1>a, <2>1, <2>3
  <1>7. VisitedAreSettled' /\ EndedSettled'
    BY <1>a DEF VisitedAreSettled, EndedSettled
  <1> QED
    BY <1>1, <1>3, <1>4, <1>5, <1>6, <1>7

\* A step that changes no label keeps what the labels mean.
LEMMA LabelsKept ==
    ASSUME LabellingInvariant, UNCHANGED <<refuting, concl, in, out>>
    PROVE  /\ LabelsConsistent' /\ DefeatedAreBeaten' /\ AcceptedAreDefended'
           /\ AcceptedInEveryFixedPoint'
           /\ \A h \in Edge : Defended(h)' = Defended(h)
  <1> USE DEF LabellingInvariant
  <1>0. in \subseteq Edge
    BY DEF TypeOK
  <1>1. LabelsConsistent'
    BY <1>0, AttacksUnchanged DEF LabelsConsistent
  <1>2. DefeatedAreBeaten'
    BY <1>0, AttacksUnchanged DEF DefeatedAreBeaten, Beaten
  <1>3. \A h \in Edge : Defended(h)' = Defended(h)
    BY AttacksUnchanged DEF Defended
  <1>4. AcceptedAreDefended'
    BY <1>0, <1>3 DEF AcceptedAreDefended
  <1>5. AcceptedInEveryFixedPoint'
    BY DefenceUnchanged DEF AcceptedInEveryFixedPoint
  <1> QED
    BY <1>1, <1>2, <1>3, <1>4, <1>5

LEMMA StepInvariant == LabellingInvariant /\ [Next]_vars => LabellingInvariant'
  <1> SUFFICES ASSUME LabellingInvariant, [Next]_vars
               PROVE  LabellingInvariant'
    OBVIOUS
  <1> USE DEF LabellingInvariant
  <1>1. ASSUME NEW h \in Edge, Visit(h)
        PROVE  LabellingInvariant'
    <2>1. CASE Accept(h)
      BY <1>1, <2>1, AcceptPreserves DEF Visit
    <2>2. CASE Skip(h)
      <3>1. TypeOK'
        BY <1>1, <2>2 DEF TypeOK, Visit, Skip
      <3>2. VisitedAreSettled'
        BY <1>1, <2>2, LabelsKept DEF VisitedAreSettled, Visit, Skip
      <3>3. EndedSettled'
        BY <1>1, <2>2 DEF EndedSettled, Visit, Skip
      <3> QED
        BY <1>1, <2>2, <3>1, <3>2, <3>3, LabelsKept DEF Visit, Skip
    <2> QED
      BY <1>1, <2>1, <2>2 DEF Visit
  <1>2. CASE NextPass
    <2>1. TypeOK' /\ VisitedAreSettled' /\ EndedSettled'
      BY <1>2 DEF TypeOK, NextPass, VisitedAreSettled, EndedSettled
    <2> QED
      BY <1>2, <2>1, LabelsKept DEF NextPass
  <1>3. CASE Finish
    <2>1. TypeOK' /\ EndedSettled'
      BY <1>3 DEF TypeOK, Finish, EndedSettled
    <2>2. VisitedAreSettled'
      BY <1>3, LabelsKept DEF Finish, VisitedAreSettled
    <2> QED
      BY <1>3, <2>1, <2>2, LabelsKept DEF Finish
  <1>4. CASE UNCHANGED vars
    <2>1. TypeOK' /\ EndedSettled'
      BY <1>4 DEF TypeOK, EndedSettled, vars
    <2>2. VisitedAreSettled'
      BY <1>4, LabelsKept DEF VisitedAreSettled, vars
    <2> QED
      BY <1>4, <2>1, <2>2, LabelsKept DEF vars
  <1> QED
    BY <1>1, <1>2, <1>3, <1>4 DEF Next

\* The labelling invariant holds in every state of the loop, so labels are never
\* contradicted.
THEOREM LabellingCorrect == Spec => []LabellingInvariant
  BY InitInvariant, StepInvariant, PTL DEF Spec

\* No edge is ever both accepted and defeated, and accepted edges never attack each
\* other.
THEOREM LabelsNeverClash == Spec => []LabelsConsistent
  <1>1. LabellingInvariant => LabelsConsistent
    BY DEF LabellingInvariant
  <1> QED
    BY <1>1, LabellingCorrect, PTL

\* What the invariant gives once a whole pass has changed nothing: the accepted
\* edges defend exactly themselves.
LEMMA SettledIsFixedPoint ==
    ASSUME LabellingInvariant, done
    PROVE  DefendedBy(in) = in
  <1> USE DEF LabellingInvariant
  <1>0. in \subseteq Edge /\ out = Beaten(in)
    BY DEF TypeOK, DefeatedAreBeaten
  <1>1. in \subseteq DefendedBy(in)
    BY <1>0 DEF AcceptedAreDefended, Defended, DefendedBy
  <1>2. ASSUME NEW h \in DefendedBy(in)
        PROVE  h \in in
    <2>1. h \in Edge /\ Defended(h)
      BY <1>0, <1>2 DEF DefendedBy, Defended
    <2>2. h \in in \cup out
      BY <2>1 DEF EndedSettled, VisitedAreSettled
    <2>3. h \notin out
      <3> SUFFICES ASSUME h \in out
                   PROVE  FALSE
        OBVIOUS
      <3>1. PICK x \in in : h \in Targets(x)
        BY <1>0 DEF Beaten
      <3>2. x \in AttackedBy(h)
        BY <1>0, <2>1, <3>1, AttackConverse
      <3> QED
        BY <2>1, <3>1, <3>2 DEF Defended, LabelsConsistent
    <2> QED
      BY <2>2, <2>3
  <1> QED
    BY <1>1, <1>2

\* When the loop ends the active subgraph is the grounded extension.
THEOREM ActiveSubgraphIsGrounded == Spec => []ResultIsGrounded
  <1>1. LabellingInvariant => ResultIsGrounded
    BY SettledIsFixedPoint
       DEF LabellingInvariant, TypeOK, ResultIsGrounded, GroundedExtension,
           DefeatedAreBeaten, AcceptedInEveryFixedPoint
  <1> QED
    BY <1>1, LabellingCorrect, PTL
==============================================================================
