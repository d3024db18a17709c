------------------------- MODULE VerificationProofs --------------------------
(***************************************************************************)
(* A stored edge has earned its verdict and its strength, no check leaves  *)
(* an armed timer behind, and a proof file only if the file system failed, *)
(* for every set of proposals and every moment at which an alarm arrives.  *)
(***************************************************************************)
EXTENDS Verification, TLAPS

USE VerificationAssumption DEF disk

-----------------------------------------------------------------------------
(***************************************************************************)
(* The inductive invariant.  What is to be shown speaks of the moments     *)
(* between two proposals; the invariant says what has to hold inside a     *)
(* check for it: which checker is running, that only it has the timer or   *)
(* the proof file, and that a passing result is one it may give.           *)
(***************************************************************************)

InRunBounded == {"arm", "run", "run_unbounded", "disarm", "restore"}

Types ==
    /\ pc \in {"idle", "evaluate", "write", "lean", "checked"} \cup InRunBounded
    /\ proposal \in Proposals
    /\ handler \in {"process", "checker"} /\ previous \in {"process", "checker"}
    /\ timer \in BOOLEAN /\ diskFailed \in BOOLEAN /\ files \subseteq {"current", "left"}
    /\ result \in {Failed, Raised} \cup {Passed(k) : k \in Kappa}

\* Only a proposal without a hard veto reaches a checker, and its own checker.
Routed ==
    /\ pc \notin {"idle", "evaluate"} => evaluate(proposal) # "HARD_VETO"
    /\ pc \in {"write", "lean"} => checker_for(proposal) = "lean"
    /\ pc \in InRunBounded => Bounded

\* From the moment its handler is installed until the timer is disarmed, no other
\* handler is: an alarm that is still to come has a taker.
AlarmHasTaker ==
    /\ pc \in {"arm", "run"} => handler = "checker"
    /\ NoStrayAlarm

\* The strength that a claim of this type may get.
Earned(p, k) ==
    /\ k >= 2 => p.claim = "holds" /\ p.type \in {"definition", "deduction", "numerical", "spectral"}
    /\ k = K_INF => p.type = "definition"
    /\ p.type \in {"numerical", "spectral"} => k = 2
    /\ p.type = "deduction" => k = 3
    /\ p.type = "analogy" => k = 0
    /\ p.type \in {"reduction", "refutation", "citation"} => k = 1

\* A result that passes belongs to the proposal at hand, never to the one before.
ResultEarned ==
    result.passed => pc \in {"disarm", "restore", "checked"} /\ Earned(proposal, result.kappa)

CheckInvariant ==
    Types /\ Routed /\ AlarmHasTaker /\ NoFileWithoutFailure /\ ResultEarned /\ StoredIsEarned

-----------------------------------------------------------------------------
(***************************************************************************)
(* The predicates and the checkers.                                        *)
(***************************************************************************)

\* What evaluate says, read backwards.
LEMMA EvaluateMeaning ==
    \A p : evaluate(p) # "HARD_VETO" =>
        /\ ~CategoryError(p) /\ ~SelfModelLeak(p) /\ ~NonSequitur(p) /\ ~Circularity(p)
        /\ evaluate(p) = "SOFT_FLAG" <=> EmptyRule(p)
  BY DEF evaluate

\* The type of a proposal is known from its checker.
LEMMA CheckerMeaning ==
    ASSUME NEW p \in ProposalRecord
    PROVE  /\ checker_for(p) = "roster" => p.type = "definition"
           /\ checker_for(p) \in {"lean", "z3"} => p.type = "deduction"
           /\ checker_for(p) = "cas" => p.type = "numerical"
           /\ checker_for(p) = "spectral" => p.type = "spectral"
           /\ checker_for(p) = "none" => p.type \in {"reduction", "refutation", "analogy", "citation"}
  BY DEF checker_for, ProposalRecord, EdgeType

\* The strengths that the checkers award are earned by a claim that holds.
LEMMA AwardEarned ==
    ASSUME NEW p \in ProposalRecord, p.claim = "holds",
           checker_for(p) \in {"lean", "z3", "cas", "spectral"}
    PROVE  Award(checker_for(p)) \in Kappa /\ Earned(p, Award(checker_for(p)))
  BY CheckerMeaning DEF Award, Kappa, K_INF, Earned

\* A result that passes and nothing else carries a strength that was awarded.
LEMMA ResultFields ==
    /\ \A k : Passed(k).passed /\ Passed(k).kappa = k
    /\ ~Failed.passed /\ ~Raised.passed
  BY DEF Passed, Failed, Raised

-----------------------------------------------------------------------------
(***************************************************************************)
(* The steps.                                                              *)
(***************************************************************************)

LEMMA InitInvariant == Init => CheckInvariant
  <1> SUFFICES ASSUME Init
               PROVE  CheckInvariant
    OBVIOUS
  <1>1. answer.kind # "stored"
    BY DEF Init, Answer
  <1>2. Types /\ Routed /\ NoFileWithoutFailure
    BY DEF Init, Types, Routed, InRunBounded, NoFileWithoutFailure
  <1>3. AlarmHasTaker
    BY DEF Init, AlarmHasTaker, NoStrayAlarm
  <1>4. ResultEarned
    BY ResultFields DEF Init, ResultEarned
  <1> QED
    BY <1>1, <1>2, <1>3, <1>4 DEF CheckInvariant, StoredIsEarned

\* The three ways in which a proposal gets a result with no timer and no proof file.
LEMMA DirectPreserves ==
    ASSUME CheckInvariant, NoChecker \/ CheckRoster \/ StartLean
    PROVE  CheckInvariant'
  <1> USE DEF CheckInvariant, Types
  <1>0. proposal \in ProposalRecord /\ pc = "evaluate" /\ evaluate(proposal) # "HARD_VETO"
    BY DEF NoChecker, CheckRoster, StartLean
  <1>1. CASE NoChecker
    <2>1. DefaultKappa(proposal) \in Kappa /\ Earned(proposal, DefaultKappa(proposal))
      BY <1>0, <1>1, CheckerMeaning DEF NoChecker, DefaultKappa, Kappa, K_INF, Earned
    <2> QED
      BY <1>0, <1>1, <2>1, ResultFields
         DEF NoChecker, Goto, Routed, InRunBounded, AlarmHasTaker, NoStrayAlarm, NoFileWithoutFailure,
             ResultEarned, StoredIsEarned
  <1>2. CASE CheckRoster
    <2> DEFINE k == IF proposal.claim = "holds" THEN K_INF ELSE 1
    <2>1. k \in Kappa /\ Earned(proposal, k)
      BY <1>0, <1>2, CheckerMeaning DEF CheckRoster, Kappa, K_INF, Earned
    <2>2. result' = Passed(k)
      BY <1>2 DEF CheckRoster
    <2> HIDE DEF k
    <2> QED
      BY <1>0, <1>2, <2>1, <2>2, ResultFields
         DEF CheckRoster, Goto, Routed, InRunBounded, AlarmHasTaker, NoStrayAlarm, NoFileWithoutFailure,
             ResultEarned, StoredIsEarned
  <1>3. CASE StartLean
    BY <1>0, <1>3, ResultFields
       DEF StartLean, Goto, Routed, InRunBounded, AlarmHasTaker, NoStrayAlarm, NoFileWithoutFailure,
           ResultEarned, StoredIsEarned
  <1> QED
    BY <1>1, <1>2, <1>3

LEMMA LeanPreserves ==
    ASSUME CheckInvariant, LeanExpires \/ LeanExits
    PROVE  CheckInvariant'
  <1> USE DEF CheckInvariant, Types
  <1>0. proposal \in ProposalRecord /\ pc = "lean" /\ checker_for(proposal) = "lean"
    BY DEF LeanExpires, LeanExits, Routed
  <1>1. result' = Failed \/ (proposal.claim = "holds" /\ result' = Passed(Award("lean")))
    BY DEF LeanExpires, LeanExits
  <1>2. result' \in {Failed, Raised} \cup {Passed(k) : k \in Kappa}
    BY <1>0, <1>1, AwardEarned
  <1>3. result'.passed => Earned(proposal, result'.kappa)
    BY <1>0, <1>1, AwardEarned, ResultFields
  <1>4. /\ pc' = "checked" /\ "current" \notin files'
        /\ files' \subseteq {"current", "left"} /\ diskFailed' \in BOOLEAN
        /\ "left" \in files' => diskFailed'
        /\ UNCHANGED <<proposal, handler, previous, timer, answer>>
    BY DEF LeanExpires, LeanExits, Unlink, Goto, NoFileWithoutFailure
  <1> QED
    BY <1>0, <1>2, <1>3, <1>4
       DEF Routed, InRunBounded, AlarmHasTaker, NoStrayAlarm, NoFileWithoutFailure,
           ResultEarned, StoredIsEarned

LEMMA WritePreserves ==
    ASSUME CheckInvariant, WriteProof \/ WriteFails
    PROVE  CheckInvariant'
  <1> USE ResultFields DEF CheckInvariant, Types, Routed, InRunBounded, AlarmHasTaker, NoStrayAlarm,
         NoFileWithoutFailure, ResultEarned, StoredIsEarned, Goto
  <1>1. CASE WriteProof
    BY <1>1 DEF WriteProof
  <1>2. CASE WriteFails
    BY <1>2 DEF WriteFails
  <1> QED
    BY <1>1, <1>2

\* The function inside run_bounded ends by itself.
LEMMA FunctionEndsPreserves ==
    ASSUME CheckInvariant, FunctionEnds
    PROVE  CheckInvariant'
  <1> USE DEF CheckInvariant, Types
  <1>0. /\ proposal \in ProposalRecord
        /\ checker_for(proposal) \in {"lean", "z3", "cas", "spectral"}
    BY DEF FunctionEnds, Routed, InRunBounded, Bounded
  <1>1. \/ proposal.claim = "holds" /\ result' = Passed(Award(checker_for(proposal)))
        \/ result' \in {Failed, Raised}
    BY <1>0 DEF FunctionEnds
  <1>2. result' \in {Failed, Raised} \cup {Passed(k) : k \in Kappa}
    BY <1>0, <1>1, AwardEarned
  <1>3. result'.passed => Earned(proposal, result'.kappa)
    BY <1>0, <1>1, AwardEarned, ResultFields
  <1> QED
    BY <1>2, <1>3
       DEF FunctionEnds, Goto, Routed, Bounded, InRunBounded, AlarmHasTaker, NoStrayAlarm,
           NoFileWithoutFailure, ResultEarned, StoredIsEarned

\* The steps of run_bounded around the function, and the alarm.
LEMMA TimerPreserves ==
    ASSUME CheckInvariant,
           \/ InstallHandler \/ ArmTimer \/ RunUnbounded \/ DisarmTimer \/ RestoreHandler
           \/ Alarm \/ AlarmOutsideTry
    PROVE  CheckInvariant'
  <1> USE ResultFields DEF CheckInvariant, Types, Goto, Routed, Bounded, InRunBounded, AlarmHasTaker,
         NoStrayAlarm, NoFileWithoutFailure, ResultEarned, StoredIsEarned
  <1>1. CASE InstallHandler
    BY <1>1 DEF InstallHandler
  <1>2. CASE ArmTimer
    BY <1>2 DEF ArmTimer
  <1>3. CASE RunUnbounded
    BY <1>3 DEF RunUnbounded
  <1>4. CASE DisarmTimer
    BY <1>4 DEF DisarmTimer
  <1>5. CASE RestoreHandler
    BY <1>5 DEF RestoreHandler
  <1>6. CASE Alarm
    BY <1>6 DEF Alarm
  <1>7. CASE AlarmOutsideTry
    BY <1>7 DEF AlarmOutsideTry
  <1> QED
    BY <1>1, <1>2, <1>3, <1>4, <1>5, <1>6, <1>7

\* The proposal is answered.
LEMMA AnswerPreserves ==
    ASSUME CheckInvariant, Veto \/ Reject \/ Propagate \/ Store
    PROVE  CheckInvariant'
  <1> USE DEF CheckInvariant
  <1>1. /\ pc \in {"evaluate", "checked"} /\ pc' = "idle" /\ result' = Failed
        /\ UNCHANGED <<proposal, handler, previous, timer, disk>>
    BY DEF Veto, Reject, Propagate, Store, Answered
  <1>2. Types' /\ Routed' /\ AlarmHasTaker' /\ NoFileWithoutFailure' /\ ResultEarned'
    BY <1>1, ResultFields
       DEF Types, Routed, InRunBounded, AlarmHasTaker, NoStrayAlarm, NoFileWithoutFailure, ResultEarned
  <1>3. CASE Store
    <2>1. /\ answer'.verdict = evaluate(proposal) /\ answer'.kappa = result.kappa
          /\ pc = "checked" /\ result.passed
      BY <1>3 DEF Store, Answered, Answer
    <2>2. evaluate(proposal) # "HARD_VETO" /\ Earned(proposal, result.kappa)
      BY <2>1 DEF Routed, ResultEarned
    <2>3. Deserves(proposal, evaluate(proposal), result.kappa)
      BY <2>2, EvaluateMeaning DEF Deserves, Earned
    <2> QED
      BY <1>1, <1>2, <2>1, <2>3 DEF StoredIsEarned
  <1>4. CASE Veto \/ Reject \/ Propagate
    <2>1. answer'.kind # "stored"
      BY <1>4 DEF Veto, Reject, Propagate, Answered, Answer
    <2> QED
      BY <1>2, <2>1 DEF StoredIsEarned
  <1> QED
    BY <1>3, <1>4

LEMMA ProposePreserves ==
    ASSUME CheckInvariant, NEW p \in Proposals, Propose(p)
    PROVE  CheckInvariant'
  BY DEF CheckInvariant, Propose, Goto, Types, Routed, InRunBounded, AlarmHasTaker, NoStrayAlarm,
         NoFileWithoutFailure, ResultEarned, StoredIsEarned

LEMMA StepInvariant == CheckInvariant /\ [Next]_vars => CheckInvariant'
  <1> SUFFICES ASSUME CheckInvariant, [Next]_vars
               PROVE  CheckInvariant'
    OBVIOUS
  <1>1. CASE \E p \in Proposals : Propose(p)
    BY <1>1, ProposePreserves
  <1>2. CASE Work
    BY <1>2, AnswerPreserves, DirectPreserves, WritePreserves, LeanPreserves, TimerPreserves,
       FunctionEndsPreserves DEF Work
  <1>3. CASE Alarm \/ AlarmOutsideTry
    BY <1>3, TimerPreserves
  <1>4. CASE UNCHANGED vars
    BY <1>4 DEF vars, CheckInvariant, Types, Routed, Bounded, InRunBounded, AlarmHasTaker,
         NoStrayAlarm, NoFileWithoutFailure, ResultEarned, StoredIsEarned
  <1> QED
    BY <1>1, <1>2, <1>3, <1>4 DEF Next

-----------------------------------------------------------------------------
\* The invariant holds in every state of a process that checks proposals.
THEOREM CheckInvariantHolds == Spec => []CheckInvariant
  BY InitInvariant, StepInvariant, PTL DEF Spec

\* Whatever earlier proposals left behind and whenever alarms arrive, a stored edge
\* passes the predicates and has the strength that its own claim earned.
THEOREM StrengthIsEarned == Spec => []StoredIsEarned
  <1>1. CheckInvariant => StoredIsEarned
    BY DEF CheckInvariant
  <1> QED
    BY <1>1, CheckInvariantHolds, PTL

\* No alarm can reach the process outside run_bounded, and a proof file outlives its
\* check only if writing or removing one has failed.
THEOREM ChecksCleanUp == Spec => []CleanUp
  <1>1. CheckInvariant => CleanUp
    BY DEF CheckInvariant, AlarmHasTaker, CleanUp
  <1> QED
    BY <1>1, CheckInvariantHolds, PTL
==============================================================================
