---------------------------- MODULE Verification -----------------------------
(***************************************************************************)
(* verify_and_commit up to the transaction (verifier.py, elenchus.py and   *)
(* the checkers), as one single-threaded process runs it for one proposal  *)
(* after another: the ELENCHUS predicates, the dispatch to a checker, its  *)
(* time budget (run_bounded arms a timer whose signal may arrive at any    *)
(* moment) and the verdict that decides whether the edge is stored.        *)
(*                                                                         *)
(* What the predicates and the external solvers find in the text of a      *)
(* claim is an attribute of the proposal.                                  *)
(***************************************************************************)
EXTENDS Naturals

CONSTANTS
    Proposals,      \* the proposals that clients make
    LeanInstalled   \* whether the Lean binary was found

EdgeType == {"definition", "deduction", "numerical", "spectral",
             "reduction", "refutation", "analogy", "citation"}

\* K0, K1, K2, K3, K_INF
Kappa == 0 .. 4
K_INF == 4

\* holds     : the solver confirms the claim, or the roster lists it
\* fails     : it does not, or the claim does not parse
\* breaks    : it raises an exception that its checker does not catch
\* diverges  : it does not end by itself
Claim == {"holds", "fails", "breaks", "diverges"}

ProposalRecord ==
    [ type     : EdgeType,
      premised : BOOLEAN,       \* there are premises
      crosses  : BOOLEAN,       \* the conclusion's domain is no premise's domain
      leaks    : BOOLEAN,       \* self-model terms in a hard domain
      novel    : BOOLEAN,       \* words that no premise has
      named    : BOOLEAN,       \* the rule has a name
      circular : BOOLEAN,       \* a premise equivalent to the conclusion
      proof    : BOOLEAN,       \* proof bytes, not empty
      bounded  : BOOLEAN,       \* timeout_seconds > 0
      claim    : Claim ]

ASSUME VerificationAssumption ==
    /\ Proposals \subseteq ProposalRecord
    /\ LeanInstalled \in BOOLEAN

VARIABLES
    pc,             \* where the process is
    proposal,       \* the proposal it works on
    handler,        \* whose SIGALRM handler is installed: "process" or "checker"
    previous,       \* the handler that run_bounded found
    timer,          \* whether the interval timer is armed
    result,         \* what the checker returned
    files,          \* proof files on disk: of the check at hand, left by earlier ones
    diskFailed,     \* whether writing or removing a proof file has ever failed
    answer          \* how the last proposal was answered

disk == <<files, diskFailed>>
vars == <<pc, proposal, handler, previous, timer, result, files, diskFailed, answer>>

-----------------------------------------------------------------------------
(***************************************************************************)
(* ELENCHUS.                                                               *)
(***************************************************************************)

DERIVATIONAL_TYPES == {"deduction", "numerical"}
CROSS_DOMAIN_TYPES == {"reduction", "analogy"}
CIRCULARITY_TYPES == {"deduction", "numerical", "spectral", "reduction"}

CategoryError(p) == p.premised /\ p.type \notin CROSS_DOMAIN_TYPES /\ p.crosses
SelfModelLeak(p) == p.type \notin CROSS_DOMAIN_TYPES /\ p.leaks
NonSequitur(p) == p.premised /\ p.type \in DERIVATIONAL_TYPES /\ p.novel
EmptyRule(p) == p.type \in DERIVATIONAL_TYPES /\ ~p.named
Circularity(p) == p.premised /\ p.type \in CIRCULARITY_TYPES /\ p.circular

evaluate(p) ==
    CASE CategoryError(p) \/ SelfModelLeak(p) \/ NonSequitur(p) \/ Circularity(p) -> "HARD_VETO"
      [] OTHER -> IF EmptyRule(p) THEN "SOFT_FLAG" ELSE "PASS"

-----------------------------------------------------------------------------
(***************************************************************************)
(* Dispatch and results.                                                   *)
(***************************************************************************)

checker_for(p) ==
    CASE p.type = "definition" -> "roster"
      [] p.type = "deduction"  -> IF p.proof THEN "lean" ELSE "z3"
      [] p.type = "numerical"  -> "cas"
      [] p.type = "spectral"   -> "spectral"
      [] OTHER                 -> "none"

DefaultKappa(p) == IF p.type = "analogy" THEN 0 ELSE 1

\* The strength that a checker awards when it passes.
Award(c) == IF c \in {"lean", "z3"} THEN 3 ELSE 2

Passed(k) == [passed |-> TRUE, kappa |-> k]
Failed == [passed |-> FALSE, kappa |-> 0]
Raised == [passed |-> FALSE, kappa |-> K_INF]       \* no result: an exception

Answer(kind, verdict, k) == [kind |-> kind, verdict |-> verdict, kappa |-> k]

\* The process is ready for the next proposal.
Answered(a) ==
    /\ answer' = a
    /\ pc' = "idle"
    /\ result' = Failed

Goto(label) == pc' = label

-----------------------------------------------------------------------------
Propose(p) ==
    /\ pc = "idle"
    /\ proposal' = p
    /\ Goto("evaluate")
    /\ UNCHANGED <<handler, previous, timer, result, disk, answer>>

Veto ==
    /\ pc = "evaluate" /\ evaluate(proposal) = "HARD_VETO"
    /\ Answered(Answer("rejected", "HARD_VETO", 0))
    /\ UNCHANGED <<proposal, handler, previous, timer, disk>>

\* No dedicated checker: the strength is fixed.
NoChecker ==
    /\ pc = "evaluate" /\ evaluate(proposal) # "HARD_VETO" /\ checker_for(proposal) = "none"
    /\ result' = Passed(DefaultKappa(proposal))
    /\ Goto("checked")
    /\ UNCHANGED <<proposal, handler, previous, timer, disk, answer>>

\* The roster gate always passes and needs no budget.
CheckRoster ==
    /\ pc = "evaluate" /\ evaluate(proposal) # "HARD_VETO" /\ checker_for(proposal) = "roster"
    /\ result' = Passed(IF proposal.claim = "holds" THEN K_INF ELSE 1)
    /\ Goto("checked")
    /\ UNCHANGED <<proposal, handler, previous, timer, disk, answer>>

-----------------------------------------------------------------------------
(***************************************************************************)
(* Lean runs in a process of its own, with the budget of subprocess.run: a *)
(* budget that is not positive has expired before it starts.               *)
(***************************************************************************)

\* NamedTemporaryFile makes the file, or raises.
StartLean ==
    /\ pc = "evaluate" /\ evaluate(proposal) # "HARD_VETO" /\ checker_for(proposal) = "lean"
    /\ \/ LeanInstalled /\ files' = files \cup {"current"} /\ Goto("write") /\ UNCHANGED result
       \/ /\ result' = IF LeanInstalled THEN Raised ELSE Failed
          /\ Goto("checked")
          /\ UNCHANGED files
    /\ UNCHANGED <<proposal, handler, previous, timer, diskFailed, answer>>

WriteProof ==
    /\ pc = "write"
    /\ Goto("lean")
    /\ UNCHANGED <<proposal, handler, previous, timer, result, disk, answer>>

\* write or close raises, for example on a full disk: the try block has not begun,
\* so nothing removes the file and nothing catches the exception.
WriteFails ==
    /\ pc = "write"
    /\ result' = Raised
    /\ files' = {"left"} /\ diskFailed' = TRUE
    /\ Goto("checked")
    /\ UNCHANGED <<proposal, handler, previous, timer, answer>>

\* finally: unlink, whose own error is dropped.
Unlink ==
    \/ files' = files \ {"current"} /\ UNCHANGED diskFailed
    \/ files' = {"left"} /\ diskFailed' = TRUE

\* TimeoutExpired, or the binary cannot be run.
LeanExpires ==
    /\ pc = "lean"
    /\ result' = Failed
    /\ Unlink
    /\ Goto("checked")
    /\ UNCHANGED <<proposal, handler, previous, timer, answer>>

LeanExits ==
    /\ pc = "lean" /\ proposal.bounded /\ proposal.claim # "diverges"
    /\ result' = IF proposal.claim = "holds" THEN Passed(Award("lean")) ELSE Failed
    /\ Unlink
    /\ Goto("checked")
    /\ UNCHANGED <<proposal, handler, previous, timer, answer>>

-----------------------------------------------------------------------------
(***************************************************************************)
(* run_bounded around Z3, the computer algebra and the spectral checker.   *)
(***************************************************************************)

Bounded == checker_for(proposal) \in {"z3", "cas", "spectral"}

InstallHandler ==
    /\ pc = "evaluate" /\ evaluate(proposal) # "HARD_VETO" /\ Bounded /\ proposal.bounded
    /\ previous' = handler
    /\ handler' = "checker"
    /\ Goto("arm")
    /\ UNCHANGED <<proposal, timer, result, disk, answer>>

\* Mutation: the handler is installed and no timer is armed.
ArmForgotten ==
    /\ pc = "arm"
    /\ Goto("run")
    /\ UNCHANGED <<proposal, handler, previous, timer, result, disk, answer>>

ArmTimer ==
    /\ pc = "arm"
    /\ timer' = TRUE
    /\ Goto("run")
    /\ UNCHANGED <<proposal, handler, previous, result, disk, answer>>

\* timeout_seconds <= 0: the function is called with no timer at all.
RunUnbounded ==
    /\ pc = "evaluate" /\ evaluate(proposal) # "HARD_VETO" /\ Bounded /\ ~proposal.bounded
    /\ Goto("run_unbounded")
    /\ UNCHANGED <<proposal, handler, previous, timer, result, disk, answer>>

\* The function returns or raises.  Z3 gives up by itself when its own budget, the
\* same number, is used up.
FunctionEnds ==
    /\ pc \in {"run", "run_unbounded"}
    /\ proposal.claim # "diverges" \/ (checker_for(proposal) = "z3" /\ proposal.bounded)
    /\ result' = CASE proposal.claim = "holds"  -> Passed(Award(checker_for(proposal)))
                   [] proposal.claim = "breaks" -> Raised
                   [] OTHER                     -> Failed
    /\ Goto(IF pc = "run" THEN "disarm" ELSE "checked")
    /\ UNCHANGED <<proposal, handler, previous, timer, disk, answer>>

\* SIGALRM while the function runs: CheckerTimeout, through the finally block to the
\* checker, which makes it a failure.
Alarm ==
    /\ pc = "run" /\ timer
    /\ timer' = FALSE
    /\ result' = Failed
    /\ Goto("disarm")
    /\ UNCHANGED <<proposal, handler, previous, disk, answer>>

\* SIGALRM just before the try block or in the finally block: what is left of the
\* finally block is not run, and the handler stays.
AlarmOutsideTry ==
    /\ pc \in {"run", "disarm"} /\ timer
    /\ timer' = FALSE
    /\ result' = Failed
    /\ Goto("checked")
    /\ UNCHANGED <<proposal, handler, previous, disk, answer>>

\* Mutation: the timer is left to expire.
DisarmForgotten ==
    /\ pc = "disarm"
    /\ Goto("restore")
    /\ UNCHANGED <<proposal, handler, previous, timer, result, disk, answer>>

DisarmTimer ==
    /\ pc = "disarm"
    /\ timer' = FALSE
    /\ Goto("restore")
    /\ UNCHANGED <<proposal, handler, previous, result, disk, answer>>

RestoreHandler ==
    /\ pc = "restore"
    /\ handler' = previous
    /\ Goto("checked")
    /\ UNCHANGED <<proposal, previous, timer, result, disk, answer>>

-----------------------------------------------------------------------------
\* Mutation: a failed check stores the edge at K0.
RejectStores ==
    /\ pc = "checked" /\ ~result.passed /\ result # Raised
    /\ Answered(Answer("stored", evaluate(proposal), result.kappa))
    /\ UNCHANGED <<proposal, handler, previous, timer, disk>>

\* A failed check is a rejection.
Reject ==
    /\ pc = "checked" /\ ~result.passed /\ result # Raised
    /\ Answered(Answer("rejected", "HARD_VETO", 0))
    /\ UNCHANGED <<proposal, handler, previous, timer, disk>>

\* The exception reaches the caller of verify_and_commit; nothing is stored.
Propagate ==
    /\ pc = "checked" /\ result = Raised
    /\ Answered(Answer("raised", "none", 0))
    /\ UNCHANGED <<proposal, handler, previous, timer, disk>>

\* The edge goes to storage (module Storage) with this verdict and this strength.
Store ==
    /\ pc = "checked" /\ result.passed
    /\ Answered(Answer("stored", evaluate(proposal), result.kappa))
    /\ UNCHANGED <<proposal, handler, previous, timer, disk>>

Init ==
    /\ pc = "idle"
    /\ proposal \in Proposals
    /\ handler = "process" /\ previous = "process"
    /\ timer = FALSE
    /\ result = Failed
    /\ files = {} /\ diskFailed = FALSE
    /\ answer = Answer("none", "none", 0)

\* The steps of the process itself.
Work ==
    \/ Veto \/ NoChecker \/ CheckRoster
    \/ StartLean \/ WriteProof \/ WriteFails \/ LeanExpires \/ LeanExits
    \/ InstallHandler \/ ArmTimer \/ RunUnbounded \/ FunctionEnds
    \/ DisarmTimer \/ RestoreHandler \/ Reject \/ Propagate \/ Store

Next == (\E p \in Proposals : Propose(p)) \/ Work \/ Alarm \/ AlarmOutsideTry

Spec == Init /\ [][Next]_vars

\* The process runs, and an armed timer expires.
Fairness == WF_vars(Work) /\ WF_vars(Alarm)

FairSpec == Spec /\ Fairness

-----------------------------------------------------------------------------
\* What an edge that is stored may claim: no hard predicate holds of it, and it has
\* the strength that its type earns, at least K2 only if a solver confirmed it and
\* K_INF only if the roster lists it.
Deserves(p, verdict, k) ==
    /\ ~CategoryError(p) /\ ~SelfModelLeak(p) /\ ~NonSequitur(p) /\ ~Circularity(p)
    /\ verdict = "SOFT_FLAG" <=> EmptyRule(p)
    /\ k >= 2 => p.claim = "holds" /\ p.type \in {"definition", "deduction", "numerical", "spectral"}
    /\ k = K_INF => p.type = "definition"
    /\ p.type \in {"numerical", "spectral"} => k = 2
    /\ p.type = "deduction" => k = 3
    /\ p.type = "analogy" => k = 0
    /\ p.type \in {"reduction", "refutation", "citation"} => k = 1

\* Whatever the timer does, and whatever earlier proposals left behind, a stored edge
\* has earned its verdict and its strength.
StoredIsEarned ==
    answer.kind = "stored" /\ pc = "idle" => Deserves(proposal, answer.verdict, answer.kappa)

\* The timer is armed only while run_bounded is on the stack with its own handler, so
\* an alarm never reaches the process anywhere else, where it would be fatal.
NoStrayAlarm == timer => pc \in {"run", "disarm"} /\ handler = "checker"

\* A proof file is on disk while its check runs, and afterwards only if writing or
\* removing one has failed.
NoFileWithoutFailure ==
    /\ "current" \in files => pc \in {"write", "lean"}
    /\ "left" \in files => diskFailed

\* What a check leaves to the process that goes on: never an armed timer, whenever its
\* alarm arrives, and a proof file only if the file system failed.  (Its handler stays
\* installed after AlarmOutsideTry, and then serves nobody's timer.)
CleanUp == NoStrayAlarm /\ NoFileWithoutFailure

\* A proposal with a positive budget is answered, whatever the solver does.
EveryProposalAnswered == (pc # "idle" /\ proposal.bounded) ~> (pc = "idle")
==============================================================================
