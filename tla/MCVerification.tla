--------------------------- MODULE MCVerification ----------------------------
(***************************************************************************)
(* All combinations of what the predicates look at, and, for proposals     *)
(* that pass them, all combinations of what the checkers look at.          *)
(***************************************************************************)
EXTENDS Verification

MCProposals ==
    {p \in ProposalRecord : ~p.proof /\ p.bounded /\ p.claim = "holds"}
    \cup
    {p \in ProposalRecord : /\ p.premised /\ p.named
                            /\ ~p.crosses /\ ~p.leaks /\ ~p.novel /\ ~p.circular}
==============================================================================
