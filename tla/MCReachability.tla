--------------------------- MODULE MCReachability ----------------------------
(***************************************************************************)
(* All graphs of three edges over three nodes, with two strengths.  Edges  *)
(* are visited in a fixed order: as every graph over the named edges is an *)
(* initial state, every order is still covered.  For the same reason the   *)
(* node that e1 concludes can be given a name.                             *)
(***************************************************************************)
EXTENDS Reachability, TLC

CONSTANTS e1, e2, e3, n1, n2

Number == (e1 :> 1) @@ (e2 :> 2) @@ (e3 :> 3)

MCInit ==
    /\ conclusion \in {c \in [Edge -> Node] : c[e1] = n1}
    /\ strength \in [Edge -> {0, 1}]
    /\ extra_seeds \in {{}, {n2}}
    /\ Init

InOrder == \A h \in todo \ todo', g \in todo : Number[h] <= Number[g]

MCNext == Next /\ InOrder

MCSpec == MCInit /\ [][MCNext]_vars /\ WF_vars(MCNext)
==============================================================================
