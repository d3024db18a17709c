---------------------------- MODULE MCRefutation -----------------------------
(***************************************************************************)
(* Edges are numbered so that a record cites smaller numbers only: an edge *)
(* contains the address of its conclusion, so citing goes no other way     *)
(* round and never round in a circle.                                      *)
(***************************************************************************)
EXTENDS Refutation, TLC

CONSTANTS e1, e2, e3, e4

Number == (e1 :> 1) @@ (e2 :> 2) @@ (e3 :> 3) @@ (e4 :> 4)

CitesEarlier == \A e \in Edge : concl[e] \in Edge => Number[concl[e]] < Number[e]

MCInit == Init /\ CitesEarlier

MCSpec == MCInit /\ [][Next]_vars /\ WF_vars(Next)
==============================================================================
