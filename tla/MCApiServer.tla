----------------------------- MODULE MCApiServer -----------------------------
(***************************************************************************)
(* Two nodes.  e1 states n1, e2 derives n2 from it with a proof, e3 closes *)
(* the circle, e4 is a refutation whose signer the roster does not bind.   *)
(***************************************************************************)
EXTENDS ApiServer, TLC

CONSTANTS n1, n2, e1, e2, e3, e4, pf, skye, client

MCpremises == (e1 :> <<>>) @@ (e2 :> <<n1>>) @@ (e3 :> <<n2>>) @@ (e4 :> <<>>)
MCconclusion == (e1 :> n1) @@ (e2 :> n2) @@ (e3 :> n1) @@ (e4 :> n2)
MCproof == (e1 :> None) @@ (e2 :> pf) @@ (e3 :> None) @@ (e4 :> None)
MCstrength == (e1 :> 1) @@ (e2 :> 1) @@ (e3 :> 0) @@ (e4 :> 1)
MCsigner == [e \in Edge |-> IF e = e4 THEN client ELSE skye]
==============================================================================
