------------------------------ MODULE MCStorage ------------------------------
(***************************************************************************)
(* Two processes on one data directory.  e1 is a definition (no premises,  *)
(* no proof); e2 derives n2 from n1, its premise twice, with a proof.      *)
(***************************************************************************)
EXTENDS Storage, TLC

CONSTANTS seeder, server, skye, daemon, n1, n2, e1, e2, pf, roster

MCKeyOf == (seeder :> skye) @@ (server :> daemon)
MCPremises == (e1 :> <<>>) @@ (e2 :> <<n1, n1>>)
MCConclusion == (e1 :> n1) @@ (e2 :> n2)
MCProof == (e1 :> None) @@ (e2 :> pf)
==============================================================================
