------------------------------ MODULE MCSeeding ------------------------------
(***************************************************************************)
(* A corpus of two edges, the second with a check that may time out.       *)
(***************************************************************************)
EXTENDS Seeding

CONSTANTS c1, c2

MCCorpus == <<c1, c2>>
==============================================================================
