-------------------------------- MODULE Corpus --------------------------------
(***************************************************************************)
(* The seed corpus (seed/corpus.py): 36 claims and 58 reasoning steps in   *)
(* the order in which they are seeded.  N1, N2, .. and E1, E2, .. are the  *)
(* numbers 1, 2, ..  The texts of claims, rules and sources are left out.  *)
(***************************************************************************)
EXTENDS Naturals, Sequences

Node == 1 .. 36

\* A step: its type, its premises, its conclusion, and the label its author expects.
Step(type, premises, conclusion, expected) ==
    [type |-> type, premises |-> premises, conclusion |-> conclusion, expected |-> expected]

Cites(premises, conclusion) == Step("citation", premises, conclusion, 1)
Likens(premises, conclusion) == Step("analogy", premises, conclusion, 0)
Defines(conclusion) == Step("definition", {}, conclusion, 1)
Refutes(conclusion) == Step("refutation", {}, conclusion, 1)
Computes(conclusion) == Step("spectral", {}, conclusion, 2)

\* E1 .. E9; the Riemann hypothesis is 7, the Hilbert-Polya operator 9.
PhaserThread ==
    << Defines(1), Cites({}, 2), Cites({2}, 3), Cites({}, 4), Cites({4}, 5), Cites({}, 6),
       Cites({}, 8), Likens({}, 7), Cites({9}, 7) >>

\* E10 .. E13
PrimonGas == << Cites({}, 10), Cites({10}, 11), Cites({11}, 12), Likens({12}, 13) >>

\* E14 .. E16
TotalPositivity == << Cites({}, 14), Cites({14}, 15), Likens({15}, 16) >>

\* E17 .. E20
LargeDeviations == << Cites({}, 17), Cites({}, 18), Cites({}, 19), Likens({18, 19}, 20) >>

\* E21 .. E23
JanusModel == << Likens({}, 21), Likens({}, 22), Likens({22}, 23) >>

\* E24 .. E34
Bridges ==
    << Cites({2}, 17), Cites({2}, 18), Likens({6}, 7), Likens({8}, 7), Likens({9}, 13),
       Likens({13}, 23), Likens({16}, 13), Likens({1}, 10), Likens({12}, 21), Likens({20}, 21),
       Likens({22}, 13) >>

\* E35 .. E44: positivity, primes as spectrum, balance point.
Hubs ==
    << Likens({9}, 24), Likens({13}, 24), Likens({16}, 24), Likens({23}, 24),
       Likens({1}, 25), Likens({10}, 25), Likens({21}, 25),
       Likens({12}, 26), Likens({20}, 26), Likens({21}, 26) >>

\* E45 .. E58
Later ==
    << Likens({5}, 9), Likens({3}, 28), Likens({2}, 27), Likens({27}, 28), Likens({28}, 29),
       Refutes(30), Cites({}, 29), Refutes(29), Cites({}, 31),
       Computes(32), Computes(33), Computes(34), Cites({}, 35), Cites({}, 36) >>

CORPUS_EDGES ==
    PhaserThread \o PrimonGas \o TotalPositivity \o LargeDeviations \o JanusModel
        \o Bridges \o Hubs \o Later
==============================================================================
