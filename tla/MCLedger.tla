------------------------------ MODULE MCLedger -------------------------------
EXTENDS Ledger, TLC

CONSTANTS e1, e2

\* Three editions of the outline; the second leaves the outcomes as they are,
\* the third drops one of them.
OneEdition(v, scope) == [version |-> v, scope |-> scope]
MCContracts ==
    {OneEdition(1, [o \in Outcomes |-> e1]),
     OneEdition(2, [o \in Outcomes |-> e2]),
     OneEdition(3, [o \in Outcomes |-> IF o = CHOOSE x \in Outcomes : TRUE THEN None ELSE e2])}
NoContracts == {}
MCVersions == 1..3

Symmetry == Permutations(Tasks) \cup Permutations(Windows) \cup Permutations(Agents)
            \cup Permutations(Objects) \cup Permutations(Waits) \cup Permutations(Signals)

\* Bound: a third claim on an object ends the exploration there.
FewClaims == \A o \in Objects : Cardinality(claims[o]) <= 2
==============================================================================
