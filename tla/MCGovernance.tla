---------------------------- MODULE MCGovernance -----------------------------
(* Instances of Governance for TLC.                                        *)
EXTENDS Governance, TLC

NothingLost == {TRUE}

OneObject(o, key) == {[object |-> o, key |-> key, intent |-> "WRITE", exclusive |-> FALSE]}

\* Reviews that ask for one object to write, under its own name only.
WholeObjects == {OneObject(o, o) : o \in Objects}
\* ... and, under one conflict key for all.
SharedKey == {OneObject(o, CHOOSE k \in Objects : TRUE) : o \in Objects}

Symmetry == Permutations(Tasks) \cup Permutations(Windows) \cup Permutations(Agents)
            \cup Permutations(Reviews) \cup Permutations(Validations)
            \cup Permutations(Cases) \cup Permutations(Dispatches) \cup Permutations(Appends)
            \cup Permutations(Signals)

\* Bounds: beyond these the exploration ends.
\* Claims are declared once per object; ...
FewClaims == \A o \in Objects : Cardinality(claims[o]) <= 1
\* ... or reserved by C05 only.
ReservedOnly == \A o \in Objects : \A c \in claims[o] : c.review # None
\* A second signal is there only for work in conflict.
SecondSignalInConflict ==
    \A t \in Tasks : Cardinality(signals[t]) > 1 =>
        \E v \in Validations : decisions[v] # None /\ decisions[v].outcome = "CONFLICT"
\* Statuses that only lead back to others, or to CANCELLED.
QuietStatuses == \A t \in Tasks : status[t] \notin {"PARTIAL", "CANCEL_REQUESTED"}
==============================================================================
