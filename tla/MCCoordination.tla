--------------------------- MODULE MCCoordination ----------------------------
(* Instances of Coordination for TLC.                                       *)
EXTENDS Coordination, TLC

CONSTANTS c1, m1, t1, w1

Symmetry == Permutations(Threads) \cup Permutations(Handovers)

Centre ==
    [r \in Roles |->
        IF r = "CURRENT_CENTRAL"
        THEN [generation |-> 1, thread |-> c1, model |-> m1, handover |-> None]
        ELSE None]

(***************************************************************************)
(* A project under way: c1 is its centre, and w1 works for t1, which is    *)
(* READY.  Init reaches this by initialize, add-task, a transition and     *)
(* register-window.                                                        *)
(***************************************************************************)
UnderWay ==
    /\ status = [t \in Tasks |-> "READY"]
    /\ windows = [w \in Windows |-> NewWindow(t1, TRUE)]
    /\ signals = [t \in Tasks |-> {}]
    /\ corrections = [t \in Tasks |-> 0]
    /\ verifications = [t \in Tasks |-> {}]
    /\ bindings = [t \in Tasks |-> {}]
    /\ waits = [t \in Tasks |-> [x \in Waits |-> "NONE"]]
    /\ impacts = [t \in Tasks |-> {}]
    /\ contract = None
    /\ changes = 0
    /\ outcomes = [t \in Tasks |-> {}]
    /\ registered = [t \in Tasks |-> None]
    /\ agents = [a \in Agents |-> None]
    /\ claims = [o \in Objects |-> {}]
    /\ stops = {}
    /\ recovery = [state |-> "NORMAL", epoch |-> 0, case |-> None, preserved |-> FALSE]
    /\ log = <<Entry("INITIALIZE", None, Centre)>>
    /\ revision = 1
    /\ committing = None
    /\ packages = [h \in Handovers |-> None]
    /\ activated = {}
    /\ natives = [h \in Handovers |-> [intent |-> FALSE, successor |-> None, opened |-> FALSE]]
    /\ readbacks = {}
    /\ results = [m \in Commands |-> None]
    /\ pending = {}

\* Nothing was said yet, and the ledger stays as it is; ...
NothingSaid ==
    /\ events = [e \in Events |-> None]
    /\ eventAcks = [e \in Events |-> None]
    /\ envelopes = [m \in Letters |-> None]
    /\ whole = {}
    /\ deliveries = {}
    /\ acks = [m \in Letters |-> None]
    /\ writes = MaxWrites

\* ... or w1 has reported its event, c1 knows of it, and the ledger moves on.
Reported ==
    /\ events = [e \in Events |-> [task |-> t1, window |-> w1, whole |-> TRUE]]
    /\ eventAcks = [e \in Events |-> [by |-> c1, generation |-> 1, revision |-> 1]]
    /\ envelopes = [m \in Letters |->
                       IF m \in Reports
                       THEN [kind |-> "HANDBACK", task |-> t1, window |-> w1, context |-> 0]
                       ELSE None]
    /\ whole = Reports
    /\ deliveries = [letter : Reports, target : {c1}, succeeded : {TRUE}]
    /\ acks = [m \in Letters |-> IF m \in Reports THEN c1 ELSE None]
    /\ writes = 0

Started == UnderWay /\ (NothingSaid \/ Reported)
StartedFairSpec == Started /\ [][Next]_vars /\ Fairness
==============================================================================
