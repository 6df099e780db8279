---------------------------- MODULE Coordination -----------------------------
(***************************************************************************)
(* C03, the role routing of C08 and the C14 bridge together: the ledger    *)
(* goes on while the centre is handed over and messages are under way, and *)
(* a correction is verified in the ledger by what the bridge says of it.   *)
(***************************************************************************)
EXTENDS Ledger, Routing, Bridge

vars == <<ledgerVars, centralVars>>

TypeOK == LedgerTypeOK /\ CentralTypeOK

Init == LedgerInit /\ CentralInit

\* A write to the ledger, by the current centre.  An activation under way
\* holds the ledger lock; verify-correction asks the bridge.
LedgerStep ==
    /\ ~LedgerIsLocked
    /\ writes < MaxWrites
    /\ LedgerNext
    /\ \A t \in Tasks : verifications'[t] # verifications[t] => ReadyForVerification(t)
    /\ writes' = writes + 1
    /\ UNCHANGED <<routingVars, handoverVars, bridgeVars>>

Next ==
    \/ LedgerStep
    \/ RoutingNext /\ UNCHANGED ledgerVars
    \/ BridgeNext /\ UNCHANGED ledgerVars

Spec == Init /\ [][Next]_vars

(***************************************************************************)
(* The scheduling relied on.  No command hangs for ever: it ends or is     *)
(* killed.  The centre and the windows keep working off their mail, and a  *)
(* command that is tried again and again gets through in the end; so does  *)
(* a native delivery.                                                      *)
(***************************************************************************)
Alone(A) == A /\ UNCHANGED ledgerVars
Somebody == Threads \cup Windows

FinishLetter(m) == \E c \in pending : c.op \in {"DELIVER", "ACK"} /\ c.letter = m /\ Finish(c)

Fairness ==
    /\ WF_vars(Alone(WriteReceipt \/ Publish \/ Abandon))
    /\ WF_vars(Alone(\E c \in pending : Finish(c) \/ Interrupt(c)))
    /\ \A h \in Handovers : SF_vars(Alone(PersistActivation(h)))
    /\ \A m \in Reports :
          /\ SF_vars(Alone(\E x \in Somebody : RecordDelivery(m, x, TRUE)))
          /\ SF_vars(Alone(\E x \in Somebody : Acknowledge(m, x)))
          /\ SF_vars(Alone(FinishLetter(m)))

FairSpec == Spec /\ Fairness

-----------------------------------------------------------------------------
(* Properties. *)

\* No two threads have ever been the same generation of a role, whatever
\* commands are killed and retried: "G2" is one window.
GenerationsHaveOneThread ==
    \A i, j \in 1 .. Len(log), r \in Roles :
        LET a == log[i].roles[r]
            b == log[j].roles[r]
        IN  a # None /\ b # None /\ a.generation = b.generation => a.thread = b.thread

\* Of a package and everything refreshed from it, one activates, once.
FamiliesActivateOnce ==
    \A i, j \in 1 .. Len(log) :
        /\ log[i].op = "ACTIVATE" /\ log[j].op = "ACTIVATE"
        /\ packages[log[i].by].origin = packages[log[j].by].origin
        => i = j

\* The successor has read the ledger it takes over: between the package it
\* activates and the moment routing.json names it, nothing is written to the
\* ledger and no other routing commit gets in, whichever command finishes it.
NothingSlipsThrough ==
    [][\A h \in Handovers :
          revision' # revision /\ log[Len(log)].op = "ACTIVATE" /\ log[Len(log)].by = h =>
              /\ packages[h].snapshot.writes = writes
              /\ packages[h].snapshot.revision = revision]_vars

\* The holder of a role in each of its generations.
Line(r) ==
    [g \in 1 .. (IF Roster[r] = None THEN 0 ELSE Roster[r].generation) |->
        CHOOSE s \in Threads :
            \E i \in 1 .. revision : /\ log[i].roles[r] # None
                                     /\ log[i].roles[r].generation = g
                                     /\ log[i].roles[r].thread = s]

Line_ == INSTANCE Succession WITH Centre <- "CURRENT_CENTRAL",
                                   line <- [r \in Roles |-> Line(r)]

\* Each role passes from holder to holder as Succession says.
RolesPassOn == Line_!Spec

\* The centre is never its own adjudicator, in whatever order the packages for
\* both roles are made, refreshed and activated: "onlyOneActiveRole".
NobodyHoldsTwoRoles ==
    \A q, r \in Roles :
        q # r /\ Roster[q] # None /\ Roster[r] # None => Roster[q].thread # Roster[r].thread

(***************************************************************************)
(* An event or a message to the centre is acknowledged by whoever          *)
(* routing.json has named as the centre, never by the successor of a       *)
(* receipt that was left unpublished; and the acknowledgement of an event  *)
(* names the routing and the generation it was given in.  Both commands    *)
(* take no lock.                                                           *)
(***************************************************************************)
AcknowledgedByCentres ==
    /\ \A e \in Events : eventAcks[e] # None =>
           /\ eventAcks[e].revision \in 1 .. revision
           /\ LET centre == log[eventAcks[e].revision].roles["CURRENT_CENTRAL"]
              IN  centre.thread = eventAcks[e].by /\ centre.generation = eventAcks[e].generation
    /\ \A m \in whole : envelopes[m].kind \in ToCentral /\ acks[m] # None =>
           \E i \in 1 .. revision : log[i].roles["CURRENT_CENTRAL"].thread = acks[m]

(***************************************************************************)
(* A verified correction has been applied: every window it was addressed   *)
(* to got it, answered APPLIED, and the centre of that time got the        *)
(* answer, whatever roles changed hands and which retries it took.         *)
(***************************************************************************)
VerifiedCorrectionsWereApplied ==
    \A t \in Tasks : corrections[t] \in verifications[t] =>
        \A w \in bindings[t] :
            LET m == Notice(t, corrections[t], w)
            IN  results[m] = "APPLIED" /\ Confirmed(m) /\ Confirmed(Result(m))

\* A handback that was queued gets acknowledged by some centre, also when the
\* one it was sent to is replaced before it looks.
HandbacksAreAcknowledged ==
    \A m \in Reports : m \in whole ~> acks[m] # None

\* An activation that reached routing.json gets its result file, also when the
\* command that did it was killed.
ActivationsAreRecorded ==
    \A h \in Handovers :
        (\E r \in Roles : Roster[r] # None /\ Roster[r].handover = h) ~> h \in activated
==============================================================================
