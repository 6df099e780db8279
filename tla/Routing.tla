------------------------------- MODULE Routing -------------------------------
(***************************************************************************)
(* C08's role routing: who is the current centre and the current           *)
(* adjudicator, and how a role is handed over.  The commands run inside    *)
(* continuity_lock, but a commit is two files: the receipt with the        *)
(* routing after it, then routing.json; a command may be killed between    *)
(* them.  activate-successor and refresh-handover hold the ledger lock     *)
(* too.                                                                    *)
(***************************************************************************)
EXTENDS CentralState

Unlocked == committing = None

\* Mutant of LedgerIsLocked: activate-successor takes continuity_lock only.
LedgerIsFree == FALSE

LedgerIsLocked == committing # None /\ committing.entry.op = "ACTIVATE"

-----------------------------------------------------------------------------
(* commit_routing. *)

Begin(entry) ==
    /\ Unlocked
    /\ committing' = [entry |-> entry, written |-> FALSE]
    /\ UNCHANGED <<log, revision, handoverVars, bridgeVars, writes>>

PendingReceipt == Len(log) > revision

\* A receipt left by a killed command is in the way of every commit but a
\* retry of the same activation.
MayWriteReceipt(entry) ==
    PendingReceipt => entry.op = "ACTIVATE" /\ log[Len(log)] = entry

WriteReceipt ==
    /\ committing # None
    /\ ~committing.written
    /\ MayWriteReceipt(committing.entry)
    /\ log' = IF PendingReceipt THEN log ELSE Append(log, committing.entry)
    /\ committing' = [committing EXCEPT !.written = TRUE]
    /\ UNCHANGED <<revision, handoverVars, bridgeVars, writes>>

\* replace_json of routing.json.
Publish ==
    /\ committing # None
    /\ committing.written
    /\ revision' = Len(log)
    /\ committing' = None
    /\ UNCHANGED <<log, handoverVars, bridgeVars, writes>>

\* The command fails or is killed, and its locks come free.
Abandon ==
    /\ committing # None
    /\ committing' = None
    /\ UNCHANGED <<log, revision, handoverVars, bridgeVars, writes>>

-----------------------------------------------------------------------------
(* initialize and record-model. *)

Entry(op, h, roles) == [op |-> op, by |-> h, roles |-> roles]

Initialize(c, m) ==
    /\ revision = 0
    /\ Begin(Entry("INITIALIZE", None,
                   [r \in Roles |-> IF r = "CURRENT_CENTRAL"
                                    THEN [generation |-> 1, thread |-> c, model |-> m,
                                          handover |-> None]
                                    ELSE None]))

RecordModel(c, m) ==
    /\ IsCentral(c)
    /\ Roster["CURRENT_CENTRAL"].model # m
    /\ Len(log) < MaxLog
    /\ Begin(Entry("RECORD_MODEL", None, [Roster EXCEPT !["CURRENT_CENTRAL"].model = m]))

-----------------------------------------------------------------------------
(* Handover packages. *)

\* Mutant of TargetGeneration: the adjudicator's generations start at 0.
ZeroBasedTarget(source, bootstrap) == IF bootstrap THEN 0 ELSE source.generation + 1

TargetGeneration(source, bootstrap) == IF bootstrap THEN 1 ELSE source.generation + 1

\* prepare-handover: nobody is asked who calls it.
PrepareHandover(h, role, bootstrap) ==
    /\ Unlocked
    /\ revision > 0
    /\ packages[h] = None
    /\ MailIsSound
    /\ bootstrap => role = "CURRENT_ADJUDICATION" /\ Roster[role] = None
    /\ ~bootstrap => Roster[role] # None
    /\ LET source == Roster[IF bootstrap THEN "CURRENT_CENTRAL" ELSE role]
       IN  packages' = [packages EXCEPT ![h] =
               [role |-> role, bootstrap |-> bootstrap, source |-> source.thread,
                sourceGeneration |-> source.generation,
                target |-> TargetGeneration(source, bootstrap),
                base |-> None, origin |-> h, depth |-> 0, snapshot |-> Snapshot]]
    /\ UNCHANGED <<routingVars, activated, natives, readbacks, bridgeVars, writes>>

\* The package still says what routing, ledger, inbox and bridge say.
Fresh(p) == p.snapshot = Snapshot

\* Mutant of SourceUnchanged: a package outlives the holder it was made by.
SourceOfWhenever(p) == Roster[SourceRole(p)] # None

\* The role it is to take over from has not changed hands.
SourceUnchanged(p) ==
    LET source == Roster[SourceRole(p)]
    IN  /\ source # None
        /\ source.thread = p.source
        /\ source.generation = p.sourceGeneration
        /\ p.bootstrap => Roster[p.role] = None

RefreshHandover(c, h, new) ==
    /\ Unlocked
    /\ IsCentral(c)
    /\ packages[h] # None
    /\ packages[new] = None
    /\ MailIsSound
    /\ LET p == packages[h]
       IN  /\ SourceUnchanged(p)
           /\ ~Fresh(p)
           /\ p.depth < RefreshLimit
           /\ packages' = [packages EXCEPT ![new] =
                  [p EXCEPT !.base = h, !.depth = p.depth + 1, !.snapshot = Snapshot]]
    /\ UNCHANGED <<routingVars, activated, natives, readbacks, bridgeVars, writes>>

-----------------------------------------------------------------------------
(* The native operations of handover_automation.py, kept once for a package *)
(* and everything refreshed from it.                                       *)

PrepareSuccessor(c, h) ==
    /\ Unlocked
    /\ IsCentral(c)
    /\ packages[h] # None
    /\ Holder(SourceRole(packages[h])) = packages[h].source
    /\ ~natives[packages[h].origin].intent
    /\ natives' = [natives EXCEPT ![packages[h].origin].intent = TRUE]
    /\ UNCHANGED <<routingVars, packages, activated, readbacks, bridgeVars, writes>>

RecordSuccessor(c, h, s) ==
    /\ Unlocked
    /\ IsCentral(c)
    /\ packages[h] # None
    /\ LET o == packages[h].origin
       IN  /\ natives[o].intent
           /\ natives[o].successor = None
           /\ s # packages[o].source
           /\ natives' = [natives EXCEPT ![o].successor = s]
    /\ UNCHANGED <<routingVars, packages, activated, readbacks, bridgeVars, writes>>

\* record-handover-readback: the successor has read this very package while the
\* messages were those it lists.
RecordReadback(h) ==
    /\ Unlocked
    /\ revision > 0
    /\ packages[h] # None
    /\ natives[packages[h].origin].successor # None
    /\ MailIsSound
    /\ packages[h].snapshot.mail = Correspondence
    /\ h \notin readbacks
    /\ readbacks' = readbacks \cup {h}
    /\ UNCHANGED <<routingVars, packages, activated, natives, bridgeVars, writes>>

RecordOpened(h) ==
    /\ Unlocked
    /\ packages[h] # None
    /\ LET p == packages[h]
           successor == natives[p.origin].successor
       IN  /\ successor # None
           /\ Holder(p.role) = successor
           /\ Roster[p.role].handover = h
           /\ ~natives[p.origin].opened
           /\ natives' = [natives EXCEPT ![p.origin].opened = TRUE]
    /\ UNCHANGED <<routingVars, packages, activated, readbacks, bridgeVars, writes>>

-----------------------------------------------------------------------------
(* activate-successor. *)

\* Once an intent is recorded, only the bound successor that has read the
\* package back takes over; an older, manual handover needs no proof.
ProofOfReading(h, s) ==
    LET native == natives[packages[h].origin]
    IN  native.intent => native.successor = s /\ h \in readbacks

\* Mutant of HeldNoRole: only the role that is handed over is looked at.
NotTheHolder(p, s) == s # p.source

\* The successor held no role in the routing the package was made of.
HeldNoRole(p, s) ==
    LET roles == log[p.snapshot.revision].roles
    IN  s # p.source /\ \A r \in Roles : roles[r] # None => roles[r].thread # s

\* Mutant of CommittedAt: the last receipt is not looked at.
CommittedEarlier(h) == {i \in 1 .. revision - 1 : log[i].op = "ACTIVATE" /\ log[i].by = h}

\* The routing receipt that carries this activation, once it is published.
CommittedAt(h) == {i \in 1 .. revision : log[i].op = "ACTIVATE" /\ log[i].by = h}

\* Nobody is asked who calls it.
Activate(h, s, m) ==
    /\ packages[h] # None
    /\ h \notin activated
    /\ LET p == packages[h]
       IN  /\ HeldNoRole(p, s)
           /\ CommittedAt(h) = {}
           /\ MailIsSound
           /\ Fresh(p)
           /\ SourceUnchanged(p)
           /\ ProofOfReading(h, s)
           /\ Len(log) < MaxLog \/ PendingReceipt
           /\ Begin(Entry("ACTIVATE", h,
                          [Roster EXCEPT ![p.role] =
                              [generation |-> p.target, thread |-> s, model |-> m,
                               handover |-> h]]))

\* persist_activation_result, by the command that activated the successor or
\* by a later retry of it.
PersistActivation(h) ==
    /\ Unlocked
    /\ CommittedAt(h) # {}
    /\ h \notin activated
    /\ activated' = activated \cup {h}
    /\ UNCHANGED <<routingVars, packages, natives, readbacks, bridgeVars, writes>>

RoutingNext ==
    \/ WriteReceipt \/ Publish \/ Abandon
    \/ \E c \in Threads, m \in Models \cup {None} : Initialize(c, m)
    \/ \E c \in Threads, m \in Models : RecordModel(c, m)
    \/ \E h \in Handovers :
          \/ \E r \in Roles, b \in BOOLEAN : PrepareHandover(h, r, b)
          \/ \E c \in Threads, new \in Handovers : RefreshHandover(c, h, new)
          \/ \E c \in Threads : PrepareSuccessor(c, h)
          \/ \E c, s \in Threads : RecordSuccessor(c, h, s)
          \/ RecordReadback(h)
          \/ RecordOpened(h)
          \/ \E s \in Threads, m \in Models : Activate(h, s, m)
          \/ PersistActivation(h)
==============================================================================
