-------------------------- MODULE CoordinationProofs --------------------------
(***************************************************************************)
(* Theorems about Coordination for any number of threads, packages,        *)
(* messages and writes: it is the ledger of C03 to whoever looks at the    *)
(* ledger only, the roles pass from holder to holder whatever commands are *)
(* killed, and what was verified was applied.                              *)
(***************************************************************************)
EXTENDS Coordination, LedgerProofs, SequenceTheorems

-----------------------------------------------------------------------------
(* The ledger goes on as C03 says. *)

\* A write of the coordinated system is one of C03's, and routing and mail
\* write nothing: all that is proved of the ledger alone holds here too
\* (commit_mutation, which the centre runs).
THEOREM CoordinationKeepsLedger == Spec => LedgerSpec
<1>1. Init => LedgerInit
  BY DEF Init
<1>2. [Next]_vars => [LedgerNext]_ledgerVars
  BY DEF Next, vars, LedgerStep
<1> QED
  BY <1>1, <1>2, PTL DEF Spec, LedgerSpec

LEMMA LedgerInvariant == Spec => []IInv
BY CoordinationKeepsLedger, Inductive, PTL

-----------------------------------------------------------------------------
(* Types. *)

RoutingTypeOK ==
    /\ log \in Seq(Entries)
    /\ revision \in 0 .. Len(log)
    /\ committing \in Commits \cup {None}
    /\ packages \in [Handovers -> Packages \cup {None}]
    /\ activated \subseteq Handovers
    /\ natives \in [Handovers -> NativeRecords]
    /\ readbacks \subseteq Handovers

MailTypeOK ==
    /\ events \in [Events -> EventRecords \cup {None}]
    /\ eventAcks \in [Events -> EventAcks \cup {None}]
    /\ envelopes \in [Letters -> Envelopes \cup {None}]
    /\ whole \subseteq Letters
    /\ deliveries \subseteq Deliveries
    /\ acks \in [Letters -> Threads \cup Windows \cup {None}]
    /\ results \in [Commands -> Answers \cup {None}]
    /\ pending \subseteq Writes

\* Every routing names a centre: initialize appoints one, and it is only ever
\* replaced.
CentreIsNamed ==
    /\ \A i \in 1 .. Len(log) : log[i].roles["CURRENT_CENTRAL"] # None
    /\ committing # None => committing.entry.roles["CURRENT_CENTRAL"] # None

\* A message directory with its envelope has its receipt, and a result is
\* written about a message that is there.
MailStands ==
    /\ \A m \in whole : envelopes[m] # None
    /\ \A c \in pending : c.op = "RESULT" => c.letter \in whole

CentralInv ==
    /\ RoutingTypeOK
    /\ MailTypeOK
    /\ writes \in 0 .. MaxWrites
    /\ CentreIsNamed
    /\ MailStands

LEMMA TypesTogether == CentralTypeOK <=> RoutingTypeOK /\ MailTypeOK /\ writes \in 0 .. MaxWrites
BY DEF CentralTypeOK, RoutingTypeOK, MailTypeOK

LEMMA CentralStarts == CentralInit => CentralInv
<1> SUFFICES ASSUME CentralInit PROVE CentralInv
  OBVIOUS
<1> USE DEF CentralInit
<1>1. RoutingTypeOK
  BY DEF RoutingTypeOK, NativeRecords
<1>2. MailTypeOK
  BY DEF MailTypeOK
<1>3. CentreIsNamed /\ MailStands
  BY DEF CentreIsNamed, MailStands
<1> QED
  BY <1>1, <1>2, <1>3, CentralBounds DEF CentralInv

\* The routing in force has the types of its receipt.
LEMMA RosterTypes ==
    ASSUME CentralInv
    PROVE  /\ Roster \in Rosters
           /\ revision > 0 => Roster["CURRENT_CENTRAL"] \in RoleRecords
<1> USE DEF CentralInv, RoutingTypeOK
<1>1. CASE revision = 0
  BY <1>1 DEF Roster, Rosters
<1>2. CASE revision > 0
  <2>1. revision \in 1 .. Len(log) /\ log[revision] \in Entries
    BY <1>2
  <2>2. log[revision].roles \in Rosters /\ log[revision].roles["CURRENT_CENTRAL"] # None
    BY <2>1 DEF Entries, CentreIsNamed
  <2> QED
    BY <1>2, <2>2 DEF Roster, Rosters, Roles
<1> QED
  BY <1>1, <1>2

LEMMA SnapshotType ==
    ASSUME CentralInv
    PROVE  Snapshot \in Snapshots
<1>1. Correspondence \in Correspondences
  BY DEF CentralInv, MailTypeOK, Correspondence, Correspondences
<1>2. PendingEvents \in SUBSET Events
  BY DEF PendingEvents
<1>3. revision \in Nat /\ writes \in Nat
  BY CentralBounds DEF CentralInv, RoutingTypeOK
<1> QED
  BY <1>1, <1>2, <1>3 DEF Snapshot, Snapshots

\* A commit that is begun carries an entry that names a centre.
LEMMA BeginTypes ==
    ASSUME CentralInv, NEW e \in Entries, e.roles["CURRENT_CENTRAL"] # None, Begin(e)
    PROVE  CentralInv'
<1>1. committing' \in Commits /\ committing'.entry = e
  BY DEF Begin, Commits
<1> QED
  BY <1>1 DEF Begin, CentralInv, RoutingTypeOK, MailTypeOK, CentreIsNamed, MailStands,
     handoverVars, bridgeVars, eventVars, letterVars

LEMMA CommitTypes ==
    ASSUME CentralInv, WriteReceipt \/ Publish \/ Abandon
    PROVE  CentralInv'
<1> USE DEF CentralInv, RoutingTypeOK
<1>1. MailTypeOK' /\ MailStands' /\ writes' = writes /\ UNCHANGED handoverVars
  BY DEF WriteReceipt, Publish, Abandon, MailTypeOK, MailStands, bridgeVars, eventVars,
     letterVars
<1>2. CASE WriteReceipt
  <2>1. committing \in Commits /\ committing.entry \in Entries
    BY <1>2 DEF WriteReceipt, Commits
  <2>2. committing' \in Commits /\ committing'.entry = committing.entry
    BY <1>2, <2>1 DEF WriteReceipt, Commits
  <2>3. log' \in Seq(Entries) /\ Len(log) <= Len(log') /\ revision' = revision
    BY <1>2, <2>1 DEF WriteReceipt
  <2>4. CentreIsNamed'
    <3>1. \A i \in 1 .. Len(log') : \/ i \in 1 .. Len(log) /\ log'[i] = log[i]
                                    \/ log'[i] = committing.entry
      BY <1>2, <2>1 DEF WriteReceipt
    <3> QED
      BY <1>2, <2>2, <3>1 DEF CentreIsNamed, WriteReceipt
  <2> QED
    BY <1>1, <2>2, <2>3, <2>4 DEF handoverVars
<1>3. CASE Publish \/ Abandon
  <2>1. log' = log /\ committing' = None /\ revision' \in 0 .. Len(log)
    BY <1>3 DEF Publish, Abandon
  <2> QED
    BY <1>1, <2>1 DEF CentreIsNamed, handoverVars
<1> QED
  BY <1>2, <1>3

LEMMA InitializeTypes ==
    ASSUME CentralInv, NEW c \in Threads, NEW m \in Models \cup {None}, Initialize(c, m)
    PROVE  CentralInv'
<1> DEFINE roles == [r \in Roles |-> IF r = "CURRENT_CENTRAL"
                                     THEN [generation |-> 1, thread |-> c, model |-> m,
                                           handover |-> None]
                                     ELSE None]
<1>1. roles \in Rosters /\ roles["CURRENT_CENTRAL"] \in RoleRecords
  BY DEF Rosters, RoleRecords, Roles
<1>2. Entry("INITIALIZE", None, roles) \in Entries
  BY <1>1 DEF Entry, Entries
<1> QED
  BY <1>1, <1>2, BeginTypes, NoneIsNoFile DEF Initialize, Entry

LEMMA RecordModelTypes ==
    ASSUME CentralInv, NEW c \in Threads, NEW m \in Models, RecordModel(c, m)
    PROVE  CentralInv'
<1> DEFINE roles == [Roster EXCEPT !["CURRENT_CENTRAL"].model = m]
<1>1. Roster["CURRENT_CENTRAL"] \in RoleRecords /\ Roster \in Rosters
  BY RosterTypes DEF RecordModel, IsCentral, CentralInv, RoutingTypeOK
<1>2. roles \in Rosters /\ roles["CURRENT_CENTRAL"] \in RoleRecords
  BY <1>1 DEF Rosters, RoleRecords, Roles
<1>3. Entry("RECORD_MODEL", None, roles) \in Entries
  BY <1>2 DEF Entry, Entries
<1> QED
  BY <1>2, <1>3, BeginTypes, NoneIsNoFile DEF RecordModel, Entry

\* What the steps that write one file of a handover leave alone.
LEMMA HandoverTypes ==
    ASSUME CentralInv, UNCHANGED <<routingVars, bridgeVars, writes>>,
           packages' \in [Handovers -> Packages \cup {None}],
           activated' \subseteq Handovers,
           natives' \in [Handovers -> NativeRecords],
           readbacks' \subseteq Handovers
    PROVE  CentralInv'
BY DEF CentralInv, RoutingTypeOK, MailTypeOK, CentreIsNamed, MailStands, routingVars, bridgeVars,
   eventVars, letterVars

\* The package a command adds.
LEMMA PreparedPackage ==
    ASSUME CentralInv, NEW h \in Handovers, NEW role \in Roles, NEW bootstrap \in BOOLEAN,
           PrepareHandover(h, role, bootstrap)
    PROVE  \E p \in Packages :
              /\ packages' = [packages EXCEPT ![h] = p]
              /\ p.origin = h /\ p.role = role /\ p.bootstrap = bootstrap
              /\ p.target = IF bootstrap THEN 1 ELSE p.sourceGeneration + 1
<1> DEFINE source == Roster[IF bootstrap THEN "CURRENT_CENTRAL" ELSE role]
           package == [role |-> role, bootstrap |-> bootstrap, source |-> source.thread,
                       sourceGeneration |-> source.generation,
                       target |-> TargetGeneration(source, bootstrap),
                       base |-> None, origin |-> h, depth |-> 0, snapshot |-> Snapshot]
<1>1. source \in RoleRecords
  BY RosterTypes DEF PrepareHandover, CentralInv, RoutingTypeOK, Rosters, Roles
<1>2. source.thread \in Threads /\ source.generation \in Nat \ {0}
  BY <1>1 DEF RoleRecords
<1>3. TargetGeneration(source, bootstrap) \in Nat \ {0}
  BY <1>2 DEF TargetGeneration
<1>4. package \in Packages
  BY <1>2, <1>3, SnapshotType, CentralBounds DEF Packages
<1>5. packages' = [packages EXCEPT ![h] = package]
  BY DEF PrepareHandover
<1> QED
  BY <1>4, <1>5 DEF TargetGeneration

LEMMA RefreshedPackage ==
    ASSUME CentralInv, NEW c \in Threads, NEW h \in Handovers, NEW new \in Handovers,
           RefreshHandover(c, h, new)
    PROVE  /\ packages[h] \in Packages
           /\ \E p \in Packages :
                 /\ packages' = [packages EXCEPT ![new] = p]
                 /\ p.role = packages[h].role /\ p.bootstrap = packages[h].bootstrap
                 /\ p.source = packages[h].source
                 /\ p.sourceGeneration = packages[h].sourceGeneration
                 /\ p.target = packages[h].target /\ p.origin = packages[h].origin
<1> DEFINE p == packages[h]
           package == [p EXCEPT !.base = h, !.depth = p.depth + 1, !.snapshot = Snapshot]
<1>1. p \in Packages /\ p.depth < RefreshLimit
  BY DEF RefreshHandover, CentralInv, RoutingTypeOK
<1>2. package \in Packages
  <2>1. p.depth + 1 \in 0 .. RefreshLimit
    BY <1>1, CentralBounds DEF Packages
  <2> QED
    BY <1>1, <2>1, SnapshotType DEF Packages
<1>3. packages' = [packages EXCEPT ![new] = package]
  BY DEF RefreshHandover
<1>4. /\ package.role = p.role /\ package.bootstrap = p.bootstrap
      /\ package.source = p.source /\ package.sourceGeneration = p.sourceGeneration
      /\ package.target = p.target /\ package.origin = p.origin
  BY <1>1 DEF Packages
<1> HIDE DEF package
<1> QED
  BY <1>1, <1>2, <1>3, <1>4

LEMMA PackageTypes ==
    ASSUME CentralInv, NEW h \in Handovers,
           \/ \E r \in Roles, b \in BOOLEAN : PrepareHandover(h, r, b)
           \/ \E c \in Threads, old \in Handovers : RefreshHandover(c, old, h)
    PROVE  CentralInv'
<1>1. \E p \in Packages : packages' = [packages EXCEPT ![h] = p]
  BY PreparedPackage, RefreshedPackage
<1>2. packages' \in [Handovers -> Packages \cup {None}]
  BY <1>1 DEF CentralInv, RoutingTypeOK
<1> QED
  BY <1>2, HandoverTypes DEF PrepareHandover, RefreshHandover, CentralInv, RoutingTypeOK

LEMMA NativeTypes ==
    ASSUME CentralInv, NEW c \in Threads, NEW s \in Threads, NEW h \in Handovers,
           \/ PrepareSuccessor(c, h)
           \/ RecordSuccessor(c, h, s)
           \/ RecordOpened(h)
    PROVE  CentralInv'
<1> DEFINE o == packages[h].origin
<1>1. packages[h] \in Packages /\ o \in Handovers
  BY DEF PrepareSuccessor, RecordSuccessor, RecordOpened, CentralInv, RoutingTypeOK, Packages
<1>2. natives[o] \in NativeRecords /\ natives \in [Handovers -> NativeRecords]
  BY <1>1 DEF CentralInv, RoutingTypeOK
<1>3. \E n \in NativeRecords : natives' = [natives EXCEPT ![o] = n]
  <2>1. CASE PrepareSuccessor(c, h)
    <3>1. [natives[o] EXCEPT !.intent = TRUE] \in NativeRecords
      BY <1>2 DEF NativeRecords
    <3> QED
      BY <2>1, <3>1 DEF PrepareSuccessor
  <2>2. CASE RecordSuccessor(c, h, s)
    <3>1. [natives[o] EXCEPT !.successor = s] \in NativeRecords
      BY <1>2 DEF NativeRecords
    <3> QED
      BY <2>2, <3>1 DEF RecordSuccessor
  <2>3. CASE RecordOpened(h)
    <3>1. [natives[o] EXCEPT !.opened = TRUE] \in NativeRecords
      BY <1>2 DEF NativeRecords
    <3> QED
      BY <2>3, <3>1 DEF RecordOpened
  <2> QED
    BY <2>1, <2>2, <2>3
<1>4. natives' \in [Handovers -> NativeRecords]
  BY <1>1, <1>2, <1>3
<1> QED
  BY <1>4, HandoverTypes DEF PrepareSuccessor, RecordSuccessor, RecordOpened, CentralInv,
     RoutingTypeOK

LEMMA ActivateTypes ==
    ASSUME CentralInv, NEW h \in Handovers, NEW s \in Threads, NEW m \in Models,
           Activate(h, s, m)
    PROVE  CentralInv'
<1> DEFINE p == packages[h]
           record == [generation |-> p.target, thread |-> s, model |-> m, handover |-> h]
           roles == [Roster EXCEPT ![p.role] = record]
<1>1. p \in Packages
  BY DEF Activate, CentralInv, RoutingTypeOK
<1>2. p.role \in Roles /\ p.target \in Nat \ {0}
  BY <1>1 DEF Packages
<1>3. record \in RoleRecords
  BY <1>2 DEF RoleRecords
<1>4. Roster["CURRENT_CENTRAL"] # None
  <2>1. Roster[SourceRole(p)] # None
    BY DEF Activate, SourceUnchanged
  <2>2. revision > 0
    BY <1>2, <2>1 DEF Roster, SourceRole, Roles, CentralInv, RoutingTypeOK
  <2> QED
    BY <2>2, RosterTypes, NoneIsNoFile
<1> HIDE DEF record
<1>5. roles \in Rosters /\ roles["CURRENT_CENTRAL"] # None
  BY <1>2, <1>3, <1>4, RosterTypes, NoneIsNoFile DEF Rosters, Roles
<1>6. Entry("ACTIVATE", h, roles) \in Entries
  BY <1>5 DEF Entry, Entries
<1>7. Begin(Entry("ACTIVATE", h, roles))
  BY DEF Activate, record
<1> QED
  BY <1>5, <1>6, <1>7, BeginTypes DEF Entry

LEMMA RoutingTypesStep ==
    ASSUME CentralInv, RoutingNext
    PROVE  CentralInv'
<1>1. ASSUME NEW h \in Handovers, RecordReadback(h) \/ PersistActivation(h)
      PROVE  CentralInv'
  BY <1>1, HandoverTypes DEF RecordReadback, PersistActivation, CentralInv, RoutingTypeOK
<1>2. ASSUME NEW c \in Threads, NEW m \in Models, RecordModel(c, m)
      PROVE  CentralInv'
  BY <1>2, RecordModelTypes
<1>3. ASSUME NEW h \in Handovers, RecordOpened(h)
      PROVE  CentralInv'
  <2>1. PICK s \in Threads : natives[packages[h].origin].successor = s
    BY <1>3 DEF RecordOpened, CentralInv, RoutingTypeOK, Packages, NativeRecords
  <2> QED
    BY <1>3, <2>1, NativeTypes
<1>4. ASSUME NEW h \in Handovers, NEW c \in Threads, PrepareSuccessor(c, h)
      PROVE  CentralInv'
  BY <1>4, NativeTypes
<1>5. ASSUME NEW h \in Handovers, NEW c \in Threads, NEW s \in Threads, RecordSuccessor(c, h, s)
      PROVE  CentralInv'
  BY <1>5, NativeTypes
<1>6. CASE WriteReceipt \/ Publish \/ Abandon
  BY <1>6, CommitTypes
<1>7. ASSUME NEW c \in Threads, NEW m \in Models \cup {None}, Initialize(c, m)
      PROVE  CentralInv'
  BY <1>7, InitializeTypes
<1>8. ASSUME NEW h \in Handovers, NEW r \in Roles, NEW b \in BOOLEAN, PrepareHandover(h, r, b)
      PROVE  CentralInv'
  BY <1>8, PackageTypes
<1>9. ASSUME NEW h \in Handovers, NEW c \in Threads, NEW new \in Handovers,
             RefreshHandover(c, h, new)
      PROVE  CentralInv'
  BY <1>9, PackageTypes
<1>10. ASSUME NEW h \in Handovers, NEW s \in Threads, NEW m \in Models, Activate(h, s, m)
       PROVE  CentralInv'
  BY <1>10, ActivateTypes
<1> QED
  BY <1>1, <1>2, <1>3, <1>4, <1>5, <1>6, <1>7, <1>8, <1>9, <1>10 DEF RoutingNext

\* A command past its checks is a well-formed write.
LEMMA CheckedTypes ==
    ASSUME CentralInv, NEW command \in Writes, Checked(command),
           command.op = "RESULT" => command.letter \in whole
    PROVE  CentralInv'
BY DEF Checked, CentralInv, RoutingTypeOK, MailTypeOK, CentreIsNamed, MailStands, routingVars,
   handoverVars, eventVars, letterVars

LEMMA AskingTypes ==
    ASSUME CentralInv, LedgerTypeOK, BridgeNext,
           ~\E c \in pending : Finish(c) \/ Interrupt(c)
    PROVE  CentralInv'
<1> USE DEF Writes
<1>1. ASSUME NEW e \in Events, NEW t \in Tasks, NEW w \in Windows, SubmitEvent(e, t, w)
      PROVE  CentralInv'
  BY <1>1, CheckedTypes DEF SubmitEvent
<1>2. ASSUME NEW e \in Events, NEW c \in Threads, AcknowledgeEvent(e, c)
      PROVE  CentralInv'
  <2> DEFINE ack == [by |-> c, generation |-> Roster["CURRENT_CENTRAL"].generation,
                     revision |-> revision]
  <2>1. Roster["CURRENT_CENTRAL"] \in RoleRecords /\ revision \in Nat
    BY <1>2, RosterTypes DEF AcknowledgeEvent, IsCentral, CentralInv, RoutingTypeOK
  <2>2. ack \in EventAcks
    BY <2>1 DEF EventAcks, RoleRecords
  <2>3. Checked([op |-> "ACK_EVENT", event |-> e, ack |-> ack])
    BY <1>2 DEF AcknowledgeEvent
  <2> HIDE DEF ack
  <2> QED
    BY <2>2, <2>3, CheckedTypes
<1>3. ASSUME NEW m \in Letters, NEW envelope \in Envelopes, Enqueue(m, envelope)
      PROVE  CentralInv'
  BY <1>3, CheckedTypes DEF Enqueue
<1>4. ASSUME NEW m \in Reports, NEW e \in Events, NEW w \in Windows, Notify(m, e, w)
      PROVE  CentralInv'
  <2>1. events[e].task \in Tasks
    BY <1>4 DEF Notify, CentralInv, MailTypeOK, EventRecords
  <2>2. [kind |-> "HANDBACK", task |-> events[e].task, window |-> w, context |-> 0] \in Envelopes
    BY <2>1 DEF Envelopes, Kinds
  <2> QED
    BY <1>3, <1>4, <2>2 DEF Notify, Letters
<1>5. ASSUME NEW c \in Threads, NEW m \in Commands, NEW kind \in Kinds \ ToCentral,
             NEW t \in Tasks, NEW w \in Windows, Command(c, m, kind, t, w)
      PROVE  CentralInv'
  <2>1. [kind |-> kind, task |-> t, window |-> w, context |-> corrections[t]] \in Envelopes
    BY DEF Envelopes, LedgerTypeOK
  <2> QED
    BY <1>3, <1>5, <2>1 DEF Command, Letters
<1>6. ASSUME NEW m \in Letters, NEW x \in Threads \cup Windows, NEW succeeded \in BOOLEAN,
             RecordDelivery(m, x, succeeded)
      PROVE  CentralInv'
  BY <1>6, CheckedTypes DEF RecordDelivery
<1>7. ASSUME NEW m \in Letters, NEW x \in Threads \cup Windows, Acknowledge(m, x)
      PROVE  CentralInv'
  BY <1>7, CheckedTypes DEF Acknowledge
<1>8. ASSUME NEW m \in Commands, NEW answer \in Answers, RecordResult(m, answer)
      PROVE  CentralInv'
  BY <1>8, CheckedTypes DEF RecordResult
<1> QED
  BY <1>1, <1>2, <1>4, <1>5, <1>6, <1>7, <1>8 DEF BridgeNext

\* What a command writes once it gets there; its last file may be missing.
Written(c) ==
    \/ UNCHANGED <<eventVars, letterVars>>
    \/ \E done \in BOOLEAN : WriteEvent(c, done) \/ WriteEnvelope(c, done)
    \/ WriteEventAck(c)
    \/ WriteDelivery(c)
    \/ WriteAck(c)
    \/ \E sealed, done \in BOOLEAN : WriteResult(c, sealed, done)

LEMMA EndsWritten ==
    ASSUME NEW c, Finish(c) \/ Interrupt(c)
    PROVE  Leave(c) /\ Written(c)
BY DEF Finish, Interrupt, Written

LEMMA WrittenTypes ==
    ASSUME CentralInv, NEW c \in pending, Leave(c), Written(c)
    PROVE  CentralInv'
<1> USE DEF CentralInv, MailTypeOK, MailStands
<1>1. c \in Writes
  OBVIOUS
<1>2. RoutingTypeOK' /\ CentreIsNamed' /\ writes' = writes /\ pending' = pending \ {c}
  BY DEF Leave, RoutingTypeOK, CentreIsNamed, routingVars, handoverVars
<1>3. SUFFICES MailTypeOK' /\ MailStands'
  BY <1>2
<1>4. CASE UNCHANGED <<eventVars, letterVars>>
  BY <1>2, <1>4 DEF eventVars, letterVars
<1>5. ASSUME NEW done \in BOOLEAN, WriteEvent(c, done)
      PROVE  MailTypeOK' /\ MailStands'
  <2>1. [task |-> c.task, window |-> c.window, whole |-> done] \in EventRecords
    BY <1>1, <1>5 DEF WriteEvent, Writes, EventRecords
  <2> QED
    BY <1>2, <1>5, <2>1 DEF WriteEvent, letterVars
<1>6. CASE WriteEventAck(c)
  <2>1. c.ack \in EventAcks
    BY <1>1, <1>6 DEF WriteEventAck, Writes
  <2> QED
    BY <1>2, <1>6, <2>1 DEF WriteEventAck, letterVars
<1>7. ASSUME NEW done \in BOOLEAN, WriteEnvelope(c, done)
      PROVE  MailTypeOK' /\ MailStands'
  <2>1. c.letter \in Letters /\ c.envelope \in Envelopes
    BY <1>1, <1>7 DEF WriteEnvelope, Writes
  <2> QED
    BY <1>2, <1>7, <2>1, NoneIsNoFile DEF WriteEnvelope, eventVars
<1>8. CASE WriteDelivery(c)
  <2>1. [letter |-> c.letter, target |-> c.target, succeeded |-> c.succeeded] \in Deliveries
    BY <1>1, <1>8 DEF WriteDelivery, Writes, Deliveries
  <2> QED
    BY <1>2, <1>8, <2>1 DEF WriteDelivery, eventVars
<1>9. CASE WriteAck(c)
  <2>1. c.letter \in Letters /\ c.by \in Threads \cup Windows
    BY <1>1, <1>9 DEF WriteAck, Writes
  <2> QED
    BY <1>2, <1>9, <2>1 DEF WriteAck, eventVars
<1>10. ASSUME NEW sealed \in BOOLEAN, NEW done \in BOOLEAN, WriteResult(c, sealed, done)
       PROVE  MailTypeOK' /\ MailStands'
  <2> DEFINE m == c.letter
             notification == [kind |-> "RESULT", task |-> envelopes[m].task,
                              window |-> envelopes[m].window, context |-> 0]
  <2>1. m \in Commands /\ c.answer \in Answers /\ m \in whole
    BY <1>1, <1>10 DEF WriteResult, Writes
  <2>2. envelopes[m] \in Envelopes
    BY <2>1
  <2>3. notification \in Envelopes /\ Result(m) \in Letters
    BY <2>1, <2>2 DEF Envelopes, Kinds, Letters
  <2>4. /\ results' = [results EXCEPT ![m] = c.answer]
        /\ envelopes' = IF sealed THEN [envelopes EXCEPT ![Result(m)] = notification]
                        ELSE envelopes
        /\ whole' = IF done THEN whole \cup {Result(m)} ELSE whole
        /\ done => sealed
        /\ UNCHANGED <<eventVars, deliveries, acks>>
    BY <1>10 DEF WriteResult
  <2> HIDE DEF notification, m
  <2> QED
    BY <1>2, <2>1, <2>3, <2>4, NoneIsNoFile DEF eventVars
<1> QED
  BY <1>4, <1>5, <1>6, <1>7, <1>8, <1>9, <1>10 DEF Written

LEMMA MailTypesStep ==
    ASSUME CentralInv, LedgerTypeOK, BridgeNext
    PROVE  CentralInv'
<1>1. CASE \E c \in pending : Finish(c) \/ Interrupt(c)
  BY <1>1, EndsWritten, WrittenTypes
<1>2. CASE ~\E c \in pending : Finish(c) \/ Interrupt(c)
  BY <1>2, AskingTypes
<1> QED
  BY <1>1, <1>2

LEMMA TypesStep ==
    ASSUME CentralInv, LedgerTypeOK, [Next]_vars
    PROVE  CentralInv'
<1> USE DEF CentralInv, RoutingTypeOK, MailTypeOK, CentreIsNamed, MailStands, routingVars,
            handoverVars, bridgeVars, eventVars, letterVars
<1>1. CASE LedgerStep
  <2>1. writes' \in 0 .. MaxWrites
    BY <1>1, CentralBounds DEF LedgerStep
  <2> QED
    BY <1>1, <2>1 DEF LedgerStep
<1>2. CASE UNCHANGED vars
  BY <1>2 DEF vars, centralVars
<1> QED
  BY <1>1, <1>2, RoutingTypesStep, MailTypesStep DEF Next

LEMMA CentralInvAlways == Spec => []CentralInv
<1>1. Init => CentralInv
  BY CentralStarts DEF Init
<1>2. IInv => LedgerTypeOK
  BY DEF IInv
<1> QED
  BY <1>1, <1>2, TypesStep, LedgerInvariant, PTL DEF Spec

\* Ledger, routing files, packages and mail keep their types, however commands
\* overlap and wherever they are killed.
THEOREM CoordinationTypesAlways == Spec => []TypeOK
<1>1. IInv /\ CentralInv => TypeOK
  BY TypesTogether DEF IInv, CentralInv, TypeOK
<1> QED
  BY <1>1, CentralInvAlways, LedgerInvariant, PTL

-----------------------------------------------------------------------------
(* Mail. *)

\* What the bridge has recorded of a message stays: its envelope, its
\* deliveries, its acknowledgement and its result.
MailStays ==
    /\ whole \subseteq whole'
    /\ deliveries \subseteq deliveries'
    /\ \A m \in Letters : acks[m] # None => acks'[m] = acks[m]
    /\ \A m \in Commands : results[m] # None => results'[m] = results[m]

LEMMA WrittenStays ==
    ASSUME CentralInv, NEW c \in pending, Written(c)
    PROVE  MailStays
<1> USE DEF CentralInv, MailTypeOK, MailStays
<1>1. c \in Writes
  OBVIOUS
<1>2. CASE WriteAck(c)
  BY <1>2 DEF WriteAck
<1>3. ASSUME NEW sealed \in BOOLEAN, NEW done \in BOOLEAN, WriteResult(c, sealed, done)
      PROVE  MailStays
  <2>1. /\ results[c.letter] \in {None, c.answer}
        /\ results' = [results EXCEPT ![c.letter] = c.answer]
        /\ whole \subseteq whole'
        /\ UNCHANGED <<deliveries, acks>>
    BY <1>3 DEF WriteResult
  <2> QED
    BY <2>1
<1> QED
  BY <1>2, <1>3 DEF Written, WriteEvent, WriteEnvelope, WriteEventAck, WriteDelivery, letterVars

LEMMA MailStaysStep ==
    ASSUME CentralInv, [Next]_vars
    PROVE  MailStays
<1>1. CASE UNCHANGED letterVars
  BY <1>1 DEF letterVars, MailStays
<1>2. CASE \E c \in pending : Finish(c) \/ Interrupt(c)
  BY <1>2, EndsWritten, WrittenStays
<1>3. CASE BridgeNext /\ ~\E c \in pending : Finish(c) \/ Interrupt(c)
  BY <1>1, <1>3 DEF BridgeNext, SubmitEvent, AcknowledgeEvent, Notify, Command, RecordDelivery,
     Acknowledge, RecordResult, Enqueue, Checked
<1>4. CASE RoutingNext
  BY <1>1, <1>4 DEF RoutingNext, WriteReceipt, Publish, Abandon, Initialize, RecordModel, Activate,
     Begin, PrepareHandover, RefreshHandover, PrepareSuccessor, RecordSuccessor, RecordReadback,
     RecordOpened, PersistActivation, bridgeVars
<1> QED
  BY <1>1, <1>2, <1>3, <1>4 DEF Next, LedgerStep, vars, centralVars, bridgeVars

\* A message that was delivered to whoever acknowledged it stays so.
LEMMA ConfirmedStays ==
    ASSUME CentralInv, MailStays, NEW m \in Letters, Confirmed(m)
    PROVE  Confirmed(m)'
<1>1. \A n : DeliveredTo(n) \subseteq DeliveredTo(n)' /\ DeliveredTo(n) \subseteq Threads \cup Windows
  BY DEF MailStays, DeliveredTo, CentralInv, MailTypeOK, Deliveries
<1>2. acks[m] # None
  BY <1>1, NoneIsNothing, ThreadsAreNoWindows DEF Confirmed
<1> QED
  BY <1>1, <1>2 DEF Confirmed, MailStays

\* The notice of a correction that was applied, and whose answer was looked at.
Applied(t, r, w) ==
    LET m == Notice(t, r, w)
    IN  results[m] = "APPLIED" /\ Confirmed(m) /\ Confirmed(Result(m))

LEMMA AppliedStays ==
    ASSUME CentralInv, MailStays, NEW t \in Tasks, NEW r \in 1 .. MaxCorrections,
           NEW w \in Windows, Applied(t, r, w)
    PROVE  Applied(t, r, w)'
<1> DEFINE m == Notice(t, r, w)
<1>1. m \in Commands /\ m \in Letters /\ Result(m) \in Letters
  BY DEF Commands, Notices, Letters
<1>2. results[m] = "APPLIED" /\ Confirmed(m) /\ Confirmed(Result(m))
  BY DEF Applied
<1> HIDE DEF m
<1>3. results[m] # None
  BY <1>2, NoneIsNoFile DEF Answers
<1>4. results'[m] = "APPLIED"
  BY <1>1, <1>2, <1>3 DEF MailStays
<1>5. Confirmed(m)' /\ Confirmed(Result(m))'
  BY <1>1, <1>2, ConfirmedStays DEF m, Result
<1> QED
  BY <1>4, <1>5 DEF Applied, m, Notice, Result

\* What changes the direction of a task: a correction, and the verification of
\* the latest one by what the bridge says.
LEMMA DirectionStep ==
    ASSUME IInv, [Next]_vars, NEW t \in Tasks, corrections'[t] \in verifications'[t]
    PROVE  /\ corrections'[t] = corrections[t] /\ bindings'[t] = bindings[t]
           /\ \/ corrections[t] \in verifications[t]
              \/ ReadyForVerification(t) /\ UNCHANGED letterVars
<1> USE DEF IInv, LedgerTypeOK
<1>1. CASE UNCHANGED <<corrections, verifications, bindings>>
  BY <1>1
<1>2. CASE LedgerStep
  <2>1. UNCHANGED letterVars
    BY <1>2 DEF LedgerStep, bridgeVars
  <2>2. verifications'[t] # verifications[t] => ReadyForVerification(t)
    BY <1>2 DEF LedgerStep
  <2>3. ASSUME NEW u \in Tasks, NEW r \in 0 .. MaxCorrections, RecordCorrection(u, r)
        PROVE  /\ corrections'[t] = corrections[t] /\ bindings'[t] = bindings[t]
               /\ corrections[t] \in verifications[t]
    BY <2>3 DEF RecordCorrection, VerificationsAreOfCorrections
  <2>4. ASSUME NEW u \in Tasks, NEW r \in 0 .. MaxCorrections, VerifyCorrection(u, r)
        PROVE  /\ corrections'[t] = corrections[t] /\ bindings'[t] = bindings[t]
               /\ corrections[t] \in verifications[t] \/ verifications'[t] # verifications[t]
    BY <2>4 DEF VerifyCorrection
  <2>5. LedgerNext
    BY <1>2 DEF LedgerStep
  <2> QED
    BY <1>1, <2>1, <2>2, <2>3, <2>4, <2>5 DEF LedgerNext, AddTask, TransitionTask,
       RecordCompletionSignal, RecordWait, ResolveWait, ReconcileOutline, RegisterWindow,
       ImportOutline, ReviseOutline, RegisterSubAgent, ClaimObject, directionVars
<1> QED
  BY <1>1, <1>2 DEF Next, vars, ledgerVars, directionVars

\* Corrections stay within the bound of the instance, so that every notice is
\* one of the messages.
CorrectionsAreBounded == \A t \in Tasks : corrections[t] <= MaxCorrections

VerifiedWasApplied(t) ==
    corrections[t] \in verifications[t] =>
        /\ corrections[t] > 0
        /\ \A w \in bindings[t] : Applied(t, corrections[t], w)

MailInv == CorrectionsAreBounded /\ \A t \in Tasks : VerifiedWasApplied(t)

LEMMA BoundStep ==
    ASSUME IInv, CorrectionsAreBounded, [Next]_vars
    PROVE  CorrectionsAreBounded'
<1> USE DEF IInv, LedgerTypeOK, CorrectionsAreBounded
<1>1. CASE UNCHANGED corrections
  BY <1>1
<1>2. ASSUME NEW u \in Tasks, NEW r \in 0 .. MaxCorrections, RecordCorrection(u, r)
      PROVE  CorrectionsAreBounded'
  BY <1>2, BoundsAreNumbers DEF RecordCorrection
<1> QED
  BY <1>1, <1>2 DEF Next, LedgerStep, vars, ledgerVars, LedgerNext, AddTask, TransitionTask,
     RecordCompletionSignal, VerifyCorrection, RecordWait, ResolveWait, ReconcileOutline,
     RegisterWindow, ImportOutline, ReviseOutline, RegisterSubAgent, ClaimObject, directionVars

LEMMA MailStep ==
    ASSUME IInv, CentralInv, MailInv, [Next]_vars
    PROVE  MailInv'
<1> USE DEF IInv, LedgerTypeOK
<1>1. SUFFICES ASSUME NEW t \in Tasks PROVE VerifiedWasApplied(t)'
  BY BoundStep DEF MailInv
<1>2. SUFFICES ASSUME (corrections[t] \in verifications[t])'
               PROVE  (corrections[t] > 0 /\ \A w \in bindings[t] : Applied(t, corrections[t], w))'
  BY DEF VerifiedWasApplied
<1> DEFINE r == corrections[t]
<1>3. r' = r /\ bindings'[t] = bindings[t]
  BY <1>2, DirectionStep
<1>4. r > 0 /\ \A w \in bindings[t] : Applied(t, r, w)
  <2>1. CASE corrections[t] \in verifications[t]
    BY <2>1 DEF MailInv, VerifiedWasApplied
  <2>2. CASE ReadyForVerification(t)
    BY <2>2 DEF ReadyForVerification, Applied
  <2> QED
    BY <1>2, <2>1, <2>2, DirectionStep
<1>5. PICK n \in 1 .. MaxCorrections : n = r
  BY <1>4 DEF MailInv, CorrectionsAreBounded
<1>6. \A w \in bindings[t] : w \in Windows /\ Applied(t, n, w)
  BY <1>4, <1>5
<1>7. \A w \in bindings[t] : Applied(t, n, w)'
  BY <1>6, MailStaysStep, AppliedStays
<1>8. ASSUME NEW w \in bindings[t] PROVE Applied(t, r, w)'
  <2>1. Applied(t, n, w)' /\ n = r'
    BY <1>3, <1>5, <1>7
  <2> QED
    BY <2>1 DEF Applied, Notice, Result
<1> QED
  BY <1>3, <1>4, <1>8

\* A verified correction was applied: whoever it was addressed to got it,
\* answered APPLIED, and a centre has seen the answer, whatever roles changed
\* hands since (verify_correction, readyForVerification).
THEOREM VerifiedCorrectionsWereAppliedAlways == Spec => []VerifiedCorrectionsWereApplied
<1>1. Init => MailInv
  BY BoundsAreNumbers DEF Init, LedgerInit, MailInv, VerifiedWasApplied,
     CorrectionsAreBounded
<1>2. MailInv => VerifiedCorrectionsWereApplied
  BY DEF MailInv, VerifiedWasApplied, VerifiedCorrectionsWereApplied, Applied
<1> QED
  BY <1>1, <1>2, MailStep, LedgerInvariant, CentralInvAlways, PTL DEF Spec

-----------------------------------------------------------------------------
(* The routing log and the commit under way. *)

\* The generation a routing gives a role, 0 while nobody holds it.
Generation(roles, r) == IF roles[r] = None THEN 0 ELSE roles[r].generation
At(i, r) == Generation(log[i].roles, r)

\* A later routing has later generations, and the same ones for the same threads.
GenerationsGrow ==
    \A i, j \in 1 .. Len(log), r \in Roles :
        i <= j => /\ At(i, r) <= At(j, r)
                  /\ log[i].roles[r] # None /\ At(i, r) = At(j, r) =>
                         log[i].roles[r].thread = log[j].roles[r].thread

\* Every generation was reached.
NoGenerationIsSkipped ==
    \A j \in 1 .. Len(log), r \in Roles : \A g \in 1 .. At(j, r) :
        \E i \in 1 .. j : At(i, r) = g

\* What a package and everything refreshed from it agree on.
Family(p) == <<p.role, p.bootstrap, p.source, p.sourceGeneration, p.target, p.origin>>

PackagesStand ==
    \A h \in Handovers : packages[h] # None =>
        LET p == packages[h]
        IN  /\ packages[p.origin] # None /\ Family(packages[p.origin]) = Family(p)
            /\ p.target = IF p.bootstrap THEN 1 ELSE p.sourceGeneration + 1
            /\ p.bootstrap => p.role = "CURRENT_ADJUDICATION"

\* A receipt of an activation has the role in the generation its package names.
ActivationsStand ==
    \A i \in 1 .. Len(log) : log[i].op = "ACTIVATE" =>
        LET h == log[i].by
        IN  /\ h \in Handovers /\ packages[h] # None
            /\ log[i].roles[packages[h].role] # None
            /\ At(i, packages[h].role) = packages[h].target

\* What was checked of a change is still so while its commit is under way: its
\* entry follows the routing in force.
Initializes(e) ==
    /\ revision = 0
    /\ \E c \in Threads, m \in Models \cup {None} :
          e.roles = [r \in Roles |-> IF r = "CURRENT_CENTRAL"
                                     THEN [generation |-> 1, thread |-> c, model |-> m,
                                           handover |-> None]
                                     ELSE None]

RecordsModel(e) ==
    /\ revision > 0
    /\ \E m \in Models : e.roles = [Roster EXCEPT !["CURRENT_CENTRAL"].model = m]

Activates(e) ==
    /\ e.by \in Handovers
    /\ packages[e.by] # None
    /\ LET p == packages[e.by]
       IN  /\ p.snapshot.writes = writes
           /\ p.snapshot.revision = revision
           /\ SourceUnchanged(p)
           /\ \E s \in Threads, m \in Models :
                 /\ HeldNoRole(p, s)
                 /\ e.roles = [Roster EXCEPT ![p.role] =
                                  [generation |-> p.target, thread |-> s, model |-> m,
                                   handover |-> e.by]]

StillChecked(e) ==
    \/ e.op = "INITIALIZE" /\ Initializes(e)
    \/ e.op = "RECORD_MODEL" /\ RecordsModel(e)
    \/ e.op = "ACTIVATE" /\ Activates(e)

\* The receipt of a commit is the last one, and at most that one is ahead of
\* routing.json.
CommitStands ==
    /\ Len(log) <= revision + 1
    /\ committing # None =>
           /\ StillChecked(committing.entry)
           /\ committing.written => Len(log) = revision + 1 /\ log[Len(log)] = committing.entry

RoutingInv ==
    /\ GenerationsGrow
    /\ NoGenerationIsSkipped
    /\ PackagesStand
    /\ ActivationsStand
    /\ CommitStands
    /\ FamiliesActivateOnce

LEMMA RoutingStarts == CentralInit => RoutingInv
BY DEF CentralInit, RoutingInv, GenerationsGrow, NoGenerationIsSkipped, PackagesStand,
   ActivationsStand, CommitStands, FamiliesActivateOnce

\* Someone holds a role only once there is a routing.
LEMMA HoldersNeedRouting ==
    ASSUME CentralInv, NEW r \in Roles, Roster[r] # None
    PROVE  revision \in 1 .. Len(log) /\ Roster = log[revision].roles /\ Roster[r] \in RoleRecords
<1>1. revision > 0
  BY DEF Roster, CentralInv, RoutingTypeOK
<1> QED
  BY <1>1, RosterTypes DEF Roster, Rosters, CentralInv, RoutingTypeOK

\* The check of a change does not see what is written behind the routing.
LEMMA CheckedStays ==
    ASSUME CentralInv, UNCHANGED <<revision, packages>>,
           \A i \in 1 .. revision : log'[i] = log[i],
           NEW e, StillChecked(e), e.op = "ACTIVATE" => writes' = writes
    PROVE  StillChecked(e)'
<1>1. Roster' = Roster
  BY DEF Roster, CentralInv, RoutingTypeOK
<1>2. CASE e.op = "ACTIVATE" /\ Activates(e)
  <2> DEFINE p == packages[e.by]
  <2>1. p \in Packages /\ SourceRole(p) \in Roles /\ Roster[SourceRole(p)] # None
    BY <1>2 DEF Activates, SourceUnchanged, SourceRole, CentralInv, RoutingTypeOK, Packages, Roles
  <2>2. p' = p /\ log'[p.snapshot.revision] = log[p.snapshot.revision]
    BY <1>2, <2>1, HoldersNeedRouting DEF Activates
  <2>3. SourceUnchanged(p)'
    BY <1>1, <1>2, <2>2 DEF Activates, SourceUnchanged, SourceRole
  <2>4. \A s : HeldNoRole(p, s) => HeldNoRole(p, s)'
    BY <2>2 DEF HeldNoRole
  <2> QED
    BY <1>1, <1>2, <2>2, <2>3, <2>4 DEF StillChecked, Activates
<1> QED
  BY <1>1, <1>2 DEF StillChecked, Initializes, RecordsModel

\* No command is under way, or the one there is stays and so does its check.
LEMMA CommitStays ==
    ASSUME CentralInv, CommitStands, UNCHANGED <<log, revision, committing, packages>>,
           LedgerIsLocked => writes' = writes
    PROVE  CommitStands'
<1>1. ASSUME committing # None
      PROVE  StillChecked(committing.entry)'
  <2>1. PICK e : e = committing.entry
    OBVIOUS
  <2>2. StillChecked(e) /\ (e.op = "ACTIVATE" => writes' = writes)
    BY <1>1, <2>1 DEF CommitStands, LedgerIsLocked
  <2>3. StillChecked(e)'
    BY <2>2, CheckedStays
  <2>4. e = committing'.entry
    BY <2>1
  <2> QED
    BY <2>3, <2>4
<1> QED
  BY <1>1 DEF CommitStands

LEMMA LineStays ==
    ASSUME GenerationsGrow, NoGenerationIsSkipped, UNCHANGED log
    PROVE  GenerationsGrow' /\ NoGenerationIsSkipped'
BY DEF GenerationsGrow, NoGenerationIsSkipped, At, Generation

LEMMA RoutingStays ==
    ASSUME CentralInv, RoutingInv, UNCHANGED <<log, revision, committing, packages>>,
           LedgerIsLocked => writes' = writes
    PROVE  RoutingInv'
BY CommitStays, LineStays DEF RoutingInv, PackagesStand, ActivationsStand, FamiliesActivateOnce,
   At, Generation, Family

\* A package that is added changes nothing about those there are.
LEMMA PackageStep ==
    ASSUME CentralInv, RoutingInv, Unlocked, UNCHANGED <<log, revision, committing>>,
           NEW h \in Handovers, NEW p \in Packages, packages[h] = None,
           packages' = [packages EXCEPT ![h] = p],
           \/ p.origin = h
           \/ packages[p.origin] # None /\ Family(packages[p.origin]) = Family(p),
           p.target = IF p.bootstrap THEN 1 ELSE p.sourceGeneration + 1,
           p.bootstrap => p.role = "CURRENT_ADJUDICATION"
    PROVE  RoutingInv'
<1> USE DEF CentralInv, RoutingTypeOK
<1>1. \A x \in Handovers : packages[x] # None => packages'[x] = packages[x]
  OBVIOUS
<1>2. GenerationsGrow' /\ NoGenerationIsSkipped' /\ CommitStands'
  <2>1. GenerationsGrow' /\ NoGenerationIsSkipped'
    BY LineStays DEF RoutingInv
  <2>2. CommitStands'
    BY DEF RoutingInv, CommitStands, Unlocked
  <2> QED
    BY <2>1, <2>2
<1>3. PackagesStand'
  <2>1. SUFFICES ASSUME NEW x \in Handovers, packages'[x] # None
                 PROVE  LET q == packages'[x]
                        IN  /\ packages'[q.origin] # None
                            /\ Family(packages'[q.origin]) = Family(q)
                            /\ q.target = IF q.bootstrap THEN 1 ELSE q.sourceGeneration + 1
                            /\ q.bootstrap => q.role = "CURRENT_ADJUDICATION"
    BY DEF PackagesStand, Family
  <2>2. CASE x = h
    <3>1. packages'[x] = p
      BY <2>2
    <3>2. packages'[p.origin] # None /\ Family(packages'[p.origin]) = Family(p)
      BY <1>1, <2>1, <2>2, <3>1 DEF Packages
    <3> QED
      BY <3>1, <3>2
  <2>3. CASE x # h
    <3>1. packages'[x] = packages[x] /\ packages[x] # None /\ packages[x] \in Packages
      BY <2>1, <2>3
    <3>2. packages'[packages[x].origin] = packages[packages[x].origin]
      BY <1>1, <3>1 DEF RoutingInv, PackagesStand, Packages
    <3> QED
      BY <3>1, <3>2 DEF RoutingInv, PackagesStand
  <2> QED
    BY <2>2, <2>3
<1>4. ActivationsStand'
  BY <1>1 DEF RoutingInv, ActivationsStand, At, Generation
<1>5. FamiliesActivateOnce'
  BY <1>1 DEF RoutingInv, FamiliesActivateOnce, ActivationsStand
<1> QED
  BY <1>2, <1>3, <1>4, <1>5 DEF RoutingInv

LEMMA PackagesStep ==
    ASSUME CentralInv, RoutingInv, NEW h \in Handovers,
           \/ \E r \in Roles, b \in BOOLEAN : PrepareHandover(h, r, b)
           \/ \E c \in Threads, old \in Handovers : RefreshHandover(c, old, h)
    PROVE  RoutingInv'
<1>1. Unlocked /\ packages[h] = None /\ UNCHANGED <<log, revision, committing>>
  BY DEF PrepareHandover, RefreshHandover, routingVars
<1>2. ASSUME NEW r \in Roles, NEW b \in BOOLEAN, PrepareHandover(h, r, b)
      PROVE  RoutingInv'
  <2>1. PICK p \in Packages : /\ packages' = [packages EXCEPT ![h] = p]
                              /\ p.origin = h /\ p.role = r /\ p.bootstrap = b
                              /\ p.target = IF b THEN 1 ELSE p.sourceGeneration + 1
    BY <1>2, PreparedPackage
  <2>2. b => r = "CURRENT_ADJUDICATION"
    BY <1>2 DEF PrepareHandover
  <2> QED
    BY <1>1, <2>1, <2>2, PackageStep
<1>3. ASSUME NEW c \in Threads, NEW old \in Handovers, RefreshHandover(c, old, h)
      PROVE  RoutingInv'
  <2>1. PICK p \in Packages :
            /\ packages' = [packages EXCEPT ![h] = p]
            /\ p.role = packages[old].role /\ p.bootstrap = packages[old].bootstrap
            /\ p.source = packages[old].source
            /\ p.sourceGeneration = packages[old].sourceGeneration
            /\ p.target = packages[old].target /\ p.origin = packages[old].origin
    BY <1>3, RefreshedPackage
  <2>2. packages[old] # None
    BY <1>3 DEF RefreshHandover
  <2>3. /\ packages[p.origin] # None /\ Family(packages[p.origin]) = Family(p)
        /\ p.target = IF p.bootstrap THEN 1 ELSE p.sourceGeneration + 1
        /\ p.bootstrap => p.role = "CURRENT_ADJUDICATION"
    BY <2>1, <2>2 DEF RoutingInv, PackagesStand, Family
  <2> QED
    BY <1>1, <2>1, <2>3, PackageStep
<1> QED
  BY <1>2, <1>3

\* A commit is begun for a change that was just checked.
LEMMA BeginStep ==
    ASSUME CentralInv, RoutingInv, NEW e, Begin(e), StillChecked(e)
    PROVE  RoutingInv'
<1>1. /\ committing' = [entry |-> e, written |-> FALSE]
      /\ UNCHANGED <<log, revision, packages, writes>>
  BY DEF Begin, handoverVars
<1>2. StillChecked(e)'
  BY <1>1, CheckedStays
<1>3. CommitStands'
  <2>1. e = committing'.entry /\ ~committing'.written
    BY <1>1
  <2>2. StillChecked(committing.entry)'
    BY <1>2, <2>1
  <2> QED
    BY <1>1, <2>1, <2>2 DEF RoutingInv, CommitStands
<1> QED
  BY <1>1, <1>3, LineStays DEF RoutingInv, PackagesStand, ActivationsStand, FamiliesActivateOnce,
     At, Generation, Family

LEMMA BeginsStep ==
    ASSUME CentralInv, RoutingInv,
           \/ \E c \in Threads, m \in Models \cup {None} : Initialize(c, m)
           \/ \E c \in Threads, m \in Models : RecordModel(c, m)
           \/ \E h \in Handovers, s \in Threads, m \in Models : Activate(h, s, m)
    PROVE  RoutingInv'
<1>1. ASSUME NEW c \in Threads, NEW m \in Models \cup {None}, Initialize(c, m)
      PROVE  RoutingInv'
  <2> DEFINE roles == [r \in Roles |-> IF r = "CURRENT_CENTRAL"
                                       THEN [generation |-> 1, thread |-> c, model |-> m,
                                             handover |-> None]
                                       ELSE None]
             e == Entry("INITIALIZE", None, roles)
  <2>1. Begin(e) /\ e.op = "INITIALIZE" /\ e.roles = roles
    BY <1>1 DEF Initialize, Entry
  <2>2. StillChecked(e)
    BY <1>1, <2>1 DEF Initialize, StillChecked, Initializes
  <2> QED
    BY <2>1, <2>2, BeginStep
<1>2. ASSUME NEW c \in Threads, NEW m \in Models, RecordModel(c, m)
      PROVE  RoutingInv'
  <2> DEFINE e == Entry("RECORD_MODEL", None, [Roster EXCEPT !["CURRENT_CENTRAL"].model = m])
  <2>1. /\ Begin(e) /\ e.op = "RECORD_MODEL"
        /\ e.roles = [Roster EXCEPT !["CURRENT_CENTRAL"].model = m]
    BY <1>2 DEF RecordModel, Entry
  <2> HIDE DEF e
  <2>2. StillChecked(e)
    BY <1>2, <2>1 DEF RecordModel, IsCentral, StillChecked, RecordsModel
  <2> QED
    BY <2>1, <2>2, BeginStep
<1>3. ASSUME NEW h \in Handovers, NEW s \in Threads, NEW m \in Models, Activate(h, s, m)
      PROVE  RoutingInv'
  <2> DEFINE p == packages[h]
             roles == [Roster EXCEPT ![p.role] = [generation |-> p.target, thread |-> s,
                                                  model |-> m, handover |-> h]]
             e == Entry("ACTIVATE", h, roles)
  <2>1. Begin(e) /\ e.op = "ACTIVATE" /\ e.by = h /\ e.roles = roles
    BY <1>3 DEF Activate, Entry
  <2> HIDE DEF e
  <2>2. p.snapshot.writes = writes /\ p.snapshot.revision = revision
    BY <1>3 DEF Activate, Fresh, Snapshot
  <2>3. packages[h] # None /\ SourceUnchanged(p) /\ HeldNoRole(p, s)
    BY <1>3 DEF Activate
  <2>4. StillChecked(e)
    BY <2>1, <2>2, <2>3 DEF StillChecked, Activates
  <2> QED
    BY <2>1, <2>4, BeginStep
<1> QED
  BY <1>1, <1>2, <1>3

\* One routing comes right after another: a role stays with its thread or
\* passes to the next generation.
Follows(next, roles) ==
    \A r \in Roles :
        \/ /\ roles[r] = None <=> next[r] = None
           /\ roles[r] # None => /\ next[r].generation = roles[r].generation
                                 /\ next[r].thread = roles[r].thread
        \/ next[r] # None /\ next[r].generation = Generation(roles, r) + 1

LEMMA CheckedFollows ==
    ASSUME CentralInv, RoutingInv, NEW e \in Entries, StillChecked(e)
    PROVE  Follows(e.roles, Roster)
<1> USE RosterTypes, NoneIsNoFile DEF Generation, Follows
<1>1. CASE Initializes(e)
  BY <1>1 DEF Initializes, Roster, Roles
<1>2. CASE RecordsModel(e)
  <2>1. PICK m \in Models : e.roles = [Roster EXCEPT !["CURRENT_CENTRAL"].model = m]
    BY <1>2 DEF RecordsModel
  <2>2. Roster["CURRENT_CENTRAL"] \in RoleRecords /\ Roster \in Rosters
    BY <1>2 DEF RecordsModel, CentralInv, RoutingTypeOK
  <2>3. \A r \in Roles : r # "CURRENT_CENTRAL" => e.roles[r] = Roster[r]
    BY <2>1, <2>2 DEF Rosters
  <2>4. /\ e.roles["CURRENT_CENTRAL"] \in RoleRecords
        /\ e.roles["CURRENT_CENTRAL"].generation = Roster["CURRENT_CENTRAL"].generation
        /\ e.roles["CURRENT_CENTRAL"].thread = Roster["CURRENT_CENTRAL"].thread
    BY <2>1, <2>2 DEF Rosters, RoleRecords, Roles
  <2> QED
    BY <2>2, <2>3, <2>4
<1>3. CASE Activates(e)
  <2> DEFINE p == packages[e.by]
  <2>1. p \in Packages /\ SourceUnchanged(p)
    BY <1>3 DEF Activates, CentralInv, RoutingTypeOK
  <2>2. PICK s \in Threads, m \in Models :
            e.roles = [Roster EXCEPT ![p.role] =
                          [generation |-> p.target, thread |-> s, model |-> m, handover |-> e.by]]
    BY <1>3 DEF Activates
  <2>3. p.role \in Roles /\ p.target \in Nat \ {0}
    BY <2>1 DEF Packages
  <2>4. \A r \in Roles : r # p.role => e.roles[r] = Roster[r]
    BY <2>2, <2>3 DEF Rosters
  <2>5. e.roles[p.role] \in RoleRecords /\ e.roles[p.role].generation = p.target
    BY <1>3, <2>2, <2>3 DEF Rosters, RoleRecords, Activates
  <2>6. p.target = Generation(Roster, p.role) + 1
    BY <1>3, <2>1 DEF Activates, RoutingInv, PackagesStand, SourceUnchanged, SourceRole
  <2> QED
    BY <2>3, <2>4, <2>5, <2>6
<1> QED
  BY <1>1, <1>2, <1>3 DEF StillChecked

LEMMA GenerationType ==
    ASSUME NEW roles \in Rosters, NEW r \in Roles
    PROVE  /\ Generation(roles, r) \in Nat
           /\ roles[r] # None => Generation(roles, r) = roles[r].generation
           /\ Generation(roles, r) > 0 <=> roles[r] # None
BY DEF Generation, Rosters, RoleRecords

\* A routing that follows the last one is the end of the line.
LEMMA AppendStep ==
    ASSUME CentralInv, RoutingInv, NEW e \in Entries, StillChecked(e),
           Len(log) = revision, log' = Append(log, e)
    PROVE  GenerationsGrow' /\ NoGenerationIsSkipped'
<1>1. /\ log \in Seq(Entries) /\ e.roles \in Rosters
      /\ \A i \in 1 .. Len(log) : log[i].roles \in Rosters
  <2>1. log \in Seq(Entries) /\ \A i \in 1 .. Len(log) : log[i] \in Entries
    BY DEF CentralInv, RoutingTypeOK
  <2> QED
    BY <2>1 DEF Entries
<1> PICK n \in Nat : n = Len(log) + 1
  BY <1>1
<1>2. /\ Len(log') = n /\ 1 .. n = (1 .. Len(log)) \cup {n}
      /\ \A i \in 1 .. Len(log) : log'[i] = log[i]
      /\ log'[n] = e
  BY <1>1
<1>3. ASSUME NEW r \in Roles
      PROVE  /\ \A i \in 1 .. Len(log) : At(i, r)' = At(i, r)
             /\ At(n, r)' = Generation(e.roles, r)
             /\ \A i \in 1 .. Len(log) : At(i, r) \in Nat
             /\ Generation(e.roles, r) \in Nat
  <2>1. \A i \in 1 .. Len(log) : At(i, r)' = At(i, r)
    BY <1>2 DEF At, Generation
  <2>2. At(n, r)' = Generation(e.roles, r)
    BY <1>2 DEF At, Generation
  <2> QED
    BY <1>1, <2>1, <2>2, GenerationType DEF At
<1>4. ASSUME NEW r \in Roles, NEW i \in 1 .. Len(log)
      PROVE  /\ At(i, r) <= Generation(e.roles, r)
             /\ log[i].roles[r] # None /\ At(i, r) = Generation(e.roles, r) =>
                    log[i].roles[r].thread = e.roles[r].thread
             /\ Generation(e.roles, r) \in {At(Len(log), r), At(Len(log), r) + 1}
  <2>1. Len(log) \in 1 .. Len(log) /\ Roster = log[Len(log)].roles
    BY <1>1 DEF Roster
  <2>2. /\ At(i, r) <= At(Len(log), r)
        /\ log[i].roles[r] # None /\ At(i, r) = At(Len(log), r) =>
               log[i].roles[r].thread = Roster[r].thread
    BY <2>1 DEF RoutingInv, GenerationsGrow
  <2>3. Follows(e.roles, Roster) /\ Roster \in Rosters /\ log[i].roles \in Rosters
    BY <1>1, CheckedFollows, RosterTypes
  <2>4. Generation(Roster, r) = At(Len(log), r) /\ Generation(log[i].roles, r) = At(i, r)
    BY <2>1 DEF At
  <2>5. CASE /\ Roster[r] = None <=> e.roles[r] = None
             /\ Roster[r] # None => /\ e.roles[r].generation = Roster[r].generation
                                    /\ e.roles[r].thread = Roster[r].thread
    <3>1. Generation(e.roles, r) = At(Len(log), r)
      BY <2>4, <2>5 DEF Generation
    <3>2. log[i].roles[r] # None /\ At(i, r) = Generation(e.roles, r) => Roster[r] # None
      BY <1>1, <2>3, <2>4, <3>1, GenerationType
    <3> QED
      BY <2>2, <2>5, <3>1, <3>2
  <2>6. CASE e.roles[r] # None /\ e.roles[r].generation = Generation(Roster, r) + 1
    <3>1. Generation(e.roles, r) = At(Len(log), r) + 1
      BY <2>4, <2>6 DEF Generation
    <3>2. At(i, r) \in Nat /\ At(Len(log), r) \in Nat
      BY <1>3, <2>1
    <3> QED
      BY <2>2, <3>1, <3>2
  <2> QED
    BY <2>3, <2>5, <2>6 DEF Follows
<1>5. GenerationsGrow'
  <2>1. SUFFICES ASSUME NEW i \in 1 .. n, NEW j \in 1 .. n, NEW r \in Roles, i <= j
                 PROVE  /\ At(i, r)' <= At(j, r)'
                        /\ log'[i].roles[r] # None /\ At(i, r)' = At(j, r)' =>
                               log'[i].roles[r].thread = log'[j].roles[r].thread
    BY <1>2 DEF GenerationsGrow
  <2>2. CASE j \in 1 .. Len(log)
    BY <1>2, <1>3, <2>1, <2>2 DEF RoutingInv, GenerationsGrow
  <2>3. CASE j = n /\ i = n
    BY <1>3, <2>3
  <2>4. CASE j = n /\ i \in 1 .. Len(log)
    BY <1>2, <1>3, <1>4, <2>4
  <2> QED
    BY <1>2, <2>1, <2>2, <2>3, <2>4
<1>6. NoGenerationIsSkipped'
  <2>1. SUFFICES ASSUME NEW j \in 1 .. n, NEW r \in Roles, NEW g \in 1 .. At(j, r)'
                 PROVE  \E i \in 1 .. j : At(i, r)' = g
    BY <1>2 DEF NoGenerationIsSkipped
  <2>2. CASE j \in 1 .. Len(log)
    <3>1. PICK i \in 1 .. j : At(i, r) = g
      BY <1>3, <2>1, <2>2 DEF RoutingInv, NoGenerationIsSkipped
    <3> QED
      BY <1>3, <2>2, <3>1
  <2>3. CASE j = n /\ g = Generation(e.roles, r)
    BY <1>2, <1>3, <2>3
  <2>4. CASE j = n /\ g # Generation(e.roles, r)
    <3>1. g \in 1 .. Generation(e.roles, r) - 1
      BY <1>3, <2>1, <2>4
    <3>2. Len(log) \in 1 .. Len(log)
      <4>1. CASE Len(log) = 0
        <5>1. Roster[r] = None
          BY <4>1 DEF Roster
        <5>2. Generation(e.roles, r) \in {0, 1}
          BY <1>1, <5>1, CheckedFollows DEF Follows, Generation
        <5> QED
          BY <3>1, <5>2
      <4>2. CASE Len(log) # 0
        BY <1>1, <4>2
      <4> QED
        BY <4>1, <4>2
    <3>3. g \in 1 .. At(Len(log), r)
      BY <1>3, <1>4, <3>1, <3>2
    <3>4. PICK i \in 1 .. Len(log) : At(i, r) = g
      BY <3>2, <3>3 DEF RoutingInv, NoGenerationIsSkipped
    <3> QED
      BY <1>2, <1>3, <2>4, <3>4
  <2> QED
    BY <1>2, <2>1, <2>2, <2>3, <2>4
<1> QED
  BY <1>5, <1>6

\* The activation whose receipt is written is the first of its family: an
\* earlier one has taken its role beyond what its package was made of.
LEMMA FirstOfItsFamily ==
    ASSUME CentralInv, RoutingInv, NEW e \in Entries, StillChecked(e), e.op = "ACTIVATE",
           Len(log) = revision, NEW i \in 1 .. Len(log), log[i].op = "ACTIVATE"
    PROVE  packages[log[i].by].origin # packages[e.by].origin
<1> DEFINE p == packages[e.by]
           q == packages[log[i].by]
<1>1. SUFFICES ASSUME q.origin = p.origin PROVE FALSE
  OBVIOUS
<1>2. /\ e.by \in Handovers /\ p # None /\ p \in Packages /\ SourceUnchanged(p)
      /\ log[i].by \in Handovers /\ q # None
  BY DEF StillChecked, Activates, RoutingInv, ActivationsStand, CentralInv, RoutingTypeOK
<1>3. Family(p) = Family(q)
  BY <1>1, <1>2 DEF RoutingInv, PackagesStand
<1>4. p.role = q.role /\ p.target = q.target /\ p.role \in Roles
  BY <1>2, <1>3 DEF Family, Packages
<1>5. At(i, p.role) = p.target
  BY <1>4 DEF RoutingInv, ActivationsStand
<1>6. /\ revision \in 1 .. Len(log) /\ Roster = log[revision].roles
      /\ revision \in Nat
  BY DEF Roster, CentralInv, RoutingTypeOK
<1>7. At(i, p.role) <= At(revision, p.role) /\ At(revision, p.role) = Generation(Roster, p.role)
  BY <1>4, <1>6 DEF RoutingInv, GenerationsGrow, At
<1>8. p.target = Generation(Roster, p.role) + 1
  BY <1>2 DEF RoutingInv, PackagesStand, SourceUnchanged, SourceRole, Generation
<1>9. Generation(Roster, p.role) \in Nat
  BY <1>4, RosterTypes, GenerationType
<1> QED
  BY <1>5, <1>7, <1>8, <1>9

LEMMA AppendActivation ==
    ASSUME CentralInv, RoutingInv, NEW e \in Entries, StillChecked(e),
           Len(log) = revision, log' = Append(log, e), UNCHANGED packages
    PROVE  ActivationsStand' /\ FamiliesActivateOnce'
<1>1. log \in Seq(Entries)
  BY DEF CentralInv, RoutingTypeOK
<1> PICK n \in Nat : n = Len(log) + 1
  BY <1>1
<1>2. /\ Len(log') = n /\ 1 .. n = (1 .. Len(log)) \cup {n} /\ n \notin 1 .. Len(log)
      /\ \A i \in 1 .. Len(log) : log'[i] = log[i]
      /\ log'[n] = e
  BY <1>1
<1>3. ActivationsStand'
  <2>1. SUFFICES ASSUME NEW i \in 1 .. n, log'[i].op = "ACTIVATE"
                 PROVE  LET h == log'[i].by
                        IN  /\ h \in Handovers /\ packages[h] # None
                            /\ log'[i].roles[packages[h].role] # None
                            /\ Generation(log'[i].roles, packages[h].role) = packages[h].target
    BY <1>2 DEF ActivationsStand, At, Generation
  <2>2. CASE i \in 1 .. Len(log)
    BY <1>2, <2>1, <2>2 DEF RoutingInv, ActivationsStand, At
  <2>3. CASE i = n
    <3> DEFINE p == packages[e.by]
    <3>1. e.by \in Handovers /\ p # None /\ p \in Packages
      BY <1>2, <2>1, <2>3 DEF StillChecked, Activates, CentralInv, RoutingTypeOK
    <3>2. PICK s \in Threads, m \in Models :
              e.roles = [Roster EXCEPT ![p.role] =
                            [generation |-> p.target, thread |-> s, model |-> m,
                             handover |-> e.by]]
      BY <1>2, <2>1, <2>3 DEF StillChecked, Activates
    <3>3. p.role \in Roles /\ p.target \in Nat \ {0}
      BY <3>1 DEF Packages
    <3>4. e.roles[p.role] \in RoleRecords /\ e.roles[p.role].generation = p.target
      BY <3>1, <3>2, <3>3, RosterTypes DEF Rosters, RoleRecords
    <3> QED
      BY <1>2, <2>3, <3>1, <3>4, NoneIsNoFile DEF Generation
  <2> QED
    BY <1>2, <2>2, <2>3
<1>4. FamiliesActivateOnce'
  <2>1. SUFFICES ASSUME NEW i \in 1 .. n, NEW j \in 1 .. n,
                        log'[i].op = "ACTIVATE", log'[j].op = "ACTIVATE",
                        packages[log'[i].by].origin = packages[log'[j].by].origin
                 PROVE  i = j
    BY <1>2 DEF FamiliesActivateOnce
  <2>2. CASE i \in 1 .. Len(log) /\ j \in 1 .. Len(log)
    BY <1>2, <2>1, <2>2 DEF RoutingInv, FamiliesActivateOnce
  <2>3. CASE i \in 1 .. Len(log) /\ j = n
    BY <1>2, <2>1, <2>3, FirstOfItsFamily
  <2>4. CASE j \in 1 .. Len(log) /\ i = n
    BY <1>2, <2>1, <2>4, FirstOfItsFamily
  <2> QED
    BY <1>2, <2>2, <2>3, <2>4
<1> QED
  BY <1>3, <1>4

LEMMA ReceiptStep ==
    ASSUME CentralInv, RoutingInv, WriteReceipt
    PROVE  RoutingInv'
<1>1. committing # None /\ committing \in Commits /\ committing.entry \in Entries
  BY DEF WriteReceipt, CentralInv, RoutingTypeOK, Commits
<1> PICK e \in Entries : e = committing.entry
  BY <1>1
<1>2. /\ UNCHANGED <<revision, packages, writes>> /\ MayWriteReceipt(e)
      /\ committing'.entry = e
      /\ log' = IF PendingReceipt THEN log ELSE Append(log, e)
  BY <1>1 DEF WriteReceipt, handoverVars, Commits
<1>3. StillChecked(e) /\ log \in Seq(Entries) /\ revision \in 0 .. Len(log)
      /\ Len(log) <= revision + 1
  BY <1>1 DEF RoutingInv, CommitStands, CentralInv, RoutingTypeOK
<1>4. PackagesStand'
  BY <1>2 DEF RoutingInv, PackagesStand, Family
<1>5. Len(log') = revision + 1 /\ log'[Len(log')] = e /\ \A i \in 1 .. revision : log'[i] = log[i]
  <2>1. CASE PendingReceipt
    BY <1>2, <1>3, <2>1 DEF PendingReceipt, MayWriteReceipt
  <2>2. CASE ~PendingReceipt
    BY <1>2, <1>3, <2>2 DEF PendingReceipt
  <2> QED
    BY <2>1, <2>2
<1>6. CommitStands'
  <2>1. StillChecked(e)'
    BY <1>2, <1>3, <1>5, CheckedStays
  <2>2. StillChecked(committing.entry)'
    BY <1>2, <2>1
  <2> QED
    BY <1>2, <1>5, <2>2 DEF CommitStands
<1>7. GenerationsGrow' /\ NoGenerationIsSkipped' /\ ActivationsStand' /\ FamiliesActivateOnce'
  <2>1. CASE PendingReceipt
    BY <1>2, <2>1, LineStays DEF RoutingInv, ActivationsStand, FamiliesActivateOnce, At, Generation
  <2>2. CASE ~PendingReceipt
    <3>1. Len(log) = revision /\ log' = Append(log, e)
      BY <1>2, <1>3, <2>2 DEF PendingReceipt
    <3> QED
      BY <1>2, <1>3, <3>1, AppendStep, AppendActivation
  <2> QED
    BY <2>1, <2>2
<1> QED
  BY <1>4, <1>6, <1>7 DEF RoutingInv

LEMMA EndStep ==
    ASSUME CentralInv, RoutingInv, Publish \/ Abandon
    PROVE  RoutingInv'
<1>1. UNCHANGED <<log, packages>> /\ committing' = None
  BY DEF Publish, Abandon, handoverVars
<1>2. Len(log) <= revision' + 1
  BY DEF Publish, Abandon, RoutingInv, CommitStands, CentralInv, RoutingTypeOK
<1>3. CommitStands'
  BY <1>1, <1>2 DEF CommitStands
<1> QED
  BY <1>1, <1>3, LineStays DEF RoutingInv, PackagesStand, ActivationsStand, FamiliesActivateOnce,
     At, Generation, Family

LEMMA RoutingInvStep ==
    ASSUME CentralInv, RoutingInv, [Next]_vars
    PROVE  RoutingInv'
<1>1. CASE LedgerStep
  BY <1>1, RoutingStays DEF LedgerStep, routingVars, handoverVars
<1>2. CASE BridgeNext
  <2>1. UNCHANGED <<log, revision, committing, packages, writes>>
    BY <1>2 DEF BridgeNext, SubmitEvent, AcknowledgeEvent, Notify, Command, RecordDelivery,
       Acknowledge, RecordResult, Enqueue, Checked, Finish, Interrupt, Leave, routingVars,
       handoverVars
  <2> QED
    BY <2>1, RoutingStays
<1>3. CASE UNCHANGED vars
  BY <1>3, RoutingStays DEF vars, centralVars, routingVars, handoverVars
<1>4. CASE RoutingNext
  <2>1. CASE WriteReceipt \/ Publish \/ Abandon
    BY <2>1, ReceiptStep, EndStep
  <2>2. ASSUME NEW h \in Handovers, RecordReadback(h) \/ RecordOpened(h) \/ PersistActivation(h)
        PROVE  RoutingInv'
    BY <2>2, RoutingStays DEF RecordReadback, RecordOpened, PersistActivation, routingVars
  <2>3. ASSUME NEW h \in Handovers, NEW c \in Threads, PrepareSuccessor(c, h)
        PROVE  RoutingInv'
    BY <2>3, RoutingStays DEF PrepareSuccessor, routingVars
  <2>4. ASSUME NEW h \in Handovers, NEW c \in Threads, NEW s \in Threads,
               RecordSuccessor(c, h, s)
        PROVE  RoutingInv'
    BY <2>4, RoutingStays DEF RecordSuccessor, routingVars
  <2>5. ASSUME NEW h \in Handovers, NEW r \in Roles, NEW b \in BOOLEAN, PrepareHandover(h, r, b)
        PROVE  RoutingInv'
    BY <2>5, PackagesStep
  <2>6. ASSUME NEW h \in Handovers, NEW c \in Threads, NEW new \in Handovers,
               RefreshHandover(c, h, new)
        PROVE  RoutingInv'
    BY <2>6, PackagesStep
  <2>7. ASSUME NEW c \in Threads, NEW m \in Models \cup {None}, Initialize(c, m)
        PROVE  RoutingInv'
    BY <2>7, BeginsStep
  <2>8. ASSUME NEW c \in Threads, NEW m \in Models, RecordModel(c, m)
        PROVE  RoutingInv'
    BY <2>8, BeginsStep
  <2>9. ASSUME NEW h \in Handovers, NEW s \in Threads, NEW m \in Models, Activate(h, s, m)
        PROVE  RoutingInv'
    BY <2>9, BeginsStep
  <2> QED
    BY <1>4, <2>1, <2>2, <2>3, <2>4, <2>5, <2>6, <2>7, <2>8, <2>9 DEF RoutingNext
<1> QED
  BY <1>1, <1>2, <1>3, <1>4 DEF Next

LEMMA RoutingInvAlways == Spec => []RoutingInv
<1>1. Init => RoutingInv
  BY RoutingStarts DEF Init
<1> QED
  BY <1>1, RoutingInvStep, CentralInvAlways, PTL DEF Spec

\* "G2" is one window: two routings that give a role in the same generation
\* give it to the same thread, also behind routing.json (commit_routing).
THEOREM GenerationsHaveOneThreadAlways == Spec => []GenerationsHaveOneThread
<1>1. ASSUME CentralInv, RoutingInv
      PROVE  GenerationsHaveOneThread
  <2>1. SUFFICES ASSUME NEW i \in 1 .. Len(log), NEW j \in 1 .. Len(log), NEW r \in Roles,
                        log[i].roles[r] # None, log[j].roles[r] # None,
                        log[i].roles[r].generation = log[j].roles[r].generation
                 PROVE  log[i].roles[r].thread = log[j].roles[r].thread
    BY DEF GenerationsHaveOneThread
  <2>2. At(i, r) = At(j, r)
    BY <2>1 DEF At, Generation
  <2>3. i <= j \/ j <= i
    BY <1>1 DEF CentralInv, RoutingTypeOK
  <2> QED
    BY <1>1, <2>1, <2>2, <2>3 DEF RoutingInv, GenerationsGrow
<1> QED
  BY <1>1, CentralInvAlways, RoutingInvAlways, PTL

\* A package and everything refreshed from it activate once, whatever is killed
\* and retried (activate_successor).
THEOREM FamiliesActivateOnceAlways == Spec => []FamiliesActivateOnce
<1>1. RoutingInv => FamiliesActivateOnce
  BY DEF RoutingInv
<1> QED
  BY <1>1, RoutingInvAlways, PTL

\* Only the end of a commit that has its receipt changes routing.json.
LEMMA PublishOnly ==
    ASSUME [Next]_vars, revision' # revision
    PROVE  Publish /\ UNCHANGED <<log, ledgerVars>>
<1>1. CASE RoutingNext /\ UNCHANGED ledgerVars
  <2>1. Publish
    BY <1>1 DEF RoutingNext, WriteReceipt, Abandon, Initialize, RecordModel, Activate, Begin,
       PrepareHandover, RefreshHandover, PrepareSuccessor, RecordSuccessor, RecordReadback,
       RecordOpened, PersistActivation, routingVars
  <2> QED
    BY <1>1, <2>1 DEF Publish
<1>2. CASE BridgeNext
  BY <1>2 DEF BridgeNext, SubmitEvent, AcknowledgeEvent, Notify, Command, RecordDelivery,
     Acknowledge, RecordResult, Enqueue, Checked, Finish, Interrupt, Leave, routingVars
<1> QED
  BY <1>1, <1>2 DEF Next, vars, centralVars, LedgerStep, routingVars

\* What the successor has read is what it takes over: from its package to the
\* moment routing.json names it, ledger and routing stand still.
THEOREM NothingSlipsThroughAlways == Spec => NothingSlipsThrough
<1>1. ASSUME CentralInv, RoutingInv, [Next]_vars
      PROVE  \A h \in Handovers :
                revision' # revision /\ log[Len(log)].op = "ACTIVATE" /\ log[Len(log)].by = h =>
                    /\ packages[h].snapshot.writes = writes
                    /\ packages[h].snapshot.revision = revision
  <2>1. SUFFICES ASSUME NEW h \in Handovers, revision' # revision,
                        log[Len(log)].op = "ACTIVATE", log[Len(log)].by = h
                 PROVE  /\ packages[h].snapshot.writes = writes
                        /\ packages[h].snapshot.revision = revision
    OBVIOUS
  <2>2. committing # None /\ committing.written
    BY <1>1, <2>1, PublishOnly DEF Publish
  <2>3. StillChecked(committing.entry) /\ committing.entry = log[Len(log)]
    BY <1>1, <2>2 DEF RoutingInv, CommitStands
  <2> QED
    BY <2>1, <2>3 DEF StillChecked, Activates
<1>2. CentralInv /\ RoutingInv /\ [Next]_vars =>
          [\A h \in Handovers :
              revision' # revision /\ log[Len(log)].op = "ACTIVATE" /\ log[Len(log)].by = h =>
                  /\ packages[h].snapshot.writes = writes
                  /\ packages[h].snapshot.revision = revision]_vars
  BY <1>1
<1> QED
  BY <1>2, CentralInvAlways, RoutingInvAlways, PTL DEF NothingSlipsThrough, Spec

-----------------------------------------------------------------------------
(* The roles pass from holder to holder. *)

\* The lines that Coordination tells of are those of the routings in force.
LineFollowsLog ==
    \A r \in Roles :
        /\ Line(r) \in Seq(Threads)
        /\ Len(Line(r)) = Generation(Roster, r)
        /\ \A i \in 1 .. revision : log[i].roles[r] # None =>
               /\ At(i, r) \in 1 .. Len(Line(r))
               /\ Line(r)[At(i, r)] = log[i].roles[r].thread
        /\ \A g \in 1 .. Len(Line(r)) : \E i \in 1 .. revision :
               log[i].roles[r] # None /\ At(i, r) = g

\* Each generation was reached, and by one thread only.
LEMMA GenerationsNameThreads ==
    ASSUME CentralInv, RoutingInv, NEW r \in Roles, NEW g \in 1 .. Generation(Roster, r)
    PROVE  \E s \in Threads : \E i \in 1 .. revision :
               /\ log[i].roles[r] # None /\ log[i].roles[r].generation = g
               /\ log[i].roles[r].thread = s /\ At(i, r) = g
<1>1. Roster[r] # None
  BY DEF Generation
<1>2. revision \in 1 .. Len(log) /\ Roster = log[revision].roles
  BY <1>1, HoldersNeedRouting
<1>3. PICK i \in 1 .. revision : At(i, r) = g
  BY <1>2 DEF RoutingInv, NoGenerationIsSkipped, At
<1>4. log[i] \in Entries
  BY <1>2 DEF CentralInv, RoutingTypeOK
<1>5. log[i].roles[r] \in RoleRecords /\ log[i].roles[r].generation = g
  BY <1>3, <1>4 DEF Entries, Rosters, At, Generation
<1> QED
  BY <1>3, <1>5, NoneIsNoFile DEF RoleRecords

LEMMA LineFollows == CentralInv /\ RoutingInv => LineFollowsLog
<1> SUFFICES ASSUME CentralInv, RoutingInv, NEW r \in Roles
             PROVE  /\ Line(r) \in Seq(Threads)
                    /\ Len(Line(r)) = Generation(Roster, r)
                    /\ \A i \in 1 .. revision : log[i].roles[r] # None =>
                           /\ At(i, r) \in 1 .. Len(Line(r))
                           /\ Line(r)[At(i, r)] = log[i].roles[r].thread
                    /\ \A g \in 1 .. Len(Line(r)) : \E i \in 1 .. revision :
                           log[i].roles[r] # None /\ At(i, r) = g
  BY DEF LineFollowsLog
<1> DEFINE Holds(s, g) == \E i \in 1 .. revision : /\ log[i].roles[r] # None
                                                   /\ log[i].roles[r].generation = g
                                                   /\ log[i].roles[r].thread = s
           n == Generation(Roster, r)
<1>1. n \in Nat
  BY RosterTypes, GenerationType
<1>2. Line(r) = [g \in 1 .. n |-> CHOOSE s \in Threads : Holds(s, g)]
  BY DEF Line, Generation
<1>3. \A g \in 1 .. n : \E s \in Threads : Holds(s, g)
  BY GenerationsNameThreads
<1> HIDE DEF n
<1>4. \A g \in 1 .. n : Line(r)[g] \in Threads /\ Holds(Line(r)[g], g)
  <2>1. \A g \in 1 .. n : Line(r)[g] = CHOOSE s \in Threads : Holds(s, g)
    BY <1>2
  <2> HIDE DEF Holds
  <2> QED
    BY <1>3, <2>1
<1>5. Line(r) \in Seq(Threads) /\ Len(Line(r)) = n
  <2>1. Line(r) = [g \in 1 .. n |-> Line(r)[g]]
    BY <1>2
  <2> HIDE DEF Holds
  <2> DEFINE f == Line(r)
  <2>2. f \in [1 .. n -> Threads]
    BY <1>4, <2>1
  <2> HIDE DEF f
  <2>3. f \in Seq(Threads) /\ Len(f) = n
    BY <1>1, <2>2
  <2> QED
    BY <2>3 DEF f
<1>6. ASSUME NEW i \in 1 .. revision, log[i].roles[r] # None
      PROVE  At(i, r) \in 1 .. n /\ Line(r)[At(i, r)] = log[i].roles[r].thread
  <2>1. revision \in 1 .. Len(log) /\ log \in Seq(Entries)
    BY DEF CentralInv, RoutingTypeOK
  <2>2. i \in 1 .. Len(log) /\ log[i] \in Entries
    BY <2>1
  <2>3. log[i].roles[r] \in RoleRecords /\ At(i, r) = log[i].roles[r].generation
    BY <1>6, <2>2 DEF Entries, Rosters, At, Generation
  <2>4. At(i, r) \in Nat \ {0}
    BY <2>3 DEF RoleRecords
  <2>5. Roster = log[revision].roles /\ At(revision, r) = n
    BY <2>1 DEF Roster, At, n
  <2>6. At(i, r) \in 1 .. n
    BY <1>1, <2>1, <2>2, <2>4, <2>5 DEF RoutingInv, GenerationsGrow
  <2>7. PICK j \in 1 .. revision : /\ log[j].roles[r] # None
                                   /\ log[j].roles[r].generation = At(i, r)
                                   /\ log[j].roles[r].thread = Line(r)[At(i, r)]
    BY <1>4, <2>6
  <2>8. j \in 1 .. Len(log) /\ At(j, r) = At(i, r)
    BY <2>1, <2>7 DEF At, Generation
  <2>9. i <= j \/ j <= i
    BY <2>1
  <2>10. log[i].roles[r].thread = log[j].roles[r].thread
    BY <1>6, <2>2, <2>7, <2>8, <2>9 DEF RoutingInv, GenerationsGrow
  <2> QED
    BY <2>6, <2>7, <2>10
<1>7. \A g \in 1 .. n : \E i \in 1 .. revision : log[i].roles[r] # None /\ At(i, r) = g
  BY GenerationsNameThreads DEF n
<1> QED
  BY <1>5, <1>6, <1>7 DEF n

\* What a line says of its generations so far it goes on saying.
LEMMA LineGoesOn ==
    ASSUME CentralInv, LineFollowsLog, LineFollowsLog', revision <= revision', revision' \in Nat,
           \A i \in 1 .. revision : log'[i] = log[i], NEW r \in Roles, NEW g \in 1 .. Len(Line(r))
    PROVE  g \in 1 .. Len(Line(r)') /\ Line(r)'[g] = Line(r)[g]
<1>1. PICK i \in 1 .. revision : log[i].roles[r] # None /\ At(i, r) = g
  BY DEF LineFollowsLog
<1>2. Line(r)[g] = log[i].roles[r].thread
  BY <1>1 DEF LineFollowsLog
<1>3. At(i, r)' = g /\ log'[i] = log[i]
  BY <1>1 DEF At, Generation
<1>4. i \in 1 .. revision'
  BY DEF CentralInv, RoutingTypeOK
<1>5. g \in 1 .. Len(Line(r)') /\ Line(r)'[g] = log'[i].roles[r].thread
  BY <1>1, <1>3, <1>4 DEF LineFollowsLog
<1> QED
  BY <1>2, <1>3, <1>5

\* Once a routing is published, a line is what it was or one longer.
LEMMA LinePasses ==
    ASSUME CentralInv, LineFollowsLog, LineFollowsLog', UNCHANGED log,
           revision' = revision + 1, Len(log) = revision + 1,
           NEW r \in Roles, NEW e \in Entries, e = log[Len(log)]
    PROVE  /\ Generation(e.roles, r) = Generation(Roster, r) => Line(r)' = Line(r)
           /\ e.roles[r] # None /\ Generation(e.roles, r) = Generation(Roster, r) + 1 =>
                  Line(r)' = Append(Line(r), e.roles[r].thread)
<1> PICK k \in Nat : k = revision
  BY DEF CentralInv, RoutingTypeOK
<1>1. Roster' = e.roles /\ Generation(Roster, r)' = Generation(e.roles, r)
  BY DEF Roster, Generation
<1>2. /\ Line(r) \in Seq(Threads) /\ Len(Line(r)) = Generation(Roster, r)
      /\ Line(r)' \in Seq(Threads) /\ Len(Line(r)') = Generation(e.roles, r)
  BY <1>1 DEF LineFollowsLog
<1>3. \A g \in 1 .. Len(Line(r)) : Line(r)'[g] = Line(r)[g]
  BY LineGoesOn
<1>4. CASE Generation(e.roles, r) = Generation(Roster, r)
  BY <1>2, <1>3, <1>4, SeqEqual
<1>5. CASE e.roles[r] # None /\ Generation(e.roles, r) = Generation(Roster, r) + 1
  <2>1. Line(r)'[Generation(e.roles, r)] = e.roles[r].thread
    <3>1. k + 1 \in 1 .. revision' /\ log'[k + 1] = e
      BY DEF CentralInv, RoutingTypeOK
    <3>2. At(k + 1, r)' = Generation(e.roles, r)
      BY <3>1 DEF At, Generation
    <3> QED
      BY <1>5, <3>1, <3>2 DEF LineFollowsLog
  <2>2. e.roles[r].thread \in Threads
    BY <1>5 DEF Entries, Rosters, RoleRecords
  <2> QED
    BY <1>2, <1>3, <1>5, <2>1, <2>2, SeqEqual
<1> QED
  BY <1>4, <1>5

\* What is published stays: the log is extended behind it, if at all.
LEMMA LogRemains ==
    ASSUME CentralInv, [Next]_vars
    PROVE  /\ revision \in Nat /\ revision' \in Nat /\ revision <= revision'
           /\ \A i \in 1 .. revision : log'[i] = log[i]
<1>1. log \in Seq(Entries) /\ revision \in 0 .. Len(log)
  BY DEF CentralInv, RoutingTypeOK
<1>2. log' = log \/ (WriteReceipt /\ log' = Append(log, committing.entry))
  BY DEF Next, vars, centralVars, LedgerStep, routingVars, RoutingNext, WriteReceipt, Publish,
     Abandon, Initialize, RecordModel, Activate, Begin, PrepareHandover, RefreshHandover,
     PrepareSuccessor, RecordSuccessor, RecordReadback, RecordOpened, PersistActivation,
     BridgeNext, SubmitEvent, AcknowledgeEvent, Notify, Command, RecordDelivery, Acknowledge,
     RecordResult, Enqueue, Checked, Finish, Interrupt, Leave
<1>3. revision' = revision \/ revision' = Len(log)
  BY PublishOnly DEF Publish
<1> QED
  BY <1>1, <1>2, <1>3

\* Nothing but a publication changes a line.
LEMMA LinesRest ==
    ASSUME CentralInv, LineFollowsLog, LineFollowsLog', [Next]_vars, revision' = revision,
           NEW r \in Roles
    PROVE  Line(r)' = Line(r)
<1>1. revision \in Nat /\ \A i \in 1 .. revision : log'[i] = log[i]
  BY LogRemains
<1>2. Roster' = Roster
  BY <1>1 DEF Roster
<1>3. Generation(Roster, r)' = Generation(Roster, r)
  BY <1>2 DEF Generation
<1>4. /\ Line(r) \in Seq(Threads) /\ Line(r)' \in Seq(Threads)
      /\ Len(Line(r)') = Len(Line(r))
  BY <1>3 DEF LineFollowsLog
<1>5. \A g \in 1 .. Len(Line(r)) : Line(r)'[g] = Line(r)[g]
  BY <1>1, LineGoesOn
<1> QED
  BY <1>4, <1>5, SeqEqual

\* Lines are the holders: the last of each is in force.
LEMMA LastHolds ==
    ASSUME CentralInv, LineFollowsLog, NEW r \in Roles
    PROVE  /\ Line(r) # <<>> <=> Roster[r] # None
           /\ Line(r) # <<>> => Line(r)[Len(Line(r))] = Roster[r].thread
<1>1. Line(r) \in Seq(Threads) /\ Len(Line(r)) = Generation(Roster, r)
  BY DEF LineFollowsLog
<1>2. Line(r) # <<>> <=> Roster[r] # None
  BY <1>1, RosterTypes, GenerationType
<1>3. ASSUME Roster[r] # None
      PROVE  Line(r)[Len(Line(r))] = Roster[r].thread
  <2>1. revision \in 1 .. revision /\ Roster = log[revision].roles
    BY <1>3, HoldersNeedRouting
  <2>2. At(revision, r) = Len(Line(r))
    BY <1>1, <2>1 DEF At
  <2> QED
    BY <1>3, <2>1, <2>2 DEF LineFollowsLog
<1> QED
  BY <1>2, <1>3

\* A publication hands one role on, or none.
LEMMA PublishPasses ==
    ASSUME CentralInv, RoutingInv, LineFollowsLog, LineFollowsLog', [Next]_vars,
           revision' # revision
    PROVE  \/ \A r \in Roles : Line(r)' = Line(r)
           \/ \E s \in Threads :
                 /\ Line("CURRENT_CENTRAL") = <<>>
                 /\ \A r \in Roles : Line(r)' = IF r = "CURRENT_CENTRAL" THEN <<s>> ELSE Line(r)
           \/ \E q \in Roles, s \in Threads :
                 /\ Line("CURRENT_CENTRAL") # <<>>
                 /\ \A r \in Roles : Roster[r] # None => Roster[r].thread # s
                 /\ \A r \in Roles : Line(r)' = IF r = q THEN Append(Line(r), s) ELSE Line(r)
<1>1. /\ committing # None /\ committing.written /\ revision' = Len(log) /\ UNCHANGED log
      /\ Len(log) = revision + 1 /\ log[Len(log)] = committing.entry
      /\ StillChecked(committing.entry)
  BY PublishOnly DEF Publish, RoutingInv, CommitStands
<1> PICK e \in Entries : e = committing.entry
  BY <1>1 DEF CentralInv, RoutingTypeOK, Commits
<1>2. StillChecked(e) /\ e = log[Len(log)] /\ Roster \in Rosters /\ e.roles \in Rosters
  BY <1>1, RosterTypes DEF Entries
<1>3. \A r \in Roles :
          /\ Generation(e.roles, r) = Generation(Roster, r) => Line(r)' = Line(r)
          /\ e.roles[r] # None /\ Generation(e.roles, r) = Generation(Roster, r) + 1 =>
                 Line(r)' = Append(Line(r), e.roles[r].thread)
  BY <1>1, <1>2, LinePasses
<1>4. \A r \in Roles : e.roles[r] = Roster[r] => Line(r)' = Line(r)
  BY <1>3 DEF Generation
<1>5. CASE Initializes(e)
  <2>1. PICK c \in Threads, m \in Models \cup {None} :
            e.roles = [r \in Roles |-> IF r = "CURRENT_CENTRAL"
                                       THEN [generation |-> 1, thread |-> c, model |-> m,
                                             handover |-> None]
                                       ELSE None]
    BY <1>5 DEF Initializes
  <2>2. \A r \in Roles : Roster[r] = None /\ Line(r) = <<>>
    BY <1>5, LastHolds DEF Initializes, Roster
  <2>3. /\ e.roles["CURRENT_CENTRAL"] \in RoleRecords
        /\ Generation(e.roles, "CURRENT_CENTRAL") = 1
        /\ e.roles["CURRENT_CENTRAL"].thread = c
    BY <2>1, NoneIsNoFile DEF Generation, Roles, RoleRecords
  <2>4. Generation(Roster, "CURRENT_CENTRAL") = 0
    BY <2>2 DEF Generation, Roles
  <2> PICK z \in Roles : z = "CURRENT_CENTRAL"
    BY DEF Roles
  <2>5. Line(z)' = <<c>>
    <3>1. e.roles[z] # None /\ Generation(e.roles, z) = Generation(Roster, z) + 1
      BY <2>3, <2>4, NoneIsNoFile
    <3>2. Line(z)' = Append(<<>>, c)
      BY <1>3, <2>2, <2>3, <3>1
    <3> QED
      BY <3>2
  <2>6. \A r \in Roles : r # "CURRENT_CENTRAL" => Line(r)' = Line(r)
    BY <1>4, <2>1, <2>2
  <2> QED
    BY <2>2, <2>5, <2>6 DEF Roles
<1>6. CASE RecordsModel(e)
  <2>1. PICK m \in Models : e.roles = [Roster EXCEPT !["CURRENT_CENTRAL"].model = m]
    BY <1>6 DEF RecordsModel
  <2>2. Roster["CURRENT_CENTRAL"] \in RoleRecords
    BY <1>6, RosterTypes DEF RecordsModel, CentralInv, RoutingTypeOK
  <2>3. \A r \in Roles : r # "CURRENT_CENTRAL" => e.roles[r] = Roster[r]
    BY <1>2, <2>1 DEF Rosters
  <2>4. /\ e.roles["CURRENT_CENTRAL"] \in RoleRecords
        /\ e.roles["CURRENT_CENTRAL"].generation = Roster["CURRENT_CENTRAL"].generation
    BY <1>2, <2>1, <2>2 DEF Rosters, RoleRecords, Roles
  <2>5. Generation(e.roles, "CURRENT_CENTRAL") = Generation(Roster, "CURRENT_CENTRAL")
    BY <2>2, <2>4, NoneIsNoFile DEF Generation
  <2> QED
    BY <1>3, <1>4, <2>3, <2>5
<1>7. CASE Activates(e)
  <2> DEFINE p == packages[e.by]
  <2>1. /\ p \in Packages /\ SourceUnchanged(p) /\ p.role \in Roles /\ p.target \in Nat \ {0}
        /\ p.snapshot.revision = revision /\ SourceRole(p) \in Roles
    BY <1>7 DEF Activates, CentralInv, RoutingTypeOK, Packages, SourceRole, Roles
  <2>2. PICK s \in Threads, m \in Models :
            /\ HeldNoRole(p, s)
            /\ e.roles = [Roster EXCEPT ![p.role] =
                             [generation |-> p.target, thread |-> s, model |-> m,
                              handover |-> e.by]]
    BY <1>7 DEF Activates
  <2>3. revision \in 1 .. Len(log) /\ Roster = log[revision].roles
    BY <2>1, HoldersNeedRouting DEF SourceUnchanged
  <2>4. \A r \in Roles : Roster[r] # None => Roster[r].thread # s
    BY <2>1, <2>2, <2>3 DEF HeldNoRole
  <2>5. \A r \in Roles : r # p.role => e.roles[r] = Roster[r]
    BY <1>2, <2>1, <2>2 DEF Rosters
  <2>6. /\ e.roles[p.role] # None /\ e.roles[p.role].generation = p.target
        /\ e.roles[p.role].thread = s
    BY <1>2, <1>7, <2>1, <2>2, NoneIsNoFile DEF Rosters, RoleRecords, Activates
  <2>7. p.target = Generation(Roster, p.role) + 1
    BY <1>7, <2>1 DEF Activates, RoutingInv, PackagesStand, SourceUnchanged, SourceRole, Generation
  <2> PICK q \in Roles : q = p.role
    BY <2>1
  <2>8. Line(q)' = Append(Line(q), s)
    <3>1. Generation(e.roles, q) = Generation(Roster, q) + 1
      BY <2>6, <2>7 DEF Generation
    <3> QED
      BY <1>3, <2>6, <3>1
  <2>9. Line("CURRENT_CENTRAL") # <<>>
    BY <2>3, LastHolds DEF CentralInv, CentreIsNamed, Roles
  <2>10. \A r \in Roles : Line(r)' = IF r = q THEN Append(Line(r), s) ELSE Line(r)
    BY <1>4, <2>5, <2>8
  <2> QED
    BY <2>4, <2>9, <2>10
<1> QED
  BY <1>2, <1>5, <1>6, <1>7 DEF StillChecked

Lines == [r \in Roles |-> Line(r)]

LEMMA LinesStep ==
    ASSUME CentralInv, RoutingInv, LineFollowsLog, LineFollowsLog', [Next]_vars
    PROVE  [Line_!Next]_Lines
<1>1. CASE \A r \in Roles : Line(r)' = Line(r)
  BY <1>1 DEF Lines
<1>2. ASSUME NEW s \in Threads, Line("CURRENT_CENTRAL") = <<>>,
             \A r \in Roles : Line(r)' = IF r = "CURRENT_CENTRAL" THEN <<s>> ELSE Line(r)
      PROVE  Line_!Next
  <2>1. Line_!Open(s)
    BY <1>2 DEF Line_!Open, Roles
  <2> QED
    BY <2>1 DEF Line_!Next
<1>3. ASSUME NEW q \in Roles, NEW s \in Threads, Line("CURRENT_CENTRAL") # <<>>,
             \A r \in Roles : Roster[r] # None => Roster[r].thread # s,
             \A r \in Roles : Line(r)' = IF r = q THEN Append(Line(r), s) ELSE Line(r)
      PROVE  Line_!Next
  <2>1. s \notin Line_!Holders
    BY <1>3, LastHolds DEF Line_!Holders
  <2>2. Line_!Succeed(q, s)
    BY <1>3, <2>1 DEF Line_!Succeed, Roles
  <2> QED
    BY <2>2 DEF Line_!Next
<1> QED
  BY <1>1, <1>2, <1>3, LinesRest, PublishPasses

\* Each role has one line of holders, one after the other, whatever commands
\* are killed between receipt and routing file and whoever retries them
\* (commit_routing, activate_successor): Coordination implements Succession.
THEOREM RolesPassOnAlways == Spec => RolesPassOn
<1>1. Init => Line_!Init
  BY DEF Init, CentralInit, Line_!Init, Line, Roster
<1>2. Spec => []LineFollowsLog
  BY LineFollows, CentralInvAlways, RoutingInvAlways, PTL
<1>3. CentralInv /\ RoutingInv /\ LineFollowsLog /\ LineFollowsLog' /\ [Next]_vars =>
          [Line_!Next]_Lines
  BY LinesStep
<1> QED
  BY <1>1, <1>2, <1>3, CentralInvAlways, RoutingInvAlways, PTL
  DEF Spec, RolesPassOn, Line_!Spec, Lines

\* Whoever takes a role holds none, so no two roles have the same holder.
HoldersDiffer ==
    /\ Lines["CURRENT_CENTRAL"] = <<>> => \A r \in Roles : Lines[r] = <<>>
    /\ \A q, r \in Roles :
          q # r /\ Lines[q] # <<>> /\ Lines[r] # <<>> =>
              Lines[q][Len(Lines[q])] # Lines[r][Len(Lines[r])]

LEMMA HoldersDifferStep ==
    ASSUME LineFollowsLog, HoldersDiffer, [Line_!Next]_Lines
    PROVE  HoldersDiffer'
<1>1. CASE UNCHANGED Lines
  BY <1>1 DEF HoldersDiffer
<1>2. ASSUME NEW s \in Threads, Line_!Open(s)
      PROVE  HoldersDiffer'
  <2>1. /\ \A r \in Roles : Lines[r] = <<>>
        /\ \A r \in Roles : Lines'[r] = IF r = "CURRENT_CENTRAL" THEN <<s>> ELSE <<>>
    BY <1>2 DEF Line_!Open, HoldersDiffer, Lines, Roles
  <2> QED
    BY <2>1 DEF HoldersDiffer, Roles
<1>3. ASSUME NEW p \in Roles, NEW s \in Threads, Line_!Succeed(p, s)
      PROVE  HoldersDiffer'
  <2>1. /\ Lines["CURRENT_CENTRAL"] # <<>>
        /\ \A r \in Roles : Lines[r] # <<>> => Lines[r][Len(Lines[r])] # s
        /\ \A r \in Roles : Lines'[r] = IF r = p THEN Append(Lines[r], s) ELSE Lines[r]
    BY <1>3 DEF Line_!Succeed, Line_!Holders, Lines, Roles
  <2>2. \A r \in Roles : Lines[r] \in Seq(Threads)
    BY DEF LineFollowsLog, Lines
  <2>3. /\ Append(Lines[p], s) # <<>>
        /\ Append(Lines[p], s)[Len(Append(Lines[p], s))] = s
    BY <2>2
  <2> QED
    BY <2>1, <2>3 DEF HoldersDiffer, Roles
<1> QED
  BY <1>1, <1>2, <1>3 DEF Line_!Next, Lines

\* The centre is never its own adjudicator: what Succession promises of its
\* lines holds of the roles in routing.json (validate_activation, which looks at
\* the routing of the package only).
THEOREM NobodyHoldsTwoRolesAlways == Spec => []NobodyHoldsTwoRoles
<1>1. Line_!Init => HoldersDiffer
  BY DEF Line_!Init, HoldersDiffer, Lines, Roles
<1>2. Spec => []LineFollowsLog
  BY LineFollows, CentralInvAlways, RoutingInvAlways, PTL
<1>3. LineFollowsLog /\ HoldersDiffer /\ [Line_!Next]_Lines => HoldersDiffer'
  BY HoldersDifferStep
<1>4. Spec => []HoldersDiffer
  BY <1>1, <1>2, <1>3, RolesPassOnAlways, PTL DEF RolesPassOn, Line_!Spec, Lines
<1>5. ASSUME CentralInv, LineFollowsLog, HoldersDiffer
      PROVE  NobodyHoldsTwoRoles
  BY <1>5, LastHolds DEF HoldersDiffer, NobodyHoldsTwoRoles, Lines
<1> QED
  BY <1>2, <1>4, <1>5, CentralInvAlways, PTL

-----------------------------------------------------------------------------
(* Who acknowledges. *)

\* What an acknowledgement of an event says of the centre is what was published.
AckStands(a) ==
    /\ a.revision \in 1 .. revision
    /\ LET centre == log[a.revision].roles["CURRENT_CENTRAL"]
       IN  centre.thread = a.by /\ centre.generation = a.generation

HasBeenCentre(s) == \E i \in 1 .. revision : log[i].roles["CURRENT_CENTRAL"].thread = s

\* s may answer for message m.
AnswerStands(m, s) == m \in whole /\ (envelopes[m].kind \in ToCentral => HasBeenCentre(s))

\* It was so when the command was checked, and it is when it writes.
AnswersStand ==
    /\ \A e \in Events : eventAcks[e] # None => AckStands(eventAcks[e])
    /\ \A c \in pending : c.op = "ACK_EVENT" => AckStands(c.ack)
    /\ \A m \in Letters : acks[m] # None => AnswerStands(m, acks[m])
    /\ \A c \in pending : c.op = "ACK" => AnswerStands(c.letter, c.by)

\* A message that is there stays as it is.
LEMMA WholeStays ==
    ASSUME CentralInv, [Next]_vars, NEW m \in whole
    PROVE  m \in whole' /\ envelopes'[m] = envelopes[m]
<1>1. m \in whole'
  BY MailStaysStep DEF MailStays
<1>2. CASE UNCHANGED letterVars
  BY <1>2 DEF letterVars
<1>3. ASSUME NEW c \in pending, Written(c)
      PROVE  envelopes'[m] = envelopes[m]
  <2>1. envelopes[m] # None
    BY DEF CentralInv, MailStands
  <2> QED
    BY <1>3, <2>1 DEF Written, WriteEvent, WriteEnvelope, WriteEventAck, WriteDelivery, WriteAck,
       WriteResult, letterVars, CentralInv, MailTypeOK
<1>4. CASE \E c \in pending : Finish(c) \/ Interrupt(c)
  BY <1>1, <1>3, <1>4, EndsWritten
<1>5. CASE BridgeNext /\ ~\E c \in pending : Finish(c) \/ Interrupt(c)
  BY <1>2, <1>5 DEF BridgeNext, SubmitEvent, AcknowledgeEvent, Notify, Command, RecordDelivery,
     Acknowledge, RecordResult, Enqueue, Checked
<1>6. CASE RoutingNext
  BY <1>2, <1>6 DEF RoutingNext, WriteReceipt, Publish, Abandon, Initialize, RecordModel, Activate,
     Begin, PrepareHandover, RefreshHandover, PrepareSuccessor, RecordSuccessor, RecordReadback,
     RecordOpened, PersistActivation, bridgeVars
<1> QED
  BY <1>1, <1>2, <1>4, <1>5, <1>6 DEF Next, LedgerStep, vars, centralVars, bridgeVars

LEMMA AnswersRemain ==
    ASSUME CentralInv, [Next]_vars
    PROVE  /\ \A a : AckStands(a) => AckStands(a)'
           /\ \A m, s : AnswerStands(m, s) => AnswerStands(m, s)'
<1>1. /\ revision \in Nat /\ revision' \in Nat /\ revision <= revision'
      /\ \A i \in 1 .. revision : log'[i] = log[i]
  BY LogRemains
<1>2. \A a : AckStands(a) => AckStands(a)'
  BY <1>1 DEF AckStands
<1>3. \A s : HasBeenCentre(s) => HasBeenCentre(s)'
  BY <1>1 DEF HasBeenCentre
<1> QED
  BY <1>2, <1>3, WholeStays DEF AnswerStands

\* A centre that acknowledges is one of the published ones.
LEMMA CentreHasBeen ==
    ASSUME CentralInv, revision > 0
    PROVE  /\ HasBeenCentre(Holder("CURRENT_CENTRAL"))
           /\ AckStands([by |-> Holder("CURRENT_CENTRAL"),
                         generation |-> Roster["CURRENT_CENTRAL"].generation,
                         revision |-> revision])
<1>1. Roster = log[revision].roles /\ Roster["CURRENT_CENTRAL"] # None /\ revision \in 1 .. revision
  BY RosterTypes, NoneIsNoFile DEF Roster, CentralInv, RoutingTypeOK
<1>2. Holder("CURRENT_CENTRAL") = log[revision].roles["CURRENT_CENTRAL"].thread
  BY <1>1 DEF Holder
<1> QED
  BY <1>1, <1>2 DEF HasBeenCentre, AckStands

\* What is new in a step stands already, be it a check or a file.
LEMMA AnswersFollow ==
    ASSUME CentralInv, AnswersStand, [Next]_vars,
           \A e \in Events : eventAcks'[e] = eventAcks[e] \/ AckStands(eventAcks'[e]),
           \A m \in Letters : acks'[m] = acks[m] \/ AnswerStands(m, acks'[m]),
           \A c \in pending' : \/ c \in pending
                               \/ /\ c.op = "ACK_EVENT" => AckStands(c.ack)
                                  /\ c.op = "ACK" => AnswerStands(c.letter, c.by)
    PROVE  AnswersStand'
<1>1. \A e \in Events : eventAcks'[e] # None => AckStands(eventAcks'[e])
  BY DEF AnswersStand
<1>2. \A c \in pending' : c.op = "ACK_EVENT" => AckStands(c.ack)
  BY DEF AnswersStand
<1>3. \A m \in Letters : acks'[m] # None => AnswerStands(m, acks'[m])
  BY DEF AnswersStand
<1>4. \A c \in pending' : c.op = "ACK" => AnswerStands(c.letter, c.by)
  BY DEF AnswersStand
<1> QED
  BY <1>1, <1>2, <1>3, <1>4, AnswersRemain DEF AnswersStand, AckStands, AnswerStands, HasBeenCentre

\* A command that writes an acknowledgement was checked for it.
LEMMA WrittenAnswers ==
    ASSUME CentralInv, AnswersStand, NEW c \in pending, Written(c)
    PROVE  /\ \A e \in Events : eventAcks'[e] = eventAcks[e] \/ AckStands(eventAcks'[e])
           /\ \A m \in Letters : acks'[m] = acks[m] \/ AnswerStands(m, acks'[m])
<1> USE DEF CentralInv, MailTypeOK
<1>1. CASE WriteEventAck(c)
  BY <1>1 DEF WriteEventAck, AnswersStand, letterVars
<1>2. CASE WriteAck(c)
  BY <1>2 DEF WriteAck, AnswersStand, eventVars
<1> QED
  BY <1>1, <1>2 DEF Written, WriteEvent, WriteEnvelope, WriteDelivery, WriteResult, eventVars,
     letterVars

LEMMA AnswersStep ==
    ASSUME CentralInv, AnswersStand, [Next]_vars
    PROVE  AnswersStand'
<1>1. CASE UNCHANGED bridgeVars
  BY <1>1, AnswersFollow DEF bridgeVars, eventVars, letterVars
<1>2. CASE \E c \in pending : Finish(c) \/ Interrupt(c)
  <2>1. PICK c \in pending : Leave(c) /\ Written(c)
    BY <1>2, EndsWritten
  <2>2. pending' \subseteq pending
    BY <2>1 DEF Leave
  <2> QED
    BY <2>1, <2>2, WrittenAnswers, AnswersFollow
<1>3. ASSUME NEW e \in Events, NEW c \in Threads, AcknowledgeEvent(e, c)
      PROVE  AnswersStand'
  <2>1. /\ UNCHANGED <<eventVars, letterVars>>
        /\ pending' = pending \cup
               {[op |-> "ACK_EVENT", event |-> e,
                 ack |-> [by |-> c, generation |-> Roster["CURRENT_CENTRAL"].generation,
                          revision |-> revision]]}
    BY <1>3 DEF AcknowledgeEvent, Checked
  <2>2. AckStands([by |-> c, generation |-> Roster["CURRENT_CENTRAL"].generation,
                   revision |-> revision])
    BY <1>3, CentreHasBeen DEF AcknowledgeEvent, IsCentral
  <2> QED
    BY <2>1, <2>2, AnswersFollow DEF eventVars, letterVars
<1>4. ASSUME NEW m \in Letters, NEW x \in Threads \cup Windows, Acknowledge(m, x)
      PROVE  AnswersStand'
  <2>1. /\ UNCHANGED <<eventVars, letterVars>>
        /\ pending' = pending \cup {[op |-> "ACK", letter |-> m, by |-> x]}
    BY <1>4 DEF Acknowledge, Checked
  <2>2. AnswerStands(m, x)
    BY <1>4, CentreHasBeen DEF Acknowledge, MayAcknowledge, Targets, AnswerStands
  <2> QED
    BY <2>1, <2>2, AnswersFollow DEF eventVars, letterVars
<1>5. ASSUME NEW command, Checked(command), command.op \notin {"ACK_EVENT", "ACK"}
      PROVE  AnswersStand'
  BY <1>5, AnswersFollow DEF Checked, eventVars, letterVars
<1>6. ASSUME NEW e \in Events, NEW t \in Tasks, NEW w \in Windows, SubmitEvent(e, t, w)
      PROVE  AnswersStand'
  BY <1>5, <1>6 DEF SubmitEvent
<1>7. ASSUME NEW m, NEW envelope, Enqueue(m, envelope)
      PROVE  AnswersStand'
  BY <1>5, <1>7 DEF Enqueue
<1>8. ASSUME NEW m, NEW x, NEW succeeded, RecordDelivery(m, x, succeeded)
      PROVE  AnswersStand'
  BY <1>5, <1>8 DEF RecordDelivery
<1>9. ASSUME NEW m, NEW answer, RecordResult(m, answer)
      PROVE  AnswersStand'
  BY <1>5, <1>9 DEF RecordResult
<1>10. CASE BridgeNext
  BY <1>2, <1>3, <1>4, <1>6, <1>7, <1>8, <1>9, <1>10 DEF BridgeNext, Notify, Command
<1>11. CASE RoutingNext
  BY <1>1, <1>11 DEF RoutingNext, WriteReceipt, Publish, Abandon, Initialize, RecordModel, Activate,
     Begin, PrepareHandover, RefreshHandover, PrepareSuccessor, RecordSuccessor, RecordReadback,
     RecordOpened, PersistActivation
<1> QED
  BY <1>1, <1>10, <1>11 DEF Next, LedgerStep, vars, centralVars

\* An event or a message to the centre is acknowledged by a thread that
\* routing.json has named, however the switch to a successor overlaps with the
\* commands, which take no lock (acknowledge_event, acknowledge).
THEOREM AcknowledgedByCentresAlways == Spec => []AcknowledgedByCentres
<1>1. Init => AnswersStand
  BY DEF Init, CentralInit, AnswersStand
<1>2. CentralInv /\ AnswersStand => AcknowledgedByCentres
  BY DEF AnswersStand, AckStands, AnswerStands, HasBeenCentre, AcknowledgedByCentres, CentralInv,
     MailTypeOK
<1> QED
  BY <1>1, <1>2, AnswersStep, CentralInvAlways, PTL DEF Spec
=============================================================================
