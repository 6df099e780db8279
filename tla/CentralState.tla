---------------------------- MODULE CentralState -----------------------------
(***************************************************************************)
(* Who speaks for the project and what is said to it: the files of the C08 *)
(* role routing (role_continuity_controller.py, handover_automation.py)    *)
(* and of the C14 message bridge (task_communication_bridge.py).           *)
(*                                                                         *)
(* Thread ids, titles, references and digests are left out.  A digest of a *)
(* file that is never rewritten is the file itself; the digest of the      *)
(* ledger is the number of writes to it.                                   *)
(***************************************************************************)
EXTENDS LedgerState

CONSTANTS
    Threads,        \* native tasks that may hold a role
    Models,         \* models they run on
    Handovers,      \* ids of handover packages
    Events,         \* ids of task events
    Reports,        \* message ids windows choose for their handbacks
    Orders,         \* message ids the centre chooses for its commands
    RefreshLimit,   \* how often a package may be refreshed
    MaxLog,         \* bound on routing receipts
    MaxWrites,      \* bound on writes to the ledger
    MaxPending      \* bound on commands between their checks and their write

ASSUME ThreadsAreNoWindows == Threads \cap Windows = {} /\ None \notin Threads
ASSUME NoneIsNoPackage == None \notin Handovers \cup Models
ASSUME CentralBounds ==
    RefreshLimit \in Nat /\ MaxLog \in Nat /\ MaxWrites \in Nat /\ MaxPending \in Nat

VARIABLES
    log,            \* routing receipts, each with the routing after it
    revision,       \* how many of them routing.json has taken over
    committing,     \* the routing commit under way in continuity_lock, or None
    packages,       \* handover -> its package, None before it is prepared
    activated,      \* handovers with an activation.json
    natives,        \* handover -> the native operations on its family
    readbacks,      \* packages their successor has read back
    events,         \* event -> what was submitted, None before
    eventAcks,      \* event -> its acknowledgement, or None
    envelopes,      \* message -> its sealed enqueue receipt, or None
    whole,          \* messages that have their envelope too
    deliveries,     \* delivery receipts
    acks,           \* message -> who acknowledged it, or None
    results,        \* command message -> the result of it, or None
    pending,        \* commands that take no lock, past their checks
    writes          \* writes to the ledger so far

routingVars == <<log, revision, committing>>
handoverVars == <<packages, activated, natives, readbacks>>
eventVars == <<events, eventAcks>>
letterVars == <<envelopes, whole, deliveries, acks, results>>
bridgeVars == <<eventVars, letterVars, pending>>
centralVars == <<routingVars, handoverVars, bridgeVars, writes>>

-----------------------------------------------------------------------------
(* Roles. *)

Roles == {"CURRENT_CENTRAL", "CURRENT_ADJUDICATION"}
RoleRecords ==
    [generation: Nat \ {0}, thread: Threads, model: Models \cup {None},
     handover: Handovers \cup {None}]
Rosters == [Roles -> RoleRecords \cup {None}]
Entries ==
    [op: {"INITIALIZE", "RECORD_MODEL", "ACTIVATE"}, by: Handovers \cup {None}, roles: Rosters]

\* The roles as routing.json has them.
Roster == IF revision = 0 THEN [r \in Roles |-> None] ELSE log[revision].roles

\* Mutant of Holder: the last receipt is taken for the routing.
HolderByReceipt(r) ==
    IF log = <<>> \/ log[Len(log)].roles[r] = None THEN None ELSE log[Len(log)].roles[r].thread

Holder(r) == IF Roster[r] = None THEN None ELSE Roster[r].thread
IsCentral(c) == revision > 0 /\ Holder("CURRENT_CENTRAL") = c

-----------------------------------------------------------------------------
(* Messages. *)

Kinds == {"HANDBACK", "RESULT", "INSTRUCTION", "CORRECTION", "CANCELLATION"}
ToCentral == {"HANDBACK", "RESULT"}
Answers == {"APPLIED", "REFUSED"}

\* The messages correction_snapshot asks for, one to each window bound by
\* revision r, and the notification of the result of a command message.
Notice(t, r, w) == [task |-> t, correction |-> r, window |-> w]
Notices == {Notice(t, r, w) : t \in Tasks, r \in 1 .. MaxCorrections, w \in Windows}
Result(m) == [result |-> m]
Commands == Orders \cup Notices
Letters == Reports \cup Commands \cup {Result(m) : m \in Commands}

Envelopes == [kind: Kinds, task: Tasks, window: Windows, context: Nat]
Deliveries == [letter: Letters, target: Threads \cup Windows, succeeded: BOOLEAN]
DeliveredTo(m) == {d.target : d \in {x \in deliveries : x.letter = m /\ x.succeeded}}

\* message_state is QUEUED.
Queued(m) ==
    /\ DeliveredTo(m) = {}
    /\ acks[m] = None
    /\ m \in Commands => results[m] = None

\* What communication_snapshot digests: every file of the bridge.
Correspondence == <<envelopes, whole, deliveries, acks, results>>

\* verify: each message directory holds a whole envelope.
MailIsSound == \A m \in Letters : envelopes[m] # None => m \in whole

PendingEvents == {e \in Events : events[e] # None /\ events[e].whole /\ eventAcks[e] = None}

EventRecords == [task: Tasks, window: Windows, whole: BOOLEAN]
EventAcks == [by: Threads, generation: Nat, revision: Nat]
NativeRecords == [intent: BOOLEAN, successor: Threads \cup {None}, opened: BOOLEAN]

-----------------------------------------------------------------------------
(* Handover packages. *)

Correspondences ==
    [Letters -> Envelopes \cup {None}] \X (SUBSET Letters) \X (SUBSET Deliveries)
    \X [Letters -> Threads \cup Windows \cup {None}] \X [Commands -> Answers \cup {None}]
Snapshots == [revision: Nat, writes: Nat, pending: SUBSET Events, mail: Correspondences]
Packages ==
    [role: Roles, bootstrap: BOOLEAN, source: Threads, sourceGeneration: Nat \ {0},
     target: Nat \ {0}, base: Handovers \cup {None}, origin: Handovers,
     depth: 0 .. RefreshLimit, snapshot: Snapshots]

Snapshot ==
    [revision |-> revision, writes |-> writes, pending |-> PendingEvents,
     mail |-> Correspondence]

SourceRole(p) == IF p.bootstrap THEN "CURRENT_CENTRAL" ELSE p.role

\* Each commit is checked first, then its receipt is written, then routing.json.
Commits == [entry: Entries, written: BOOLEAN]

ASSUME NoneIsNoFile ==
    /\ None \notin RoleRecords
    /\ None \notin Packages
    /\ None \notin Commits
    /\ None \notin Envelopes
    /\ None \notin Answers

\* Commands that take no lock: what each will write once it gets there.
Writes ==
    [op: {"SUBMIT"}, event: Events, task: Tasks, window: Windows]
    \cup [op: {"ACK_EVENT"}, event: Events, ack: EventAcks]
    \cup [op: {"ENQUEUE"}, letter: Letters, envelope: Envelopes]
    \cup [op: {"DELIVER"}, letter: Letters, target: Threads \cup Windows, succeeded: BOOLEAN]
    \cup [op: {"ACK"}, letter: Letters, by: Threads \cup Windows]
    \cup [op: {"RESULT"}, letter: Commands, answer: Answers]

CentralTypeOK ==
    /\ log \in Seq(Entries)
    /\ revision \in 0 .. Len(log)
    /\ committing \in Commits \cup {None}
    /\ packages \in [Handovers -> Packages \cup {None}]
    /\ activated \subseteq Handovers
    /\ natives \in [Handovers -> NativeRecords]
    /\ readbacks \subseteq Handovers
    /\ events \in [Events -> EventRecords \cup {None}]
    /\ eventAcks \in [Events -> EventAcks \cup {None}]
    /\ envelopes \in [Letters -> Envelopes \cup {None}]
    /\ whole \subseteq Letters
    /\ deliveries \subseteq Deliveries
    /\ acks \in [Letters -> Threads \cup Windows \cup {None}]
    /\ results \in [Commands -> Answers \cup {None}]
    /\ pending \subseteq Writes
    /\ writes \in 0 .. MaxWrites

CentralInit ==
    /\ log = <<>>
    /\ revision = 0
    /\ committing = None
    /\ packages = [h \in Handovers |-> None]
    /\ activated = {}
    /\ natives = [h \in Handovers |-> [intent |-> FALSE, successor |-> None, opened |-> FALSE]]
    /\ readbacks = {}
    /\ events = [e \in Events |-> None]
    /\ eventAcks = [e \in Events |-> None]
    /\ envelopes = [m \in Letters |-> None]
    /\ whole = {}
    /\ deliveries = {}
    /\ acks = [m \in Letters |-> None]
    /\ results = [m \in Commands |-> None]
    /\ pending = {}
    /\ writes = 0
==============================================================================
