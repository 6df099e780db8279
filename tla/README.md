# Codex Module Governance in TLA+

A verification development for the scripts of the plug-in
`plugins/codex-module-governance/scripts/` (21 Python programs, about 12 000
lines). The plug-in governs a construction project carried out by several Codex
windows: a ledger (C03) says which tasks exist, which windows and sub-agents
work on them and which objects they occupy, and a set of commands reviews
(C05), dispatches (C10), validates (C06) and recovers (C08) that work. Nothing
runs as a server. Every command is a process of its own, started by some window
whenever somebody asks for it; it may be killed at any point and issued again.
All they share is a private directory of JSON files.

## 1. Inventory

| Component | State it keeps | Operations | Modules |
|---|---|---|---|
| `process_lock.py` | advisory file (flock), marker file with a pid | enter, leave | `Mutex`, `ProcessLock` |
| C03 store (`ledger_manager.py`) | `ledger.json`, one immutable receipt per mutation | initialize, load, `commit_mutation`, `verify_ledger` | `AppendLog`, `LedgerStore` |
| C03 contents (`ledger_manager.py`, `task_lifecycle.py`, `outline_outcome_contract.py`, `direction_correction_protocol.py`) | tasks, corrections and verifications, waits, outline contract and impacts, windows, sub-agents, object claims, hard stops, recovery partition | add, transition, completion signal, correct, verify, wait, resolve, import, revise, reconcile, register window / sub-agent, claim | `LedgerState`, `Ledger` |
| C03 delivery feedback (`ledger_manager.py`, `task_lifecycle.py`, C06's assessment of it) | feedback entries of accepted tasks | record, link, retarget, close | `Feedback` |
| C05 occupancy (`occupancy_conflict_checker.py`) | decisions | `evaluate`: reserve or block | `Occupancy` |
| C10 dispatch (`task_window_dispatch_controller.py`) | plans, confirmations, append plans, returns, quality reviews | prepare, confirm, prepare-append, confirm-append, return, quality review | `Dispatch` |
| C06 validation (`independent_handover_validator.py`, and in C03 `record_adjudication`, `resolve_c06_validation_conflict`, `release_done_task_occupancy`, `cancel_unstarted_task`) | decisions, finalizations | assess, approve, reject, resolve, release, cancel | `Validation` |
| C08 recovery (`disconnection_recovery_controller.py`) | one directory per case: freeze, takeover, decision, replacement, release | the same five | `Recovery` |
| C08 role routing and handover (`role_continuity_controller.py`, `handover_automation.py`) | routing receipts and `routing.json`, handover packages, records of native operations, activation results | initialize, record model, prepare, refresh, successor, readback, opened, activate | `Succession`, `CentralState`, `Routing` |
| C14 bridge and task events (`task_communication_bridge.py`, `role_continuity_controller.py`) | events and their acknowledgements; envelopes, deliveries, acknowledgements, results | submit and acknowledge an event; enqueue, record delivery, acknowledge, record result, verify | `CentralState`, `Bridge` |
| C08 return inbox (`role_continuity_controller.py`, C06's check of a ticket) | submissions, deliveries, admissions, reservations of the one validation slot, aborts, results | submit, reconcile, admit, reserve, abort, record validation | `ReturnInbox` |
| C09 central controller (`central_construction_controller.py`) | versions of the approved plans, in the ledger | revise | `Arrangement` |
| C07 adjudication (`adjudication_request_organizer.py`) | request, advice, decision | the same three | not modelled (section 8) |
| C02, C04, C11, C12, progress overview, C13, C00 | single documents, texts, or nothing | | not modelled (section 8) |

How they interact. Every change of the ledger goes through `commit_mutation`,
which is the only place that looks at two things for everybody: outside
`NORMAL`/`CLOSED` only operations named `C08_...` may write, and a task held by
a correction, an external wait or an outline change may not be advanced nor its
window given sub-agents. C05, C06, C08 and C10 take a lock of their own, then
`ledger_lock`, read and check the ledger, commit, and write their own file
afterwards. C10 reads the decisions of C05, C06 those of C05 and the quality
reviews of C10, C08 the finalizations of C06, C03 the confirmations of C10. C05
and C10 read C09's current arrangement, C06 the feedback a decision assesses.

Beside the ledger there are the routing, which says who the centre is (and with
it who may write the ledger), and the mail. The routing and the return inbox use
`continuity_lock`; an activation holds the ledger lock too. The bridge takes no
lock: its commands check, and write later. A correction is verified in the ledger
by the mail about it, and a return is admitted by writing its completion signal
into the ledger and then its admission.

What is hard here:

- *interleaving*: commands overlap; two C03 operations do not take the lock;
- *crashes*: between receipt and ledger, between ledger and a component's file,
  between the receipt of a routing change and `routing.json`, between the five
  files of a return, inside the writing of a lock marker;
- *messages*: deliveries fail, are repeated, or reach a centre that is being
  replaced; commands about them overlap without a lock;
- *time between two commands*: a plan is confirmed, an assessment finalized, a
  case decided long after the ledger it was made from has changed;
- *long sequences*: corrections and verifications, outline revisions, a window
  with two tasks, a second recovery case before the first is over, a validation
  aborted and reissued, a repair cancelled and given to another task.

What makes each component correct is stated in its module and listed in
section 4; `PROJECT.json` lists the hazards, each at its line, with the
properties that answer them, and says of the others why none does.

## 2. Modules

`Mutex` is a lock as its users see it. `ProcessLock` has one step per system
call of `process_lock`, with kills, failing writes and pid reuse, and implements
`Mutex`. `LedgerStore` uses `Mutex` for its lock (`INSTANCE Mutex`) and models
how commands load, commit and are killed; it implements `AppendLog`, a log that
only grows at its end. Together they justify that, above them, one command is
one step.

`LedgerState` holds the ledger's variables, the readers the scripts share
(`DirectionReady`, `CurrentTask`, `ActiveAgents`) and the gate of
`commit_mutation` as `Commit`, `CommitValidation` and `CommitRecovery`. It is a
conjunct of every writing action and is stated, like the code, on the ledger
before and after. `Ledger` adds C03's own operations and `LedgerSpec`, the
system in which only they run.

`DataRoot` holds what the other components keep in files, and `Occupancy`,
`Dispatch`, `Validation` and `Recovery` add one action per command.
`Governance` composes `Ledger` with them over the same variables.

On `Governance` rest two modules that add a component and restrict the ones
beneath it, and both implement it:

- `ReturnInbox` adds the files of the return inbox. Its `AssessReturn` is C06's
  `Assess` of a ticket's return, and its `AdmitReturn` is C03's completion signal
  (or the one of a superseded conflict, or of a recovered case) together with the
  admission.
- `Delivery` puts `Arrangement` and `Feedback` on it. `ReviewsInTurn` and
  `DispatchesInTurn` are the steps of C05 and C10 for tasks whose turn has come
  (`execution_arrangement_waits`), `AssessRepair` and `ClosingRepairs` those of C06
  with `verify_feedback_assessments`.

`CentralState` holds the files of the role routing and of the bridge. `Routing`
has one step per file a commit writes (`Begin`, `WriteReceipt`, `Publish`, with
`Abandon` for a kill), `Bridge` one step for the checks of a command and one for
each file it writes. `Coordination` composes them with `Ledger`: writes to the
ledger go on while a role is handed over, and `verify-correction` asks the bridge.
`Succession` is the abstract specification of the routing: each role passes from
holder to holder; `Coordination` is shown to implement it (`RolesPassOn`).

`LedgerStoreProofs`, `ProcessLockProofs`, `LedgerProofs`, `GovernanceProofs`,
`SafetyProofs`, `ReturnInboxProofs`, `DeliveryProofs` and `CoordinationProofs` hold the
theorems. The `MC` modules give values to constants and define symmetry sets,
bounds, and the states from which some runs start.

How state corresponds to the code: `status`, `signals`, `corrections`,
`verifications`, `bindings`, `waits` and `impacts` are the fields of a task
record (`directionCorrections` as the revision of the last one,
`directionVerifications` as the set of revisions verified); `windows` and
`agents` are those partitions, where `history` is `assignmentHistory`; `claims`
is `objectOccupancies`; `stops` is `hardStops`, each by its code, task and
reference; `recovery` is the partition of that name; `revisions` is
`executionPlanRevisions`, each version as its scheduling dependencies; `feedback` is
`deliveryFeedback`, where `repair` is the repair task the last link or retarget
names; `vouched` is `feedbackAssessments` of a decision; `log` is the sequence of
routing receipts and `revision` the one `routing.json` has taken over. A file that does not exist
is `None`. A constant set (`Reviews`, `Validations`, `Cases`, ...) is the ids a
run may use; a command that would reuse an id whose file exists is refused, as
in the code.

Abstractions, all of them of data:

- Titles, texts, references, digests and authorizations are left out. A digest
  that a later command compares with the present (direction, occupancy) is
  replaced by that comparison. The digest a decision binds feedback by is the
  repair task: the rest of an entry does not change, and a link never returns to a
  task it was taken from, since that one was cancelled. The digest of the ledger in
  a handover package is the number of writes to it.
- Who calls is modelled in `Coordination` only, where the centre is handed over.
- What a review, a handback or a piece of evidence says is an input: C05's
  request set, window choice and cross-module verdict, C06's outcome, C10's
  runtime ids. A window's model and permission evidence is the flag `trusted`.
- A command answered `IDEMPOTENT_...` writes nothing and is a stuttering step.
- A component's file may be lost after its ledger commit (`kept = FALSE`): a kill
  or a failed write. The ledger's receipts are the subject of `LedgerStore`.
- A kill inside C05, C06, C08 or C10 also leaves their plain lock file behind,
  which nothing recovers and which disables that component. The model lets it
  go on, which allows more behaviours.
- The two operations that do not take the lock are single steps in `Governance`;
  what their missing lock does is shown by `LedgerStore`.
- Claims released from a shared object may change its display status; only the
  claims are kept.
- An assessment id whose decision was lost is not used for a second conflict.
- Windows written by installations before `assignmentHistory` are left out.
- `prepare-handover` takes its snapshot before it takes `continuity_lock`; what
  changes in between is caught by the comparison at activation and left out. An id
  whose package receipt was written without its package is an id never used.
- The source of a return is checked before the lock of the inbox is taken; nobody
  else touches that ticket in between, so it is one step. The event and the
  centre's identity are the subject of `Coordination`. Which admitted ticket is the
  oldest is a matter of the clock's seconds and left open.
- A revision that leaves all dependencies alone changes the order of the list,
  which nobody waits for. The file a revision is exported to is left out: it can be
  written again from the ledger.
- No behaviour has to go on: `CHECK_DEADLOCK FALSE` in the ledger's runs,
  because a project may be over, or out of ids.

## 3. Plan

Order of the work, the most important behaviour first: the lock and the store;
the ledger's contents; C05, C06, C08 and C10 on it; role routing, bridge and return
inbox; arrangement and feedback. All of these are done, and the proofs follow the
same order; each safety property a passing run checks is a theorem now. What is left,
in this order:

1. The composition of `ReturnInbox` and `Delivery`, which now are two extensions of
   `Governance` side by side: a repair that comes back through the inbox.
2. C09's `continue-successors` with its batch file, which calls C05 and C10 one
   after the other and may be killed between them; C07's chain of requests.
3. Messages of the kinds `INSTRUCTION` and `CANCELLATION` in a run (`Orders` is
   empty in the present ones).

## 4. Runs

| Run | Instance | What it shows |
|---|---|---|
| `ProcessLock` | 3 commands, 4 pids, 2 kills | the lock excludes (`MutualExclusion`), names who is inside (`InsideIsMarked`), recovers a marker only when the process it names is proven gone, and only that marker (`OnlyProvenDeadRecovered`), implements `Mutex`, and gets past a dead owner (`DeadMarkerRecovered`, under fairness) |
| `LedgerStore` | 3 commands, 5 receipts, 2 kills | `ledger.json` is always the end of its receipt chain (`ChainVerifies`), what was answered `RECORDED` stays (`RecordedIsDurable`), the ledger implements `AppendLog` |
| `LedgerCore` | 1 task, 2 corrections, 2 waits, an outline with one revision, a window, a helper, an object with 2 claims | a held task gains nothing, old verifications do not free, shared writes are stopped, a task without open impacts delivers what the outline asks for |
| `GovClosing` | 1 task, window, helper, correction; 2 signals, 2 validations; lost files | `DONE` rests on an accepted decision of the current direction; claims are kept until the task is over and unstopped |
| `GovReuse` | 3 tasks, the first accepted; 1 window, 2 objects under one conflict key, 1 plan with 2 revisions, 1 feedback entry | the window serves a second task after the first; reservations never conflict, nor get ahead of the arrangement; closed feedback was repaired |
| `GovRecovering` | 1 task, 2 windows, 2 cases | a freeze holds, epochs tell cases apart, a replaced window rests, finished tasks stay finished, claims outlive work |
| `Succeeding` | 3 threads, 2 handovers, 4 routing receipts, 2 writes to the ledger | no two threads are the same generation, nobody holds both roles, a package family activates once, nothing slips in between a package and its activation, the routing implements `Succession` |
| `Corresponding` | 2 threads, 1 handover, 1 event, 1 handback, 1 correction | only what was applied is verified, only centres acknowledge what is said to the centre; a handback is acknowledged, an activation recorded (under fairness) |
| `Inbox` | 1 task, window, case and correction; 2 tickets, 2 signals, 2 validations; kills between files | one validation at a time; `DONE` came through the inbox; admitted returns are known to the ledger |

The types of `LedgerStore` and `Ledger` are not checked by a run of their own: they are
theorems, and `Governance` and `Coordination` check those of `Ledger` with theirs.

Three runs expect a violation and belong to the findings of section 6:
`LedgerStoreLost`, `GovFreeze`, `Contradicted`.

Bounds. A third command or pid adds nothing that two do not show to the lock
except a bystander and an unrelated process, which are the cases three commands
and four pids give; two kills allow a dead owner to be found by a command that
dies as well. Five receipts leave room for two orphans beside a chain of three.
Two corrections and two waits are the least with which an old verification, or
one wait of two, could free a task; one revision of the outline is the least
after which a registered task is behind it. Two handovers are the least that can
compete for a role or be activated in the wrong order, and with a refreshed
package one of them is a family; four receipts are the initial one, both
activations and a recorded model. Two tickets and two validations are the least for
a reissue after an abort, and for two tickets to compete for the slot.

Some instances start where the work under question does, in a state `Init` reaches
by the operations each module names: `GovReuse` from accepted and released work of
`t1`, so that `t2` and `t3` may take its window, take turns, and one of them may
repair it; `Corresponding` and `Inbox` from a project under way.

Constraints end behaviours at a state that belongs to another run. `FewClaims` stops
at the first claim beyond two (`LedgerCore`) or one (`GovClosing`) on an object, since
a further claim meets the same guard. `ReservedOnly` leaves claims to C05.
`SecondSignalInConflict` keeps the second completion signal of `GovClosing` for the
handback that supersedes a conflict. `QuietStatuses` leaves out two statuses of a
task that only lead back or to its end. `Undisputed` leaves conflicts, the boss's
decisions on them and assessments that settle nothing out of `GovReuse`, where they
are not in question; they are in `GovClosing`. In `Inbox`, `WorkGoesOn` and
`OthersKeepFiles` leave to the other runs what is theirs, `OneTrouble` lets a conflict,
a case, a killed submission or a correction happen, one of them at a time,
`CaseOfTheWindow` keeps the case to the one that cuts off the window, and
`DecidedLate` lets the boss decide on a validation while one is in dispute.
`NothingLost` (no lost files) is used by `GovReuse` and `GovRecovering`; a lost file
takes away later commands.

Symmetry is used only where invariants and action properties are checked, never
with liveness. The objects of `MCGovernance` and `MCDelivery` are not symmetric: one
of them is the shared conflict key. Nor are the tasks: some are at work from the
start.

## 5. Fairness

`ProcessLock`'s `FairSpec` asks weak fairness of the steps of each command: a process
that runs is scheduled, and a refused command is issued again, which is what the
skills tell a window to do. Nothing is asked of kills and of unrelated processes.

`Coordination`'s `Fairness` is what its two liveness properties rest on. A command
inside `continuity_lock`, and one past its checks, ends or is killed (weak fairness of
either together, so neither is promised). `PersistActivation`, the delivery of a
handback and its acknowledgement are strongly fair: a successor repeats an
activation whose result file is missing (references/central-construction/role-continuity.md
says how it is restored), and the windows and the centre work off their mail again
and again; each may be refused or killed for a while (the centre changes, the
routing is locked), which is why weak fairness would not do. Nothing is asked of
handovers, corrections, commands or the ledger.

The governance commands are issued by people and windows who may never do so; the
code guarantees no progress there, and none is claimed.

## 6. Findings

- `LedgerStoreLost`: `resolve-c06-validation-conflict` and
  `release-done-task-occupancy` load and commit without `ledger_lock` and
  overwrite mutations already answered `RECORDED`.
- `GovFreeze`: the release of an earlier case ends the freeze of a later one,
  because `release` does not look at the active case.
- `Contradicted`: a validation that was aborted is recorded as the ticket's result
  all the same, because `record-return-validation` does not look for the abort; from
  then on the ticket is refused wherever it is read, and with it the admission of
  other returns of tasks in review.

The models show further limitations that no run is kept for. Each makes something
stop, or contradicts a single sentence, without making a property above false:

- a kill while the marker of `process_lock` is written leaves an empty one, which
  every later command refuses (`process_lock.py:20-29`, whose docstring says
  "crash-safe");
- after a second outline revision an impact of the first can never be reconciled, and
  its task stays held (`task_lifecycle.py:47`);
- a helper registered after a passing assessment is still at work when the task
  becomes `DONE`;
- a routing receipt whose command was killed, and that is not of an activation
  somebody retries, refuses every later change of the routing;
- a message acknowledged by the successor of the centre it was delivered to cannot be
  delivered again, and the correction it answers for cannot be verified;
- feedback recorded with a repair task that is `DONE`, or whose repair was accepted
  without assessing it, stays open for good;
- plans are checked for cycles one by one, so two of them may make each other's tasks
  wait until one is revised.

## 7. Proofs

TLC checks the instances above; the following holds for every value of the
constants.

`ProcessLockProofs`: types, `MutualExclusion`, `InsideIsMarked`,
`OnlyProvenDeadRecovered` and the implementation of `Mutex`. The flock is not
enough as an invariant: `IInv` says that exactly the holder of the flock is
between "locked" and "unlocking" (`FlockTiesHolder`) and that a command that has
created a marker owns the one in place (`MarkerTiesOwner`); the second needs the
first, because any other command that holds the flock could unlink it. It also
says that the marker a command has read is still in place until that command
unlinks it (`SeenIsInPlace`), without which the process that was probed and the
marker that is removed would have nothing to do with each other.

`LedgerStoreProofs`: types and `ChainVerifies` for all commands, locked or not;
`RecordedIsDurable` and the implementation of `AppendLog` under the assumption
`Unlocked = {}`, the assumption `LedgerStoreLost` shows to be necessary. The
chain needs that every receipt on disk, orphans included, continues the receipt
it was made from (so that whichever ledger is put in place verifies); durability
needs that the ledger loaded by the command inside the lock is still the one in
place.

`LedgerProofs`: types, `SharedWritesAreStopped`, `UnheldTasksAreCurrent`,
`TerminalIsFinal`, `OldVerificationsDoNotFree` and `HeldTaskGainsNothing` of
`LedgerSpec`. `IInv` adds to the types that verifications are of corrections
that were made (otherwise a new correction could find itself verified) and that
a task is registered under a contract only while there is one. The action
properties follow from it and the gate, one lemma per part.

`GovernanceProofs`: the types of the composed system. They are not inductive alone:
`TypeInv` adds that a sub-agent's window and the windows and sub-agents a case names
are still records, since a case closes or cancels them long after it was opened.

`SafetyProofs`: `EpochsTellCasesApart`, `FreezeHolds` (with `FrozenCases`: a frozen
project has a case), `TerminalIsFinal` of the composed system, `ClaimsOutliveWork`,
`ReservationsDoNotConflict` (every step either only declares claims, or is a review
that compared its requests with all there are) and `DoneIsAccepted`, which needs that
the decision of a `DONE` task is kept (`DecisionsAreKept`) and that the direction of
a finished task stands. Its second
half is the life of a window, `ReplacedWindowsRest` and `WindowsServeTwoTasks`: it needs
what reservations, plans and histories say about each other while a window waits for
its second task. Its last part carries `IInv` over to the composed system, so that what
`LedgerProofs` says of C03 alone holds with C05, C06, C08 and C10 writing the ledger:
`HeldTaskGainsNothing` (every command passes the gate or changes nothing it guards,
`GateStep`; who works in a window worked in it before or is a task that nothing holds,
`WorkersStep`; only C03 and C05 add claims, `DeclaredOrReserved`),
`SharedWritesAreStopped` (C05 reserves beside others only what conflicts with nothing,
and no component removes an object's stop), `UnheldTasksAreCurrent` (a case may block a
task of which the types do not say that it is registered: `AbsentAreUncontracted`) and
`OldVerificationsDoNotFree`. `IInv` is what makes this a short step per component
(`ElsewhereStep`); TLC checks these four under `LedgerSpec`, the theorems are under both.

`ReturnInboxProofs`: types; that `InboxSpec` implements `Governance`, so that all of
the above holds with the inbox; `OneValidationAtATime`; `AdmittedReturnsAreKnown`,
from the order of a ticket's files (`TicketsInOrder`) and that what a ticket names
stays (`TicketsStand`); and `DoneCameThroughTheInbox`, from the tickets behind all
decisions (`DecisionsHaveTickets`).

`DeliveryProofs`: types; that `DeliverySpec` implements `Governance`;
`ReservationsWaitTheirTurn`, with `OwnersHaveBegun`: who holds a reservation is beyond
its plan, so no revision touches its dependencies, and what it waited for stays
`DONE`; and `ClosedFeedbackWasRepaired`, with `AcceptedAreFinal` (an accepted decision
is the one its task is `DONE` by, since an approval needs a task in review) and
`FeedbackInOrder`.

`CoordinationProofs`, about ledger, role routing and bridge together:

- Every behaviour is one of C03's ledger (`CoordinationKeepsLedger`), so the theorems of
  `LedgerProofs` hold while roles change hands. Types (`CentralInv`) need two facts that
  are no types: every routing names a centre, since only `initialize` appoints one and
  it is only ever replaced; and a message directory with its envelope has its receipt.
- `GenerationsHaveOneThread`, `FamiliesActivateOnce` and `NothingSlipsThrough` follow
  from `RoutingInv`, whose parts need each other. `GenerationsGrow` and
  `NoGenerationIsSkipped` speak of all receipts, the unpublished one included.
  `CommitStands` says that what was checked of a change is still so while its commit is
  under way, before and after its receipt; this is where the two locks of
  `activate_successor` are used, and why a retry may take up the receipt of a killed
  command. `PackagesStand` (a family agrees on role, source and generation) and
  `ActivationsStand` (a receipt has the generation its package names) make a second
  activation of a family impossible: its target would be behind the line.
- `RolesPassOn`, the implementation of `Succession`: `LineFollowsLog` says that the
  line of a role, which `Coordination` chooses from the published receipts, is that of
  their generations, so that a publication leaves it or extends it by one. The invariant
  of `Succession` that no two lines end in the same holder then gives
  `NobodyHoldsTwoRoles`, although an activation looks for the successor in the routing
  of its package only.
- `VerifiedCorrectionsWereApplied`: what the bridge has recorded of a message stays
  (`MailStays`), and the direction of a task becomes verified only by
  `ReadyForVerification` (`DirectionStep`).
- `AcknowledgedByCentres`, from `AnswersStand`: the check of a command that has not
  written yet stays true, because the log is only extended behind what is published
  (`LogRemains`) and a message that is there is never rewritten (`WholeStays`).

Assumptions: the named `ASSUME`s of the modules (ids of different kinds are distinct,
`None` is no id, record, package, commit, message, answer, file, ticket or entry,
contracts are contracts, requests are requests, plans and arrangements stay inside the
tasks, bounds are numbers), which TLC evaluates in every run that extends them.

Only model-checked: the liveness properties (`DeadMarkerRecovered`,
`HandbacksAreAcknowledged`, `ActivationsAreRecorded`), which are out of the prover's
reach: they need ENABLED for their fairness.

## 8. Not modelled

C02 and C04 write one immutable document each, C11 single records about external
Skills, C12 classifies texts, the progress overview only reads, C13 is build and
release scripting, and C00 is a Skill without code: none has state that another
command changes. C07 is a chain of immutable files per request which the stage in
the ledger keeps in order and no other component reads; a kill between the ledger and
a file leaves that request stuck. Of C09, the routing of intents writes nothing, and
`continue-successors` calls commands that are modelled and keeps a batch file of its
own. Of C03, `bind-wait-followup` adds receipts no other operation reads, and evidence
references and the Skill registry only add entries. Of C08,
`configure-return-policy` writes a document only C06's checks of its form read, and of
C10 the manual fallback package is a document too.
