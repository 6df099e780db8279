------------------------------ MODULE ReturnInbox ------------------------------
(***************************************************************************)
(* C08's return inbox (role_continuity_controller.py): a window hands its  *)
(* work back as a ticket, the centre admits the ticket and records its     *)
(* completion signal, and one ticket at a time is validated by C06.  All   *)
(* commands run inside continuity_lock; each file is written once, and a   *)
(* command may be killed between its files.                                *)
(*                                                                         *)
(* The source of a return is checked before the lock is taken.  Nobody     *)
(* touches the ticket in between, so checking and writing are one step.    *)
(* The centre's identity and the acknowledgement of the return's event are *)
(* the subject of Coordination.  Which of several admitted tickets is the  *)
(* oldest is a matter of the clock's seconds and left open.                *)
(***************************************************************************)
EXTENDS Governance

CONSTANTS
    Tickets,        \* ids of return tickets
    Validators      \* threads that may be given the validation slot

ASSUME NoneIsNoTicket == None \notin Tickets \cup Validators

VARIABLES
    returns,        \* ticket -> its submission and how far its files got
    admissions,     \* ticket -> its admission, None before
    reservations,   \* ticket -> the validator the slot was reserved for
    aborted,        \* tickets whose validation was aborted
    concluded,      \* ticket -> the validation recorded as its result
    assessed        \* validation -> the ticket its decision names

inboxVars == <<returns, admissions, reservations, aborted, concluded, assessed>>
allVars == <<vars, inboxVars>>

-----------------------------------------------------------------------------
(* Tickets. *)

\* The files of a return, in the order they are written: receipt and copy of
\* the submission, receipt and copy of the event, and the delivery.
Stages == <<"RECEIPT", "SUBMITTED", "ANNOUNCED", "REPORTED", "DELIVERED">>
StageNames == {Stages[i] : i \in DOMAIN Stages}

\* "names" is the conflict the handback says it supersedes, "conflict" and
\* "case" what its submission was let in for.
Returns ==
    [task: Tasks, window: Windows, signal: Signals, direction: Nat,
     names: Validations \cup {None}, conflict: Validations \cup {None},
     case: Cases \cup {None}, stage: StageNames]

ASSUME NoneIsNoReturn == None \notin Returns

\* Whether the admission wrote a completion signal to the ledger (the
\* ledgerReceiptId of its receipt).
Admissions == {"SIGNALLED", "SILENT"}

InboxTypeOK ==
    /\ returns \in [Tickets -> Returns \cup {None}]
    /\ admissions \in [Tickets -> Admissions \cup {None}]
    /\ reservations \in [Tickets -> Validators \cup {None}]
    /\ aborted \subseteq Tickets
    /\ concluded \in [Tickets -> Validations \cup {None}]
    /\ assessed \in [Validations -> Tickets \cup {None}]

InboxInit ==
    /\ returns = [k \in Tickets |-> None]
    /\ admissions = [k \in Tickets |-> None]
    /\ reservations = [k \in Tickets |-> None]
    /\ aborted = {}
    /\ concluded = [k \in Tickets |-> None]
    /\ assessed = [v \in Validations |-> None]

Submitted(k) == returns[k] # None /\ returns[k].stage # "RECEIPT"
Delivered(k) == returns[k] # None /\ returns[k].stage = "DELIVERED"

-----------------------------------------------------------------------------
(* submit-return and reconcile-return. *)

OrdinarySource(t) == status[t] \in {"IN_PROGRESS", "NEEDS_REVIEW"}

\* What the submission is let in for: work under way, else the conflict it
\* names, else the case that cut its window off.
Source(t, w, v) ==
    IF OrdinarySource(t) THEN {<<None, None>>}
    ELSE IF v # None /\ Superseded(t, v) THEN {<<v, None>>}
    ELSE {<<None, c>> : c \in {d \in Cases : ReturnPrepared(d, t, w)}}

\* A command that is killed leaves the files written so far.
Reach(from, kept) ==
    {Stages[i] : i \in {j \in DOMAIN Stages : j >= from /\ (kept <=> j = Len(Stages))}}

SubmitReturn(k, t, w, s, v, kept) ==
    /\ returns[k] = None
    /\ Known(t)
    /\ CurrentTask(w) = t
    /\ v # None => ValidationStop(t, v) \in stops
    /\ \E source \in Source(t, w, v), stage \in Reach(1, kept) :
          returns' = [returns EXCEPT ![k] =
              [task |-> t, window |-> w, signal |-> s, direction |-> corrections[t],
               names |-> v, conflict |-> source[1], case |-> source[2], stage |-> stage]]
    /\ UNCHANGED <<vars, admissions, reservations, aborted, concluded, assessed>>

\* persist_return_event, by a retry: a submission without event gets one, an
\* event without delivery its delivery.  A receipt without its file stays.
ReconcileReturn(k, kept) ==
    /\ returns[k] # None
    /\ \/ returns[k].stage = "SUBMITTED" /\ \E stage \in Reach(3, kept) :
              returns' = [returns EXCEPT ![k].stage = stage]
       \/ returns[k].stage = "REPORTED" /\ kept
              /\ returns' = [returns EXCEPT ![k].stage = "DELIVERED"]
    /\ UNCHANGED <<vars, admissions, reservations, aborted, concluded, assessed>>

-----------------------------------------------------------------------------
(* admit-return. *)

\* The earlier tickets of the same work whose validation was aborted.
Predecessors(k) ==
    {p \in aborted \ {k} : returns[p].task = returns[k].task /\ returns[p].window = returns[k].window}

\* An aborted ticket that has a result all the same is refused wherever it is
\* read.
Contradictory == {k \in aborted : concluded[k] # None}

\* Mutant of Reissued: whether there is an aborted ticket is not looked at.
ReviewIsReissued(k) == status[returns[k].task] = "NEEDS_REVIEW"

\* validation_reissue_after_abort_allowed: work that went to review with an
\* aborted ticket comes in again without a signal of its own.
Reissued(k) == status[returns[k].task] = "NEEDS_REVIEW" /\ Predecessors(k) \ Contradictory # {}

\* An aborted ticket that contradicts itself stops the search for one.
SearchFails(k) == status[returns[k].task] = "NEEDS_REVIEW" /\ Contradictory \ {k} # {}

Silent == UNCHANGED vars

\* The signal is recorded, by the rule the return was submitted under; a
\* signal the task has already is not recorded twice.
Signalled(k) ==
    LET r == returns[k]
    IN  IF r.conflict # None THEN RecordSupersedingSignal(r.task, r.conflict, r.signal)
        ELSE IF r.case # None THEN RecordRecoveredSignal(r.case, r.task, r.window, r.signal)
        ELSE RecordCompletionSignal(r.task, r.signal) /\ UNCHANGED files

SilentlyAdmitted(k) ==
    LET r == returns[k]
    IN  \/ /\ r.signal \in signals[r.task]
           /\ r.conflict # None => /\ status[r.task] = "CONFLICT"
                                   /\ ValidationStop(r.task, r.conflict) \in stops
           /\ r.conflict = None /\ r.case # None => ReturnPrepared(r.case, r.task, r.window)
           /\ r.conflict = None /\ r.case = None => ~SearchFails(k)
        \/ r.conflict = None /\ r.case = None /\ Reissued(k)

AdmitReturn(k, kept) ==
    /\ Delivered(k)
    /\ admissions[k] = None
    /\ \/ /\ Signalled(k)
          /\ admissions' = IF kept THEN [admissions EXCEPT ![k] = "SIGNALLED"] ELSE admissions
       \/ /\ SilentlyAdmitted(k) /\ kept
          /\ Silent
          /\ admissions' = [admissions EXCEPT ![k] = "SILENT"]
    /\ UNCHANGED <<returns, reservations, aborted, concluded, assessed>>

-----------------------------------------------------------------------------
(* The validation slot. *)

Validating(k) == reservations[k] # None /\ concluded[k] = None /\ k \notin aborted

\* Mutant of SlotIsFree: a ticket is not reserved twice, but two may be.
OwnSlotIsFree(k) == reservations[k] = None

SlotIsFree(k) == \A other \in Tickets : ~Validating(other)

ReserveReturn(k, x) ==
    /\ SlotIsFree(k)
    /\ Delivered(k)
    /\ admissions[k] # None
    /\ concluded[k] = None
    /\ k \notin aborted
    /\ reservations' = [reservations EXCEPT ![k] = x]
    /\ UNCHANGED <<vars, returns, admissions, aborted, concluded, assessed>>

\* Mutant of AbortValidation: the abort is filed under the validator.
AbortForValidator(k) ==
    /\ Validating(k)
    /\ aborted' = aborted \cup {reservations[k]}
    /\ UNCHANGED <<vars, returns, admissions, reservations, concluded, assessed>>

\* abort-return-validation: whether C06 has decided meanwhile is not looked at.
AbortValidation(k) ==
    /\ Validating(k)
    /\ aborted' = aborted \cup {k}
    /\ UNCHANGED <<vars, returns, admissions, reservations, concluded, assessed>>

\* record-return-validation: whether the ticket was aborted is not looked at.
RecordResult(k, v) ==
    /\ reservations[k] # None
    /\ concluded[k] = None
    /\ decisions[v] # None
    /\ assessed[v] = k
    /\ concluded' = [concluded EXCEPT ![k] = v]
    /\ UNCHANGED <<vars, returns, admissions, reservations, aborted, assessed>>

-----------------------------------------------------------------------------
(* C06 on a ticket. *)

\* valid_completion_signal_reissue_after_abort: the ticket was admitted without
\* a signal and is reserved for the validator of an aborted predecessor, whose
\* signal the ledger has.
ReissueAccepted(k) ==
    /\ admissions[k] = "SILENT"
    /\ reservations[k] # None
    /\ \E p \in Predecessors(k) \ Contradictory :
          /\ admissions[p] = "SIGNALLED"
          /\ reservations[p] = reservations[k]
          /\ returns[p].signal \in signals[returns[k].task]

\* Mutant of HandbackIsKnown: it is enough that the handback was delivered.
HandbackIsDelivered(k) == Delivered(k)

\* The ledger has the signal of the handback, or that of the one it follows.
HandbackIsKnown(k) == returns[k].signal \in signals[returns[k].task] \/ ReissueAccepted(k)

\* assess, with verify_return_ticket: the handback is the one of a delivered
\* ticket and of the direction the task has now.
AssessReturn(k, v, outcome, kept) ==
    /\ Delivered(k)
    /\ LET r == returns[k]
       IN  /\ r.direction = corrections[r.task]
           /\ HandbackIsKnown(k)
           /\ status[r.task] = "CONFLICT" => r.names # None /\ Superseded(r.task, r.names)
           /\ Assess(v, r.task, r.window, outcome, kept)
    /\ assessed' = IF kept THEN [assessed EXCEPT ![v] = k] ELSE assessed
    /\ UNCHANGED <<returns, admissions, reservations, aborted, concluded>>

-----------------------------------------------------------------------------
ReturnNext ==
    \E k \in Tickets :
        \/ \E t \in Tasks, w \in Windows, s \in Signals, v \in Validations \cup {None},
              kept \in Keeping : SubmitReturn(k, t, w, s, v, kept)
        \/ \E kept \in Keeping : ReconcileReturn(k, kept) \/ AdmitReturn(k, kept)
        \/ \E x \in Validators : ReserveReturn(k, x)
        \/ AbortValidation(k)
        \/ \E v \in Validations :
              \/ RecordResult(k, v)
              \/ \E outcome \in AssessedOutcomes, kept \in Keeping :
                    AssessReturn(k, v, outcome, kept)

\* The others go on: all of Governance but for what comes through the inbox.
ElsewhereNext ==
    /\ \/ LedgerNext /\ UNCHANGED files
       \/ OccupancyNext
       \/ DispatchNext
       \/ ClosingNext
       \/ RecoveryNext
    /\ UNCHANGED inboxVars

InboxNext == ReturnNext \/ ElsewhereNext

InboxSpec == Init /\ InboxInit /\ [][InboxNext]_allVars

-----------------------------------------------------------------------------
(* Properties. *)

\* ADR-041: the whole project has one validation slot, whatever is admitted,
\* aborted and reissued.
OneValidationAtATime ==
    \A j, k \in Tickets : Validating(j) /\ Validating(k) => j = k

(***************************************************************************)
(* docs/AUTOMATIC_RETURN_INBOX_REPORT.md: no chat text is a return.  A     *)
(* task becomes DONE only by a handback that was delivered through the     *)
(* inbox from the window that did the work, under the direction the task   *)
(* ended with.  The ledger has its signal, or that of the aborted ticket   *)
(* of the same work, for the same validator, that it was made out to       *)
(* replace.                                                                *)
(***************************************************************************)
DoneCameThroughTheInbox ==
    \A t \in Tasks :
        status[t] = "DONE" =>
            LET k == assessed[acceptance[t]]
                r == returns[k]
            IN  /\ k # None
                /\ Delivered(k)
                /\ r.task = t
                /\ r.direction = corrections[t]
                /\ r.window = decisions[acceptance[t]].window
                /\ \/ r.signal \in signals[t]
                   \/ \E p \in Predecessors(k) : /\ admissions[p] = "SIGNALLED"
                                                 /\ reservations[p] = reservations[k]

\* An admitted return is one the ledger knows of: it has the signal, or had it
\* with an aborted ticket of the same work.
AdmittedReturnsAreKnown ==
    \A k \in Tickets :
        admissions[k] # None =>
            LET r == returns[k]
            IN  \/ r.signal \in signals[r.task]
                \/ admissions[k] = "SILENT" /\ \E p \in Predecessors(k) :
                                                  admissions[p] # None

\* role_continuity_controller.py:895-919, read_return_validation_abort: a ticket
\* whose validation was aborted has no result ("validationResultRecorded":
\* False), and one that has is refused as C08C_RETURN_VALIDATION_ABORT_INVALID.
AbortsStand == Contradictory = {}
==============================================================================
