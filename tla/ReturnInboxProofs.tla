-------------------------- MODULE ReturnInboxProofs ---------------------------
(***************************************************************************)
(* The return inbox for any number of tickets, validators, tasks and       *)
(* windows.  It brings nothing into the ledger that the commands beneath   *)
(* it could not do: InboxSpec implements Governance's Spec.  And its own   *)
(* promises follow from the order in which the files of a ticket are       *)
(* written, whichever of them a kill leaves out.                           *)
(***************************************************************************)
EXTENDS ReturnInbox, SafetyProofs

-----------------------------------------------------------------------------
(* Every step of the inbox is a step of the governance, or none. *)

LEMMA AdmissionIsGoverned ==
    ASSUME InboxTypeOK, NEW k \in Tickets, NEW kept \in Keeping, AdmitReturn(k, kept)
    PROVE  [Next]_vars
<1>1. returns[k] \in Returns
  BY DEF AdmitReturn, Delivered, InboxTypeOK
<1>2. CASE SilentlyAdmitted(k) /\ Silent
  BY <1>2 DEF Silent
<1>3. CASE Signalled(k)
  <2>1. CASE returns[k].conflict # None
    BY <1>1, <1>3, <2>1 DEF Signalled, Returns, SupersedingNext, Next
  <2>2. CASE returns[k].conflict = None /\ returns[k].case # None
    BY <1>1, <1>3, <2>2 DEF Signalled, Returns, RecoveredNext, Next
  <2>3. CASE returns[k].conflict = None /\ returns[k].case = None
    BY <1>1, <1>3, <2>3 DEF Signalled, Returns, LedgerNext, Next
  <2> QED
    BY <2>1, <2>2, <2>3
<1> QED
  BY <1>2, <1>3 DEF AdmitReturn

LEMMA AssessmentIsGoverned ==
    ASSUME InboxTypeOK, NEW k \in Tickets, NEW v \in Validations,
           NEW outcome \in AssessedOutcomes, NEW kept \in Keeping,
           AssessReturn(k, v, outcome, kept)
    PROVE  [Next]_vars
<1>1. returns[k] \in Returns
  BY DEF AssessReturn, Delivered, InboxTypeOK
<1> QED
  BY <1>1 DEF AssessReturn, Returns, AssessNext, Next

LEMMA InboxStepIsGoverned ==
    ASSUME InboxTypeOK, InboxNext
    PROVE  [Next]_vars
<1>1. CASE ElsewhereNext
  BY <1>1 DEF ElsewhereNext, Next
<1>2. CASE ReturnNext
  <2> PICK k \in Tickets :
        \/ \E t \in Tasks, w \in Windows, s \in Signals, v \in Validations \cup {None},
              kept \in Keeping : SubmitReturn(k, t, w, s, v, kept)
        \/ \E kept \in Keeping : ReconcileReturn(k, kept) \/ AdmitReturn(k, kept)
        \/ \E x \in Validators : ReserveReturn(k, x)
        \/ AbortValidation(k)
        \/ \E v \in Validations :
              \/ RecordResult(k, v)
              \/ \E outcome \in AssessedOutcomes, kept \in Keeping :
                    AssessReturn(k, v, outcome, kept)
    BY <1>2 DEF ReturnNext
  <2>1. ASSUME NEW t \in Tasks, NEW w \in Windows, NEW s \in Signals,
               NEW v \in Validations \cup {None}, NEW kept \in Keeping,
               SubmitReturn(k, t, w, s, v, kept)
        PROVE  UNCHANGED vars
    BY <2>1 DEF SubmitReturn
  <2>2. ASSUME NEW kept \in Keeping, ReconcileReturn(k, kept)
        PROVE  UNCHANGED vars
    BY <2>2 DEF ReconcileReturn
  <2>3. ASSUME NEW x \in Validators, ReserveReturn(k, x)
        PROVE  UNCHANGED vars
    BY <2>3 DEF ReserveReturn
  <2>4. ASSUME AbortValidation(k)
        PROVE  UNCHANGED vars
    BY <2>4 DEF AbortValidation
  <2>5. ASSUME NEW v \in Validations, RecordResult(k, v)
        PROVE  UNCHANGED vars
    BY <2>5 DEF RecordResult
  <2> QED
    BY <2>1, <2>2, <2>3, <2>4, <2>5, AdmissionIsGoverned, AssessmentIsGoverned
<1> QED
  BY <1>1, <1>2 DEF InboxNext

-----------------------------------------------------------------------------
(* Types. *)

LEMMA StagesAreNamed ==
    /\ "DELIVERED" \in StageNames
    /\ \A from, kept : Reach(from, kept) \subseteq StageNames
<1>1. 5 \in DOMAIN Stages /\ Stages[5] = "DELIVERED"
  BY DEF Stages
<1> QED
  BY <1>1 DEF StageNames, Reach

LEMMA InboxTypeStep ==
    ASSUME TypeInv, InboxTypeOK, InboxNext
    PROVE  InboxTypeOK'
<1> USE DEF InboxTypeOK
<1>1. CASE ElsewhereNext
  BY <1>1 DEF ElsewhereNext, inboxVars
<1>2. ASSUME NEW k \in Tickets, NEW t \in Tasks, NEW w \in Windows, NEW s \in Signals,
             NEW v \in Validations \cup {None}, NEW kept \in Keeping,
             SubmitReturn(k, t, w, s, v, kept)
      PROVE  InboxTypeOK'
  <2>1. PICK source \in Source(t, w, v), stage \in Reach(1, kept) :
            returns' = [returns EXCEPT ![k] =
                [task |-> t, window |-> w, signal |-> s, direction |-> corrections[t],
                 names |-> v, conflict |-> source[1], case |-> source[2], stage |-> stage]]
    BY <1>2 DEF SubmitReturn
  <2>2. source[1] \in Validations \cup {None} /\ source[2] \in Cases \cup {None}
    BY DEF Source
  <2>3. corrections[t] \in Nat /\ stage \in StageNames
    BY StagesAreNamed DEF TypeInv, TypeOK, LedgerTypeOK
  <2>4. returns' \in [Tickets -> Returns \cup {None}]
    BY <2>1, <2>2, <2>3 DEF Returns
  <2> QED
    BY <1>2, <2>4 DEF SubmitReturn
<1>3. ASSUME NEW k \in Tickets, NEW kept \in Keeping, ReconcileReturn(k, kept)
      PROVE  InboxTypeOK'
  <2>1. PICK stage \in StageNames : returns' = [returns EXCEPT ![k].stage = stage]
    BY <1>3, StagesAreNamed DEF ReconcileReturn
  <2>2. returns[k] \in Returns
    BY <1>3 DEF ReconcileReturn
  <2>3. [returns[k] EXCEPT !.stage = stage] \in Returns
    BY <2>2 DEF Returns
  <2> QED
    BY <1>3, <2>1, <2>3 DEF ReconcileReturn
<1>4. ASSUME NEW k \in Tickets, NEW kept \in Keeping, AdmitReturn(k, kept)
      PROVE  InboxTypeOK'
  BY <1>4 DEF AdmitReturn, Admissions
<1>5. ASSUME NEW k \in Tickets, NEW x \in Validators, ReserveReturn(k, x)
      PROVE  InboxTypeOK'
  BY <1>5 DEF ReserveReturn
<1>6. ASSUME NEW k \in Tickets, AbortValidation(k)
      PROVE  InboxTypeOK'
  BY <1>6 DEF AbortValidation
<1>7. ASSUME NEW k \in Tickets, NEW v \in Validations, RecordResult(k, v)
      PROVE  InboxTypeOK'
  BY <1>7 DEF RecordResult
<1>8. ASSUME NEW k \in Tickets, NEW v \in Validations, NEW outcome, NEW kept,
             AssessReturn(k, v, outcome, kept)
      PROVE  InboxTypeOK'
  BY <1>8 DEF AssessReturn
<1> HIDE DEF InboxTypeOK
<1> QED
  BY <1>1, <1>2, <1>3, <1>4, <1>5, <1>6, <1>7, <1>8 DEF InboxNext, ReturnNext

LEMMA TypesTogether ==
    TypeInv /\ InboxTypeOK /\ [InboxNext]_allVars => [Next]_vars /\ (TypeInv /\ InboxTypeOK)'
<1> SUFFICES ASSUME TypeInv, InboxTypeOK, [InboxNext]_allVars
             PROVE  [Next]_vars /\ (TypeInv /\ InboxTypeOK)'
  OBVIOUS
<1>1. [Next]_vars
  BY InboxStepIsGoverned DEF allVars
<1>2. InboxTypeOK'
  BY InboxTypeStep DEF allVars, inboxVars, InboxTypeOK
<1> QED
  BY <1>1, <1>2, TypeInvStep

LEMMA TypesAlways == InboxSpec => [](TypeInv /\ InboxTypeOK)
<1>1. Init /\ InboxInit => TypeInv /\ InboxTypeOK
  BY TypeInvInit DEF InboxInit, InboxTypeOK
<1> QED
  BY <1>1, TypesTogether, PTL DEF InboxSpec

\* The files of the inbox keep their types.
THEOREM InboxTypeOKAlways == InboxSpec => []InboxTypeOK
BY TypesAlways, PTL

\* Whatever is submitted, admitted, reserved, aborted and assessed, and wherever
\* a command is killed, the ledger changes only as the commands beneath the
\* inbox change it: all that holds of Governance holds here.
THEOREM ImplementsGovernance == InboxSpec => Spec
BY TypesAlways, TypesTogether, PTL DEF InboxSpec, Spec

-----------------------------------------------------------------------------
(* The validation slot. *)

LEMMA SlotStep ==
    ASSUME InboxTypeOK, OneValidationAtATime, InboxNext
    PROVE  OneValidationAtATime'
<1>1. ASSUME NEW k \in Tickets, NEW x \in Validators, ReserveReturn(k, x)
      PROVE  \A j \in Tickets : Validating(j)' => j = k
  BY <1>1 DEF ReserveReturn, SlotIsFree, Validating, InboxTypeOK
<1>2. ASSUME NEW k \in Tickets, AbortValidation(k)
      PROVE  \A j \in Tickets : Validating(j)' => Validating(j)
  BY <1>2 DEF AbortValidation, Validating, InboxTypeOK
<1>3. ASSUME NEW k \in Tickets, NEW v \in Validations, RecordResult(k, v)
      PROVE  \A j \in Tickets : Validating(j)' => Validating(j)
  BY <1>3 DEF RecordResult, Validating, InboxTypeOK
<1>4. ASSUME UNCHANGED <<reservations, concluded, aborted>>
      PROVE  \A j \in Tickets : Validating(j)' => Validating(j)
  BY <1>4 DEF Validating
<1>5. \/ \E k \in Tickets, x \in Validators : ReserveReturn(k, x)
      \/ \E k \in Tickets : AbortValidation(k)
      \/ \E k \in Tickets, v \in Validations : RecordResult(k, v)
      \/ UNCHANGED <<reservations, concluded, aborted>>
  BY DEF InboxNext, ReturnNext, ElsewhereNext, inboxVars, SubmitReturn, ReconcileReturn,
         AdmitReturn, AssessReturn
<1> QED
  BY <1>1, <1>2, <1>3, <1>4, <1>5 DEF OneValidationAtATime

\* However many tickets are admitted, aborted and reissued, at most one is
\* being validated.
THEOREM OneValidationAtATimeAlways == InboxSpec => []OneValidationAtATime
<1>1. InboxInit => OneValidationAtATime
  BY DEF InboxInit, OneValidationAtATime, Validating
<1>2. InboxTypeOK /\ OneValidationAtATime /\ [InboxNext]_allVars => OneValidationAtATime'
  BY SlotStep DEF allVars, inboxVars, OneValidationAtATime, Validating
<1> QED
  BY <1>1, <1>2, InboxTypeOKAlways, PTL DEF InboxSpec

-----------------------------------------------------------------------------
(* What was written for a ticket stays, and comes in the order of the          *)
(* commands.                                                                   *)

TicketsInOrder ==
    \A k \in Tickets :
        /\ k \in aborted => reservations[k] # None
        /\ reservations[k] # None => admissions[k] # None
        /\ admissions[k] # None => Delivered(k)

LEMMA SignalsGrow ==
    ASSUME TypeInv, [Next]_vars
    PROVE  \A t \in Tasks : signals[t] \subseteq signals'[t]
<1> signals \in [Tasks -> SUBSET Signals]
  BY DEF TypeInv, TypeOK, LedgerTypeOK
<1>1. ASSUME NEW t \in Tasks, NEW s, NEW v, NEW c, NEW w,
             \/ RecordCompletionSignal(t, s) \/ RecordSupersedingSignal(t, v, s)
             \/ RecordRecoveredSignal(c, t, w, s)
      PROVE  \A u \in Tasks : signals[u] \subseteq signals'[u]
  BY <1>1 DEF RecordCompletionSignal, RecordSupersedingSignal, RecordRecoveredSignal
<1>2. CASE LedgerNext
  <2>1. CASE UNCHANGED signals
    BY <2>1
  <2> QED
    BY <1>1, <1>2, <2>1 DEF LedgerNext, AddTask, TransitionTask, RecordCorrection,
       VerifyCorrection, RecordWait, ResolveWait, ReconcileOutline, RegisterWindow,
       ImportOutline, ReviseOutline, RegisterSubAgent, ClaimObject, taskVars
<1>3. CASE OccupancyNext
  <2>1. ASSUME NEW r, NEW t, NEW requests, NEW choice, NEW crossModule, NEW kept,
               \/ Reserve(r, t, requests, choice, kept)
               \/ Block(r, t, requests, crossModule, kept)
        PROVE  UNCHANGED signals
    BY <2>1 DEF Reserve, Block
  <2> QED
    BY <1>3, <2>1 DEF OccupancyNext
<1>4. CASE DispatchNext
  <2>1. UNCHANGED signals
    BY <1>4 DEF DispatchNext, Prepare, Confirm, PrepareAppend, ConfirmAppend, RecordReturn,
       RecordQualityReview, ledgerVars, taskVars
  <2> QED
    BY <2>1
<1>5. CASE AssessNext \/ ClosingNext
  <2>1. ASSUME NEW v, NEW t, NEW w, NEW u, NEW outcome, NEW kept,
               \/ Assess(v, t, w, outcome, kept) \/ Approve(v, kept) \/ Reject(v, kept)
               \/ RecordAdjudication(v) \/ ResolveConflict(t, v, u) \/ ReleaseDoneTask(t, v)
               \/ CancelUnstarted(t)
        PROVE  UNCHANGED signals
    BY <2>1 DEF Assess, Approve, Reject, RecordAdjudication, ResolveConflict, ReleaseDoneTask,
       CancelUnstarted, ledgerVars, taskVars
  <2> QED
    BY <1>5, <2>1 DEF AssessNext, ClosingNext
<1>6. CASE RecoveryNext
  <2>1. UNCHANGED signals
    BY <1>6 DEF RecoveryNext, Freeze, Decide, Takeover, Resume, Release, taskVars
  <2> QED
    BY <2>1
<1>7. CASE UNCHANGED vars
  BY <1>7, StuttersFrame
<1> QED
  BY <1>1, <1>2, <1>3, <1>4, <1>5, <1>6, <1>7 DEF Next, SupersedingNext, RecoveredNext

TicketsStand ==
    /\ \A k \in Tickets :
          /\ Delivered(k) => returns'[k] = returns[k]
          /\ admissions[k] # None => admissions'[k] = admissions[k]
          /\ reservations[k] # None => reservations'[k] = reservations[k]
    /\ aborted \subseteq aborted'

LEMMA TicketsStandStep ==
    ASSUME InboxTypeOK, InboxNext
    PROVE  TicketsStand
<1> USE DEF InboxTypeOK
<1>1. CASE UNCHANGED inboxVars
  BY <1>1 DEF inboxVars, TicketsStand
<1>2. ASSUME NEW k \in Tickets, NEW t, NEW w, NEW s, NEW v, NEW kept,
             SubmitReturn(k, t, w, s, v, kept)
      PROVE  TicketsStand
  BY <1>2 DEF SubmitReturn, TicketsStand, Delivered
<1>3. ASSUME NEW k \in Tickets, NEW kept, ReconcileReturn(k, kept)
      PROVE  TicketsStand
  BY <1>3 DEF ReconcileReturn, TicketsStand, Delivered
<1>4. ASSUME NEW k \in Tickets, NEW kept, AdmitReturn(k, kept)
      PROVE  TicketsStand
  BY <1>4 DEF AdmitReturn, TicketsStand
<1>5. ASSUME NEW k \in Tickets, NEW x, ReserveReturn(k, x)
      PROVE  TicketsStand
  <2>1. reservations[k] = None
    BY <1>5 DEF ReserveReturn, SlotIsFree, Validating
  <2> QED
    BY <1>5, <2>1 DEF ReserveReturn, TicketsStand
<1>6. ASSUME NEW k \in Tickets, NEW v, AbortValidation(k) \/ RecordResult(k, v)
      PROVE  TicketsStand
  BY <1>6 DEF AbortValidation, RecordResult, TicketsStand
<1>7. ASSUME NEW k \in Tickets, NEW v, NEW outcome, NEW kept, AssessReturn(k, v, outcome, kept)
      PROVE  TicketsStand
  BY <1>7 DEF AssessReturn, TicketsStand
<1> HIDE DEF InboxTypeOK
<1> QED
  BY <1>1, <1>2, <1>3, <1>4, <1>5, <1>6, <1>7 DEF InboxNext, ReturnNext, ElsewhereNext

LEMMA TicketsInOrderStep ==
    ASSUME InboxTypeOK, TicketsInOrder, InboxNext
    PROVE  TicketsInOrder'
<1>1. TicketsStand
  BY TicketsStandStep
<1>2. ASSUME NEW k \in Tickets, Delivered(k)
      PROVE  Delivered(k)'
  BY <1>1, <1>2 DEF TicketsStand, Delivered
<1>3. ASSUME NEW k \in Tickets, NEW kept, AdmitReturn(k, kept)
      PROVE  TicketsInOrder'
  BY <1>1, <1>2, <1>3 DEF AdmitReturn, TicketsInOrder, InboxTypeOK, TicketsStand, Delivered
<1>4. ASSUME NEW k \in Tickets, NEW x, ReserveReturn(k, x)
      PROVE  TicketsInOrder'
  BY <1>1, <1>2, <1>4 DEF ReserveReturn, TicketsInOrder, InboxTypeOK, TicketsStand
<1>5. ASSUME NEW k \in Tickets, AbortValidation(k)
      PROVE  TicketsInOrder'
  BY <1>2, <1>5 DEF AbortValidation, Validating, TicketsInOrder
<1>6. ASSUME UNCHANGED <<admissions, reservations, aborted>>
      PROVE  TicketsInOrder'
  BY <1>2, <1>6 DEF TicketsInOrder
<1>7. \/ \E k \in Tickets, kept \in Keeping : AdmitReturn(k, kept)
      \/ \E k \in Tickets, x \in Validators : ReserveReturn(k, x)
      \/ \E k \in Tickets : AbortValidation(k)
      \/ UNCHANGED <<admissions, reservations, aborted>>
  BY DEF InboxNext, ReturnNext, ElsewhereNext, inboxVars, SubmitReturn, ReconcileReturn,
         RecordResult, AssessReturn
<1> QED
  BY <1>3, <1>4, <1>5, <1>6, <1>7

\* With the tickets in order, those that came before one still do.
LEMMA PredecessorsStay ==
    ASSUME TicketsInOrder, TicketsStand, NEW k \in Tickets, Delivered(k), aborted \subseteq Tickets
    PROVE  Predecessors(k) \subseteq Predecessors(k)'
BY DEF TicketsInOrder, TicketsStand, Predecessors

LEMMA TicketsAlways == InboxSpec => []TicketsInOrder
<1>1. InboxInit => TicketsInOrder
  BY DEF InboxInit, TicketsInOrder
<1>2. InboxTypeOK /\ TicketsInOrder /\ [InboxNext]_allVars => TicketsInOrder'
  BY TicketsInOrderStep DEF allVars, inboxVars, TicketsInOrder, Delivered
<1> QED
  BY <1>1, <1>2, InboxTypeOKAlways, PTL DEF InboxSpec

-----------------------------------------------------------------------------
(* Admission. *)

KnownReturn(k) ==
    \/ returns[k].signal \in signals[returns[k].task]
    \/ admissions[k] = "SILENT" /\ \E p \in Predecessors(k) : admissions[p] # None

LEMMA AdmittedIsKnown ==
    ASSUME TypeInv, InboxTypeOK, TicketsInOrder, NEW k \in Tickets, NEW kept \in Keeping,
           AdmitReturn(k, kept)
    PROVE  /\ \A j \in Tickets \ {k} : admissions'[j] = admissions[j]
           /\ admissions'[k] # None => KnownReturn(k)'
<1>1. returns[k] \in Returns /\ Delivered(k) /\ UNCHANGED <<returns, aborted>>
  BY DEF AdmitReturn, Delivered, InboxTypeOK
<1>2. \A j \in Tickets \ {k} : admissions'[j] = admissions[j]
  BY DEF AdmitReturn, InboxTypeOK
<1>3. signals \in [Tasks -> SUBSET Signals] /\ returns[k].task \in Tasks
  BY <1>1 DEF TypeInv, TypeOK, LedgerTypeOK, Returns
<1>4. CASE Signalled(k)
  <2>1. returns[k].signal \in signals'[returns[k].task]
    BY <1>3, <1>4 DEF Signalled, RecordSupersedingSignal, RecordRecoveredSignal,
       RecordCompletionSignal
  <2> QED
    BY <1>1, <1>2, <2>1 DEF KnownReturn
<1>5. CASE SilentlyAdmitted(k) /\ Silent /\ admissions' = [admissions EXCEPT ![k] = "SILENT"]
  <2>1. UNCHANGED signals
    BY <1>5, StuttersFrame DEF Silent
  <2>2. CASE returns[k].signal \in signals[returns[k].task]
    BY <1>1, <1>2, <2>1, <2>2 DEF KnownReturn
  <2>3. CASE Reissued(k)
    <3>1. PICK p \in Predecessors(k) : p \in aborted \ {k}
      BY <2>3 DEF Reissued, Predecessors
    <3>2. p \in Tickets \ {k} /\ admissions[p] # None /\ p \in Predecessors(k)'
      BY <1>1, <3>1 DEF InboxTypeOK, TicketsInOrder, Predecessors
    <3>3. admissions'[k] = "SILENT"
      BY <1>5 DEF InboxTypeOK
    <3> QED
      BY <1>2, <3>2, <3>3 DEF KnownReturn
  <2> QED
    BY <1>5, <2>2, <2>3 DEF SilentlyAdmitted
<1> QED
  BY <1>2, <1>4, <1>5 DEF AdmitReturn

LEMMA KnownStaysKnown ==
    ASSUME TypeInv, InboxTypeOK, TicketsInOrder, InboxNext, NEW k \in Tickets,
           admissions[k] # None, KnownReturn(k)
    PROVE  KnownReturn(k)'
<1>1. TicketsStand /\ \A t \in Tasks : signals[t] \subseteq signals'[t]
  BY InboxStepIsGoverned, SignalsGrow, TicketsStandStep
<1>2. Delivered(k) /\ returns[k] \in Returns /\ aborted \subseteq Tickets
  BY DEF TicketsInOrder, Delivered, InboxTypeOK
<1>3. returns'[k] = returns[k] /\ admissions'[k] = admissions[k]
  BY <1>1, <1>2 DEF TicketsStand
<1>4. CASE returns[k].signal \in signals[returns[k].task]
  BY <1>1, <1>2, <1>3, <1>4 DEF KnownReturn, Returns
<1>5. ASSUME admissions[k] = "SILENT", NEW p \in Predecessors(k), admissions[p] # None
      PROVE  KnownReturn(k)'
  <2>1. p \in Predecessors(k)'
    BY <1>1, <1>2, PredecessorsStay
  <2>2. admissions'[p] # None
    BY <1>1, <1>2, <1>5 DEF TicketsStand, Predecessors
  <2> QED
    BY <1>3, <1>5, <2>1, <2>2 DEF KnownReturn
<1> QED
  BY <1>4, <1>5 DEF KnownReturn

LEMMA AdmissionStep ==
    ASSUME TypeInv, InboxTypeOK, TicketsInOrder, AdmittedReturnsAreKnown, InboxNext
    PROVE  AdmittedReturnsAreKnown'
<1>1. \A k \in Tickets : admissions[k] # None => KnownReturn(k)
  BY DEF AdmittedReturnsAreKnown, KnownReturn
<1>2. \A k \in Tickets : admissions[k] # None => KnownReturn(k)'
  BY <1>1, KnownStaysKnown
<1>3. CASE \E k \in Tickets, kept \in Keeping : AdmitReturn(k, kept)
  <2> PICK k \in Tickets, kept \in Keeping : AdmitReturn(k, kept)
    BY <1>3
  <2>1. \A j \in Tickets : admissions'[j] # None => KnownReturn(j)'
    BY <1>2, AdmittedIsKnown
  <2> QED
    BY <2>1 DEF AdmittedReturnsAreKnown, KnownReturn
<1>4. CASE UNCHANGED admissions
  <2>1. \A j \in Tickets : admissions'[j] # None => KnownReturn(j)'
    BY <1>2, <1>4
  <2> QED
    BY <2>1 DEF AdmittedReturnsAreKnown, KnownReturn
<1> QED
  BY <1>3, <1>4 DEF InboxNext, ReturnNext, ElsewhereNext, inboxVars, SubmitReturn,
     ReconcileReturn, ReserveReturn, AbortValidation, RecordResult, AssessReturn

\* The ledger knows of what was admitted, however often it was aborted and
\* handed in anew, and whatever became of the task.
THEOREM AdmittedReturnsAreKnownAlways == InboxSpec => []AdmittedReturnsAreKnown
<1>1. InboxInit => AdmittedReturnsAreKnown
  BY DEF InboxInit, AdmittedReturnsAreKnown
<1>2. (TypeInv /\ InboxTypeOK) /\ TicketsInOrder /\ AdmittedReturnsAreKnown /\ [InboxNext]_allVars
          => AdmittedReturnsAreKnown'
  <2>1. CASE InboxNext
    BY <2>1, AdmissionStep
  <2>2. CASE UNCHANGED allVars
    <3>1. UNCHANGED <<signals, returns, admissions, aborted>>
      BY <2>2, StuttersFrame DEF allVars, inboxVars
    <3> QED
      BY <3>1 DEF AdmittedReturnsAreKnown, Predecessors
  <2> QED
    BY <2>1, <2>2
<1> QED
  BY <1>1, <1>2, TypesAlways, TicketsAlways, PTL DEF InboxSpec

-----------------------------------------------------------------------------
(* Decisions and their tickets. *)

\* Ticket k is what decision v assessed.
Backs(k, v) ==
    /\ Delivered(k)
    /\ returns[k].task = decisions[v].task
    /\ returns[k].direction = decisions[v].direction
    /\ returns[k].window = decisions[v].window
    /\ \/ returns[k].signal \in signals[returns[k].task]
       \/ /\ reservations[k] # None
          /\ \E p \in Predecessors(k) : /\ admissions[p] = "SIGNALLED"
                                        /\ reservations[p] = reservations[k]

DecisionsHaveTickets ==
    \A v \in Validations :
        decisions[v] # None => assessed[v] \in Tickets /\ Backs(assessed[v], v)

LEMMA OthersKeepDecisions ==
    ASSUME ElsewhereNext
    PROVE  UNCHANGED decisions
<1>1. ASSUME LedgerNext, UNCHANGED files
      PROVE  UNCHANGED decisions
  BY <1>1 DEF files, validationFiles
<1>2. ASSUME OccupancyNext
      PROVE  UNCHANGED decisions
  BY <1>2, OccupancyFrame DEF validationFiles
<1>3. ASSUME DispatchNext
      PROVE  UNCHANGED decisions
  BY <1>3, DispatchFrame DEF validationFiles
<1>4. ASSUME NEW v, NEW t, NEW u, NEW kept,
             \/ Approve(v, kept) \/ Reject(v, kept) \/ RecordAdjudication(v)
             \/ ResolveConflict(t, v, u) \/ ReleaseDoneTask(t, v) \/ CancelUnstarted(t)
      PROVE  UNCHANGED decisions
  BY <1>4 DEF Approve, Reject, RecordAdjudication, ResolveConflict, ReleaseDoneTask,
     CancelUnstarted, files, validationFiles
<1>5. ASSUME NEW c, NEW type, NEW t, NEW target, NEW action, NEW epoch, NEW v, NEW kept,
             \/ Freeze(c, type, t, target, kept) \/ Decide(c, action, kept)
             \/ Takeover(c, epoch, kept) \/ Resume(c, epoch, kept) \/ Release(c, v, kept)
      PROVE  UNCHANGED decisions
  BY <1>5 DEF Freeze, Decide, Takeover, Resume, Release, validationFiles
<1> QED
  BY <1>1, <1>2, <1>3, <1>4, <1>5 DEF ElsewhereNext, ClosingNext, RecoveryNext

LEMMA AdmissionKeepsDecisions ==
    ASSUME NEW k \in Tickets, NEW kept, AdmitReturn(k, kept)
    PROVE  UNCHANGED decisions
BY StuttersFrame DEF AdmitReturn, Signalled, Silent, RecordSupersedingSignal,
   RecordRecoveredSignal, files, validationFiles

LEMMA BackingStands ==
    ASSUME TypeInv, InboxTypeOK, TicketsInOrder, InboxNext, NEW k \in Tickets,
           NEW v \in Validations, Backs(k, v), decisions'[v] = decisions[v]
    PROVE  Backs(k, v)'
<1>1. TicketsStand /\ \A t \in Tasks : signals[t] \subseteq signals'[t]
  BY InboxStepIsGoverned, SignalsGrow, TicketsStandStep
<1>2. Delivered(k) /\ returns[k] \in Returns /\ aborted \subseteq Tickets
  BY DEF Backs, Delivered, InboxTypeOK
<1>3. returns'[k] = returns[k] /\ Delivered(k)'
  BY <1>1, <1>2 DEF TicketsStand, Delivered
<1>4. CASE returns[k].signal \in signals[returns[k].task]
  BY <1>1, <1>2, <1>3, <1>4 DEF Backs, Returns
<1>5. ASSUME reservations[k] # None, NEW p \in Predecessors(k),
             admissions[p] = "SIGNALLED", reservations[p] = reservations[k]
      PROVE  Backs(k, v)'
  <2>1. p \in Predecessors(k)' /\ p \in Tickets
    BY <1>1, <1>2, PredecessorsStay DEF Predecessors
  <2>2. admissions'[p] = admissions[p] /\ reservations'[p] = reservations[p]
    BY <1>1, <1>5, <2>1 DEF TicketsStand, TicketsInOrder
  <2>3. reservations'[k] = reservations[k]
    BY <1>1, <1>5 DEF TicketsStand
  <2> QED
    BY <1>3, <1>5, <2>1, <2>2, <2>3 DEF Backs
<1> QED
  BY <1>4, <1>5 DEF Backs

LEMMA AssessmentHasTicket ==
    ASSUME TypeInv, InboxTypeOK, NEW k \in Tickets, NEW v \in Validations, NEW outcome,
           NEW kept \in Keeping, AssessReturn(k, v, outcome, kept)
    PROVE  /\ \A u \in Validations \ {v} : /\ decisions'[u] = decisions[u]
                                           /\ assessed'[u] = assessed[u]
           /\ decisions'[v] # None => assessed'[v] = k /\ Backs(k, v)'
<1> DEFINE r == returns[k]
<1>1. /\ Assess(v, r.task, r.window, outcome, kept)
      /\ assessed' = IF kept THEN [assessed EXCEPT ![v] = k] ELSE assessed
      /\ UNCHANGED <<returns, admissions, reservations, aborted>>
      /\ Delivered(k) /\ r.direction = corrections[r.task] /\ HandbackIsKnown(k)
  BY DEF AssessReturn
<1>2. /\ decisions[v] = None /\ UNCHANGED signals
      /\ decisions' = IF kept
                      THEN [decisions EXCEPT ![v] = [task |-> r.task, window |-> r.window,
                                outcome |-> outcome, direction |-> corrections[r.task]]]
                      ELSE decisions
  BY <1>1 DEF Assess
<1>3. decisions \in [Validations -> ValidationDecisions \cup {None}]
  BY DEF TypeInv, TypeOK, FilesTypeOK
<1>4. CASE ~kept
  BY <1>1, <1>2, <1>4
<1>5. CASE kept
  <2>1. \A u \in Validations \ {v} : decisions'[u] = decisions[u] /\ assessed'[u] = assessed[u]
    BY <1>1, <1>2, <1>3, <1>5 DEF InboxTypeOK
  <2>2. assessed'[v] = k
    BY <1>1, <1>5 DEF InboxTypeOK
  <2>3. /\ returns'[k].task = decisions'[v].task
        /\ returns'[k].direction = decisions'[v].direction
        /\ returns'[k].window = decisions'[v].window
    BY <1>1, <1>2, <1>3, <1>5
  <2>4. Backs(k, v)'
    BY <1>1, <1>2, <2>3 DEF Backs, Delivered, HandbackIsKnown, ReissueAccepted, Predecessors
  <2> QED
    BY <2>1, <2>2, <2>4
<1> QED
  BY <1>4, <1>5

LEMMA DecisionsHaveTicketsStep ==
    ASSUME TypeInv, InboxTypeOK, TicketsInOrder, DecisionsHaveTickets, InboxNext
    PROVE  DecisionsHaveTickets'
<1>1. CASE UNCHANGED <<decisions, assessed>>
  BY <1>1, BackingStands DEF DecisionsHaveTickets
<1>2. ASSUME NEW k \in Tickets, NEW v \in Validations, NEW outcome, NEW kept \in Keeping,
             AssessReturn(k, v, outcome, kept)
      PROVE  DecisionsHaveTickets'
  BY <1>2, AssessmentHasTicket, BackingStands DEF DecisionsHaveTickets
<1>3. \/ UNCHANGED <<decisions, assessed>>
      \/ \E k \in Tickets, v \in Validations, outcome \in AssessedOutcomes, kept \in Keeping :
            AssessReturn(k, v, outcome, kept)
  <2>1. ASSUME ElsewhereNext
        PROVE  UNCHANGED <<decisions, assessed>>
    BY <2>1, OthersKeepDecisions DEF ElsewhereNext, inboxVars
  <2>2. ASSUME NEW k \in Tickets, NEW kept, AdmitReturn(k, kept)
        PROVE  UNCHANGED <<decisions, assessed>>
    BY <2>2, AdmissionKeepsDecisions DEF AdmitReturn
  <2>3. ASSUME UNCHANGED <<vars, assessed>>
        PROVE  UNCHANGED <<decisions, assessed>>
    BY <2>3, StuttersFrame
  <2> QED
    BY <2>1, <2>2, <2>3 DEF InboxNext, ReturnNext, SubmitReturn, ReconcileReturn, ReserveReturn,
       AbortValidation, RecordResult
<1> QED
  BY <1>1, <1>2, <1>3

LEMMA DecisionsHaveTicketsAlways == InboxSpec => []DecisionsHaveTickets
<1>1. Init => DecisionsHaveTickets
  BY DEF Init, FilesInit, DecisionsHaveTickets
<1>2. (TypeInv /\ InboxTypeOK) /\ TicketsInOrder /\ DecisionsHaveTickets /\ [InboxNext]_allVars
          => DecisionsHaveTickets'
  <2>1. CASE InboxNext
    BY <2>1, DecisionsHaveTicketsStep
  <2>2. CASE UNCHANGED allVars
    <3>1. UNCHANGED <<decisions, signals, inboxVars>>
      BY <2>2, StuttersFrame DEF allVars
    <3> QED
      BY <3>1 DEF inboxVars, DecisionsHaveTickets, Backs, Delivered, Predecessors
  <2> QED
    BY <2>1, <2>2
<1> QED
  BY <1>1, <1>2, TypesAlways, TicketsAlways, PTL DEF InboxSpec

\* No task becomes DONE but by a handback that came through the inbox from the
\* window that did the work, under the direction the task ended with.
THEOREM DoneCameThroughTheInboxAlways == InboxSpec => []DoneCameThroughTheInbox
<1>1. ASSUME TypeInv, InboxTypeOK, DecisionsHaveTickets, DecisionsAreKept, DoneIsAccepted
      PROVE  DoneCameThroughTheInbox
  <2> SUFFICES ASSUME NEW t \in Tasks, status[t] = "DONE"
               PROVE  LET k == assessed[acceptance[t]]
                          r == returns[k]
                      IN  /\ k # None
                          /\ Delivered(k)
                          /\ r.task = t
                          /\ r.direction = corrections[t]
                          /\ r.window = decisions[acceptance[t]].window
                          /\ \/ r.signal \in signals[t]
                             \/ \E p \in Predecessors(k) : /\ admissions[p] = "SIGNALLED"
                                                           /\ reservations[p] = reservations[k]
    BY DEF DoneCameThroughTheInbox
  <2>1. /\ acceptance[t] \in Validations
        /\ decisions[acceptance[t]] # None
        /\ decisions[acceptance[t]].task = t
        /\ decisions[acceptance[t]].direction = corrections[t]
    BY <1>1 DEF DecisionsAreKept, DoneIsAccepted, TypeInv, TypeOK, FilesTypeOK
  <2>2. assessed[acceptance[t]] \in Tickets /\ Backs(assessed[acceptance[t]], acceptance[t])
    BY <1>1, <2>1 DEF DecisionsHaveTickets
  <2> QED
    BY <2>1, <2>2, NoneIsNoTicket DEF Backs
<1> QED
  BY <1>1, TypesAlways, DecisionsHaveTicketsAlways, ImplementsGovernance, AcceptanceAlways, PTL

===============================================================================
