--------------------------- MODULE GovernanceProofs ---------------------------
(***************************************************************************)
(* The composed system for any number of tasks, windows, sub-agents,       *)
(* objects, reviews, dispatches, validations and recovery cases, and with  *)
(* any file lost: its types, and the invariants about what one component   *)
(* relies on while the others go on.                                       *)
(***************************************************************************)
EXTENDS Governance, LedgerProofs

-----------------------------------------------------------------------------
(* Types.  A case may close or cancel windows and sub-agents long after it *)
(* was opened, so the types need what is nowhere written down: a record,   *)
(* once there, stays, and whatever a sub-agent or a case names is there.   *)

AgentsHaveWindows == \A a \in Agents : agents[a] # None => Registered(agents[a].window)

CasesNameRecords ==
    \A c \in Cases : incidents[c] # None =>
        /\ \A w \in incidents[c].windows : Registered(w)
        /\ \A a \in incidents[c].agents : agents[a] # None
        /\ incidents[c].type = "TASK_WINDOW" =>
              incidents[c].task \in Tasks /\ incidents[c].target \in incidents[c].windows

TypeInv == TypeOK /\ AgentsHaveWindows /\ CasesNameRecords

LEMMA TypeInvInit == Init => TypeInv
<1>1. Init => FilesTypeOK
  BY DEF Init, FilesInit, FilesTypeOK, Verdicts
<1>2. Init => AgentsHaveWindows /\ CasesNameRecords
  BY DEF Init, LedgerInit, FilesInit, AgentsHaveWindows, CasesNameRecords
<1> QED
  BY <1>1, <1>2, TypeInit DEF Init, TypeOK, TypeInv

\* Changing the status of some records keeps all of them records.
LEMMA WindowsBecomeTyped ==
    ASSUME LedgerTypeOK, NEW ws \in SUBSET Windows, \A w \in ws : Registered(w),
           NEW s \in WindowStatuses
    PROVE  /\ WindowsBecome(ws, s) \in [Windows -> WindowRecords \cup {None}]
           /\ \A w \in Windows : windows[w] # None => WindowsBecome(ws, s)[w] # None
<1>1. ASSUME NEW w \in Windows, windows[w] # None
      PROVE  /\ [windows[w] EXCEPT !.status = s] \in WindowRecords
             /\ [windows[w] EXCEPT !.status = s] # None
  BY <1>1, NoneIsNoRecord DEF LedgerTypeOK, WindowRecords
<1> QED
  BY <1>1 DEF LedgerTypeOK, WindowsBecome, Registered

LEMMA AgentsBecomeTyped ==
    ASSUME LedgerTypeOK, NEW as \in SUBSET Agents, \A a \in as : agents[a] # None,
           NEW s \in AgentStatuses
    PROVE  /\ AgentsBecome(as, s) \in [Agents -> AgentRecords \cup {None}]
           /\ \A a \in Agents : agents[a] # None => AgentsBecome(as, s)[a] # None
           /\ \A a \in Agents : AgentsBecome(as, s)[a] # None =>
                 agents[a] # None /\ AgentsBecome(as, s)[a].window = agents[a].window
<1>1. ASSUME NEW a \in Agents, agents[a] # None
      PROVE  /\ [agents[a] EXCEPT !.status = s] \in AgentRecords
             /\ [agents[a] EXCEPT !.status = s] # None
             /\ [agents[a] EXCEPT !.status = s].window = agents[a].window
  BY <1>1, NoneIsNoRecord DEF LedgerTypeOK, AgentRecords
<1> QED
  BY <1>1 DEF LedgerTypeOK, AgentsBecome

\* What cases and sub-agents name stays there while records stay, sub-agents
\* keep their windows, and no case is opened.
LEMMA RecordsStay ==
    ASSUME TypeInv,
           \A w \in Windows : windows[w] # None => windows'[w] # None,
           \A a \in Agents : agents[a] # None => agents'[a] # None,
           \A a \in Agents : agents'[a] # None =>
               \/ agents[a] # None /\ agents'[a].window = agents[a].window
               \/ agents'[a].window \in Windows /\ windows'[agents'[a].window] # None,
           UNCHANGED incidents
    PROVE  AgentsHaveWindows' /\ CasesNameRecords'
<1>1. AgentsHaveWindows'
  BY DEF TypeInv, TypeOK, LedgerTypeOK, AgentRecords, AgentsHaveWindows, Registered
<1>2. CasesNameRecords'
  BY DEF TypeInv, TypeOK, FilesTypeOK, Incidents, CasesNameRecords, Registered
<1> QED
  BY <1>1, <1>2

-----------------------------------------------------------------------------
(* C03 and C05. *)

LEMMA LedgerTypeStep ==
    ASSUME TypeInv, LedgerNext, UNCHANGED files
    PROVE  TypeInv'
<1>1. TypeOK'
  BY TypeStep DEF TypeInv, TypeOK, FilesTypeOK, files, dispatchFiles, validationFiles,
     recoveryFiles
<1>2. AgentsHaveWindows' /\ CasesNameRecords'
  <2>1. CASE \E t \in Tasks, w \in Windows, trusted \in BOOLEAN : RegisterWindow(w, t, trusted)
    BY <2>1, NewWindowIsWindow, NoneIsNoRecord, RecordsStay
       DEF RegisterWindow, TypeInv, TypeOK, LedgerTypeOK, files, recoveryFiles
  <2>2. CASE \E a \in Agents, w \in Windows : RegisterSubAgent(a, w)
    <3> PICK a \in Agents, w \in Windows : RegisterSubAgent(a, w)
      BY <2>2
    <3>1. NewAgent(w, None, None) \in AgentRecords /\ NewAgent(w, None, None).window = w
      BY DEF NewAgent, AgentRecords, AgentStatuses, ActiveAgent
    <3> QED
      BY <3>1, NoneIsNoRecord, RecordsStay
         DEF RegisterSubAgent, TypeInv, TypeOK, LedgerTypeOK, files, recoveryFiles, Registered
  <2>3. CASE UNCHANGED runtimeVars
    BY <2>3, RecordsStay DEF runtimeVars, files, recoveryFiles
  <2> QED
    BY <2>1, <2>2, <2>3 DEF LedgerNext, AddTask, TransitionTask, RecordCompletionSignal,
       RecordCorrection, VerifyCorrection, RecordWait, ResolveWait, ReconcileOutline,
       ImportOutline, ReviseOutline, ClaimObject
<1> QED
  BY <1>1, <1>2 DEF TypeInv

LEMMA ReviewStopIsStop ==
    ASSUME NEW t \in Tasks, NEW r \in Reviews
    PROVE  ReviewStop(t, r) \in Stops
BY DEF Stops

LEMMA ValidationStopIsStop ==
    ASSUME NEW t \in Tasks, NEW v \in Validations
    PROVE  ValidationStop(t, v) \in Stops
BY DEF Stops

LEMMA OccupancyTypeStep ==
    ASSUME TypeInv, OccupancyNext
    PROVE  TypeInv'
<1> USE DEF TypeInv, TypeOK, LedgerTypeOK, FilesTypeOK
<1>1. ASSUME NEW r \in Reviews, NEW t \in Tasks, NEW requests \in RequestSets,
             NEW choice \in WindowChoices(t), NEW kept \in BOOLEAN,
             Reserve(r, t, requests, choice, kept)
      PROVE  TypeInv'
  <2> DEFINE asked == {Reservation(t, r, q) : q \in requests}
  <2>1. asked \subseteq Placed
    BY RequestsAreRequests DEF Requests, Reservation, Placed, Claims, Owners
  <2>2. choice.reuse \in Reuses /\ choice.window \in Windows \cup {None}
    BY DEF WindowChoices, Choice, CurrentWindows, ReusableWindow, Reuses
  <2>3. reviews' \in [Reviews -> ReviewDecisions \cup {None}]
    BY <1>1, <2>1, <2>2 DEF Reserve, RecordReview, ReviewDecisions
  <2>4. claims' \in [Objects -> SUBSET Claims]
    BY <1>1, <2>1 DEF Reserve, Placed
  <2>5. /\ windows' \in [Windows -> WindowRecords \cup {None}]
        /\ \A w \in Windows : windows[w] # None => windows'[w] # None
    <3>1. CASE choice.reuse = "SECOND"
      <4>1. choice.window \in Windows /\ windows[choice.window] \in WindowRecords
        BY <3>1 DEF WindowChoices, Choice, ReusableWindow, Registered
      <4>2. ReservedWindow(choice.window, t, r) \in WindowRecords
        BY <4>1 DEF ReservedWindow, WindowRecords, WindowStatuses
      <4> QED
        BY <1>1, <3>1, <4>1, <4>2, NoneIsNoRecord DEF Reserve
    <3> QED
      BY <1>1, <3>1 DEF Reserve
  <2>6. status' \in [Tasks -> Statuses \cup {"ABSENT"}]
    BY <1>1 DEF Reserve, Statuses, Transitions
  <2>7. UNCHANGED <<signals, directionVars, outlineVars, agents, stops, recovery, dispatchFiles,
                    validationFiles, recoveryFiles>>
    BY <1>1 DEF Reserve
  <2>8. AgentsHaveWindows' /\ CasesNameRecords'
    BY <2>5, <2>7, RecordsStay DEF recoveryFiles
  <2> QED
    BY <2>3, <2>4, <2>5, <2>6, <2>7, <2>8 DEF directionVars, outlineVars, dispatchFiles,
       validationFiles, recoveryFiles
<1>2. ASSUME NEW r \in Reviews, NEW t \in Tasks, NEW requests \in RequestSets,
             NEW crossModule \in BOOLEAN, NEW kept \in BOOLEAN,
             Block(r, t, requests, crossModule, kept)
      PROVE  TypeInv'
  <2>1. reviews' \in [Reviews -> ReviewDecisions \cup {None}]
    BY <1>2 DEF Block, RecordReview, ReviewDecisions, Choice, Reuses
  <2>2. status' \in [Tasks -> Statuses \cup {"ABSENT"}] /\ stops' \subseteq Stops
    BY <1>2, ReviewStopIsStop DEF Block, Statuses, Transitions
  <2>3. UNCHANGED <<signals, directionVars, outlineVars, runtimeVars, claims, recovery,
                    dispatchFiles, validationFiles, recoveryFiles>>
    BY <1>2 DEF Block
  <2>4. AgentsHaveWindows' /\ CasesNameRecords'
    BY <2>3, RecordsStay DEF runtimeVars, recoveryFiles
  <2> QED
    BY <2>1, <2>2, <2>3, <2>4 DEF directionVars, outlineVars, runtimeVars, dispatchFiles,
       validationFiles, recoveryFiles
<1> HIDE DEF TypeInv, TypeOK, LedgerTypeOK, FilesTypeOK
<1> QED
  BY <1>1, <1>2, KeepingIsBoolean DEF OccupancyNext

-----------------------------------------------------------------------------
(* C10. *)

LEMMA HistoryStaysTyped ==
    ASSUME NEW history \in Seq(Assignments), NEW n \in Nat,
           NEW s \in {"ACTIVE", "DONE", "DISCONNECTED_REPLACED"}
    PROVE  /\ [history EXCEPT ![n].status = s] \in Seq(Assignments)
           /\ Len([history EXCEPT ![n].status = s]) = Len(history)
<1> DEFINE assigned == [history[n] EXCEPT !.status = s]
           changed == [history EXCEPT ![n] = assigned]
<1>1. ASSUME n \in 1..Len(history)
      PROVE  assigned \in Assignments
  <2>1. history[n] \in Assignments
    BY <1>1
  <2> QED
    BY <2>1 DEF Assignments
<1>2. CASE n \in 1..Len(history)
  BY <1>1, <1>2
<1>3. CASE n \notin 1..Len(history)
  <2> HIDE DEF assigned
  <2>1. changed = history
    BY <1>3
  <2> QED
    BY <2>1 DEF assigned
<1> QED
  BY <1>2, <1>3

LEMMA NewAgentIsAgent ==
    ASSUME NEW w \in Windows, NEW t \in Tasks, NEW d \in Dispatches
    PROVE  /\ NewAgent(w, t, d) \in AgentRecords
           /\ NewAgent(w, t, d) # None
           /\ NewAgent(w, t, d).window = w
BY NoneIsNoRecord DEF NewAgent, AgentRecords, AgentStatuses, ActiveAgent

LEMMA ConfirmedWindowIsWindow ==
    ASSUME LedgerTypeOK, NEW w \in Windows, NEW t \in Tasks, NEW reuse \in Reuses,
           reuse # "NEW" => windows[w] # None
    PROVE  ConfirmedWindow(w, t, reuse) \in WindowRecords /\ ConfirmedWindow(w, t, reuse) # None
<1>1. CASE reuse = "NEW"
  BY <1>1, NewWindowIsWindow, NoneIsNoRecord DEF ConfirmedWindow
<1>2. CASE reuse = "CURRENT"
  <2>1. windows[w] \in WindowRecords /\ windows[w].history \in Seq(Assignments)
    BY <1>2 DEF LedgerTypeOK, WindowRecords
  <2>2. LastActive(windows[w].history) \in Seq(Assignments)
    <3>1. Len(windows[w].history) \in Nat
      BY <2>1
    <3> QED
      BY <2>1, <3>1, HistoryStaysTyped DEF LastActive
  <2>3. [windows[w] EXCEPT !.history = LastActive(@)] \in WindowRecords
    BY <2>1, <2>2 DEF WindowRecords
  <2> QED
    BY <1>2, <2>3, NoneIsNoRecord DEF ConfirmedWindow
<1>3. CASE reuse = "SECOND"
  <2>1. windows[w] \in WindowRecords /\ windows[w].history \in Seq(Assignments)
    BY <1>3 DEF LedgerTypeOK, WindowRecords
  <2>2. SecondAssignment(windows[w].history, t) \in Seq(Assignments)
    <3>1. [windows[w].history EXCEPT ![Len(windows[w].history)].status = "DONE"]
              \in Seq(Assignments)
      <4>1. Len(windows[w].history) \in Nat
        BY <2>1
      <4> QED
        BY <2>1, <4>1, HistoryStaysTyped
    <3>2. [task |-> t, status |-> "ACTIVE"] \in Assignments
      BY DEF Assignments
    <3> QED
      BY <3>1, <3>2 DEF SecondAssignment
  <2>3. [windows[w] EXCEPT !.task = t, !.current = t, !.status = "REGISTERED",
                           !.history = SecondAssignment(@, t),
                           !.reserved = None, !.reservation = None] \in WindowRecords
    BY <2>1, <2>2 DEF WindowRecords, WindowStatuses
  <2> QED
    BY <1>3, <2>3, NoneIsNoRecord DEF ConfirmedWindow
<1> QED
  BY <1>1, <1>2, <1>3 DEF Reuses

LEMMA DispatchTypeStep ==
    ASSUME TypeInv, DispatchNext
    PROVE  TypeInv'
<1> USE DEF TypeInv, TypeOK, LedgerTypeOK, FilesTypeOK
<1>1. ASSUME NEW d \in Dispatches, NEW r \in Reviews, NEW as \in SUBSET Agents, Prepare(d, r, as)
      PROVE  TypeInv'
  <2>1. reviews[r] \in ReviewDecisions
    BY <1>1 DEF Prepare
  <2>2. plans' \in [Dispatches -> Plans \cup {None}]
    <3> DEFINE t == reviews[r].task
               replacing == ReplacementAllowed(t, r)
               plan == [task |-> t, review |-> r, direction |-> corrections[t],
                        window |-> IF replacing THEN None ELSE reviews[r].window,
                        reuse |-> IF replacing THEN "NEW" ELSE reviews[r].reuse,
                        agents |-> as,
                        replacement |-> IF replacing THEN replaced[t] ELSE None]
    <3>1. t \in Tasks /\ reviews[r].reuse \in Reuses /\ reviews[r].window \in Windows \cup {None}
      BY <2>1 DEF ReviewDecisions
    <3>2. replacing => replaced[t] \in Replacements
      BY <3>1 DEF ReplacementAllowed
    <3>3. plan \in Plans
      <4> HIDE DEF replacing, t
      <4> QED
        BY <3>1, <3>2 DEF Plans, Reuses
    <3>4. plans' = [plans EXCEPT ![d] = plan]
      BY <1>1 DEF Prepare
    <3> QED
      BY <3>3, <3>4
  <2>3. UNCHANGED <<ledgerVars, reviews, confirmed, appendPlans, appended, quality,
                    validationFiles, recoveryFiles>>
    BY <1>1 DEF Prepare
  <2>4. AgentsHaveWindows' /\ CasesNameRecords'
    BY <2>3, RecordsStay DEF ledgerVars, runtimeVars, recoveryFiles
  <2> QED
    BY <2>2, <2>3, <2>4 DEF ledgerVars, taskVars, directionVars, outlineVars, runtimeVars,
       occupancyVars, validationFiles, recoveryFiles
<1>2. ASSUME NEW d \in Dispatches, NEW w \in Windows, NEW kept \in BOOLEAN, Confirm(d, w, kept)
      PROVE  TypeInv'
  <2>1. plans[d] \in Plans
    BY <1>2 DEF Confirm
  <2> DEFINE t == plans[d].task
  <2>2. t \in Tasks /\ plans[d].reuse \in Reuses
    BY <2>1 DEF Plans
  <2>3. /\ windows' \in [Windows -> WindowRecords \cup {None}]
        /\ \A x \in Windows : windows[x] # None => windows'[x] # None
        /\ windows'[w] # None
    <3>1. plans[d].reuse # "NEW" => windows[w] # None
      BY <1>2 DEF Confirm, PlannedWindow, Registered
    <3> QED
      BY <1>2, <2>2, <3>1, ConfirmedWindowIsWindow DEF Confirm
  <2>4. /\ agents' \in [Agents -> AgentRecords \cup {None}]
        /\ \A a \in Agents : agents[a] # None => agents'[a] # None
        /\ \A a \in Agents : agents'[a] # None =>
              \/ agents[a] # None /\ agents'[a].window = agents[a].window
              \/ agents'[a].window = w
    BY <1>2, <2>2, NewAgentIsAgent DEF Confirm
  <2>5. confirmed' \in [Dispatches -> Confirmations \cup {None}]
    BY <1>2, <2>2 DEF Confirm, Confirmations
  <2>6. status' \in [Tasks -> Statuses \cup {"ABSENT"}]
    BY <1>2 DEF Confirm, Statuses, Transitions
  <2>7. UNCHANGED <<signals, directionVars, outlineVars, occupancyVars, recovery, reviews,
                    plans, appendPlans, appended, quality, validationFiles, recoveryFiles>>
    BY <1>2 DEF Confirm
  <2>8. AgentsHaveWindows' /\ CasesNameRecords'
    BY <2>3, <2>4, <2>7, RecordsStay DEF recoveryFiles
  <2> QED
    BY <2>3, <2>4, <2>5, <2>6, <2>7, <2>8 DEF directionVars, outlineVars, occupancyVars,
       validationFiles, recoveryFiles
<1>3. ASSUME NEW p \in Appends, NEW d \in Dispatches, NEW as \in SUBSET Agents,
             PrepareAppend(p, d, as)
      PROVE  TypeInv'
  <2>1. appendPlans' \in [Appends -> AppendPlans \cup {None}]
    BY <1>3 DEF PrepareAppend, AppendPlans, Confirmations
  <2>2. UNCHANGED <<ledgerVars, reviews, plans, confirmed, appended, quality, validationFiles,
                    recoveryFiles>>
    BY <1>3 DEF PrepareAppend
  <2>3. AgentsHaveWindows' /\ CasesNameRecords'
    BY <2>2, RecordsStay DEF ledgerVars, runtimeVars, recoveryFiles
  <2> QED
    BY <2>1, <2>2, <2>3 DEF ledgerVars, taskVars, directionVars, outlineVars, runtimeVars,
       occupancyVars, validationFiles, recoveryFiles
<1>4. ASSUME NEW p \in Appends, NEW kept \in BOOLEAN, ConfirmAppend(p, kept)
      PROVE  TypeInv'
  <2> DEFINE d == appendPlans[p].dispatch
             as == appendPlans[p].agents
             t == confirmed[d].task
             w == confirmed[d].window
  <2>1. d \in Dispatches /\ as \in SUBSET Agents
    BY <1>4 DEF ConfirmAppend, AppendPlans
  <2>2. t \in Tasks /\ w \in Windows /\ windows[w] # None
    <3>1. CurrentTask(w) = t /\ status[t] = "IN_PROGRESS" /\ confirmed[d] # None
      BY <1>4 DEF ConfirmAppend, CanAppend
    <3> QED
      BY <2>1, <3>1, NoneIsNothing DEF Confirmations, CurrentTask, Registered
  <2>3. /\ agents' \in [Agents -> AgentRecords \cup {None}]
        /\ \A a \in Agents : agents[a] # None => agents'[a] # None
        /\ \A a \in Agents : agents'[a] # None =>
              \/ agents[a] # None /\ agents'[a].window = agents[a].window
              \/ agents'[a].window = w
    BY <1>4, <2>1, <2>2, NewAgentIsAgent DEF ConfirmAppend
  <2>4. appended' \subseteq Appends
    BY <1>4 DEF ConfirmAppend
  <2>5. UNCHANGED <<taskVars, directionVars, outlineVars, windows, occupancyVars, recovery,
                    reviews, plans, confirmed, appendPlans, quality, validationFiles,
                    recoveryFiles>>
    BY <1>4 DEF ConfirmAppend
  <2>6. AgentsHaveWindows' /\ CasesNameRecords'
    BY <2>2, <2>3, <2>5, RecordsStay DEF recoveryFiles
  <2> QED
    BY <2>3, <2>4, <2>5, <2>6 DEF taskVars, directionVars, outlineVars, occupancyVars,
       validationFiles, recoveryFiles
<1>5. ASSUME NEW a \in Agents, RecordReturn(a)
      PROVE  TypeInv'
  <2>1. agents[a] \in AgentRecords
    BY <1>5 DEF RecordReturn
  <2>2. /\ [agents[a] EXCEPT !.status = "RETURNED"] \in AgentRecords
        /\ [agents[a] EXCEPT !.status = "RETURNED"].window = agents[a].window
    BY <2>1 DEF AgentRecords, AgentStatuses
  <2>3. UNCHANGED <<taskVars, directionVars, outlineVars, windows, occupancyVars, recovery,
                    files>>
    BY <1>5 DEF RecordReturn
  <2>4. agents' = [agents EXCEPT ![a] = [agents[a] EXCEPT !.status = "RETURNED"]]
    BY <1>5 DEF RecordReturn
  <2>5. AgentsHaveWindows' /\ CasesNameRecords'
    BY <2>1, <2>2, <2>3, <2>4, NoneIsNoRecord, RecordsStay DEF files, recoveryFiles
  <2> QED
    BY <2>2, <2>3, <2>4, <2>5 DEF taskVars, directionVars, outlineVars, occupancyVars, files,
       dispatchFiles, validationFiles, recoveryFiles
<1>6. ASSUME NEW d \in Dispatches, RecordQualityReview(d)
      PROVE  TypeInv'
  <2>1. quality' \in [Dispatches -> (SUBSET Agents) \cup {None}]
    BY <1>6 DEF RecordQualityReview, AgentsOf
  <2>2. UNCHANGED <<ledgerVars, reviews, plans, confirmed, appendPlans, appended,
                    validationFiles, recoveryFiles>>
    BY <1>6 DEF RecordQualityReview
  <2>3. AgentsHaveWindows' /\ CasesNameRecords'
    BY <2>2, RecordsStay DEF ledgerVars, runtimeVars, recoveryFiles
  <2> QED
    BY <2>1, <2>2, <2>3 DEF ledgerVars, taskVars, directionVars, outlineVars, runtimeVars,
       occupancyVars, validationFiles, recoveryFiles
<1> HIDE DEF TypeInv, TypeOK, LedgerTypeOK, FilesTypeOK
<1> QED
  BY <1>1, <1>2, <1>3, <1>4, <1>5, <1>6, KeepingIsBoolean DEF DispatchNext

-----------------------------------------------------------------------------
(* C06. *)

\* The steps of C06 and C03 that change a status, the claims, the stops and
\* files of C06, and neither windows, sub-agents nor cases.
LEMMA SettledTypeStep ==
    ASSUME TypeInv,
           status' \in [Tasks -> Statuses \cup {"ABSENT"}],
           signals' \in [Tasks -> SUBSET Signals],
           claims' \in [Objects -> SUBSET Claims],
           stops' \subseteq Stops,
           decisions' \in [Validations -> ValidationDecisions \cup {None}],
           finalizations' \in [Validations -> {"NONE", "APPROVED", "REJECTED"}],
           adjudicated' \subseteq Validations,
           released' \subseteq Validations,
           UNCHANGED <<directionVars, outlineVars, runtimeVars, recovery, reviews,
                       dispatchFiles, acceptance, recoveryFiles>>
    PROVE  TypeInv'
<1>1. AgentsHaveWindows' /\ CasesNameRecords'
  BY RecordsStay DEF runtimeVars, recoveryFiles
<1> QED
  BY <1>1 DEF TypeInv, TypeOK, LedgerTypeOK, FilesTypeOK, directionVars, outlineVars,
     runtimeVars, dispatchFiles, recoveryFiles

LEMMA ClaimsWithoutTyped ==
    ASSUME LedgerTypeOK, NEW t
    PROVE  ClaimsWithout(t) \in [Objects -> SUBSET Claims]
BY DEF LedgerTypeOK, ClaimsWithout, OwnClaims

LEMMA ValidationTypeStep ==
    ASSUME TypeInv, AssessNext \/ SupersedingNext \/ ClosingNext
    PROVE  TypeInv'
<1> USE DEF TypeInv, TypeOK, LedgerTypeOK, FilesTypeOK
<1>1. ASSUME NEW v \in Validations, NEW t \in Tasks, NEW w \in Windows,
             NEW outcome \in AssessedOutcomes, NEW kept \in BOOLEAN, Assess(v, t, w, outcome, kept)
      PROVE  TypeInv'
  <2>1. status' \in [Tasks -> Statuses \cup {"ABSENT"}]
    BY <1>1 DEF Assess, AssessedOutcomes, StatusAfter, Statuses, Transitions
  <2>2. stops' \subseteq Stops
    BY <1>1, ValidationStopIsStop DEF Assess
  <2>3. decisions' \in [Validations -> ValidationDecisions \cup {None}]
    BY <1>1 DEF Assess, ValidationDecisions
  <2> QED
    BY <1>1, <2>1, <2>2, <2>3, SettledTypeStep DEF Assess
<1>2. ASSUME NEW t \in Tasks, NEW v \in Validations, NEW s \in Signals,
             RecordSupersedingSignal(t, v, s)
      PROVE  TypeInv'
  BY <1>2, SettledTypeStep DEF RecordSupersedingSignal, occupancyVars, files, validationFiles
<1>3. ASSUME NEW v \in Validations, NEW kept \in BOOLEAN, Approve(v, kept)
      PROVE  TypeInv'
  <2>1. decisions[v] \in ValidationDecisions
    BY <1>3 DEF Approve
  <2> DEFINE t == decisions[v].task
             w == decisions[v].window
  <2>2. t \in Tasks /\ w \in Windows /\ windows[w] \in WindowRecords
    <3>1. CurrentTask(w) = t
      BY <1>3 DEF Approve, Finalizable
    <3> QED
      BY <2>1, <3>1, NoneIsNothing DEF ValidationDecisions, CurrentTask, Registered
  <2>3. VacatedWindow(w) \in WindowRecords /\ VacatedWindow(w) # None
    <3>1. windows[w].history \in Seq(Assignments)
      BY <2>2 DEF WindowRecords
    <3>2. DoneAssignment(windows[w].history) \in Seq(Assignments)
      <4>1. Len(windows[w].history) \in Nat
        BY <3>1
      <4> QED
        BY <3>1, <4>1, HistoryStaysTyped DEF DoneAssignment
    <3>3. (IF Len(windows[w].history) < MaxAssignments THEN "AVAILABLE_FOR_REUSE" ELSE "RETIRED")
              \in WindowStatuses
      BY DEF WindowStatuses
    <3> DEFINE after == IF Len(windows[w].history) < MaxAssignments THEN "AVAILABLE_FOR_REUSE"
                        ELSE "RETIRED"
               history == DoneAssignment(windows[w].history)
    <3>4. VacatedWindow(w) =
              [windows[w] EXCEPT !.status = after, !.history = history, !.current = None]
      BY <2>2 DEF VacatedWindow, WindowRecords
    <3> HIDE DEF after, history
    <3>5. [windows[w] EXCEPT !.status = after, !.history = history, !.current = None]
              \in WindowRecords
      BY <2>2, <3>2, <3>3 DEF WindowRecords, history, after
    <3> QED
      BY <3>4, <3>5, NoneIsNoRecord
  <2>4. /\ windows' \in [Windows -> WindowRecords \cup {None}]
        /\ \A x \in Windows : windows[x] # None => windows'[x] # None
    BY <1>3, <2>2, <2>3 DEF Approve
  <2>5. /\ agents' \in [Agents -> AgentRecords \cup {None}]
        /\ \A a \in Agents : agents[a] # None => agents'[a] # None
        /\ \A a \in Agents : agents'[a] # None =>
              agents[a] # None /\ agents'[a].window = agents[a].window
    <3>1. ActiveAgents(w) \in SUBSET Agents /\ \A a \in ActiveAgents(w) : agents[a] # None
      BY DEF ActiveAgents
    <3>2. agents' = AgentsBecome(ActiveAgents(w), "COMPLETED")
      BY <1>3 DEF Approve, CompletedAgents, AgentsBecome
    <3>3. "COMPLETED" \in AgentStatuses
      BY DEF AgentStatuses
    <3> QED
      BY <3>1, <3>2, <3>3, AgentsBecomeTyped
  <2>6. /\ status' \in [Tasks -> Statuses \cup {"ABSENT"}]
        /\ acceptance' \in [Tasks -> Validations \cup {None}]
        /\ finalizations' \in [Validations -> {"NONE", "APPROVED", "REJECTED"}]
    BY <1>3 DEF Approve, KeepFinalization, Statuses, Transitions
  <2>7. UNCHANGED <<signals, directionVars, outlineVars, occupancyVars, recovery, reviews,
                    dispatchFiles, decisions, adjudicated, released, recoveryFiles>>
    BY <1>3 DEF Approve
  <2>8. AgentsHaveWindows' /\ CasesNameRecords'
    BY <2>4, <2>5, <2>7, RecordsStay DEF recoveryFiles
  <2> QED
    BY <2>4, <2>5, <2>6, <2>7, <2>8 DEF directionVars, outlineVars, occupancyVars,
       dispatchFiles, recoveryFiles
<1>4. ASSUME NEW v \in Validations, NEW kept \in BOOLEAN, Reject(v, kept)
      PROVE  TypeInv'
  <2>1. finalizations' \in [Validations -> {"NONE", "APPROVED", "REJECTED"}]
    BY <1>4 DEF Reject, KeepFinalization
  <2> QED
    BY <1>4, <2>1, SettledTypeStep DEF Reject, ledgerVars, taskVars, occupancyVars
<1>5. ASSUME NEW v \in Validations, RecordAdjudication(v)
      PROVE  TypeInv'
  BY <1>5, SettledTypeStep DEF RecordAdjudication, ledgerVars, taskVars, occupancyVars
<1>6. ASSUME NEW t \in Tasks, NEW v \in Validations, NEW u \in Validations,
             ResolveConflict(t, v, u)
      PROVE  TypeInv'
  BY <1>6, SettledTypeStep DEF ResolveConflict, taskVars, files, validationFiles
<1>7. ASSUME NEW t \in Tasks, NEW v \in Validations, ReleaseDoneTask(t, v)
      PROVE  TypeInv'
  BY <1>7, SettledTypeStep, ClaimsWithoutTyped DEF ReleaseDoneTask, taskVars
<1>8. ASSUME NEW t \in Tasks, CancelUnstarted(t)
      PROVE  TypeInv'
  <2>1. status' \in [Tasks -> Statuses \cup {"ABSENT"}]
    BY <1>8 DEF CancelUnstarted, Statuses, Transitions
  <2> QED
    BY <1>8, <2>1, SettledTypeStep, ClaimsWithoutTyped DEF CancelUnstarted, files, validationFiles
<1> HIDE DEF TypeInv, TypeOK, LedgerTypeOK, FilesTypeOK
<1>9. CASE AssessNext
  BY <1>1, <1>9, KeepingIsBoolean DEF AssessNext
<1>10. CASE SupersedingNext
  BY <1>2, <1>10 DEF SupersedingNext
<1>11. CASE ClosingNext
  BY <1>3, <1>4, <1>5, <1>6, <1>7, <1>8, <1>11, KeepingIsBoolean DEF ClosingNext
<1> QED
  BY <1>9, <1>10, <1>11

-----------------------------------------------------------------------------
(* C08. *)

LEMMA AffectedAreRecorded ==
    ASSUME TypeInv, NEW type \in IncidentTypes, NEW t \in Tasks \cup {None},
           NEW target \in Windows \cup Agents \cup {None}, ValidIncident(type, t, target)
    PROVE  /\ AffectedWindows(type, t, target) \in SUBSET Windows
           /\ \A w \in AffectedWindows(type, t, target) : Registered(w)
           /\ AffectedAgents(type, t, target) \in SUBSET Agents
           /\ \A a \in AffectedAgents(type, t, target) : agents[a] # None
<1>1. CASE type = "TASK_WINDOW"
  BY <1>1 DEF ValidIncident, AffectedWindows, AffectedAgents
<1>2. CASE type = "SUB_AGENT"
  <2>1. target \in Agents /\ agents[target] # None
    BY <1>2 DEF ValidIncident
  <2>2. agents[target].window \in Windows /\ Registered(agents[target].window)
    BY <2>1 DEF TypeInv, TypeOK, LedgerTypeOK, AgentRecords, AgentsHaveWindows
  <2> QED
    BY <1>2, <2>1, <2>2 DEF AffectedWindows, AffectedAgents
<1>3. CASE type = "CENTRAL"
  BY <1>3 DEF AffectedWindows, AffectedAgents
<1> QED
  BY <1>1, <1>2, <1>3 DEF IncidentTypes

LEMMA FreezeTypeStep ==
    ASSUME TypeInv, NEW c \in Cases, NEW type \in IncidentTypes, NEW t \in Tasks \cup {None},
           NEW target \in Windows \cup Agents \cup {None}, NEW kept \in BOOLEAN,
           Freeze(c, type, t, target, kept)
    PROVE  TypeInv'
<1> USE DEF TypeInv, TypeOK
<1> DEFINE ws == AffectedWindows(type, t, target)
           as == AffectedAgents(type, t, target)
           cut == IF type = "CENTRAL" THEN "FROZEN" ELSE "DISCONNECTED"
           case == [type |-> type, task |-> t, target |-> target, windows |-> ws,
                    agents |-> as, epoch |-> FrozenBy(c).epoch, claims |-> claims]
<1>1. /\ ws \in SUBSET Windows /\ \A w \in ws : Registered(w)
      /\ as \in SUBSET Agents /\ \A a \in as : agents[a] # None
  BY AffectedAreRecorded DEF Freeze
<1>2. type = "TASK_WINDOW" => t \in Tasks /\ target \in ws
  BY DEF Freeze, ValidIncident, AffectedWindows
<1>3. FrozenBy(c) \in RecoveryRecords
  BY DEF FrozenBy, RecoveryRecords, Frozen, LedgerTypeOK
<1>4. case \in Incidents
  BY <1>1, <1>3 DEF Incidents, RecoveryRecords, LedgerTypeOK
<1>5. /\ windows' \in [Windows -> WindowRecords \cup {None}]
      /\ \A w \in Windows : windows[w] # None => windows'[w] # None
  <2>1. cut \in WindowStatuses
    BY DEF WindowStatuses
  <2>2. windows' = WindowsBecome(ws, cut)
    BY DEF Freeze
  <2> HIDE DEF ws, cut
  <2> QED
    BY <1>1, <2>1, <2>2, WindowsBecomeTyped
<1>6. /\ agents' \in [Agents -> AgentRecords \cup {None}]
      /\ \A a \in Agents : agents[a] # None => agents'[a] # None
      /\ \A a \in Agents : agents'[a] # None =>
            agents[a] # None /\ agents'[a].window = agents[a].window
  <2>1. ASSUME NEW a \in Agents, agents[a] # None, NEW s \in {"FROZEN", "DISCONNECTED"}
        PROVE  /\ [agents[a] EXCEPT !.status = s] \in AgentRecords
               /\ [agents[a] EXCEPT !.status = s] # None
               /\ [agents[a] EXCEPT !.status = s].window = agents[a].window
    BY <2>1, NoneIsNoRecord DEF LedgerTypeOK, AgentRecords, AgentStatuses, ActiveAgent
  <2>2. agents' = [a \in Agents |->
                      IF a \notin as THEN agents[a]
                      ELSE [agents[a] EXCEPT
                               !.status = IF a = target THEN "DISCONNECTED" ELSE "FROZEN"]]
    BY DEF Freeze
  <2> HIDE DEF as
  <2>3. ASSUME NEW a \in Agents
        PROVE  \/ agents'[a] = agents[a]
               \/ /\ agents[a] # None
                  /\ \E s \in {"FROZEN", "DISCONNECTED"} :
                        agents'[a] = [agents[a] EXCEPT !.status = s]
    BY <1>1, <2>2
  <2>4. ASSUME NEW a \in Agents
        PROVE  /\ agents'[a] \in AgentRecords \cup {None}
               /\ agents[a] # None => agents'[a] # None
               /\ agents'[a] # None => agents[a] # None /\ agents'[a].window = agents[a].window
    <3>1. CASE agents'[a] = agents[a]
      BY <3>1 DEF LedgerTypeOK
    <3>2. CASE agents'[a] # agents[a]
      <4>1. agents[a] # None
        BY <2>3, <3>2
      <4>2. PICK s \in {"FROZEN", "DISCONNECTED"} : agents'[a] = [agents[a] EXCEPT !.status = s]
        BY <2>3, <3>2
      <4>3. /\ [agents[a] EXCEPT !.status = s] \in AgentRecords
            /\ [agents[a] EXCEPT !.status = s] # None
            /\ [agents[a] EXCEPT !.status = s].window = agents[a].window
        BY <2>1, <4>1
      <4> HIDE DEF TypeInv, TypeOK
      <4> QED
        BY <4>1, <4>2, <4>3
    <3> QED
      BY <3>1, <3>2
  <2> QED
    BY <2>2, <2>4
<1>7. status' \in [Tasks -> Statuses \cup {"ABSENT"}]
  BY DEF Freeze, BlockedTask, Statuses, Transitions, LedgerTypeOK
<1>8. recovery' \in RecoveryRecords
  BY <1>3 DEF Freeze
<1>9. incidents' = incidents \/ incidents' = [incidents EXCEPT ![c] = case]
  BY DEF Freeze
<1>10. UNCHANGED <<signals, directionVars, outlineVars, occupancyVars, reviews, dispatchFiles,
                   validationFiles, takeovers, verdicts, resumed, freed, replaced>>
  BY DEF Freeze
<1>11. AgentsHaveWindows'
  BY <1>5, <1>6 DEF AgentsHaveWindows, Registered, LedgerTypeOK, AgentRecords
<1>12. CasesNameRecords'
  <2>1. ASSUME NEW d \in Cases, incidents'[d] # None
        PROVE  /\ incidents'[d].windows \subseteq Windows
               /\ incidents'[d].agents \subseteq Agents
               /\ \A w \in incidents'[d].windows : Registered(w)
               /\ \A a \in incidents'[d].agents : agents[a] # None
               /\ incidents'[d].type = "TASK_WINDOW" =>
                     incidents'[d].task \in Tasks /\ incidents'[d].target \in incidents'[d].windows
    <3>1. CASE incidents'[d] = incidents[d]
      BY <2>1, <3>1 DEF CasesNameRecords, FilesTypeOK, Incidents
    <3>2. CASE incidents'[d] = case
      <4> HIDE DEF ws, as
      <4>1. /\ incidents'[d].windows = ws /\ incidents'[d].agents = as
            /\ incidents'[d].type = type /\ incidents'[d].task = t /\ incidents'[d].target = target
        BY <3>2
      <4> QED
        BY <1>1, <1>2, <4>1
    <3> QED
      BY <1>9, <3>1, <3>2 DEF FilesTypeOK
  <2> QED
    BY <1>5, <1>6, <2>1 DEF CasesNameRecords, Registered
<1>13. incidents' \in [Cases -> Incidents \cup {None}]
  <2> HIDE DEF case
  <2> QED
    BY <1>4, <1>9 DEF FilesTypeOK
<1> QED
  BY <1>5, <1>6, <1>7, <1>8, <1>10, <1>11, <1>12, <1>13 DEF LedgerTypeOK, FilesTypeOK,
     directionVars, outlineVars, occupancyVars, dispatchFiles, validationFiles

\* A stage of a case that is on file, or the end of one: no case is opened.
LEMMA StageTypeStep ==
    ASSUME TypeInv,
           status' \in [Tasks -> Statuses \cup {"ABSENT"}],
           signals' \in [Tasks -> SUBSET Signals],
           windows' \in [Windows -> WindowRecords \cup {None}],
           agents' \in [Agents -> AgentRecords \cup {None}],
           \A w \in Windows : windows[w] # None => windows'[w] # None,
           \A a \in Agents : agents[a] # None => agents'[a] # None,
           \A a \in Agents : agents'[a] # None =>
               agents[a] # None /\ agents'[a].window = agents[a].window,
           claims' \in [Objects -> SUBSET Claims],
           recovery' \in RecoveryRecords,
           takeovers' \subseteq Cases,
           verdicts' \in [Cases -> Verdicts],
           resumed' \subseteq Cases,
           freed' \subseteq Cases,
           replaced' \in [Tasks -> Replacements \cup {None}],
           UNCHANGED <<directionVars, outlineVars, stops, reviews, dispatchFiles,
                       validationFiles, incidents>>
    PROVE  TypeInv'
<1>1. AgentsHaveWindows' /\ CasesNameRecords'
  BY RecordsStay
<1> QED
  BY <1>1 DEF TypeInv, TypeOK, LedgerTypeOK, FilesTypeOK, directionVars, outlineVars,
     dispatchFiles, validationFiles

LEMMA ReplacedAssignmentsTyped ==
    ASSUME NEW history \in Seq(Assignments), NEW t
    PROVE  /\ ReplacedAssignments(history, t) \in Seq(Assignments)
           /\ Len(ReplacedAssignments(history, t)) = Len(history)
<1> DEFINE entry(i) == IF history[i].task = t /\ history[i].status = "ACTIVE"
                       THEN [history[i] EXCEPT !.status = "DISCONNECTED_REPLACED"]
                       ELSE history[i]
<1>1. ASSUME NEW i \in 1..Len(history)
      PROVE  entry(i) \in Assignments
  <2>1. history[i] \in Assignments
    OBVIOUS
  <2> QED
    BY <2>1 DEF Assignments
<1>2. ReplacedAssignments(history, t) = [i \in 1..Len(history) |-> entry(i)]
  BY DEF ReplacedAssignments
<1> HIDE DEF entry
<1> QED
  BY <1>1, <1>2

LEMMA RecoveryTypeStep ==
    ASSUME TypeInv, RecoveryNext \/ RecoveredNext
    PROVE  TypeInv'
<1> USE DEF TypeInv, TypeOK, LedgerTypeOK, FilesTypeOK
<1>1. ASSUME NEW c \in Cases, NEW epoch, NEW kept \in BOOLEAN, Takeover(c, epoch, kept)
      PROVE  TypeInv'
  <2>1. recovery' \in RecoveryRecords
    BY <1>1 DEF Takeover, RecoveryRecords, Frozen
  <2>2. takeovers' \subseteq Cases
    BY <1>1 DEF Takeover
  <2> QED
    BY <1>1, <2>1, <2>2, StageTypeStep DEF Takeover, taskVars, runtimeVars, occupancyVars
<1>2. ASSUME NEW c \in Cases, NEW action \in DOMAIN StateAfter, NEW kept \in BOOLEAN,
             Decide(c, action, kept)
      PROVE  TypeInv'
  <2>1. incidents[c] \in Incidents
    BY <1>2 DEF Decide
  <2>2. /\ incidents[c].windows \in SUBSET Windows
        /\ \A w \in incidents[c].windows : Registered(w)
        /\ incidents[c].agents \in SUBSET Agents
        /\ \A a \in incidents[c].agents : agents[a] # None
    BY <1>2, <2>1 DEF Decide, Incidents, CasesNameRecords
  <2>3. "CANCELLED" \in WindowStatuses /\ "CANCELLED" \in AgentStatuses
    BY DEF WindowStatuses, AgentStatuses
  <2>4. /\ windows' \in [Windows -> WindowRecords \cup {None}]
        /\ \A w \in Windows : windows[w] # None => windows'[w] # None
    BY <1>2, <2>2, <2>3, WindowsBecomeTyped DEF Decide
  <2>5. /\ agents' \in [Agents -> AgentRecords \cup {None}]
        /\ \A a \in Agents : agents[a] # None => agents'[a] # None
        /\ \A a \in Agents : agents'[a] # None =>
              agents[a] # None /\ agents'[a].window = agents[a].window
    BY <1>2, <2>2, <2>3, AgentsBecomeTyped DEF Decide
  <2>6. status' \in [Tasks -> Statuses \cup {"ABSENT"}]
    BY <1>2 DEF Decide, Statuses, Transitions
  <2>7. recovery' \in RecoveryRecords /\ verdicts' \in [Cases -> Verdicts]
    <3>1. action \in Verdicts /\ StateAfter[action] \in Frozen
      BY DEF StateAfter, Verdicts, Frozen
    <3> QED
      BY <1>2, <3>1 DEF Decide, RecoveryRecords
  <2> QED
    BY <1>2, <2>4, <2>5, <2>6, <2>7, StageTypeStep DEF Decide, occupancyVars
<1>3. ASSUME NEW c \in Cases, NEW epoch, NEW kept \in BOOLEAN, Resume(c, epoch, kept)
      PROVE  TypeInv'
  <2> DEFINE t == incidents[c].task
             w == incidents[c].target
  <2>1. incidents[c] \in Incidents
    BY <1>3 DEF Resume
  <2>2. /\ t \in Tasks /\ w \in Windows /\ windows[w] \in WindowRecords
        /\ incidents[c].agents \in SUBSET Agents
        /\ \A a \in incidents[c].agents : agents[a] # None
    BY <1>3, <2>1 DEF Resume, Incidents, CasesNameRecords, Registered
  <2>3. ReplacedAssignments(windows[w].history, t) \in Seq(Assignments)
    BY <2>2, ReplacedAssignmentsTyped DEF WindowRecords
  <2>4. /\ windows' \in [Windows -> WindowRecords \cup {None}]
        /\ \A x \in Windows : windows[x] # None => windows'[x] # None
    <3>1. [windows[w] EXCEPT !.status = "REPLACED_READ_ONLY", !.current = None,
                             !.history = ReplacedAssignments(@, t)] \in WindowRecords
      BY <2>2, <2>3 DEF WindowRecords, WindowStatuses
    <3>2. windows' = [windows EXCEPT ![w] =
              [windows[w] EXCEPT !.status = "REPLACED_READ_ONLY", !.current = None,
                                 !.history = ReplacedAssignments(@, t)]]
      BY <1>3, <2>2 DEF Resume
    <3> QED
      BY <2>2, <3>1, <3>2, NoneIsNoRecord
  <2>5. /\ agents' \in [Agents -> AgentRecords \cup {None}]
        /\ \A a \in Agents : agents[a] # None => agents'[a] # None
        /\ \A a \in Agents : agents'[a] # None =>
              agents[a] # None /\ agents'[a].window = agents[a].window
    <3>1. "REPLACED_READ_ONLY" \in AgentStatuses
      BY DEF AgentStatuses
    <3>2. agents' = AgentsBecome(incidents[c].agents, "REPLACED_READ_ONLY")
      BY <1>3 DEF Resume
    <3> QED
      BY <2>2, <3>1, <3>2, AgentsBecomeTyped
  <2>6. status' \in [Tasks -> Statuses \cup {"ABSENT"}]
    BY <1>3 DEF Resume, Statuses, Transitions
  <2>7. recovery' \in RecoveryRecords
    BY <1>3 DEF Resume, RecoveryRecords
  <2>8. replaced' \in [Tasks -> Replacements \cup {None}] /\ resumed' \subseteq Cases
    BY <1>3, <2>2 DEF Resume, Replacements
  <2> QED
    BY <1>3, <2>4, <2>5, <2>6, <2>7, <2>8, StageTypeStep DEF Resume, occupancyVars
<1>4. ASSUME NEW c \in Cases, NEW v, NEW kept \in BOOLEAN, Release(c, v, kept)
      PROVE  TypeInv'
  <2>1. /\ incidents[c].windows \in SUBSET Windows
        /\ \A w \in incidents[c].windows : Registered(w)
        /\ incidents[c].agents \in SUBSET Agents
        /\ \A a \in incidents[c].agents : agents[a] # None
    BY <1>4 DEF Release, Incidents, CasesNameRecords
  <2>2. "CLOSED" \in WindowStatuses /\ "CLOSED" \in AgentStatuses
    BY DEF WindowStatuses, AgentStatuses
  <2>3. /\ windows' \in [Windows -> WindowRecords \cup {None}]
        /\ \A w \in Windows : windows[w] # None => windows'[w] # None
    <3>1. windows' = WindowsBecome(incidents[c].windows, "CLOSED")
      BY <1>4 DEF Release
    <3> QED
      BY <2>1, <2>2, <3>1, WindowsBecomeTyped
  <2>4. /\ agents' \in [Agents -> AgentRecords \cup {None}]
        /\ \A a \in Agents : agents[a] # None => agents'[a] # None
        /\ \A a \in Agents : agents'[a] # None =>
              agents[a] # None /\ agents'[a].window = agents[a].window
    <3>1. agents' = AgentsBecome(incidents[c].agents, "CLOSED")
      BY <1>4 DEF Release
    <3> QED
      BY <2>1, <2>2, <3>1, AgentsBecomeTyped
  <2>5. recovery' \in RecoveryRecords /\ freed' \subseteq Cases
    BY <1>4 DEF Release, RecoveryRecords
  <2> QED
    BY <1>4, <2>3, <2>4, <2>5, ClaimsWithoutTyped, StageTypeStep DEF Release, taskVars
<1>5. ASSUME NEW c \in Cases, NEW t \in Tasks, NEW w \in Windows, NEW s \in Signals,
             RecordRecoveredSignal(c, t, w, s)
      PROVE  TypeInv'
  <2>1. status' \in [Tasks -> Statuses \cup {"ABSENT"}] /\ recovery' \in RecoveryRecords
    BY <1>5 DEF RecordRecoveredSignal, Statuses, Transitions, RecoveryRecords
  <2>2. UNCHANGED <<directionVars, outlineVars, windows, agents, claims, stops, reviews,
                    dispatchFiles, validationFiles, incidents, takeovers, verdicts, resumed,
                    freed, replaced>>
    BY <1>5 DEF RecordRecoveredSignal, runtimeVars, occupancyVars, files, recoveryFiles
  <2>3. signals' \in [Tasks -> SUBSET Signals]
    BY <1>5 DEF RecordRecoveredSignal
  <2>4. /\ windows' \in [Windows -> WindowRecords \cup {None}]
        /\ agents' \in [Agents -> AgentRecords \cup {None}]
        /\ claims' \in [Objects -> SUBSET Claims]
    BY <2>2
  <2>5. /\ takeovers' \subseteq Cases /\ verdicts' \in [Cases -> Verdicts]
        /\ resumed' \subseteq Cases /\ freed' \subseteq Cases
        /\ replaced' \in [Tasks -> Replacements \cup {None}]
    BY <2>2
  <2> QED
    BY <2>1, <2>2, <2>3, <2>4, <2>5, StageTypeStep
<1>6. ASSUME RecoveryNext PROVE TypeInv'
  <2> HIDE DEF TypeInv, TypeOK, LedgerTypeOK, FilesTypeOK
  <2> QED
    BY <1>1, <1>2, <1>3, <1>4, <1>6, FreezeTypeStep, KeepingIsBoolean DEF RecoveryNext
<1> QED
  BY <1>5, <1>6 DEF RecoveredNext

-----------------------------------------------------------------------------
LEMMA TypeInvStep == TypeInv /\ [Next]_vars => TypeInv'
<1> SUFFICES ASSUME TypeInv, [Next]_vars PROVE TypeInv'
  OBVIOUS
<1>1. CASE UNCHANGED vars
  BY <1>1 DEF vars, ledgerVars, taskVars, directionVars, outlineVars, runtimeVars, occupancyVars,
     files, dispatchFiles, validationFiles, recoveryFiles, TypeInv, TypeOK, LedgerTypeOK,
     FilesTypeOK, AgentsHaveWindows, CasesNameRecords, Registered
<1> QED
  BY <1>1, LedgerTypeStep, OccupancyTypeStep, DispatchTypeStep, ValidationTypeStep,
     RecoveryTypeStep DEF Next

LEMMA TypeInvAlways == Spec => []TypeInv
BY TypeInvInit, TypeInvStep, PTL DEF Spec

\* The ledger and the components' files keep their types whatever commands are
\* run in whatever order and whichever files are lost: a case never closes a
\* window or a sub-agent that was not recorded.
THEOREM TypeOKAlways == Spec => []TypeOK
<1>1. TypeInv => TypeOK
  BY DEF TypeInv
<1> QED
  BY <1>1, TypeInvAlways, PTL

===============================================================================
