------------------------------ MODULE Governance ------------------------------
(***************************************************************************)
(* The whole of it: C03 with the components that write its ledger, C05,    *)
(* C06, C08 and C10.  They are commands that run whenever somebody runs    *)
(* them; the ledger lock makes each a single step.                         *)
(***************************************************************************)
EXTENDS Ledger, Recovery

vars == <<ledgerVars, files>>

TypeOK == LedgerTypeOK /\ FilesTypeOK

Init == LedgerInit /\ FilesInit

Next ==
    \/ LedgerNext /\ UNCHANGED files
    \/ OccupancyNext
    \/ DispatchNext
    \/ AssessNext
    \/ SupersedingNext
    \/ ClosingNext
    \/ RecoveryNext
    \/ RecoveredNext

Spec == Init /\ [][Next]_vars

-----------------------------------------------------------------------------
(* Properties. *)

(***************************************************************************)
(* A task is DONE only by the approval of a decision about it that was     *)
(* assessed under the direction the task ended with, and nothing holds it: *)
(* no correction and no wait slips in between assessment and approval.     *)
(***************************************************************************)
DoneIsAccepted ==
    \A t \in Tasks :
        status[t] = "DONE" =>
            LET v == acceptance[t]
            IN  /\ v # None
                /\ decisions[v].task = t
                /\ decisions[v].outcome \in {"PASS", "HISTORICAL"}
                /\ decisions[v].direction = corrections[t]
                /\ ~DirectionHold(t)
                /\ ActiveWaits(t) = {}

\* What a task holds it keeps until it is over and no hard stop names it,
\* through conflicts, cancellations, freezes and replacements of its window.
ClaimsOutliveWork ==
    [][\A t \in Tasks :
          TaskClaims(t) \ TaskClaims(t)' # {} => status'[t] \in Terminal /\ ~HasStop(t)]_vars

(***************************************************************************)
(* A window carries out its current task as its last assignment, and takes *)
(* on a second task, of its own, only after its first is DONE, and no      *)
(* third.                                                                  *)
(***************************************************************************)
WindowsServeTwoTasks ==
    \A w \in Windows : Registered(w) =>
        LET history == windows[w].history
        IN  /\ Len(history) \in 1..MaxAssignments
            /\ windows[w].current # None =>
                 history[Len(history)] = [task |-> windows[w].current, status |-> "ACTIVE"]
            /\ Len(history) = 2 => /\ history[1].status = "DONE"
                                   /\ history[1].task # history[2].task
                                   /\ status[history[1].task] = "DONE"

(***************************************************************************)
(* While a case freezes the project, nothing happens behind its back: the  *)
(* claims are those of the moment it was frozen, which its takeover and    *)
(* its replacement are checked against, and its task stands still.         *)
(***************************************************************************)
FreezeHolds ==
    LET c == recovery.case
    IN  recovery.state \in Frozen /\ incidents[c] # None /\ incidents[c].epoch = recovery.epoch
        => /\ claims = incidents[c].claims
           /\ incidents[c].task # None => status[incidents[c].task] \in {"BLOCKED"} \cup Terminal

\* Two cases never share an epoch, and the ledger is not behind any of them:
\* that is what tells an authorization for one case from one for another.
EpochsTellCasesApart ==
    \A c \in Cases : incidents[c] # None =>
        /\ incidents[c].epoch <= recovery.epoch
        /\ \A d \in Cases \ {c} : incidents[d] # None => incidents[c].epoch # incidents[d].epoch

\* A window that was replaced never works again, whatever its task goes
\* through afterwards.
ReplacedWindowsRest ==
    \A t \in Tasks : replaced[t] # None => CurrentTask(replaced[t].window) = None

\* docs/C08_DISCONNECTION_RECOVERY_CONTROLLER.md:39, the authorizations of an
\* earlier case have no power over a later one: the freeze of a case is ended
\* by its own replacement or release.
FreezesEndByTheirOwnCase ==
    [][recovery.state \in Frozen /\ recovery'.state \in ClosedStates =>
          (resumed' \ resumed) \cup (freed' \ freed) \subseteq {recovery.case}]_vars
==============================================================================
