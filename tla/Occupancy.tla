------------------------------ MODULE Occupancy -------------------------------
(***************************************************************************)
(* C05 (occupancy_conflict_checker.py): an approved review of a planned    *)
(* task either reserves everything it asks for, and a slot in a window it  *)
(* may reuse, and makes the task READY, or blocks it under a hard stop.    *)
(* A review that has to wait changes nothing and is not a step.  That a    *)
(* task also waits for its turn in C09's arrangement is added by Delivery. *)
(***************************************************************************)
EXTENDS DataRoot

CONSTANTS
    RequestSets     \* what a review may ask for

Requests ==
    [object: Objects, key: Objects, intent: {"READ", "WRITE"}, exclusive: BOOLEAN]

ASSUME RequestsAreRequests ==
    \A rs \in RequestSets : rs # {} /\ rs \subseteq Requests

-----------------------------------------------------------------------------
CurrentWindows(t) ==
    {w \in Windows : /\ CurrentTask(w) = t
                     /\ windows[w].status = "REGISTERED"
                     /\ windows[w].trusted}

\* A window that has finished its first task and may take one more.
ReusableWindow(w) ==
    /\ Registered(w)
    /\ windows[w].trusted
    /\ Len(windows[w].history) = 1
    /\ status[windows[w].task] = "DONE"
    /\ windows[w].status = "AVAILABLE_FOR_REUSE"
    /\ windows[w].current = None

Choice(reuse, w) == [reuse |-> reuse, window |-> w]

(***************************************************************************)
(* resolve_window over the modes and compatibilities a review may state: a *)
(* window working for the task, one free for a second task, or a new one   *)
(* when no window works for the task.  When one does, asking for a new     *)
(* window, or leaving the choice open between two, is a conflict.          *)
(***************************************************************************)
WindowChoices(t) ==
    {Choice("CURRENT", w) : w \in CurrentWindows(t)}
    \cup {Choice("SECOND", w) : w \in {x \in Windows : ReusableWindow(x)}}
    \cup (IF CurrentWindows(t) = {} THEN {Choice("NEW", None)} ELSE {})
DuplicateWindows(t) == CurrentWindows(t) # {}

\* claim_conflicts: the names of two claims overlap, and one of them excludes
\* the other or writes.
ClaimsConflict(p, q) ==
    /\ {p.object, p.claim.key} \cap {q.object, q.claim.key} # {}
    /\ \/ p.claim.exclusive \/ q.claim.exclusive
       \/ p.claim.intent = "WRITE" \/ q.claim.intent = "WRITE"

Reservation(t, r, q) ==
    [object |-> q.object,
     claim |-> [owner |-> t, intent |-> q.intent, key |-> q.key,
                exclusive |-> q.exclusive, review |-> r]]

AllClaims == UNION {{[object |-> o, claim |-> c] : c \in claims[o]} : o \in Objects}

\* Mutant of RequestsConflict: conflict keys are not compared.
SameObjectConflicts(t, asked) ==
    HasClaims(t) \/ \E p \in asked, q \in AllClaims : p.object = q.object

RequestsConflict(t, asked) ==
    HasClaims(t) \/ \E p \in asked, q \in AllClaims : ClaimsConflict(p, q)

-----------------------------------------------------------------------------
Reviewable(r, t) ==
    /\ reviews[r] = None
    /\ status[t] = "PLANNED"
    /\ DirectionReady(t)

RecordReview(r, t, eligible, choice, asked, kept) ==
    reviews' = IF kept
               THEN [reviews EXCEPT ![r] =
                        [task |-> t, eligible |-> eligible, window |-> choice.window,
                         reuse |-> choice.reuse, claims |-> asked]]
               ELSE reviews

ReservedWindow(w, t, r) ==
    [windows[w] EXCEPT !.status = "RESERVED_FOR_REUSE", !.current = None,
                       !.reserved = t, !.reservation = r]

\* evaluate, eligible: the claims are recorded and the task becomes READY.
Reserve(r, t, requests, choice, kept) ==
    LET asked == {Reservation(t, r, q) : q \in requests}
    IN  /\ Reviewable(r, t)
        /\ stops = {}
        /\ choice \in WindowChoices(t)
        /\ ~RequestsConflict(t, asked)
        /\ claims' = [o \in Objects |-> claims[o] \cup {p.claim : p \in {x \in asked : x.object = o}}]
        /\ windows' = IF choice.reuse = "SECOND"
                      THEN [windows EXCEPT ![choice.window] = ReservedWindow(choice.window, t, r)]
                      ELSE windows
        /\ status' = [status EXCEPT ![t] = "READY"]
        /\ RecordReview(r, t, TRUE, choice, asked, kept)
        /\ UNCHANGED <<signals, directionVars, outlineVars, agents, stops, recovery,
                       dispatchFiles, validationFiles, recoveryFiles>>
        /\ Commit

\* evaluate, conflicting: a cross-module conflict is reported even under a
\* hard stop, the others only without one.
Block(r, t, requests, crossModule, kept) ==
    LET asked == {Reservation(t, r, q) : q \in requests}
    IN  /\ Reviewable(r, t)
        /\ \/ crossModule
           \/ stops = {} /\ (DuplicateWindows(t) \/ RequestsConflict(t, asked))
        /\ status' = [status EXCEPT ![t] = "BLOCKED"]
        /\ stops' = stops \cup {ReviewStop(t, r)}
        /\ RecordReview(r, t, FALSE, Choice("NEW", None), {}, kept)
        /\ UNCHANGED <<signals, directionVars, outlineVars, runtimeVars, claims, recovery,
                       dispatchFiles, validationFiles, recoveryFiles>>
        /\ Commit

OccupancyNext ==
    \E r \in Reviews, t \in Tasks, requests \in RequestSets, kept \in Keeping :
        \/ \E choice \in WindowChoices(t) : Reserve(r, t, requests, choice, kept)
        \/ \E crossModule \in BOOLEAN : Block(r, t, requests, crossModule, kept)

-----------------------------------------------------------------------------
(* Properties. *)

(***************************************************************************)
(* Whatever is planned, blocked, released and frozen in between, two tasks *)
(* never hold reservations that conflict, under either of their names.     *)
(***************************************************************************)
ReservationsDoNotConflict ==
    \A p, q \in AllClaims :
        p.claim.review # None /\ q.claim.review # None /\ p.claim.owner # q.claim.owner =>
            ~ClaimsConflict(p, q)
==============================================================================
