----------------------------- MODULE Succession ------------------------------
(***************************************************************************)
(* What the role routing promises: each role has one line of holders, one  *)
(* after the other.  There is a centre first; nobody takes a role while    *)
(* holding one; a holder is only ever replaced by the next.                *)
(***************************************************************************)
EXTENDS Sequences

CONSTANTS
    Threads,    \* who may hold a role
    Roles,      \* the roles ...
    Centre      \* ... and the one that is there from the start

VARIABLE
    line        \* role -> its holders, the current one last

\* Who holds a role now.
Holders == {line[r][Len(line[r])] : r \in {q \in Roles : line[q] # <<>>}}

Init == line = [r \in Roles |-> <<>>]

\* The first centre appoints itself.
Open(s) ==
    /\ line[Centre] = <<>>
    /\ line' = [line EXCEPT ![Centre] = <<s>>]

Succeed(r, s) ==
    /\ line[Centre] # <<>>
    /\ s \notin Holders
    /\ line' = [line EXCEPT ![r] = Append(@, s)]

Next == \E s \in Threads : Open(s) \/ \E r \in Roles : Succeed(r, s)

Spec == Init /\ [][Next]_line
==============================================================================
