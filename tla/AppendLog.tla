----------------------------- MODULE AppendLog -----------------------------
(***************************************************************************)
(* What the engineering ledger promises its readers: the mutations that    *)
(* made it form a log that is opened once and only ever grows at its end,  *)
(* by one mutation that was not in it before.                              *)
(***************************************************************************)
EXTENDS Sequences

CONSTANT Entries    \* the mutations, named by their receipts

VARIABLE log        \* the mutations the ledger is made of, in order

Init == log = <<>>

Extend(e) ==
    /\ \A i \in DOMAIN log : log[i] # e
    /\ log' = Append(log, e)

Next == \E e \in Entries : Extend(e)

Spec == Init /\ [][Next]_log
=============================================================================
