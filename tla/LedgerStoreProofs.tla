------------------------- MODULE LedgerStoreProofs -------------------------
(***************************************************************************)
(* What the ledger on disk promises for any number of commands, receipts   *)
(* and kills: the receipt chain verifies at every instant, with or without *)
(* commands that skip ledger_lock; and when none skips it, the ledger is a *)
(* log that only grows and that keeps every mutation answered RECORDED.    *)
(***************************************************************************)
EXTENDS LedgerStore, SequenceTheorems, TLAPS

\* A command that has read, written or replaced something still holds what it
\* needs for its next statement.
ProgressInv ==
    \A c \in Commands :
        /\ pc[c] = "loaded" => before[c] # None
        /\ pc[c] \in {"receipted", "replaced"} => mine[c] \in 1 .. Len(receipts)

TypeInv == TypeOK /\ ProgressInv

USE UnlockedAreCommands, NoneIsNoCommand, Bounds

-----------------------------------------------------------------------------
LEMMA FirstLedgerType ==
    ASSUME NEW r \in ReceiptIds
    PROVE  FirstLedger(r) \in Ledgers
BY DEF FirstLedger, Ledgers

LEMMA SuccessorType ==
    ASSUME NEW l \in Ledgers, NEW r \in ReceiptIds
    PROVE  Successor(l, r) \in Ledgers
BY DEF Successor, Ledgers

\* Sequences that agree up to i have the same prefix of length i.
LEMMA PrefixesAgree ==
    ASSUME NEW S, NEW s \in Seq(S), NEW t \in Seq(S), NEW i \in Nat,
           i <= Len(s), i <= Len(t), \A j \in 1 .. i : s[j] = t[j]
    PROVE  SubSeq(s, 1, i) = SubSeq(t, 1, i)
<1>1. /\ \A j \in 1 .. i : s[j] \in S /\ t[j] \in S
      /\ i \in Int /\ 1 \in Int
  OBVIOUS
<1>2. /\ SubSeq(s, 1, i) \in Seq(S)
      /\ Len(SubSeq(s, 1, i)) = IF 1 <= i THEN i - 1 + 1 ELSE 0
      /\ \A j \in 1 .. i - 1 + 1 : SubSeq(s, 1, i)[j] = s[1 + j - 1]
  BY <1>1, SubSeqProperties
<1>3. /\ SubSeq(t, 1, i) \in Seq(S)
      /\ Len(SubSeq(t, 1, i)) = IF 1 <= i THEN i - 1 + 1 ELSE 0
      /\ \A j \in 1 .. i - 1 + 1 : SubSeq(t, 1, i)[j] = t[1 + j - 1]
  BY <1>1, SubSeqProperties
<1> DEFINE u == SubSeq(s, 1, i)
           v == SubSeq(t, 1, i)
<1>4. u \in Seq(S) /\ v \in Seq(S) /\ Len(u) = i /\ Len(v) = i
  BY <1>2, <1>3
<1>5. \A j \in 1 .. i : u[j] = v[j]
  <2> TAKE j \in 1 .. i
  <2>1. j \in 1 .. i - 1 + 1 /\ 1 + j - 1 = j
    OBVIOUS
  <2> QED
    BY <1>2, <1>3, <2>1
<1> HIDE DEF u, v
<1>6. u = v
  BY <1>4, <1>5, SeqEqual
<1> QED
  BY <1>6 DEF u, v

\* A receipt file that is added leaves the others as they are.
LEMMA AddReceipt ==
    ASSUME TypeOK, NEW b \in Ledgers \cup {None}, NEW a \in Ledgers,
           WriteReceiptFile(b, a)
    PROVE  /\ receipts' \in Seq(Receipts)
           /\ Len(receipts') = NextReceipt
           /\ NextReceipt \in ReceiptIds
           /\ \A r \in 1 .. Len(receipts) : receipts'[r] = receipts[r]
           /\ receipts'[NextReceipt] = [before |-> b, after |-> a]
<1>1. [before |-> b, after |-> a] \in Receipts
  BY DEF Receipts
<1> QED
  BY <1>1, AppendProperties DEF TypeOK, WriteReceiptFile, NextReceipt, ReceiptIds

LEMMA TypeInit == Init => TypeInv
<1>1. SUFFICES ASSUME Init PROVE TypeInv
  OBVIOUS
<1>2. TypeOK
  <2>1. receipts \in Seq(Receipts)
    BY <1>1 DEF Init
  <2>2. mine \in [Commands -> 0 .. MaxReceipts] /\ crashes \in 0 .. MaxCrashes
    BY <1>1 DEF Init
  <2>3. pc \in [Commands -> States] /\ before \in [Commands -> Ledgers \cup {None}]
    BY <1>1 DEF Init, States
  <2> QED
    BY <1>1, <2>1, <2>2, <2>3 DEF Init, TypeOK, Lock!Init
<1>3. ProgressInv
  BY <1>1 DEF Init, ProgressInv
<1> QED
  BY <1>2, <1>3 DEF TypeInv

LEMMA TypeStep == TypeInv /\ [Next]_vars => TypeInv'
<1>1. SUFFICES ASSUME TypeInv, [Next]_vars PROVE TypeInv'
  OBVIOUS
<1>2. TypeOK /\ ProgressInv
  BY <1>1 DEF TypeInv
<1>3. CASE UNCHANGED vars
  BY <1>2, <1>3 DEF vars, TypeInv, TypeOK, ProgressInv
<1>4. ASSUME NEW c \in Commands, WriteFirstReceipt(c) PROVE TypeInv'
  <2>1. NextReceipt \in ReceiptIds /\ WriteReceiptFile(None, FirstLedger(NextReceipt))
    BY <1>4 DEF WriteFirstReceipt, WriteReceiptFile
  <2>2. /\ receipts' \in Seq(Receipts)
        /\ Len(receipts') = NextReceipt
    BY <1>2, <2>1, AddReceipt, FirstLedgerType
  <2> QED
    BY <1>2, <1>4, <2>1, <2>2
    DEF WriteFirstReceipt, Goto, TypeInv, TypeOK, ProgressInv, States, NextReceipt,
        ReceiptIds
<1>5. ASSUME NEW c \in Commands, WriteReceipt(c) PROVE TypeInv'
  <2>1. before[c] \in Ledgers
    BY <1>2, <1>5 DEF WriteReceipt, TypeOK, ProgressInv
  <2>2. /\ NextReceipt \in ReceiptIds
        /\ WriteReceiptFile(before[c], Successor(before[c], NextReceipt))
    BY <1>5 DEF WriteReceipt, WriteReceiptFile
  <2>3. /\ receipts' \in Seq(Receipts)
        /\ Len(receipts') = NextReceipt
    BY <1>2, <2>1, <2>2, AddReceipt, SuccessorType
  <2> QED
    BY <1>2, <1>5, <2>2, <2>3
    DEF WriteReceipt, Goto, TypeInv, TypeOK, ProgressInv, States, NextReceipt, ReceiptIds
<1>6. ASSUME NEW c \in Commands, ReplaceLedger(c) PROVE TypeInv'
  <2>1. receipts[mine[c]].after \in Ledgers
    <3>1. receipts \in Seq(Receipts) /\ mine[c] \in 1 .. Len(receipts)
      BY <1>2, <1>6 DEF ReplaceLedger, TypeOK, ProgressInv
    <3>2. receipts[mine[c]] \in Receipts
      BY <3>1
    <3> QED
      BY <3>2 DEF Receipts
  <2> QED
    BY <1>2, <1>6, <2>1 DEF ReplaceLedger, Goto, TypeInv, TypeOK, ProgressInv, States
<1>7. ASSUME NEW c \in Commands, Report(c) PROVE TypeInv'
  <2>1. mine[c] \in ReceiptIds
    BY <1>2, <1>7 DEF Report, TypeOK, ProgressInv, ReceiptIds
  <2> QED
    BY <1>2, <1>7, <2>1
    DEF Report, Goto, Unlock, disk, TypeInv, TypeOK, ProgressInv, States
<1>8. ASSUME NEW c \in Commands, Acquire(c) \/ MakeDirectory(c) PROVE TypeInv'
  BY <1>2, <1>8
  DEF Acquire, MakeDirectory, Goto, disk, Lock!Acquire, TypeInv, TypeOK, ProgressInv,
      States
<1>9. ASSUME NEW c \in Commands, Load(c) PROVE TypeInv'
  BY <1>2, <1>9 DEF Load, Goto, disk, TypeInv, TypeOK, ProgressInv, States
<1>10. ASSUME NEW c \in Commands, Refuse(c) \/ Crash(c) PROVE TypeInv'
  <2>1. TypeOK'
    BY <1>2, <1>10 DEF Refuse, Crash, Goto, Unlock, disk, TypeOK, States
  <2>2. ProgressInv'
    BY <1>2, <1>10 DEF Refuse, Crash, Goto, disk, TypeOK, ProgressInv, States
  <2> QED
    BY <2>1, <2>2 DEF TypeInv
<1> QED
  BY <1>1, <1>3, <1>4, <1>5, <1>6, <1>7, <1>8, <1>9, <1>10 DEF Next

\* The ledger, its receipts and the copies in the commands keep their types.
THEOREM TypeCorrect == Spec => []TypeOK
<1>1. TypeInv => TypeOK
  BY DEF TypeInv
<1> QED
  BY TypeInit, TypeStep, <1>1, PTL DEF Spec

-----------------------------------------------------------------------------
\* Every ledger that is written down anywhere is the end of a receipt chain.
ChainInv ==
    /\ \A r \in 1 .. Len(receipts) : VerifyLedger(receipts[r].after, receipts)
    /\ \A c \in Commands : before[c] # None => VerifyLedger(before[c], receipts)
    /\ file # None => VerifyLedger(file, receipts)

\* A verified ledger stays verified when a receipt file is added.
LEMMA VerifyStable ==
    ASSUME NEW rs \in Seq(Receipts), NEW x \in Receipts, NEW l \in Ledgers,
           VerifyLedger(l, rs)
    PROVE  VerifyLedger(l, Append(rs, x))
<1> DEFINE ids == l.receiptIds
           n == Len(ids)
           rs2 == Append(rs, x)
<1>1. /\ Len(rs2) = Len(rs) + 1 /\ Len(rs) \in Nat
      /\ \A r \in 1 .. Len(rs) : rs2[r] = rs[r]
  BY AppendProperties
<1>2. ids # <<>> /\ ids \in Seq(ReceiptIds) /\ l = rs[ids[n]].after
  BY DEF VerifyLedger, Ledgers
<1>3. n \in Nat /\ n \in 1 .. n
  BY <1>2, EmptySeq
<1>4. \A i \in 1 .. n : ids[i] \in 1 .. Len(rs) /\ rs2[ids[i]] = rs[ids[i]]
  BY <1>1 DEF VerifyLedger
<1> HIDE DEF rs2
<1>5. ASSUME NEW i \in 1 .. n
      PROVE  /\ ids[i] \in 1 .. Len(rs2)
             /\ rs2[ids[i]].before = IF i = 1 THEN None ELSE rs2[ids[i - 1]].after
             /\ rs2[ids[i]].after.revision = i - 1
             /\ rs2[ids[i]].after.receiptIds = SubSeq(ids, 1, i)
  <2>1. /\ rs[ids[i]].before = IF i = 1 THEN None ELSE rs[ids[i - 1]].after
        /\ rs[ids[i]].after.revision = i - 1
        /\ rs[ids[i]].after.receiptIds = SubSeq(ids, 1, i)
    BY DEF VerifyLedger
  <2>2. i # 1 => i - 1 \in 1 .. n
    BY <1>3
  <2>3. rs2[ids[i]] = rs[ids[i]] /\ (i # 1 => rs2[ids[i - 1]] = rs[ids[i - 1]])
    BY <1>4, <2>2
  <2>4. ids[i] \in 1 .. Len(rs2)
    BY <1>1, <1>4
  <2> QED
    BY <2>1, <2>3, <2>4
<1>6. l = rs2[ids[n]].after
  BY <1>2, <1>3, <1>4
<1>7. VerifyLedger(l, rs2)
  BY <1>2, <1>5, <1>6 DEF VerifyLedger
<1> QED
  BY <1>7 DEF rs2

\* new_ledger with its receipt is a chain of one.
LEMMA VerifyFirst ==
    ASSUME NEW rs \in Seq(Receipts), NEW r, r = Len(rs) + 1, r \in ReceiptIds,
           NEW rs2, rs2 = Append(rs, [before |-> None, after |-> FirstLedger(r)])
    PROVE  VerifyLedger(FirstLedger(r), rs2)
<1> DEFINE a == FirstLedger(r)
           ids == a.receiptIds
<1>1. [before |-> None, after |-> a] \in Receipts
  BY FirstLedgerType DEF Receipts
<1>2. Len(rs2) = r /\ rs2[r] = [before |-> None, after |-> a]
  BY <1>1, AppendProperties
<1>3. ids = <<r>> /\ a.revision = 0
  BY DEF FirstLedger
<1>4. ids \in Seq(ReceiptIds) /\ Len(ids) = 1 /\ ids[1] = r /\ ids # <<>>
  <2>1. <<r>> \in Seq(ReceiptIds) /\ Len(<<r>>) = 1 /\ <<r>>[1] = r
    OBVIOUS
  <2> QED
    BY <1>3, <2>1, EmptySeq
<1>5. SubSeq(ids, 1, 1) = ids
  BY <1>4, SubSeqFull
<1>6. r \in 1 .. Len(rs2)
  BY <1>2 DEF ReceiptIds
<1> HIDE DEF a
<1>7. ASSUME NEW i \in 1 .. Len(ids)
      PROVE  /\ ids[i] \in 1 .. Len(rs2)
             /\ rs2[ids[i]].before = IF i = 1 THEN None ELSE rs2[ids[i - 1]].after
             /\ rs2[ids[i]].after.revision = i - 1
             /\ rs2[ids[i]].after.receiptIds = SubSeq(ids, 1, i)
  <2>1. i = 1
    BY <1>4
  <2> QED
    BY <1>2, <1>3, <1>4, <1>5, <1>6, <2>1
<1>8. VerifyLedger(a, rs2)
  BY <1>2, <1>4, <1>7 DEF VerifyLedger
<1> QED
  BY <1>8 DEF a

\* commit_mutation extends a verified ledger to a verified ledger.
LEMMA VerifySuccessor ==
    ASSUME NEW rs \in Seq(Receipts), NEW b \in Ledgers, VerifyLedger(b, rs),
           NEW r, r = Len(rs) + 1, r \in ReceiptIds,
           NEW rs2, rs2 = Append(rs, [before |-> b, after |-> Successor(b, r)])
    PROVE  VerifyLedger(Successor(b, r), rs2)
<1> DEFINE a == Successor(b, r)
           n == Len(b.receiptIds)
           ids == a.receiptIds
<1>1. [before |-> b, after |-> a] \in Receipts
  BY SuccessorType DEF Receipts
<1>2. /\ Len(rs2) = r
      /\ \A q \in 1 .. Len(rs) : rs2[q] = rs[q]
      /\ rs2[r] = [before |-> b, after |-> a]
  BY <1>1, AppendProperties
<1>3. /\ b.receiptIds \in Seq(ReceiptIds)
      /\ n \in Nat /\ n > 0
      /\ Len(rs) \in Nat
  <2>1. b.receiptIds \in Seq(ReceiptIds) /\ b.receiptIds # <<>>
    BY DEF Ledgers, VerifyLedger
  <2> QED
    BY <2>1, EmptySeq
<1>4. /\ ids = Append(b.receiptIds, r)
      /\ ids \in Seq(ReceiptIds)
      /\ Len(ids) = n + 1
      /\ \A i \in 1 .. n : ids[i] = b.receiptIds[i]
      /\ ids[n + 1] = r
      /\ ids # <<>>
  <2>1. ids = Append(b.receiptIds, r)
    BY DEF Successor
  <2> DEFINE t == Append(b.receiptIds, r)
  <2>2. /\ t \in Seq(ReceiptIds) /\ t # <<>> /\ Len(t) = n + 1 /\ t[n + 1] = r
        /\ \A i \in 1 .. n : t[i] = b.receiptIds[i]
    BY <1>3, AppendProperties
  <2> HIDE DEF t, a
  <2>3. ids = t
    BY <2>1 DEF t
  <2> QED
    BY <2>1, <2>2, <2>3
<1>5. b = rs[b.receiptIds[n]].after
  BY DEF VerifyLedger
<1>6. b.revision = n - 1 /\ a.revision = n
  BY <1>3, <1>5 DEF VerifyLedger, Successor
<1> HIDE DEF a
<1>7. ASSUME NEW i \in 1 .. Len(ids)
      PROVE  /\ ids[i] \in 1 .. Len(rs2)
             /\ rs2[ids[i]].before = IF i = 1 THEN None ELSE rs2[ids[i - 1]].after
             /\ rs2[ids[i]].after.revision = i - 1
             /\ rs2[ids[i]].after.receiptIds = SubSeq(ids, 1, i)
  <2>1. CASE i \in 1 .. n
    <3>1. /\ b.receiptIds[i] \in 1 .. Len(rs)
          /\ rs[b.receiptIds[i]].before = IF i = 1 THEN None
                   ELSE rs[b.receiptIds[i - 1]].after
          /\ rs[b.receiptIds[i]].after.revision = i - 1
          /\ rs[b.receiptIds[i]].after.receiptIds = SubSeq(b.receiptIds, 1, i)
      BY <2>1 DEF VerifyLedger
    <3>2. SubSeq(ids, 1, i) = SubSeq(b.receiptIds, 1, i)
      <4>1. /\ i \in Nat /\ i <= Len(ids) /\ i <= Len(b.receiptIds)
            /\ \A j \in 1 .. i : ids[j] = b.receiptIds[j]
        BY <1>3, <1>4, <2>1
      <4>2. ids \in Seq(ReceiptIds) /\ b.receiptIds \in Seq(ReceiptIds)
        BY <1>3, <1>4
      <4> QED
        BY <4>1, <4>2, PrefixesAgree
    <3>3. i # 1 => i - 1 \in 1 .. n /\ b.receiptIds[i - 1] \in 1 .. Len(rs)
      BY <1>3, <2>1 DEF VerifyLedger
    <3>4. rs2[ids[i]] = rs[b.receiptIds[i]]
      BY <1>2, <1>4, <2>1, <3>1
    <3>5. i # 1 => rs2[ids[i - 1]] = rs[b.receiptIds[i - 1]]
      BY <1>2, <1>4, <3>3
    <3>6. ids[i] \in 1 .. Len(rs2)
      BY <1>2, <1>3, <1>4, <2>1, <3>1
    <3> QED
      BY <3>1, <3>2, <3>4, <3>5, <3>6
  <2>2. CASE i = n + 1
    <3>1. b.receiptIds[n] \in 1 .. Len(rs)
      BY <1>3 DEF VerifyLedger
    <3>2. rs2[ids[i]].before = b /\ rs2[ids[i]].after = a
      BY <1>2, <1>4, <2>2
    <3>3. rs2[ids[i - 1]].after = b
      BY <1>2, <1>3, <1>4, <1>5, <2>2, <3>1
    <3>4. SubSeq(ids, 1, i) = ids
      BY <1>4, <2>2, SubSeqFull
    <3>5. ids[i] \in 1 .. Len(rs2) /\ i # 1 /\ i - 1 = n
      BY <1>2, <1>3, <1>4, <2>2
    <3> QED
      BY <1>6, <3>2, <3>3, <3>4, <3>5
  <2>3. i \in 1 .. n \/ i = n + 1
    BY <1>3, <1>4
  <2> QED
    BY <2>1, <2>2, <2>3
<1>8. a = rs2[ids[Len(ids)]].after
  BY <1>2, <1>4
<1>9. VerifyLedger(a, rs2)
  BY <1>4, <1>7, <1>8 DEF VerifyLedger
<1> QED
  BY <1>9 DEF a

\* Adding the receipt of a ledger that verifies keeps all of them verified.
LEMMA ChainExtends ==
    ASSUME TypeOK, ChainInv, NEW b \in Ledgers \cup {None}, NEW a \in Ledgers,
           WriteReceiptFile(b, a), VerifyLedger(a, receipts'), UNCHANGED <<file, before>>
    PROVE  ChainInv'
<1>1. /\ [before |-> b, after |-> a] \in Receipts
      /\ receipts' = Append(receipts, [before |-> b, after |-> a])
      /\ receipts \in Seq(Receipts)
  BY DEF Receipts, WriteReceiptFile, TypeOK
<1>2. ASSUME NEW l \in Ledgers, VerifyLedger(l, receipts) PROVE VerifyLedger(l, receipts')
  BY <1>1, <1>2, VerifyStable
<1>3. ASSUME NEW r \in 1 .. Len(receipts') PROVE VerifyLedger(receipts'[r].after, receipts')
  <2>1. CASE r \in 1 .. Len(receipts)
    <3>1. receipts[r] \in Receipts /\ receipts'[r] = receipts[r]
      BY <1>1, <2>1, AppendProperties
    <3>2. receipts[r].after \in Ledgers /\ VerifyLedger(receipts[r].after, receipts)
      BY <2>1, <3>1 DEF Receipts, ChainInv
    <3> QED
      BY <1>2, <3>1, <3>2
  <2>2. CASE r = Len(receipts')
    BY <1>1, <2>2, AppendProperties
  <2> QED
    BY <1>1, <2>1, <2>2, AppendProperties
<1>4. ASSUME NEW c \in Commands, before[c] # None PROVE VerifyLedger(before[c], receipts')
  BY <1>2, <1>4 DEF TypeOK, ChainInv
<1>5. file # None => VerifyLedger(file, receipts')
  BY <1>2 DEF TypeOK, ChainInv
<1> QED
  BY <1>3, <1>4, <1>5 DEF ChainInv

LEMMA ChainStep == TypeInv /\ ChainInv /\ [Next]_vars => ChainInv'
<1>1. SUFFICES ASSUME TypeInv, ChainInv, [Next]_vars PROVE ChainInv'
  OBVIOUS
<1>2. TypeOK /\ ProgressInv
  BY <1>1 DEF TypeInv
<1>3. CASE UNCHANGED vars
  BY <1>1, <1>3 DEF vars, ChainInv
<1>4. ASSUME NEW c \in Commands, WriteFirstReceipt(c) PROVE ChainInv'
  <2>1. /\ NextReceipt \in ReceiptIds
        /\ receipts' = Append(receipts, [before |-> None, after |-> FirstLedger(NextReceipt)])
        /\ WriteReceiptFile(None, FirstLedger(NextReceipt))
    BY <1>4 DEF WriteFirstReceipt, WriteReceiptFile
  <2>2. VerifyLedger(FirstLedger(NextReceipt), receipts')
    BY <1>2, <2>1, VerifyFirst DEF NextReceipt, TypeOK
  <2> QED
    BY <1>1, <1>2, <1>4, <2>1, <2>2, ChainExtends, FirstLedgerType DEF WriteFirstReceipt
<1>5. ASSUME NEW c \in Commands, WriteReceipt(c) PROVE ChainInv'
  <2>1. before[c] \in Ledgers /\ VerifyLedger(before[c], receipts)
    BY <1>1, <1>2, <1>5 DEF WriteReceipt, TypeOK, ProgressInv, ChainInv
  <2>2. /\ NextReceipt \in ReceiptIds
        /\ receipts' = Append(receipts,
               [before |-> before[c], after |-> Successor(before[c], NextReceipt)])
        /\ WriteReceiptFile(before[c], Successor(before[c], NextReceipt))
    BY <1>5 DEF WriteReceipt, WriteReceiptFile
  <2>3. VerifyLedger(Successor(before[c], NextReceipt), receipts')
    BY <1>2, <2>1, <2>2, VerifySuccessor DEF NextReceipt, TypeOK
  <2> QED
    BY <1>1, <1>2, <1>5, <2>1, <2>2, <2>3, ChainExtends, SuccessorType DEF WriteReceipt
<1>6. ASSUME NEW c \in Commands, ReplaceLedger(c) PROVE ChainInv'
  BY <1>1, <1>2, <1>6 DEF ReplaceLedger, ProgressInv, ChainInv
<1>7. ASSUME NEW c \in Commands, Load(c) PROVE ChainInv'
  BY <1>1, <1>2, <1>7 DEF Load, disk, TypeOK, ChainInv
<1>8. ASSUME NEW c \in Commands,
             Acquire(c) \/ MakeDirectory(c) \/ Report(c) \/ Refuse(c) \/ Crash(c)
      PROVE  ChainInv'
  BY <1>1, <1>8 DEF Acquire, MakeDirectory, Report, Refuse, Crash, disk, ChainInv
<1> QED
  BY <1>1, <1>3, <1>4, <1>5, <1>6, <1>7, <1>8 DEF Next

\* verify_ledger never refuses the ledger in place, for any number of
\* commands with and without the lock, and wherever they are killed.
THEOREM ChainVerifiesAlways == Spec => []ChainVerifies
<1>1. Init => ChainInv
  BY DEF Init, ChainInv
<1>2. ChainInv => ChainVerifies
  BY DEF ChainInv, ChainVerifies
<1> QED
  BY TypeInit, TypeStep, ChainStep, <1>1, <1>2, PTL DEF Spec

-----------------------------------------------------------------------------
\* What ledger_lock keeps true while a command goes through its statements.
HolderInv ==
    /\ \A c \in Commands : holder = c <=> pc[c] # "idle"
    /\ ~directory => file = None
    /\ \A c \in Commands : pc[c] = "creating" => file = None /\ directory
    /\ \A c \in Commands : pc[c] = "loaded" => before[c] = file

\* The receipt that waits for its ledger is a new one, and leads from the
\* ledger in place.
ReceiptInv ==
    \A c \in Commands : pc[c] = "receipted" =>
        /\ receipts[mine[c]].after.receiptIds = Append(Log, mine[c])
        /\ \A i \in DOMAIN Log : Log[i] # mine[c]
        /\ directory

DurableInv ==
    /\ \A c \in Commands : pc[c] = "replaced" => \E i \in DOMAIN Log : Log[i] = mine[c]
    /\ RecordedIsDurable

LockedInv == TypeInv /\ ChainInv /\ HolderInv /\ ReceiptInv /\ DurableInv

LEMMA LogFacts ==
    ASSUME TypeOK, ChainInv
    PROVE  /\ Log \in Seq(ReceiptIds)
           /\ \A i \in DOMAIN Log : Log[i] \in 1 .. Len(receipts)
<1>1. CASE file = None
  BY <1>1 DEF Log
<1>2. CASE file # None
  <2>1. file \in Ledgers /\ VerifyLedger(file, receipts)
    BY <1>2 DEF TypeOK, ChainInv
  <2>2. file.receiptIds \in Seq(ReceiptIds) /\ Log = file.receiptIds
    BY <1>2, <2>1 DEF Ledgers, Log
  <2>3. DOMAIN Log = 1 .. Len(file.receiptIds)
    BY <2>2
  <2> QED
    BY <2>1, <2>2, <2>3 DEF VerifyLedger
<1> QED
  BY <1>1, <1>2

LEMMA LockedInit == Init => LockedInv
BY TypeInit
DEF Init, Lock!Init, LockedInv, ChainInv, HolderInv, ReceiptInv, DurableInv,
    RecordedIsDurable

\* commit_mutation and initialize_ledger extend the log in place by one.
LEMMA ReplaceExtends ==
    ASSUME TypeInv, ChainInv, ReceiptInv, NEW c \in Commands, ReplaceLedger(c)
    PROVE  /\ mine[c] \in ReceiptIds
           /\ file' \in Ledgers
           /\ Log' = Append(Log, mine[c])
           /\ \A i \in DOMAIN Log : i \in DOMAIN Log' /\ Log'[i] = Log[i]
           /\ Len(Log) + 1 \in DOMAIN Log' /\ Log'[Len(Log) + 1] = mine[c]
<1>1. mine[c] \in 1 .. Len(receipts) /\ receipts \in Seq(Receipts)
  BY DEF ReplaceLedger, TypeInv, TypeOK, ProgressInv
<1>2. receipts[mine[c]] \in Receipts
  BY <1>1
<1>3. file' \in Ledgers /\ file' # None
  BY <1>2, NoneIsNoLedger DEF ReplaceLedger, Receipts
<1>4. Log' = Append(Log, mine[c])
  BY <1>3 DEF ReplaceLedger, ReceiptInv, Log
<1>5. mine[c] \in ReceiptIds
  <2>1. receipts[mine[c]].after \in Ledgers /\ VerifyLedger(receipts[mine[c]].after, receipts)
    BY <1>1, <1>2 DEF ChainInv, Receipts
  <2>2. mine[c] \in 0 .. MaxReceipts
    BY DEF TypeInv, TypeOK
  <2> QED
    BY <1>1, <2>2 DEF ReceiptIds
<1>6. Log \in Seq(ReceiptIds)
  BY LogFacts DEF TypeInv
<1> QED
  BY <1>3, <1>4, <1>5, <1>6, AppendProperties

LEMMA LockedStep ==
    ASSUME Unlocked = {}
    PROVE  LockedInv /\ [Next]_vars => LockedInv'
<1>1. SUFFICES ASSUME LockedInv, [Next]_vars PROVE (HolderInv /\ ReceiptInv /\ DurableInv)'
  BY TypeStep, ChainStep DEF LockedInv
<1>2. TypeInv /\ TypeOK /\ ChainInv /\ HolderInv /\ ReceiptInv /\ DurableInv
  BY <1>1 DEF LockedInv, TypeInv
<1>3. CASE UNCHANGED vars
  BY <1>2, <1>3 DEF vars, HolderInv, ReceiptInv, DurableInv, RecordedIsDurable, Log
<1>4. ASSUME NEW c \in Commands, Acquire(c) PROVE (HolderInv /\ ReceiptInv /\ DurableInv)'
  BY <1>2, <1>4
  DEF Acquire, Lock!Acquire, Goto, disk, TypeOK, HolderInv, ReceiptInv, DurableInv,
      RecordedIsDurable, Log
<1>5. ASSUME NEW c \in Commands, MakeDirectory(c)
      PROVE  (HolderInv /\ ReceiptInv /\ DurableInv)'
  BY <1>2, <1>5
  DEF MakeDirectory, Goto, TypeOK, HolderInv, ReceiptInv, DurableInv, RecordedIsDurable, Log
<1>6. ASSUME NEW c \in Commands, Load(c) PROVE (HolderInv /\ ReceiptInv /\ DurableInv)'
  BY <1>2, <1>6, Unlocked = {}
  DEF Load, Goto, disk, TypeOK, HolderInv, ReceiptInv, DurableInv, RecordedIsDurable, Log
<1>7. ASSUME NEW c \in Commands, Report(c) PROVE (HolderInv /\ ReceiptInv /\ DurableInv)'
  BY <1>2, <1>7
  DEF Report, Goto, Unlock, disk, TypeOK, HolderInv, ReceiptInv, DurableInv,
      RecordedIsDurable, Log
<1>8. ASSUME NEW c \in Commands, Refuse(c) \/ Crash(c)
      PROVE  (HolderInv /\ ReceiptInv /\ DurableInv)'
  BY <1>2, <1>8
  DEF Refuse, Crash, Goto, Unlock, disk, TypeOK, HolderInv, ReceiptInv, DurableInv,
      RecordedIsDurable, Log
<1>9. ASSUME NEW c \in Commands, ReplaceLedger(c)
      PROVE  (HolderInv /\ ReceiptInv /\ DurableInv)'
  <2>1. /\ \A i \in DOMAIN Log : i \in DOMAIN Log' /\ Log'[i] = Log[i]
        /\ Len(Log) + 1 \in DOMAIN Log' /\ Log'[Len(Log) + 1] = mine[c]
    BY <1>2, <1>9, ReplaceExtends
  <2>2. \A d \in Commands : d # c => pc[d] = "idle" /\ pc'[d] = "idle"
    BY <1>2, <1>9 DEF ReplaceLedger, Goto, HolderInv, TypeOK
  <2>3. pc'[c] = "replaced" /\ directory /\ directory' = directory
    BY <1>2, <1>9 DEF ReplaceLedger, Goto, ReceiptInv, TypeOK
  <2>4. HolderInv'
    BY <1>2, <1>9, <2>2, <2>3 DEF ReplaceLedger, HolderInv
  <2>5. ReceiptInv'
    BY <2>2, <2>3 DEF ReceiptInv
  <2>6. DurableInv'
    BY <1>2, <1>9, <2>1, <2>2, <2>3 DEF ReplaceLedger, DurableInv, RecordedIsDurable
  <2> QED
    BY <2>4, <2>5, <2>6
<1>10. ASSUME NEW c \in Commands, WriteFirstReceipt(c) \/ WriteReceipt(c)
       PROVE  (HolderInv /\ ReceiptInv /\ DurableInv)'
  <2>1. /\ NextReceipt \in ReceiptIds
        /\ mine' = [mine EXCEPT ![c] = NextReceipt]
        /\ pc' = [pc EXCEPT ![c] = "receipted"]
        /\ UNCHANGED <<holder, directory, file, before, recorded>>
    BY <1>10 DEF WriteFirstReceipt, WriteReceipt, WriteReceiptFile, Goto
  <2>2. receipts'[NextReceipt].after.receiptIds = Append(Log, NextReceipt)
    <3>1. CASE WriteFirstReceipt(c)
      <4>1. file = None /\ WriteReceiptFile(None, FirstLedger(NextReceipt))
        BY <1>2, <3>1 DEF WriteFirstReceipt, HolderInv
      <4>2. FirstLedger(NextReceipt) \in Ledgers
        BY <2>1, FirstLedgerType
      <4>3. receipts'[NextReceipt] =
                [before |-> None, after |-> FirstLedger(NextReceipt)]
        BY <1>2, <4>1, <4>2, AddReceipt
      <4> QED
        BY <4>1, <4>3 DEF FirstLedger, Log
    <3>2. CASE WriteReceipt(c)
      <4>1. /\ before[c] = file /\ before[c] # None /\ before[c] \in Ledgers
            /\ WriteReceiptFile(before[c], Successor(before[c], NextReceipt))
        BY <1>2, <3>2 DEF WriteReceipt, HolderInv, TypeInv, ProgressInv, TypeOK
      <4>2. Successor(before[c], NextReceipt) \in Ledgers
        BY <2>1, <4>1, SuccessorType
      <4>3. receipts'[NextReceipt] =
                [before |-> before[c], after |-> Successor(before[c], NextReceipt)]
        BY <1>2, <4>1, <4>2, AddReceipt
      <4> QED
        BY <4>1, <4>3 DEF Successor, Log
    <3> QED
      BY <1>10, <3>1, <3>2
  <2>3. \A i \in DOMAIN Log : Log[i] # NextReceipt
    BY <1>2, LogFacts DEF NextReceipt, TypeOK
  <2>4. directory /\ pc[c] # "idle" /\ holder = c
    <3>1. CASE WriteFirstReceipt(c)
      BY <1>2, <3>1 DEF WriteFirstReceipt, HolderInv
    <3>2. CASE WriteReceipt(c)
      BY <1>2, <3>2 DEF WriteReceipt, HolderInv, TypeInv, ProgressInv
    <3> QED
      BY <1>10, <3>1, <3>2
  <2>5. \A d \in Commands : d # c => pc[d] = "idle" /\ pc'[d] = "idle"
    BY <1>2, <2>1, <2>4 DEF HolderInv, TypeOK
  <2>6. pc'[c] = "receipted" /\ mine'[c] = NextReceipt /\ Log' = Log
    BY <1>2, <2>1 DEF TypeOK, Log
  <2>7. HolderInv'
    BY <1>2, <2>1, <2>4, <2>5, <2>6 DEF HolderInv
  <2>8. ReceiptInv'
    BY <2>1, <2>2, <2>3, <2>4, <2>5, <2>6 DEF ReceiptInv
  <2>9. DurableInv'
    BY <1>2, <2>1, <2>5, <2>6 DEF DurableInv, RecordedIsDurable
  <2> QED
    BY <2>7, <2>8, <2>9
<1> QED
  BY <1>1, <1>3, <1>4, <1>5, <1>6, <1>7, <1>8, <1>9, <1>10 DEF Next

\* When every command takes ledger_lock, a mutation that was answered RECORDED
\* is never lost, however many commands there are and wherever they die.
THEOREM RecordedIsDurableAlways ==
    ASSUME Unlocked = {}
    PROVE  Spec => []RecordedIsDurable
<1>1. LockedInv => RecordedIsDurable
  BY DEF LockedInv, DurableInv
<1> QED
  BY LockedInit, LockedStep, <1>1, PTL DEF Spec

\* When every command takes ledger_lock, the ledger is a log that only grows.
THEOREM Implements ==
    ASSUME Unlocked = {}
    PROVE  Spec => ImplementsLog
<1>1. Init => AbstractLog!Init
  BY DEF Init, Log, AbstractLog!Init
<1>2. ASSUME LockedInv, [Next]_vars PROVE [AbstractLog!Next]_Log
  <2>1. ASSUME NEW c \in Commands, ReplaceLedger(c) PROVE AbstractLog!Next
    <3>1. \A i \in DOMAIN Log : Log[i] # mine[c]
      BY <1>2, <2>1 DEF LockedInv, ReceiptInv, ReplaceLedger
    <3>2. mine[c] \in ReceiptIds /\ Log' = Append(Log, mine[c])
      BY <1>2, <2>1, ReplaceExtends DEF LockedInv
    <3> QED
      BY <3>1, <3>2 DEF AbstractLog!Next, AbstractLog!Extend
  <2>2. CASE UNCHANGED file
    BY <2>2 DEF Log
  <2> QED
    BY <1>2, <2>1, <2>2
    DEF Next, vars, disk, Acquire, MakeDirectory, WriteFirstReceipt, Load, WriteReceipt,
        Report, Refuse, Crash
<1>3. Spec => []LockedInv
  BY LockedInit, LockedStep, PTL DEF Spec
<1> QED
  BY <1>1, <1>2, <1>3, PTL DEF Spec, ImplementsLog, AbstractLog!Spec
=============================================================================
