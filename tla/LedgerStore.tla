---------------------------- MODULE LedgerStore ----------------------------
(***************************************************************************)
(* How ledger_manager.py (C03) keeps the ledger of a project on disk: one  *)
(* ledger.json that is replaced atomically, and one immutable receipt file *)
(* per mutation that holds the ledger after it.  commit_mutation writes    *)
(* the receipt first and replaces the ledger second; every command does so *)
(* under ledger_lock, but for resolve-c06-validation-conflict and          *)
(* release-done-task-occupancy, which load and commit without it.          *)
(*                                                                         *)
(* A ledger is known by the receipts of the mutations that made it.  The   *)
(* lock is the one of Mutex, which ProcessLock implements.                 *)
(***************************************************************************)
EXTENDS Naturals, Sequences

CONSTANTS
    Commands,       \* invocations of the scripts, each run over and over
    Unlocked,       \* those that do not take ledger_lock
    None,           \* no file, nobody
    MaxReceipts,    \* bound on the receipts written in a behaviour
    MaxCrashes      \* bound on the kills in a behaviour

ASSUME UnlockedAreCommands == Unlocked \subseteq Commands
ASSUME NoneIsNoCommand == None \notin Commands
ASSUME Bounds == MaxReceipts \in Nat /\ MaxCrashes \in Nat

VARIABLES
    pc,         \* where each command is
    holder,     \* the command inside ledger_lock, or None
    directory,  \* the ledger directory of the project exists
    file,       \* ledger.json: a ledger, or None while there is none to read
    receipts,   \* the receipt files; a receipt id is its place here
    before,     \* the ledger each command has loaded
    mine,       \* the receipt each command has written last
    recorded,   \* receipts whose command has printed RECORDED
    crashes     \* kills so far

disk == <<directory, file, receipts>>
vars == <<pc, holder, directory, file, receipts, before, mine, recorded, crashes>>

Lock == INSTANCE Mutex WITH Procs <- Commands

ReceiptIds == 1 .. MaxReceipts
Ledgers == [revision : Nat, receiptIds : Seq(ReceiptIds)]
Receipts == [before : Ledgers \cup {None}, after : Ledgers]

ASSUME NoneIsNoLedger == None \notin Ledgers

States == {"idle", "locked", "creating", "loaded", "receipted", "replaced"}

TypeOK ==
    /\ pc \in [Commands -> States]
    /\ holder \in Commands \cup {None}
    /\ directory \in BOOLEAN
    /\ file \in Ledgers \cup {None}
    /\ receipts \in Seq(Receipts)
    /\ before \in [Commands -> Ledgers \cup {None}]
    /\ mine \in [Commands -> 0 .. MaxReceipts]
    /\ recorded \subseteq ReceiptIds
    /\ crashes \in 0 .. MaxCrashes

Init ==
    /\ pc = [c \in Commands |-> "idle"]
    /\ Lock!Init
    /\ directory = FALSE
    /\ file = None
    /\ receipts = <<>>
    /\ before = [c \in Commands |-> None]
    /\ mine = [c \in Commands |-> 0]
    /\ recorded = {}
    /\ crashes = 0

-----------------------------------------------------------------------------
Goto(c, s) == pc' = [pc EXCEPT ![c] = s]

\* The with statement is left, whatever the reason.
Unlock(c) == holder' = IF holder = c THEN None ELSE holder

NextReceipt == Len(receipts) + 1

\* new_ledger with its initialization receipt.
FirstLedger(r) == [revision |-> 0, receiptIds |-> <<r>>]

\* Mutated form: the revision is not counted up.
SameRevision(l, r) == [revision |-> l.revision, receiptIds |-> Append(l.receiptIds, r)]

\* commit_mutation on the ledger l under receipt r.
Successor(l, r) == [revision |-> l.revision + 1, receiptIds |-> Append(l.receiptIds, r)]

\* write_json_exclusive of a receipt with a fresh id.
WriteReceiptFile(b, a) ==
    /\ NextReceipt \in ReceiptIds
    /\ receipts' = Append(receipts, [before |-> b, after |-> a])

Acquire(c) ==
    /\ pc[c] = "idle"
    /\ c \notin Unlocked
    /\ Lock!Acquire(c)
    /\ Goto(c, "locked")
    /\ UNCHANGED <<disk, before, mine, recorded, crashes>>

\* initialize_ledger, under the lock: the directory must not exist yet.
MakeDirectory(c) ==
    /\ pc[c] = "locked"
    /\ ~directory
    /\ directory' = TRUE
    /\ Goto(c, "creating")
    /\ UNCHANGED <<holder, file, receipts, before, mine, recorded, crashes>>

WriteFirstReceipt(c) ==
    /\ pc[c] = "creating"
    /\ WriteReceiptFile(None, FirstLedger(NextReceipt))
    /\ mine' = [mine EXCEPT ![c] = NextReceipt]
    /\ Goto(c, "receipted")
    /\ UNCHANGED <<holder, directory, file, before, recorded, crashes>>

\* Mutated form: every command loads before it takes the lock.
LoadEarly(c) ==
    /\ pc[c] = "idle"
    /\ file # None
    /\ before' = [before EXCEPT ![c] = file]
    /\ Goto(c, "loaded")
    /\ UNCHANGED <<disk, holder, mine, recorded, crashes>>

\* load_ledger; a ledger that was never initialized is an error.
Load(c) ==
    /\ pc[c] = IF c \in Unlocked THEN "idle" ELSE "locked"
    /\ file # None
    /\ before' = [before EXCEPT ![c] = file]
    /\ Goto(c, "loaded")
    /\ UNCHANGED <<disk, holder, mine, recorded, crashes>>

\* commit_mutation: the receipt of the mutated copy.
WriteReceipt(c) ==
    /\ pc[c] = "loaded"
    /\ WriteReceiptFile(before[c], Successor(before[c], NextReceipt))
    /\ mine' = [mine EXCEPT ![c] = NextReceipt]
    /\ Goto(c, "receipted")
    /\ UNCHANGED <<holder, directory, file, before, recorded, crashes>>

\* replace_json_atomically: ledger.json becomes the ledger of the receipt.  The
\* first ledger.json is written in place; until it is whole it cannot be read.
ReplaceLedger(c) ==
    /\ pc[c] = "receipted"
    /\ file' = receipts[mine[c]].after
    /\ Goto(c, "replaced")
    /\ UNCHANGED <<holder, directory, receipts, before, mine, recorded, crashes>>

\* RECORDED is printed with the receipt id.
Report(c) ==
    /\ pc[c] = "replaced"
    /\ recorded' = recorded \cup {mine[c]}
    /\ Goto(c, "idle")
    /\ Unlock(c)
    /\ UNCHANGED <<disk, before, mine, crashes>>

\* Any LedgerError raised before the receipt: nothing is written.
Refuse(c) ==
    /\ pc[c] \in {"locked", "loaded"}
    /\ Goto(c, "idle")
    /\ Unlock(c)
    /\ UNCHANGED <<disk, before, mine, recorded, crashes>>

\* The command is killed; the lock comes free as Mutex says.
Crash(c) ==
    /\ pc[c] # "idle"
    /\ crashes < MaxCrashes
    /\ crashes' = crashes + 1
    /\ Goto(c, "idle")
    /\ Unlock(c)
    /\ UNCHANGED <<disk, before, mine, recorded>>

Next == \E c \in Commands :
    \/ Acquire(c) \/ MakeDirectory(c) \/ WriteFirstReceipt(c) \/ Load(c)
    \/ WriteReceipt(c) \/ ReplaceLedger(c) \/ Report(c) \/ Refuse(c) \/ Crash(c)

Spec == Init /\ [][Next]_vars

-----------------------------------------------------------------------------
\* verify_ledger on the ledger l and the receipt files rs: its receipts are
\* there and each one leads from the ledger of the one before it to its own,
\* the last one to l.
VerifyLedger(l, rs) ==
    LET ids == l.receiptIds
        After(i) == rs[ids[i]].after
    IN  /\ ids # <<>>
        /\ \A i \in 1 .. Len(ids) :
              /\ ids[i] \in 1 .. Len(rs)
              /\ rs[ids[i]].before = IF i = 1 THEN None ELSE After(i - 1)
              /\ After(i).revision = i - 1
              /\ After(i).receiptIds = SubSeq(ids, 1, i)
        /\ l = After(Len(ids))

\* The mutations the ledger in place is made of.
Log == IF file = None THEN <<>> ELSE file.receiptIds

\* LEDGER_INTEGRITY_VERIFIED at every instant: whatever commands interleave
\* and wherever they are killed, ledger.json is the end of a receipt chain.
ChainVerifies == file # None => VerifyLedger(file, receipts)

\* references/task-corrections.md:41, a verification is "appended and cannot
\* be overwritten": a mutation that was answered RECORDED stays in the ledger.
RecordedIsDurable ==
    \A r \in recorded : \E i \in DOMAIN Log : Log[i] = r

AbstractLog == INSTANCE AppendLog WITH log <- Log, Entries <- ReceiptIds

\* The ledger is a log of mutations that only grows at its end.
ImplementsLog == AbstractLog!Spec
=============================================================================
