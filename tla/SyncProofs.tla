----------------------------- MODULE SyncProofs -----------------------------
(***************************************************************************)
(* syncWallet for any number of processes, notes, pages and crashes: it    *)
(* uses the ledger only as the ledger allows, so the books balance         *)
(* whatever the interleaving; the stored cursor never passes an unapplied  *)
(* event; with recipient addresses in the events only their owners are     *)
(* credited; and for a single process, that it gets the books right, which *)
(* two can get wrong.                                                      *)
(***************************************************************************)
EXTENDS Sync, LedgerProofs

(* Where process p stands: everything before its position has been handled *)
(* and its position is inside the page it holds.                           *)
Position(p) ==
  /\ pc[p] # "idle" =>
       /\ pos[p] \in 1..(Len(log) + 1)
       /\ 1..(pos[p] - 1) \subseteq applied
  /\ pc[p] \in {"lookup", "commit"} => pos[p] <= last[p] /\ last[p] <= Len(log)

(* What process p carries from its lookup to its transaction stays true:   *)
(* address assignments are only ever added.                                *)
Carried(p) ==
  /\ found[p] \in Answers
  /\ pc[p] = "commit" =>
       /\ log[pos[p]].kind \in DepositKind
       /\ log[pos[p]].shown /\ found[p] # NoAccount => Owns(found[p], log[pos[p]].note)

(* Addresses are handed out in order, so a fresh one displaces no owner. *)
FreshIndices == \A i \in Index : i >= nextIndex => owner[i] = NoAccount

IInv ==
  /\ SyncTypeOK
  /\ FreshIndices
  /\ \A p \in Proc : Position(p) /\ Carried(p)
  /\ CursorCoversApplied

USE SyncAssumption, LedgerAssumption DEF SyncAssumption, LedgerAssumption

LEMMA InitIInv == SyncInit => IInv
<1> SUFFICES ASSUME SyncInit PROVE IInv
  OBVIOUS
<1>1. LedgerTypeOK
  BY DEF SyncInit, LedgerInit, LedgerTypeOK, NoRow, Row
<1>2. SyncTypeOK
  BY <1>1 DEF SyncInit, SyncTypeOK
<1>3. FreshIndices /\ CursorCoversApplied /\ \A p \in Proc : Position(p) /\ Carried(p)
  BY DEF SyncInit, LedgerInit, FreshIndices, Position, Carried, CursorCoversApplied, Answers
<1>4. QED
  BY <1>2, <1>3 DEF IInv

(* The event a process is at is an event of the log. *)
LEMMA CurrentEvent ==
  ASSUME IInv, NEW p \in Proc, pc[p] \in {"lookup", "commit"}
  PROVE  /\ pos[p] \in 1..Len(log) /\ log[pos[p]] \in Event
         /\ last[p] \in 1..Len(log) /\ pos[p] <= last[p]
<1>1. /\ pos[p] \in 1..(Len(log) + 1) /\ pos[p] <= last[p] /\ last[p] <= Len(log)
      /\ log \in Seq(Event) /\ last[p] \in Nat
  BY DEF IInv, SyncTypeOK, Position
<1>2. pos[p] \in 1..Len(log) /\ last[p] \in 1..Len(log)
  BY <1>1
<1>3. QED
  BY <1>1, <1>2

-----------------------------------------------------------------------------
(* The ledger seen from below: every step of the system is a step of it.   *)

LEMMA HandleIsLedgerStep ==
  ASSUME IInv, NEW p \in Proc, pc[p] = "commit", Handle(p)
  PROVE  LedgerNext /\ LedgerTypeOK'
<1> DEFINE ev == log[pos[p]]
<1>1. ev \in Event
  BY CurrentEvent
<1>2. ev.note \in Note /\ ev.shown \in BOOLEAN
  BY <1>1 DEF Event
<1>3. ApplyDeposit(ev.note, NoteZat[ev.note], found[p], ev.shown, StatusOf(ev.kind))
  BY DEF Handle
<1>4. NoteZat[ev.note] \in Zat
  BY <1>2
<1>5. found[p] \in Answers /\ LedgerTypeOK
  BY DEF IInv, Carried, SyncTypeOK
<1>6. StatusOf(ev.kind) \in Status
  <2>1. ev.kind \in DepositKind
    BY DEF IInv, Carried
  <2>2. QED
    BY <2>1 DEF DepositKind, StatusOf, Status
<1> HIDE DEF ev
<1>7. LedgerNext
  BY <1>2, <1>3, <1>4, <1>5, <1>6 DEF LedgerNext
<1>8. LedgerTypeOK'
  BY <1>2, <1>3, <1>4, <1>5, <1>6, AnswersType, ApplyDepositType
<1>9. QED
  BY <1>7, <1>8

LEMMA OwnersStay ==
  ASSUME LedgerTypeOK, FreshIndices, NEW a \in Account, GetOrAssignDepositAddress(a)
  PROVE  /\ LedgerTypeOK' /\ FreshIndices'
         /\ Answers \subseteq Answers'
         /\ \A b \in Account, n \in Note : Owns(b, n) => Owns(b, n)'
<1>1. LedgerTypeOK'
  BY DEF LedgerTypeOK, GetOrAssignDepositAddress, Index
<1>2. nextIndex \in Index /\ owner[nextIndex] = NoAccount
  BY DEF LedgerTypeOK, FreshIndices, GetOrAssignDepositAddress, Index
<1>3. \A b \in Account, i \in Index : owner[i] = b => owner'[i] = b
  BY <1>2 DEF LedgerTypeOK, GetOrAssignDepositAddress
<1>4. Answers \subseteq Answers'
  BY <1>3 DEF Answers, LedgerTypeOK
<1>5. FreshIndices'
  BY DEF LedgerTypeOK, FreshIndices, GetOrAssignDepositAddress, Index
<1>6. \A b \in Account, n \in Note : Owns(b, n) => Owns(b, n)'
  BY <1>3 DEF Owns
<1>7. QED
  BY <1>1, <1>4, <1>5, <1>6

LEMMA WithdrawIsLedgerStep ==
  ASSUME LedgerTypeOK, NEW a \in Account, Withdraw(a)
  PROVE  LedgerNext /\ LedgerTypeOK'
<1>1. PICK amount \in Zat, fee \in 0..MaxFee : CreateWithdrawalAndDebit(a, amount, fee)
  BY DEF Withdraw
<1>2. QED
  BY <1>1, DebitIsLedgerStep DEF Zat

-----------------------------------------------------------------------------
(* The steps of syncWallet. *)

(* A step that leaves the address book, the log and the locals of the      *)
(* other processes alone disturbs only what it says of process p.          *)
LEMMA OthersStay ==
  ASSUME IInv, NEW p \in Proc, applied \subseteq applied', UNCHANGED <<owner, log>>,
         \A q \in Proc \ {p} : /\ pc'[q] = pc[q] /\ pos'[q] = pos[q]
                               /\ last'[q] = last[q] /\ found'[q] = found[q],
         Position(p)', Carried(p)'
  PROVE  \A q \in Proc : Position(q)' /\ Carried(q)'
<1>1. SUFFICES ASSUME NEW q \in Proc, q # p PROVE Position(q)' /\ Carried(q)'
  OBVIOUS
<1>2. Position(q) /\ Carried(q)
  BY DEF IInv
<1>3. Answers' = Answers /\ \A b, n : Owns(b, n)' <=> Owns(b, n)
  BY DEF Answers, Owns
<1>4. /\ pc'[q] = pc[q] /\ pos'[q] = pos[q] /\ last'[q] = last[q] /\ found'[q] = found[q]
      /\ log' = log
  BY <1>1
<1>5. Position(q)'
  BY <1>2, <1>4 DEF Position
<1>6. Carried(q)'
  BY <1>2, <1>3, <1>4 DEF Carried
<1>7. QED
  BY <1>5, <1>6

(* Only the type invariant's range and the caller's locals are at stake    *)
(* when a process returns.                                                 *)
LEMMA ReturnKeeps ==
  ASSUME IInv, NEW p \in Proc, Return(p), UNCHANGED <<ledgerVars, log, applied>>,
         cursor' \in 0..Len(log), abandoned' \in 0..MaxAbandon, 1..cursor' \subseteq applied
  PROVE  IInv'
<1> USE DEF IInv, SyncTypeOK
<1>1. LedgerTypeOK'
  BY DEF ledgerVars, LedgerTypeOK
<1>2. SyncTypeOK'
  BY <1>1 DEF Return
<1>3. Position(p)' /\ Carried(p)'
  BY DEF Return, Position, Carried, Answers
<1>4. \A q \in Proc : Position(q)' /\ Carried(q)'
  <2>1. \A q \in Proc \ {p} : /\ pc'[q] = pc[q] /\ pos'[q] = pos[q]
                              /\ last'[q] = last[q] /\ found'[q] = found[q]
    BY DEF Return
  <2>2. UNCHANGED <<owner, log>> /\ applied \subseteq applied'
    BY DEF ledgerVars
  <2>3. QED
    BY <1>3, <2>1, <2>2, OthersStay DEF ledgerVars
<1>5. FreshIndices' /\ CursorCoversApplied'
  BY DEF CursorCoversApplied, FreshIndices, ledgerVars
<1>6. QED
  BY <1>2, <1>4, <1>5

(* Handling the event a process is at and moving on. *)
LEMMA AdvanceKeeps ==
  ASSUME IInv, NEW p \in Proc, pc[p] \in {"lookup", "commit"}, Advance(p),
         LedgerTypeOK', UNCHANGED <<owner, nextIndex, log, cursor, abandoned>>,
         applied' = applied \cup {pos[p]}
  PROVE  IInv'
<1>1. /\ pos[p] \in 1..Len(log) /\ last[p] \in 1..Len(log) /\ pos[p] <= last[p]
  BY CurrentEvent
<1>2. SyncTypeOK'
  <2>1. pc' \in [Proc -> {"idle", "fetch", "lookup", "commit", "save"}]
    BY DEF IInv, SyncTypeOK, Advance
  <2>2. pos' \in [Proc -> Nat] /\ last' \in [Proc -> Nat] /\ found' \in [Proc -> Account \cup {NoAccount}]
    BY <1>1 DEF IInv, SyncTypeOK, Advance
  <2>3. applied' \subseteq 1..Len(log)
    BY <1>1 DEF IInv, SyncTypeOK
  <2>4. QED
    BY <2>1, <2>2, <2>3 DEF IInv, SyncTypeOK
<1>3. pos'[p] = pos[p] + 1 /\ last'[p] = last[p] /\ pc'[p] \in {"lookup", "fetch"}
      /\ found'[p] = NoAccount
  BY DEF IInv, SyncTypeOK, Advance
<1>4. pc'[p] = "lookup" => pos[p] < last[p]
  BY DEF IInv, SyncTypeOK, Advance
<1>5. 1..(pos[p] - 1) \subseteq applied
  BY DEF IInv, Position
<1>6. Position(p)'
  <2>1. 1..(pos'[p] - 1) \subseteq applied'
    BY <1>1, <1>3, <1>5
  <2>2. log' = log
    OBVIOUS
  <2>3. QED
    BY <1>1, <1>3, <1>4, <2>1, <2>2 DEF Position
<1>7. Carried(p)'
  BY <1>3 DEF Carried, Answers
<1>8. \A q \in Proc \ {p} : /\ pc'[q] = pc[q] /\ pos'[q] = pos[q]
                            /\ last'[q] = last[q] /\ found'[q] = found[q]
  BY DEF IInv, SyncTypeOK, Advance
<1>9. \A q \in Proc : Position(q)' /\ Carried(q)'
  BY <1>6, <1>7, <1>8, OthersStay
<1>10. FreshIndices' /\ CursorCoversApplied'
  BY DEF IInv, FreshIndices, CursorCoversApplied
<1>11. QED
  BY <1>2, <1>9, <1>10 DEF IInv

LEMMA SyncStepKeeps ==
  ASSUME IInv, NEW p \in Proc, SyncStep(p)
  PROVE  IInv' /\ [LedgerNext]_ledgerVars
<1> USE DEF ledgerVars
<1>1. CASE StartSync(p)
  <2>1. SyncTypeOK' /\ FreshIndices' /\ CursorCoversApplied'
    BY <1>1 DEF IInv, SyncTypeOK, LedgerTypeOK, StartSync, FreshIndices, CursorCoversApplied
  <2>2. Position(p)' /\ Carried(p)'
    BY <1>1 DEF IInv, SyncTypeOK, StartSync, Position, Carried, CursorCoversApplied, Answers
  <2>3. \A q \in Proc \ {p} : /\ pc'[q] = pc[q] /\ pos'[q] = pos[q]
                              /\ last'[q] = last[q] /\ found'[q] = found[q]
    BY <1>1 DEF IInv, SyncTypeOK, StartSync
  <2>4. applied \subseteq applied' /\ UNCHANGED <<owner, log>>
    BY <1>1 DEF StartSync
  <2>5. QED
    BY <1>1, <2>1, <2>2, <2>3, <2>4, OthersStay DEF IInv, StartSync
<1>2. CASE FetchPage(p)
  <2>1. SyncTypeOK' /\ FreshIndices' /\ CursorCoversApplied'
    BY <1>2 DEF IInv, SyncTypeOK, LedgerTypeOK, FetchPage, PageEnd, FreshIndices, CursorCoversApplied
  <2>2. Position(p)' /\ Carried(p)'
    BY <1>2 DEF IInv, SyncTypeOK, FetchPage, PageEnd, Position, Carried, Answers
  <2>3. \A q \in Proc \ {p} : /\ pc'[q] = pc[q] /\ pos'[q] = pos[q]
                              /\ last'[q] = last[q] /\ found'[q] = found[q]
    BY <1>2 DEF IInv, SyncTypeOK, FetchPage
  <2>4. applied \subseteq applied' /\ UNCHANGED <<owner, log>>
    BY <1>2 DEF FetchPage
  <2>5. QED
    BY <1>2, <2>1, <2>2, <2>3, <2>4, OthersStay DEF IInv, FetchPage
<1>3. CASE FetchEmptyPage(p)
  <2>1. SyncTypeOK' /\ FreshIndices' /\ CursorCoversApplied'
    BY <1>3 DEF IInv, SyncTypeOK, LedgerTypeOK, FetchEmptyPage, FreshIndices, CursorCoversApplied
  <2>2. Position(p)' /\ Carried(p)'
    BY <1>3 DEF IInv, SyncTypeOK, FetchEmptyPage, Position, Carried, Answers
  <2>3. \A q \in Proc \ {p} : /\ pc'[q] = pc[q] /\ pos'[q] = pos[q]
                              /\ last'[q] = last[q] /\ found'[q] = found[q]
    BY <1>3 DEF IInv, SyncTypeOK, FetchEmptyPage
  <2>4. applied \subseteq applied' /\ UNCHANGED <<owner, log>>
    BY <1>3 DEF FetchEmptyPage
  <2>5. QED
    BY <1>3, <2>1, <2>2, <2>3, <2>4, OthersStay DEF IInv, FetchEmptyPage
<1>4. CASE IgnoreEvent(p)
  <2>1. LedgerTypeOK'
    BY <1>4 DEF IgnoreEvent, IInv, SyncTypeOK, LedgerTypeOK
  <2>2. QED
    BY <1>4, <2>1, AdvanceKeeps DEF IgnoreEvent
<1>5. CASE LookupAccount(p)
  <2>1. log[pos[p]] \in Event
    BY <1>5, CurrentEvent DEF LookupAccount
  <2>2. NoteAddr[log[pos[p]].note].index \in Index /\ NoteAddr[log[pos[p]].note].scope \in Scope
    BY <2>1 DEF Event
  <2>3. AccountFor(log[pos[p]]) \in Answers
    BY <2>2 DEF AccountFor, Answers
  <2>4. Answers \subseteq Account \cup {NoAccount}
    BY AnswersType DEF IInv, SyncTypeOK
  <2>5. SyncTypeOK' /\ FreshIndices' /\ CursorCoversApplied'
    BY <1>5, <2>3, <2>4 DEF IInv, SyncTypeOK, LedgerTypeOK, LookupAccount, FreshIndices, CursorCoversApplied
  <2>6. /\ pc'[p] = "commit" /\ found'[p] = AccountFor(log[pos[p]])
        /\ UNCHANGED <<log, pos, last, owner, applied>>
    BY <1>5 DEF IInv, SyncTypeOK, LookupAccount
  <2>7. Position(p)'
    BY <1>5, <2>6 DEF IInv, Position, LookupAccount
  <2>8. Carried(p)'
    <3>1. found'[p] \in Answers'
      BY <2>3, <2>6 DEF Answers
    <3>2. log'[pos'[p]].kind \in DepositKind
      BY <1>5, <2>6 DEF LookupAccount
    <3>3. log[pos[p]].shown /\ found'[p] # NoAccount => Owns(found[p], log[pos[p]].note)'
      BY <2>6 DEF AccountFor, Owns
    <3>4. QED
      BY <2>6, <3>1, <3>2, <3>3 DEF Carried
  <2>9. \A q \in Proc \ {p} : /\ pc'[q] = pc[q] /\ pos'[q] = pos[q]
                              /\ last'[q] = last[q] /\ found'[q] = found[q]
    BY <1>5 DEF IInv, SyncTypeOK, LookupAccount
  <2>10. \A q \in Proc : Position(q)' /\ Carried(q)'
    BY <2>6, <2>7, <2>8, <2>9, OthersStay
  <2>11. QED
    BY <1>5, <2>5, <2>10 DEF IInv, LookupAccount
<1>6. CASE CommitDeposit(p)
  <2>1. LedgerNext /\ LedgerTypeOK'
    BY <1>6, HandleIsLedgerStep DEF CommitDeposit
  <2>2. UNCHANGED <<owner, nextIndex>>
    BY <1>6 DEF CommitDeposit, Handle, ApplyDeposit
  <2>3. QED
    BY <1>6, <2>1, <2>2, AdvanceKeeps DEF CommitDeposit
<1>7. CASE FailDeposit(p)
  <2>1. cursor' \in 0..Len(log) /\ abandoned' \in 0..MaxAbandon /\ 1..cursor' \subseteq applied
    BY <1>7 DEF FailDeposit, IInv, SyncTypeOK, CursorCoversApplied
  <2>2. QED
    BY <1>7, <2>1, ReturnKeeps DEF FailDeposit
<1>8. CASE SaveCursor(p)
  <2>1. Position(p) /\ pos[p] \in 1..(Len(log) + 1)
    BY <1>8 DEF SaveCursor, IInv, Position
  <2>2. cursor' \in 0..Len(log) /\ abandoned' \in 0..MaxAbandon /\ 1..cursor' \subseteq applied
    BY <1>8, <2>1 DEF SaveCursor, IInv, SyncTypeOK, Position
  <2>3. QED
    BY <1>8, <2>2, ReturnKeeps DEF SaveCursor
<1>9. QED
  BY <1>1, <1>2, <1>3, <1>4, <1>5, <1>6, <1>7, <1>8 DEF SyncStep

(* The log only grows, so what it said it still says. *)
LEMMA ScannerKeeps ==
  ASSUME IInv, Chain
  PROVE  IInv' /\ UNCHANGED ledgerVars
<1>1. PICK n \in Note, kind \in Kind, shown \in Shown : ScannerEmits(n, kind, shown)
  BY DEF Chain
<1> DEFINE ev == [kind |-> kind, note |-> n, shown |-> shown]
<1>2. ev \in Event
  BY DEF Event
<1>3. /\ log' = Append(log, ev) /\ log \in Seq(Event)
      /\ UNCHANGED <<ledgerVars, cursor, procVars, abandoned, applied>>
  BY <1>1 DEF ScannerEmits, IInv, SyncTypeOK
<1> HIDE DEF ev
<1>4. /\ log' \in Seq(Event) /\ Len(log') = Len(log) + 1 /\ Len(log) \in Nat
      /\ \A i \in 1..Len(log) : log'[i] = log[i]
  BY <1>2, <1>3
<1>5. SyncTypeOK' /\ FreshIndices' /\ CursorCoversApplied'
  BY <1>3, <1>4 DEF IInv, SyncTypeOK, LedgerTypeOK, ledgerVars, procVars, FreshIndices,
              CursorCoversApplied
<1>6. ASSUME NEW p \in Proc PROVE Position(p)' /\ Carried(p)'
  <2>1. Position(p) /\ Carried(p)
    BY DEF IInv
  <2>2. pc[p] = "commit" => log'[pos[p]] = log[pos[p]]
    BY <1>4, CurrentEvent
  <2>3. Position(p)'
    <3>1. pc' = pc /\ pos' = pos /\ last' = last /\ applied' = applied
      BY <1>3 DEF procVars
    <3>2. pos[p] \in Nat /\ last[p] \in Nat
      BY DEF IInv, SyncTypeOK
    <3>3. pc[p] # "idle" => pos[p] \in 1..(Len(log') + 1)
      BY <1>4, <2>1, <3>2 DEF Position
    <3>4. pc[p] \in {"lookup", "commit"} => pos[p] <= last[p] /\ last[p] <= Len(log')
      BY <1>4, <2>1, <3>2 DEF Position
    <3>5. QED
      BY <2>1, <3>1, <3>3, <3>4 DEF Position
  <2>4. Carried(p)'
    BY <1>3, <2>1, <2>2 DEF Carried, procVars, ledgerVars, Answers, Owns
  <2>5. QED
    BY <2>3, <2>4
<1>7. QED
  BY <1>3, <1>5, <1>6 DEF IInv

LEMMA AssignKeeps ==
  ASSUME IInv, NEW a \in Account, AssignAddress(a)
  PROVE  IInv' /\ LedgerNext
<1>1. GetOrAssignDepositAddress(a) /\ UNCHANGED syncVars
  BY DEF AssignAddress
<1>2. /\ LedgerTypeOK' /\ FreshIndices' /\ Answers \subseteq Answers'
      /\ \A b \in Account, n \in Note : Owns(b, n) => Owns(b, n)'
  BY <1>1, OwnersStay DEF IInv, SyncTypeOK
<1>3. SyncTypeOK' /\ FreshIndices' /\ CursorCoversApplied'
  BY <1>1, <1>2 DEF IInv, SyncTypeOK, syncVars, FreshIndices, CursorCoversApplied
<1>4. ASSUME NEW p \in Proc PROVE Position(p)' /\ Carried(p)'
  <2>1. Position(p) /\ Carried(p) /\ found[p] \in Account \cup {NoAccount}
    BY DEF IInv, SyncTypeOK
  <2>2. Position(p)'
    BY <1>1, <2>1 DEF Position, syncVars
  <2>3. pc[p] = "commit" => log[pos[p]].note \in Note
    BY CurrentEvent DEF Event
  <2>4. Carried(p)'
    BY <1>1, <1>2, <2>1, <2>3 DEF Carried, syncVars
  <2>5. QED
    BY <2>2, <2>4
<1>5. QED
  BY <1>1, <1>3, <1>4 DEF IInv, LedgerNext

LEMMA WithdrawKeeps ==
  ASSUME IInv, NEW a \in Account, Withdraw(a)
  PROVE  IInv' /\ LedgerNext
<1>1. LedgerNext /\ LedgerTypeOK'
  BY WithdrawIsLedgerStep DEF IInv, SyncTypeOK
<1>2. UNCHANGED syncVars /\ UNCHANGED <<owner, nextIndex>>
  BY DEF Withdraw, CreateWithdrawalAndDebit
<1>3. SyncTypeOK' /\ FreshIndices' /\ CursorCoversApplied'
  BY <1>1, <1>2 DEF IInv, SyncTypeOK, syncVars, FreshIndices, CursorCoversApplied
<1>4. \A p \in Proc : Position(p)' /\ Carried(p)'
  BY <1>2 DEF IInv, Position, Carried, Answers, Owns, syncVars
<1>5. QED
  BY <1>1, <1>3, <1>4 DEF IInv

LEMMA AbandonKeeps ==
  ASSUME IInv, NEW p \in Proc, Abandon(p)
  PROVE  IInv' /\ UNCHANGED ledgerVars
<1>1. cursor' \in 0..Len(log) /\ abandoned' \in 0..MaxAbandon /\ 1..cursor' \subseteq applied
  BY DEF Abandon, IInv, SyncTypeOK, CursorCoversApplied
<1>2. QED
  BY <1>1, ReturnKeeps DEF Abandon

LEMMA NextKeeps == IInv /\ [Next]_vars => IInv' /\ [LedgerNext]_ledgerVars
<1> SUFFICES ASSUME IInv, [Next]_vars PROVE IInv' /\ [LedgerNext]_ledgerVars
  OBVIOUS
<1>1. CASE Chain
  BY <1>1, ScannerKeeps
<1>2. CASE \E p \in Proc : SyncStep(p)
  BY <1>2, SyncStepKeeps
<1>3. CASE \E p \in Proc : Abandon(p)
  BY <1>3, AbandonKeeps
<1>4. CASE \E a \in Account : AssignAddress(a)
  BY <1>4, AssignKeeps
<1>5. CASE \E a \in Account : Withdraw(a)
  BY <1>5, WithdrawKeeps
<1>6. CASE UNCHANGED vars
  BY <1>6 DEF vars, syncVars, ledgerVars, IInv, SyncTypeOK, LedgerTypeOK, Position, Carried,
              FreshIndices, Answers, Owns, CursorCoversApplied
<1>7. QED
  BY <1>1, <1>2, <1>3, <1>4, <1>5, <1>6 DEF Next, NextNoWithdrawals

-----------------------------------------------------------------------------
(* The system keeps its types. *)
THEOREM SyncTypeCorrect == Spec => []SyncTypeOK
<1>1. IInv => SyncTypeOK
  BY DEF IInv
<1>2. QED
  BY <1>1, InitIInv, NextKeeps, PTL DEF Spec

(* The stored cursor never passes an event that no process has applied.    *)
THEOREM CursorIsSafe == Spec => []CursorCoversApplied
<1>1. IInv => CursorCoversApplied
  BY DEF IInv
<1>2. QED
  BY <1>1, InitIInv, NextKeeps, PTL DEF Spec

(* Any number of syncing processes together implement the ledger.          *)
THEOREM SyncImplementsLedger == Spec => LedgerSpec
<1>1. SyncInit => LedgerInit
  BY DEF SyncInit
<1>2. QED
  BY <1>1, InitIInv, NextKeeps, PTL DEF Spec, LedgerSpec

(* So the books balance however processes, crashes and users interleave.   *)
THEOREM SyncBooksBalance == Spec => []BooksBalance
BY SyncImplementsLedger, BooksAlwaysBalance, PTL

-----------------------------------------------------------------------------
(* With recipient addresses in every event, the account a row names is the *)
(* one its note pays.                                                      *)
LEMMA CommitFollowsAddresses ==
  ASSUME IInv, CreditsFollowAddresses, Shown = {TRUE}, NEW p \in Proc, CommitDeposit(p)
  PROVE  CreditsFollowAddresses'
<1> DEFINE ev == log[pos[p]]
           new == NewRow(ev.note, NoteZat[ev.note], found[p], ev.shown, StatusOf(ev.kind))
<1>1. pc[p] = "commit" /\ ev \in Event
  BY CurrentEvent DEF CommitDeposit
<1>2. ev.note \in Note /\ ev.shown
  BY <1>1 DEF Event
<1>3. /\ deposits' = [deposits EXCEPT ![ev.note] = new] /\ owner' = owner
      /\ deposits \in [Note -> Row]
  BY DEF CommitDeposit, Handle, ApplyDeposit, IInv, SyncTypeOK, LedgerTypeOK
<1>4. new.account = found[p]
  BY <1>2 DEF NewRow, RowAccount
<1>5. found[p] # NoAccount => Owns(found[p], ev.note)
  BY <1>1, <1>2 DEF IInv, Carried
<1> HIDE DEF ev, new
<1>6. SUFFICES ASSUME NEW n \in Note, deposits'[n].account # NoAccount
               PROVE  Owns(deposits[n].account, n)'
  BY DEF CreditsFollowAddresses
<1>7. CASE n = ev.note
  BY <1>2, <1>3, <1>4, <1>5, <1>6, <1>7 DEF Owns
<1>8. CASE n # ev.note
  BY <1>3, <1>6, <1>8 DEF Owns, CreditsFollowAddresses
<1>9. QED
  BY <1>7, <1>8

LEMMA AssignFollowsAddresses ==
  ASSUME IInv, CreditsFollowAddresses, NEW a \in Account, AssignAddress(a)
  PROVE  CreditsFollowAddresses'
<1>1. GetOrAssignDepositAddress(a) /\ deposits' = deposits
  BY DEF AssignAddress, GetOrAssignDepositAddress
<1>2. \A b \in Account, n \in Note : Owns(b, n) => Owns(b, n)'
  BY <1>1, OwnersStay DEF IInv, SyncTypeOK
<1>3. \A n \in Note : deposits[n].account \in Account \cup {NoAccount}
  BY DEF IInv, SyncTypeOK, LedgerTypeOK, Row
<1>4. SUFFICES ASSUME NEW n \in Note, deposits'[n].account # NoAccount
               PROVE  Owns(deposits[n].account, n)'
  BY DEF CreditsFollowAddresses
<1>5. deposits[n].account \in Account /\ Owns(deposits[n].account, n)
  BY <1>1, <1>3, <1>4 DEF CreditsFollowAddresses
<1>6. Owns(deposits[n].account, n)'
  BY <1>1, <1>2, <1>5 DEF Owns
<1>7. QED
  BY <1>6

(* Change and internal notes are never credited, and nobody is credited    *)
(* with a note that pays somebody else: however stale the lookup is by the *)
(* time the deposit is applied.                                            *)
THEOREM OnlyOwnersCredited ==
  ASSUME Shown = {TRUE}
  PROVE  Spec => []CreditsFollowAddresses
<1>1. SyncInit => CreditsFollowAddresses
  BY DEF SyncInit, LedgerInit, NoRow, CreditsFollowAddresses
<1>2. IInv /\ CreditsFollowAddresses /\ [Next]_vars => CreditsFollowAddresses'
  <2> SUFFICES ASSUME IInv, CreditsFollowAddresses, [Next]_vars PROVE CreditsFollowAddresses'
    OBVIOUS
  <2>1. ASSUME NEW p \in Proc, CommitDeposit(p) PROVE CreditsFollowAddresses'
    BY <2>1, CommitFollowsAddresses
  <2>2. ASSUME NEW a \in Account, AssignAddress(a) PROVE CreditsFollowAddresses'
    BY <2>2, AssignFollowsAddresses
  <2>3. CASE UNCHANGED <<deposits, owner>>
    BY <2>3 DEF CreditsFollowAddresses, Owns
  <2>4. ASSUME NEW p \in Proc, SyncStep(p), ~CommitDeposit(p) PROVE UNCHANGED ledgerVars
    BY <2>4 DEF SyncStep, StartSync, FetchPage, FetchEmptyPage, IgnoreEvent, LookupAccount,
                FailDeposit, SaveCursor
  <2>5. ASSUME NEW a \in Account, Withdraw(a) PROVE UNCHANGED <<deposits, owner>>
    BY <2>5 DEF Withdraw, CreateWithdrawalAndDebit
  <2>6. Chain => UNCHANGED ledgerVars
    BY DEF Chain, ScannerEmits
  <2>7. ASSUME NEW p \in Proc, Abandon(p) PROVE UNCHANGED ledgerVars
    BY <2>7 DEF Abandon
  <2>8. QED
    BY <2>1, <2>2, <2>3, <2>4, <2>5, <2>6, <2>7 DEF Next, NextNoWithdrawals, vars, ledgerVars
<1>3. QED
  BY <1>1, <1>2, InitIInv, NextKeeps, PTL DEF Spec


-----------------------------------------------------------------------------
(* A single process: the row of a note has the status of a deposit event   *)
(* of that note, after which no other is among the first m.                *)
DepositAt(i, n) == log[i].note = n /\ log[i].kind \in DepositKind

Covered(n, m) ==
  \/ /\ deposits[n].status = "absent"
     /\ \A i \in 1..Len(log) : DepositAt(i, n) => m < i
  \/ \E j \in 1..Len(log) :
        /\ DepositAt(j, n) /\ deposits[n].status = StatusOf(log[j].kind)
        /\ \A i \in 1..Len(log) : DepositAt(i, n) /\ j < i => m < i

(* The rows cover what the stored cursor does, and what the process has    *)
(* handled since.  They may be ahead of both: of what a sync that died had *)
(* applied.                                                                *)
Following ==
  /\ \A n \in Note : Covered(n, cursor)
  /\ \A p \in Proc : pc[p] # "idle" => cursor < pos[p] /\ \A n \in Note : Covered(n, pos[p] - 1)

LEMMA CommitCovers ==
  ASSUME IInv, NEW p \in Proc, CommitDeposit(p), NEW m \in Nat, m = pos[p],
         \A n \in Note : Covered(n, m - 1)
  PROVE  \A n \in Note : Covered(n, m)'
<1> DEFINE ev == log[m]
           new == NewRow(ev.note, NoteZat[ev.note], found[p], ev.shown, StatusOf(ev.kind))
<1>1. pc[p] = "commit" /\ ev \in Event /\ m \in 1..Len(log) /\ Len(log) \in Nat
  BY CurrentEvent DEF CommitDeposit, IInv, SyncTypeOK
<1>2. ev.note \in Note /\ ev.kind \in DepositKind
  BY <1>1 DEF Event, IInv, Carried
<1>3. /\ deposits' = [deposits EXCEPT ![ev.note] = new] /\ log' = log
      /\ deposits \in [Note -> Row]
  BY DEF CommitDeposit, Handle, ApplyDeposit, IInv, SyncTypeOK, LedgerTypeOK
<1>4. new.status = StatusOf(ev.kind)
  BY DEF NewRow
<1> HIDE DEF new
<1>5. SUFFICES ASSUME NEW n \in Note PROVE Covered(n, m)'
  OBVIOUS
<1>6. CASE n = ev.note
  <2>1. deposits'[n].status = StatusOf(log[m].kind) /\ DepositAt(m, n)
    BY <1>2, <1>3, <1>4, <1>6 DEF DepositAt
  <2>2. QED
    BY <1>1, <1>3, <2>1 DEF Covered, DepositAt
<1>7. CASE n # ev.note
  <2>1. deposits'[n] = deposits[n] /\ ~DepositAt(m, n)
    BY <1>3, <1>7 DEF DepositAt
  <2>2. \A i \in 1..Len(log) : DepositAt(i, n) /\ m - 1 < i => m < i
    BY <1>1, <2>1
  <2>3. QED
    BY <1>1, <1>3, <2>1, <2>2 DEF Covered, DepositAt
<1>8. QED
  BY <1>6, <1>7

LEMMA IgnoreCovers ==
  ASSUME IInv, NEW p \in Proc, IgnoreEvent(p), NEW m \in Nat, m = pos[p],
         NEW n \in Note, Covered(n, m - 1)
  PROVE  Covered(n, m)'
<1>1. pc[p] = "lookup" /\ m \in 1..Len(log) /\ Len(log) \in Nat
  BY CurrentEvent DEF IgnoreEvent, IInv, SyncTypeOK
<1>2. ~DepositAt(m, n) /\ log' = log /\ deposits' = deposits
  BY DEF IgnoreEvent, DepositAt, ledgerVars
<1>3. \A i \in 1..Len(log) : DepositAt(i, n) /\ m - 1 < i => m < i
  BY <1>1, <1>2
<1>4. QED
  BY <1>1, <1>2, <1>3 DEF Covered, DepositAt

LEMMA ScannerCovers ==
  ASSUME IInv, Chain, NEW n \in Note, NEW m \in 0..Len(log), Covered(n, m)
  PROVE  Covered(n, m)'
<1>1. PICK note \in Note, kind \in Kind, shown \in Shown : ScannerEmits(note, kind, shown)
  BY DEF Chain
<1> DEFINE ev == [kind |-> kind, note |-> note, shown |-> shown]
<1>2. /\ log' = Append(log, ev) /\ log \in Seq(Event) /\ deposits' = deposits
      /\ ev \in Event
  BY <1>1 DEF ScannerEmits, IInv, SyncTypeOK, ledgerVars, Event
<1> HIDE DEF ev
<1>3. /\ Len(log') = Len(log) + 1 /\ Len(log) \in Nat
      /\ \A i \in 1..Len(log) : log'[i] = log[i]
  BY <1>2
<1>4. /\ \A i \in 1..Len(log) : DepositAt(i, n)' <=> DepositAt(i, n)
      /\ \A i \in 1..Len(log') : i \in 1..Len(log) \/ m < i
  BY <1>3 DEF DepositAt
<1>5. CASE /\ deposits[n].status = "absent"
           /\ \A i \in 1..Len(log) : DepositAt(i, n) => m < i
  BY <1>2, <1>4, <1>5 DEF Covered
<1>6. CASE \E j \in 1..Len(log) :
             /\ DepositAt(j, n) /\ deposits[n].status = StatusOf(log[j].kind)
             /\ \A i \in 1..Len(log) : DepositAt(i, n) /\ j < i => m < i
  <2>1. PICK j \in 1..Len(log) :
             /\ DepositAt(j, n) /\ deposits[n].status = StatusOf(log[j].kind)
             /\ \A i \in 1..Len(log) : DepositAt(i, n) /\ j < i => m < i
    BY <1>6
  <2>2. /\ j \in 1..Len(log') /\ DepositAt(j, n)' /\ deposits'[n].status = StatusOf(log'[j].kind)
        /\ \A i \in 1..Len(log') : DepositAt(i, n)' /\ j < i => m < i
    BY <1>2, <1>3, <1>4, <2>1
  <2>3. QED
    BY <2>2 DEF Covered
<1>7. QED
  BY <1>5, <1>6 DEF Covered

(* The only process there is takes a step. *)
LEMMA SyncStepFollows ==
  ASSUME IInv, Following, NEW p \in Proc, \A q \in Proc : q = p, SyncStep(p) \/ Abandon(p)
  PROVE  Following'
<1>1. /\ pc \in [Proc -> {"idle", "fetch", "lookup", "commit", "save"}] /\ pos \in [Proc -> Nat]
      /\ cursor \in Nat /\ pos[p] \in Nat
  BY DEF IInv, SyncTypeOK
<1>2. PICK k \in Nat, at \in Nat : k = cursor /\ at = pos[p]
  BY <1>1
<1>3. /\ \A n \in Note : Covered(n, k)
      /\ pc[p] # "idle" => k < at /\ at - 1 \in Nat /\ \A n \in Note : Covered(n, at - 1)
  BY <1>2 DEF Following
<1>4. SUFFICES ASSUME NEW c \in Nat, NEW m \in Nat, c = cursor', pc'[p] # "idle" => m = pos'[p] - 1
               PROVE  /\ \A n \in Note : Covered(n, c)'
                      /\ pc'[p] # "idle" => c < pos'[p] /\ \A n \in Note : Covered(n, m)'
  <2>1. IInv'
    BY SyncStepKeeps, AbandonKeeps
  <2>2. cursor' \in Nat /\ (pc'[p] # "idle" => pos'[p] - 1 \in Nat)
    BY <2>1 DEF IInv, SyncTypeOK, Position
  <2>3. PICK c \in Nat, m \in Nat : c = cursor' /\ (pc'[p] # "idle" => m = pos'[p] - 1)
    BY <2>2
  <2>4. QED
    BY <1>4, <2>3 DEF Following
<1>5. UNCHANGED <<deposits, log>> => \A n \in Note, l \in Nat : Covered(n, l) => Covered(n, l)'
  BY DEF Covered, DepositAt
<1>6. CASE StartSync(p)
  <2>1. UNCHANGED <<deposits, log, cursor>> /\ pos'[p] = cursor + 1
    BY <1>1, <1>6 DEF StartSync, ledgerVars
  <2>2. c = k /\ c < pos'[p] /\ (pc'[p] # "idle" => m = k)
    BY <1>2, <1>4, <2>1
  <2>3. QED
    BY <1>3, <1>5, <2>1, <2>2
<1>7. CASE FetchPage(p) \/ FetchEmptyPage(p) \/ LookupAccount(p)
  <2>1. UNCHANGED <<deposits, log, cursor, pos>> /\ pc[p] # "idle"
    BY <1>7 DEF FetchPage, FetchEmptyPage, LookupAccount, ledgerVars
  <2>2. c = k /\ c < pos'[p] /\ (pc'[p] # "idle" => m = at - 1)
    BY <1>2, <1>3, <1>4, <2>1
  <2>3. QED
    BY <1>3, <1>5, <2>1, <2>2
<1>8. CASE IgnoreEvent(p) \/ CommitDeposit(p)
  <2>1. cursor' = cursor /\ pos'[p] = pos[p] + 1 /\ pc[p] # "idle"
    BY <1>1, <1>8 DEF IgnoreEvent, CommitDeposit, Advance
  <2>2. c = k /\ c < pos'[p] /\ c \in 0..at /\ (pc'[p] # "idle" => m = at)
    BY <1>2, <1>3, <1>4, <2>1
  <2>3. \A n \in Note : Covered(n, at)'
    BY <1>2, <1>3, <1>8, <2>1, IgnoreCovers, CommitCovers
  <2>4. Len(log') \in Nat
    BY <1>8, SyncStepKeeps DEF SyncStep, IInv, SyncTypeOK
  <2>5. \A n \in Note : Covered(n, c)'
    BY <2>2, <2>3, <2>4 DEF Covered
  <2>6. QED
    BY <2>2, <2>3, <2>5
<1>9. CASE FailDeposit(p) \/ Abandon(p)
  <2>1. UNCHANGED <<deposits, log, cursor>> /\ pc'[p] = "idle"
    BY <1>1, <1>9 DEF FailDeposit, Abandon, Return, ledgerVars
  <2>2. QED
    BY <1>2, <1>3, <1>4, <1>5, <2>1
<1>10. CASE SaveCursor(p)
  <2>1. UNCHANGED <<deposits, log>> /\ pc'[p] = "idle" /\ cursor' = pos[p] - 1 /\ pc[p] # "idle"
    BY <1>1, <1>10 DEF SaveCursor, Return, ledgerVars
  <2>2. QED
    BY <1>2, <1>3, <1>4, <1>5, <2>1
<1>11. QED
  BY <1>6, <1>7, <1>8, <1>9, <1>10 DEF SyncStep

LEMMA NextFollows ==
  ASSUME IInv, Following, [Next]_vars, \A p, q \in Proc : p = q
  PROVE  Following'
<1>1. CASE \E p \in Proc : SyncStep(p) \/ Abandon(p)
  BY <1>1, SyncStepFollows
<1>2. CASE Chain
  <2>1. UNCHANGED <<cursor, pc, pos>>
    BY <1>2 DEF Chain, ScannerEmits, procVars
  <2>2. cursor \in 0..Len(log) /\ \A p \in Proc : pc[p] # "idle" => pos[p] - 1 \in 0..Len(log)
    BY DEF IInv, SyncTypeOK, Position
  <2>3. \A n \in Note, m \in 0..Len(log) : Covered(n, m) => Covered(n, m)'
    BY <1>2, ScannerCovers
  <2>4. \A n \in Note : Covered(n, cursor)'
    <3>1. PICK m \in 0..Len(log) : m = cursor
      BY <2>2
    <3>2. \A n \in Note : Covered(n, m)'
      BY <2>3, <3>1 DEF Following
    <3>3. QED
      BY <2>1, <3>1, <3>2
  <2>5. ASSUME NEW p \in Proc, pc[p] # "idle"
        PROVE  cursor < pos[p] /\ \A n \in Note : Covered(n, pos[p] - 1)'
    <3>1. PICK m \in 0..Len(log) : m = pos[p] - 1
      BY <2>2, <2>5
    <3>2. \A n \in Note : Covered(n, m)'
      BY <2>3, <2>5, <3>1 DEF Following
    <3>3. QED
      BY <2>1, <2>5, <3>1, <3>2 DEF Following
  <2>6. QED
    BY <2>1, <2>4, <2>5 DEF Following
<1>3. CASE UNCHANGED <<deposits, log, cursor, pc, pos>>
  BY <1>3 DEF Following, Covered, DepositAt
<1>4. ASSUME NEW a \in Account, AssignAddress(a) \/ Withdraw(a)
      PROVE  UNCHANGED <<deposits, log, cursor, pc, pos>>
  BY <1>4 DEF AssignAddress, Withdraw, GetOrAssignDepositAddress, CreateWithdrawalAndDebit, syncVars
<1>5. QED
  BY <1>1, <1>2, <1>3, <1>4 DEF Next, NextNoWithdrawals, vars, ledgerVars, syncVars

(* As long as only one process syncs, the books agree with the chain       *)
(* whenever it is done: however often it died half way, whatever it had    *)
(* applied by then, whatever the chain took back, and whether or not       *)
(* withdrawals made some of its work fail.                                 *)
THEOREM CaughtUpIsRight ==
  ASSUME \A p, q \in Proc : p = q
  PROVE  Spec => []CaughtUpAgrees
<1>1. SyncInit => Following
  BY DEF SyncInit, LedgerInit, NoRow, Following, Covered
<1>2. IInv /\ Following => CaughtUpAgrees
  <2> SUFFICES ASSUME IInv, Following, cursor = Len(log), NEW n \in Note PROVE AgreesWithChain(n)
    BY DEF CaughtUpAgrees
  <2>1. Len(log) \in Nat /\ Covered(n, Len(log))
    BY DEF IInv, SyncTypeOK, Following
  <2>2. DepositEventsOf(n) = {i \in 1..Len(log) : DepositAt(i, n)}
    BY DEF DepositEventsOf, EventsOf, DepositAt
  <2>3. CASE \E i \in 1..Len(log) : DepositAt(i, n)
    <3>1. PICK j \in 1..Len(log) : /\ DepositAt(j, n) /\ deposits[n].status = StatusOf(log[j].kind)
                                   /\ \A i \in 1..Len(log) : ~(DepositAt(i, n) /\ j < i)
      BY <2>1, <2>3 DEF Covered
    <3>2. \A i \in DepositEventsOf(n) : (\A l \in DepositEventsOf(n) : l <= i) <=> i = j
      BY <2>1, <2>2, <3>1
    <3>3. (CHOOSE i \in DepositEventsOf(n) : \A l \in DepositEventsOf(n) : l <= i) = j
      BY <2>2, <3>1, <3>2
    <3>4. QED
      BY <2>2, <3>1, <3>3 DEF AgreesWithChain
  <2>4. CASE \A i \in 1..Len(log) : ~DepositAt(i, n)
    <3>1. deposits[n].status = "absent" /\ DepositEventsOf(n) = {}
      BY <2>1, <2>2, <2>4 DEF Covered
    <3>2. QED
      BY <3>1 DEF AgreesWithChain
  <2>5. QED
    BY <2>3, <2>4
<1>3. QED
  BY <1>1, <1>2, InitIInv, NextKeeps, NextFollows, PTL DEF Spec

=============================================================================
