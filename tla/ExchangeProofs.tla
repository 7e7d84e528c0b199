----------------------------- MODULE ExchangeProofs -----------------------------
(***************************************************************************)
(* The whole life of a deposit, for any number of syncing processes,       *)
(* withdraw commands, notes, accounts, crashes and reversed confirmations. *)
(*                                                                         *)
(*   1. what a sync posts is a step of the ledger (MovesAreLedgerSteps),   *)
(*      and only notes a depositor paid are ever credited (CreditsArePaid) *)
(*   2. the chain has what the deposits so far brought in, but for what    *)
(*      withdrawals sent out (AddUpTo, as in WithdrawalProofs, of a sum    *)
(*      that grows as deposits come in)                                    *)
(*   3. so what accounts are owed is covered (ExchangeIsSolvent), and      *)
(*      withdrawals are to the syncs what Sync supposes they are           *)
(*      (ExchangeIsSync)                                                   *)
(*   4. while nothing is taken back, balances only grow under a withdrawal *)
(*      (Steady), so what was paid is debited (SteadyIsDebited)            *)
(***************************************************************************)
EXTENDS Exchange, WithdrawalProofs

-----------------------------------------------------------------------------
(* Sync is instantiated, so it brings its own copy of Ledger's operators.  *)
LEMMA SameLedger ==
  /\ Syncing!Note = Note /\ Syncing!Zat = Zat /\ Syncing!Index = Index /\ Syncing!Status = Status
  /\ Syncing!Answers = Answers /\ Syncing!ledgerVars = ledgerVars
BY DEF Syncing!Note, Syncing!Zat, Syncing!Index, Syncing!Status, Syncing!Answers, Syncing!ledgerVars,
       Note, Zat, Index, Status, Answers, ledgerVars

LEMMA SameApply ==
  ASSUME NEW n, NEW zat, NEW who, NEW has, NEW status
  PROVE  Syncing!ApplyDeposit(n, zat, who, has, status) <=> ApplyDeposit(n, zat, who, has, status)
BY DEF Syncing!ApplyDeposit, Syncing!NewRow, Syncing!RowAccount, Syncing!CanPost, Syncing!Posted,
       Syncing!AfterTakingBack, Syncing!TakesBack, Syncing!Gives, Syncing!Differs,
       ApplyDeposit, NewRow, RowAccount, CanPost, Posted, AfterTakingBack, TakesBack, Gives, Differs

LEMMA SameDebit ==
  ASSUME NEW a, NEW amount, NEW fee
  PROVE  /\ Syncing!CreateWithdrawalAndDebit(a, amount, fee) <=> CreateWithdrawalAndDebit(a, amount, fee)
         /\ Syncing!GetOrAssignDepositAddress(a) <=> GetOrAssignDepositAddress(a)
BY DEF Syncing!CreateWithdrawalAndDebit, CreateWithdrawalAndDebit,
       Syncing!GetOrAssignDepositAddress, GetOrAssignDepositAddress, Syncing!Index, Index

-----------------------------------------------------------------------------
(* A process is at an event of the log, and what it looked up for it is an *)
(* answer the address book gives, with an account only for a note that a   *)
(* depositor paid.                                                         *)
AtEvent(p) ==
  /\ pc[p] # "idle" => pos[p] >= 1
  /\ pc[p] \in {"lookup", "commit"} => pos[p] <= last[p] /\ last[p] <= Len(log)
  /\ found[p] \in Answers
  /\ pc[p] = "commit" =>
       /\ log[pos[p]].kind \in Syncing!DepositKind
       /\ found[p] # NoAccount => log[pos[p]].note \in External

(* Addresses are handed out in order, so a fresh one displaces no owner.   *)
FreshIndices == \A i \in Index : i >= nextIndex => owner[i] = NoAccount

SyncInv ==
  /\ log \in Seq(Syncing!Event) /\ cursor \in Nat
  /\ pc \in [Proc -> {"idle", "fetch", "lookup", "commit", "save"}]
  /\ pos \in [Proc -> Nat] /\ last \in [Proc -> Nat] /\ found \in [Proc -> Account \cup {NoAccount}]
  /\ FreshIndices
  /\ \A p \in Proc : AtEvent(p)

LEMMA ExchangeFacts ==
  /\ PageSize \in Nat \ {0}
  /\ \A n \in Note : NoteAddr[n].index \in Index /\ NoteZat[n] \in Zat /\ NoteZat[n] \in Nat
  /\ External \subseteq Note /\ IsFiniteSet(External)
BY ExchangeAssumption, WithdrawalAssumption, LedgerAssumption, NotesFinite, FS_Subset
DEF ExchangeAssumption, WithdrawalAssumption, LedgerAssumption, External, Zat

(* The event a process is at is an event of the log.                       *)
LEMMA CurrentEvent ==
  ASSUME SyncInv, NEW p \in Proc, pc[p] \in {"lookup", "commit"}
  PROVE  /\ pos[p] \in DOMAIN log /\ pos[p] \in 1..Len(log)
         /\ log[pos[p]].note \in Note /\ log[pos[p]].shown = TRUE
<1>1. pos[p] \in 1..Len(log) /\ log \in Seq(Syncing!Event)
  BY DEF SyncInv, AtEvent
<1>2. log[pos[p]] \in Syncing!Event
  BY <1>1
<1>3. log[pos[p]].note \in Note /\ log[pos[p]].shown \in {TRUE}
  BY <1>2, SameLedger DEF Syncing!Event
<1>4. DOMAIN log = 1..Len(log)
  BY <1>1
<1>5. QED
  BY <1>1, <1>3, <1>4

(* Applying it is a transaction of the ledger.                             *)
LEMMA HandleIsLedgerStep ==
  ASSUME SyncInv, NEW p \in Proc, pc[p] = "commit", Syncing!Handle(p)
  PROVE  /\ LedgerNext
         /\ \E new : /\ deposits' = [deposits EXCEPT ![log[pos[p]].note] = new]
                     /\ new.zat = NoteZat[log[pos[p]].note] /\ new.account = found[p]
         /\ UNCHANGED <<debited, owner, nextIndex>>
<1> DEFINE ev == log[pos[p]]
<1>1. ev.note \in Note /\ ev.shown = TRUE
  BY CurrentEvent
<1>2. ApplyDeposit(ev.note, NoteZat[ev.note], found[p], ev.shown, Syncing!StatusOf(ev.kind))
  BY SameApply DEF Syncing!Handle
<1>3. NoteZat[ev.note] \in Zat
  BY <1>1, ExchangeFacts
<1>4. ev.kind \in Syncing!DepositKind /\ found[p] \in Answers
  BY DEF SyncInv, AtEvent
<1>5. Syncing!StatusOf(ev.kind) \in Status
  BY <1>4 DEF Syncing!DepositKind, Syncing!StatusOf, Status
<1> HIDE DEF ev
<1>6. LedgerNext
  BY <1>1, <1>2, <1>3, <1>4, <1>5 DEF LedgerNext
<1> DEFINE new == NewRow(ev.note, NoteZat[ev.note], found[p], ev.shown, Syncing!StatusOf(ev.kind))
<1>7. /\ deposits' = [deposits EXCEPT ![ev.note] = new]
      /\ new.zat = NoteZat[ev.note] /\ new.account = found[p]
      /\ UNCHANGED <<debited, owner, nextIndex>>
  BY <1>1, <1>2 DEF ApplyDeposit, NewRow, RowAccount
<1> HIDE DEF new
<1>8. QED
  BY <1>6, <1>7 DEF ev

-----------------------------------------------------------------------------
(* A step of process p leaves what it says of the others alone.            *)
OthersWait(p) ==
  \A q \in Proc \ {p} : /\ pc'[q] = pc[q] /\ pos'[q] = pos[q]
                        /\ last'[q] = last[q] /\ found'[q] = found[q]

LocalsTyped ==
  /\ pc \in [Proc -> {"idle", "fetch", "lookup", "commit", "save"}]
  /\ pos \in [Proc -> Nat] /\ last \in [Proc -> Nat] /\ found \in [Proc -> Account \cup {NoAccount}]

LEMMA ProcessKeeps ==
  ASSUME SyncInv, NEW p \in Proc, UNCHANGED <<owner, nextIndex, log>>, cursor' \in Nat,
         LocalsTyped', OthersWait(p), AtEvent(p)'
  PROVE  SyncInv'
<1>1. FreshIndices' /\ Answers' = Answers
  BY DEF SyncInv, FreshIndices, Answers
<1>2. ASSUME NEW q \in Proc, q # p PROVE AtEvent(q)'
  <2>1. /\ pc'[q] = pc[q] /\ pos'[q] = pos[q] /\ last'[q] = last[q] /\ found'[q] = found[q]
        /\ log' = log
    BY <1>2 DEF OthersWait
  <2>2. AtEvent(q)
    BY DEF SyncInv
  <2>3. QED
    BY <1>1, <2>1, <2>2 DEF AtEvent
<1>3. \A q \in Proc : AtEvent(q)'
  BY <1>2
<1>4. QED
  BY <1>1, <1>3 DEF SyncInv, LocalsTyped

LEMMA ReturnKeeps ==
  ASSUME SyncInv, NEW p \in Proc, Syncing!Return(p), UNCHANGED <<ledgerVars, log>>, cursor' \in Nat
  PROVE  SyncInv'
<1>1. LocalsTyped' /\ OthersWait(p) /\ UNCHANGED <<owner, nextIndex, log>>
  BY DEF Syncing!Return, SyncInv, LocalsTyped, OthersWait, ledgerVars
<1>2. AtEvent(p)'
  BY DEF Syncing!Return, SyncInv, AtEvent, Answers
<1>3. QED
  BY <1>1, <1>2, ProcessKeeps

LEMMA AdvanceKeeps ==
  ASSUME SyncInv, NEW p \in Proc, pc[p] \in {"lookup", "commit"}, Syncing!Advance(p),
         UNCHANGED <<owner, nextIndex, log, cursor>>
  PROVE  SyncInv'
<1>1. pos[p] \in 1..Len(log) /\ pos[p] <= last[p] /\ last[p] <= Len(log) /\ last[p] \in Nat
  BY CurrentEvent DEF SyncInv, AtEvent
<1>2. LocalsTyped' /\ OthersWait(p) /\ cursor' \in Nat
  BY <1>1 DEF Syncing!Advance, SyncInv, LocalsTyped, OthersWait
<1>3. /\ pos'[p] = pos[p] + 1 /\ last'[p] = last[p] /\ found'[p] = NoAccount
      /\ pc'[p] = IF pos[p] < last[p] THEN "lookup" ELSE "fetch"
  BY DEF Syncing!Advance, SyncInv
<1>4. AtEvent(p)'
  BY <1>1, <1>3 DEF AtEvent, Answers
<1>5. QED
  BY <1>2, <1>4, ProcessKeeps

(* A step of a sync either posts the event it is at or leaves the ledger.  *)
LEMMA SyncStepKeeps ==
  ASSUME SyncInv, LedgerTypeOK, NEW p \in Proc, Syncing!SyncStep(p)
  PROVE  /\ SyncInv' /\ log' = log
         /\ UNCHANGED ledgerVars \/ (pc[p] = "commit" /\ Syncing!Handle(p))
<1>1. CASE Syncing!StartSync(p)
  <2>1. UNCHANGED <<ledgerVars, log, cursor>>
    BY <1>1 DEF Syncing!ledgerVars, ledgerVars, Syncing!StartSync
  <2>2. LocalsTyped' /\ OthersWait(p) /\ cursor' \in Nat
    BY <1>1, <2>1 DEF Syncing!StartSync, SyncInv, LocalsTyped, OthersWait
  <2>3. AtEvent(p)'
    BY <1>1, <2>1 DEF Syncing!StartSync, SyncInv, AtEvent, Answers, ledgerVars
  <2>4. QED
    BY <2>1, <2>2, <2>3, ProcessKeeps DEF ledgerVars
<1>2. CASE Syncing!FetchPage(p)
  <2>1. UNCHANGED <<ledgerVars, log, cursor>> /\ Len(log) \in Nat
    BY <1>2 DEF Syncing!ledgerVars, ledgerVars, Syncing!FetchPage, SyncInv
  <2>2. Syncing!PageEnd(pos[p]) \in Nat /\ Syncing!PageEnd(pos[p]) <= Len(log)
        /\ pos[p] <= Syncing!PageEnd(pos[p])
    BY <1>2, <2>1, ExchangeFacts DEF Syncing!FetchPage, Syncing!PageEnd, SyncInv
  <2>3. LocalsTyped' /\ OthersWait(p) /\ cursor' \in Nat
    BY <1>2, <2>1, <2>2 DEF Syncing!FetchPage, SyncInv, LocalsTyped, OthersWait
  <2>4. /\ pc'[p] = "lookup" /\ pos'[p] = pos[p] /\ last'[p] = Syncing!PageEnd(pos[p])
        /\ found'[p] = found[p] /\ pc[p] = "fetch" /\ owner' = owner
    BY <1>2, <2>1 DEF Syncing!FetchPage, SyncInv, ledgerVars
  <2>5. AtEvent(p)'
    BY <2>1, <2>2, <2>4 DEF SyncInv, AtEvent, Answers
  <2>6. QED
    BY <2>1, <2>3, <2>5, ProcessKeeps DEF ledgerVars
<1>3. CASE Syncing!FetchEmptyPage(p)
  <2>1. UNCHANGED <<ledgerVars, log, cursor>>
    BY <1>3 DEF Syncing!ledgerVars, ledgerVars, Syncing!FetchEmptyPage
  <2>2. LocalsTyped' /\ OthersWait(p) /\ cursor' \in Nat
    BY <1>3, <2>1 DEF Syncing!FetchEmptyPage, SyncInv, LocalsTyped, OthersWait
  <2>3. AtEvent(p)'
    BY <1>3, <2>1 DEF Syncing!FetchEmptyPage, SyncInv, AtEvent, Answers, ledgerVars
  <2>4. QED
    BY <2>1, <2>2, <2>3, ProcessKeeps DEF ledgerVars
<1>4. CASE Syncing!IgnoreEvent(p)
  <2>1. UNCHANGED <<ledgerVars, log, cursor>> /\ pc[p] = "lookup" /\ Syncing!Advance(p)
    BY <1>4 DEF Syncing!ledgerVars, ledgerVars, Syncing!IgnoreEvent
  <2>2. QED
    BY <2>1, AdvanceKeeps DEF ledgerVars
<1>5. CASE Syncing!LookupAccount(p)
  <2>1. /\ UNCHANGED <<ledgerVars, log, cursor, pos, last>> /\ pc[p] = "lookup"
        /\ log[pos[p]].kind \in Syncing!DepositKind
    BY <1>5 DEF Syncing!ledgerVars, ledgerVars, Syncing!LookupAccount
  <2>2. /\ log[pos[p]].note \in Note /\ log[pos[p]].shown = TRUE
        /\ NoteAddr[log[pos[p]].note].index \in Index
    BY <2>1, CurrentEvent, ExchangeFacts
  <2> DEFINE who == Syncing!AccountFor(log[pos[p]])
  <2>3. who \in Answers /\ (who # NoAccount => log[pos[p]].note \in External)
    BY <2>2 DEF Syncing!AccountFor, Answers, External
  <2>4. who \in Account \cup {NoAccount}
    BY <2>3, AnswersType
  <2>5. pc' = [pc EXCEPT ![p] = "commit"] /\ found' = [found EXCEPT ![p] = who]
    BY <1>5 DEF Syncing!LookupAccount
  <2> HIDE DEF who
  <2>6. LocalsTyped' /\ OthersWait(p) /\ cursor' \in Nat
    BY <2>1, <2>4, <2>5 DEF SyncInv, LocalsTyped, OthersWait
  <2>7. /\ pc'[p] = "commit" /\ found'[p] = who /\ pos'[p] = pos[p] /\ last'[p] = last[p]
        /\ log' = log /\ Answers' = Answers
    BY <2>1, <2>5 DEF SyncInv, ledgerVars, Answers
  <2>8. AtEvent(p)'
    BY <2>1, <2>3, <2>7 DEF SyncInv, AtEvent
  <2>9. QED
    BY <2>1, <2>6, <2>8, ProcessKeeps DEF ledgerVars
<1>6. CASE Syncing!CommitDeposit(p)
  <2>1. /\ pc[p] = "commit" /\ Syncing!Handle(p) /\ Syncing!Advance(p) /\ UNCHANGED <<log, cursor>>
    BY <1>6 DEF Syncing!CommitDeposit
  <2>2. UNCHANGED <<owner, nextIndex>>
    BY <2>1, HandleIsLedgerStep
  <2>3. QED
    BY <2>1, <2>2, AdvanceKeeps
<1>7. CASE Syncing!FailDeposit(p)
  <2>1. Syncing!Return(p) /\ UNCHANGED <<ledgerVars, log, cursor>>
    BY <1>7 DEF Syncing!ledgerVars, ledgerVars, Syncing!FailDeposit
  <2>2. QED
    BY <2>1, ReturnKeeps DEF SyncInv
<1>8. CASE Syncing!SaveCursor(p)
  <2>1. Syncing!Return(p) /\ UNCHANGED <<ledgerVars, log>> /\ cursor' = pos[p] - 1 /\ pc[p] = "save"
    BY <1>8 DEF Syncing!ledgerVars, ledgerVars, Syncing!SaveCursor
  <2>2. pos[p] >= 1 /\ pos[p] \in Nat
    BY <2>1 DEF SyncInv, AtEvent
  <2>3. QED
    BY <2>1, <2>2, ReturnKeeps
<1>9. QED
  BY <1>1, <1>2, <1>3, <1>4, <1>5, <1>6, <1>7, <1>8 DEF Syncing!SyncStep

LEMMA AbandonKeeps ==
  ASSUME SyncInv, NEW p \in Proc, Syncing!Abandon(p)
  PROVE  SyncInv' /\ log' = log /\ UNCHANGED ledgerVars
<1>1. Syncing!Return(p) /\ UNCHANGED <<ledgerVars, log, cursor>>
  BY DEF Syncing!ledgerVars, ledgerVars, Syncing!Abandon
<1>2. QED
  BY <1>1, ReturnKeeps DEF SyncInv

(* The log only grows, so what it said it still says.                      *)
LEMMA ScannerKeeps ==
  ASSUME SyncInv, NEW n \in Note, NEW kind, Syncing!ScannerEmits(n, kind, TRUE)
  PROVE  /\ SyncInv' /\ UNCHANGED ledgerVars
         /\ Syncing!EventsOf(n)' # {}
         /\ \A m \in Note : Syncing!EventsOf(m) \subseteq Syncing!EventsOf(m)'
         /\ \A m \in Note \ {n} : Syncing!EventsOf(m)' = Syncing!EventsOf(m)
<1> DEFINE ev == [kind |-> kind, note |-> n, shown |-> TRUE]
<1>1. kind \in Syncing!Kind
  BY ExchangeAssumption DEF ExchangeAssumption, Syncing!ScannerEmits
<1>2. ev \in Syncing!Event
  BY <1>1, SameLedger DEF Syncing!Event
<1>3. log' = Append(log, ev) /\ UNCHANGED <<ledgerVars, cursor, pc, pos, last, found>>
  BY DEF Syncing!ledgerVars, ledgerVars, Syncing!ScannerEmits, Syncing!procVars
<1>4. ev.note = n
  OBVIOUS
<1> HIDE DEF ev
<1>5. /\ log' \in Seq(Syncing!Event) /\ Len(log') = Len(log) + 1 /\ Len(log) \in Nat
      /\ log'[Len(log) + 1] = ev
      /\ \A i \in 1..Len(log) : log'[i] = log[i]
  BY <1>2, <1>3 DEF SyncInv
<1>6. ASSUME NEW p \in Proc PROVE AtEvent(p)'
  <2>1. AtEvent(p) /\ last[p] \in Nat
    BY DEF SyncInv
  <2>2. pc[p] = "commit" => log'[pos[p]] = log[pos[p]]
    BY <1>5, CurrentEvent
  <2>3. pc' = pc /\ pos' = pos /\ last' = last /\ found' = found /\ Answers' = Answers
    BY <1>3 DEF Answers, ledgerVars
  <2>4. pc[p] \in {"lookup", "commit"} => pos[p] <= last[p] /\ last[p] <= Len(log')
    BY <1>5, <2>1 DEF AtEvent
  <2>5. QED
    BY <2>1, <2>2, <2>3, <2>4 DEF AtEvent
<1>7. SyncInv'
  <2>1. FreshIndices'
    BY <1>3 DEF SyncInv, FreshIndices, ledgerVars
  <2>2. QED
    BY <1>3, <1>5, <1>6, <2>1 DEF SyncInv
<1>8. Len(log) + 1 \in Syncing!EventsOf(n)'
  BY <1>4, <1>5 DEF Syncing!EventsOf
<1>9. \A m \in Note : Syncing!EventsOf(m) \subseteq Syncing!EventsOf(m)'
  BY <1>5 DEF Syncing!EventsOf
<1>10. \A m \in Note \ {n} : Syncing!EventsOf(m)' \subseteq Syncing!EventsOf(m)
  BY <1>4, <1>5 DEF Syncing!EventsOf
<1>11. QED
  BY <1>3, <1>7, <1>8, <1>9, <1>10

(* An account gets an address.                                             *)
LEMMA AssignKeeps ==
  ASSUME SyncInv, LedgerTypeOK, NEW a \in Account, GetOrAssignDepositAddress(a),
         UNCHANGED <<log, cursor, pc, pos, last, found>>
  PROVE  SyncInv'
<1>1. nextIndex \in Index /\ owner[nextIndex] = NoAccount
  BY LedgerAssumption
  DEF LedgerAssumption, LedgerTypeOK, SyncInv, FreshIndices, GetOrAssignDepositAddress, Index
<1>2. \A b \in Account, i \in Index : owner[i] = b => owner'[i] = b
  BY <1>1, LedgerAssumption DEF LedgerAssumption, LedgerTypeOK, GetOrAssignDepositAddress
<1>3. Answers \subseteq Answers'
  BY <1>2 DEF Answers, LedgerTypeOK
<1>4. FreshIndices'
  BY LedgerAssumption
  DEF LedgerAssumption, LedgerTypeOK, SyncInv, FreshIndices, GetOrAssignDepositAddress, Index
<1>5. ASSUME NEW p \in Proc PROVE AtEvent(p)'
  BY <1>3 DEF SyncInv, AtEvent
<1>6. QED
  BY <1>4, <1>5 DEF SyncInv

-----------------------------------------------------------------------------
(* The notes depositors have paid so far; an account is credited for no    *)
(* other, and no other note was there before there were transactions.      *)
PaidIn == {n \in External : Syncing!EventsOf(n) # {}}

CreditsArePaid == \A n \in Note : deposits[n].account # NoAccount => n \in PaidIn

BroughtIn(c) == c.tx = 0 => c \in Endowment \cup {DepositCoin(n) : n \in PaidIn}

NotesAreBroughtIn ==
  /\ \A c \in coins : BroughtIn(c)
  /\ \A i \in DOMAIN txs : \A c \in txs[i].inputs : BroughtIn(c)

(* What the wallets have and what was spent is what was deposited so far.  *)
Funds == Total(NoteZat, PaidIn) + Value(Endowment)

XInv ==
  /\ IInv /\ SyncInv /\ NotesInv /\ Charged /\ RowsAreNotes
  /\ CreditsArePaid /\ NotesAreBroughtIn
  /\ AddUpTo(Funds)

LEMMA InitXInv == ExchangeInit => XInv
<1> SUFFICES ASSUME ExchangeInit PROVE XInv
  OBVIOUS
<1>1. LedgerInit
  BY DEF ExchangeInit, Syncing!SyncInit, Syncing!LedgerInit, LedgerInit, Syncing!Note, Note,
         Syncing!Index, Index, Syncing!NoRow, NoRow
<1>2. Untouched
  BY <1>1, WithdrawalAssumption DEF WithdrawalAssumption, ExchangeInit, Untouched
<1>3. IInv /\ NotesInv /\ Charged /\ RowsAreNotes /\ AddUpTo(Value(coins))
  BY <1>2, UntouchedIInv, UntouchedChain, UntouchedBooks
<1>4. SyncInv
  BY <1>1 DEF ExchangeInit, Syncing!SyncInit, LedgerInit, SyncInv, FreshIndices, AtEvent, Answers
<1>5. PaidIn = {}
  BY DEF ExchangeInit, Syncing!SyncInit, PaidIn, Syncing!EventsOf
<1>6. CreditsArePaid
  BY <1>1 DEF LedgerInit, NoRow, CreditsArePaid
<1>7. NotesAreBroughtIn
  BY DEF ExchangeInit, NotesAreBroughtIn, BroughtIn
<1>8. Funds = Value(coins)
  <2>1. Total(NoteZat, PaidIn) = 0 /\ Value(Endowment) \in Nat /\ coins = Endowment
    BY <1>5, SumEmpty, IssuedIs DEF ExchangeInit
  <2>2. QED
    BY <2>1 DEF Funds
<1>9. AddUpTo(Funds)
  BY <1>3, <1>8
<1>10. QED
  BY <1>3, <1>4, <1>6, <1>7, <1>9 DEF XInv

-----------------------------------------------------------------------------
(* Withdraw commands, blocks and expiries: the syncs are not touched.      *)
LEMMA PaymentKeeps ==
  ASSUME XInv, UNCHANGED syncVars,
         (\E c \in Cmd : Step(c)) \/ (\E i \in DOMAIN txs : TxMined(i) \/ TxExpired(i))
  PROVE  XInv' /\ [LedgerNext]_ledgerVars
<1>1. [Next \/ OthersAct]_vars /\ IInv /\ SyncInv /\ NotesInv /\ Charged /\ RowsAreNotes
  BY DEF Next, XInv
<1>2. IInv' /\ [LedgerNext]_ledgerVars
  BY <1>1, NextKeeps
<1>3. UNCHANGED <<deposits, owner, nextIndex, log, cursor, pc, pos, last, found>>
  <2>1. ASSUME NEW c \in Cmd, Step(c) PROVE UNCHANGED <<deposits, owner, nextIndex>>
    BY <2>1 DEF Step, Begin, TakeChangeAddress, Plan, Refuse, Submit, SubmitRejected,
                SubmitUnanswered, Debit, CreateWithdrawalAndDebit, DebitRefused, Die, ledgerVars
  <2>2. ASSUME NEW i \in DOMAIN txs, TxMined(i) \/ TxExpired(i)
        PROVE  UNCHANGED <<deposits, owner, nextIndex>>
    BY <2>2 DEF TxMined, TxExpired, ledgerVars
  <2>3. QED
    BY <2>1, <2>2 DEF syncVars
<1>4. SyncInv'
  BY <1>1, <1>3 DEF SyncInv, FreshIndices, AtEvent, Answers
<1>5. PaidIn' = PaidIn /\ CreditsArePaid'
  BY <1>3 DEF XInv, PaidIn, CreditsArePaid, Syncing!EventsOf
<1>6. NotesInv' /\ AddUpTo(Funds)'
  <2>1. PICK worth : worth = Funds
    OBVIOUS
  <2>2. AddUpTo(worth)
    BY <2>1 DEF XInv
  <2>3. NotesInv' /\ AddUpTo(worth)'
    BY <1>1, <2>2, NotesKept
  <2>4. Funds' = worth
    BY <1>5, <2>1 DEF Funds
  <2>5. QED
    BY <2>3, <2>4 DEF AddUpTo
<1>7. Charged' /\ RowsAreNotes'
  BY <1>1, BooksKept DEF NotesInv
<1>8. NotesAreBroughtIn'
  <2>1. \A c : BroughtIn(c)' <=> BroughtIn(c)
    BY <1>5 DEF BroughtIn
  <2>2. NotesAreBroughtIn /\ NodeTypeOK
    BY <1>1 DEF XInv, IInv, WithdrawalTypeOK
  <2>3. CASE UNCHANGED nodeVars
    BY <2>1, <2>2, <2>3 DEF NotesAreBroughtIn, nodeVars
  <2>4. ASSUME NEW i \in DOMAIN txs, Mine(i) \/ Expire(i) PROVE NotesAreBroughtIn'
    <3>1. /\ DOMAIN txs' = DOMAIN txs
          /\ \A j \in DOMAIN txs : txs'[j].inputs = txs[j].inputs
      BY <2>2, <2>4, NodeMoves
    <3>2. \A c \in txs[i].outputs : c.tx # 0
      BY <1>1, <2>2, TxFacts DEF NotesInv, SpentOnce
    <3>3. \A c \in coins' : c \in coins \/ c \in txs[i].outputs
      BY <2>4 DEF Mine, Expire
    <3>4. \A c \in coins' : BroughtIn(c)
      BY <2>2, <3>2, <3>3 DEF NotesAreBroughtIn, BroughtIn
    <3>5. QED
      BY <2>1, <2>2, <3>1, <3>4 DEF NotesAreBroughtIn
  <2>5. ASSUME NEW tx, Offered(tx) PROVE NotesAreBroughtIn'
    <3>1. /\ tx \in Tx /\ IsFiniteSet(tx.outputs) /\ txs' = Append(txs, tx) /\ coins' = coins
          /\ tx.inputs \subseteq coins
      BY <2>5 DEF Offered, Acceptable, Spendable
    <3>2. /\ DOMAIN txs' = DOMAIN txs \cup {NextTx} /\ txs'[NextTx] = tx
          /\ \A i \in DOMAIN txs : txs'[i] = txs[i]
      BY <2>2, <3>1, AppendTx
    <3>3. QED
      BY <2>1, <2>2, <3>1, <3>2 DEF NotesAreBroughtIn
  <2>6. QED
    BY <1>1, <2>3, <2>4, <2>5, OpenNodeSteps DEF NotesInv
<1>9. QED
  BY <1>2, <1>4, <1>5, <1>6, <1>7, <1>8 DEF XInv

(* Steps of the syncs, the users and the scanner that neither move money   *)
(* nor bring any in.                                                       *)
LEMMA QuietKeeps ==
  ASSUME XInv, SyncInv', UNCHANGED payVars, PaidIn' = PaidIn,
         LedgerNext \/ UNCHANGED ledgerVars, debited' = debited, RowsAreNotes', CreditsArePaid'
  PROVE  XInv'
<1>1. UNCHANGED nodeVars /\ UNCHANGED <<cmd, rows, nextInternal, mishaps>> /\ UNCHANGED <<coins, txs>>
  BY DEF payVars, withdrawalVars, nodeVars
<1>2. IInv /\ NotesInv /\ Charged /\ NotesAreBroughtIn /\ AddUpTo(Funds)
  BY DEF XInv
<1>3. IInv'
  <2>1. CASE LedgerNext
    BY <1>1, <1>2, <2>1, LedgerStepKeeps DEF IInv, WithdrawalTypeOK
  <2>2. CASE UNCHANGED ledgerVars
    <3>1. UNCHANGED vars
      BY <1>1, <2>2 DEF vars, withdrawalVars
    <3>2. QED
      BY <1>2, <3>1, NextKeeps
  <2>3. QED
    BY <2>1, <2>2
<1>4. Charged'
  BY <1>1, <1>2, <1>3, OthersCharge
<1>5. NotesInv' /\ AddUpTo(Funds)'
  BY <1>1, <1>2 DEF NotesInv, PlansAddUp, SpentOnce, Real, Live, Pooled, AllAddUp, Outlay, Outlays,
                    Assets, AddUpTo, Funds
<1>6. NotesAreBroughtIn'
  BY <1>1, <1>2 DEF NotesAreBroughtIn, BroughtIn
<1>7. QED
  BY <1>3, <1>4, <1>5, <1>6 DEF XInv

LEMMA MovesKeep ==
  ASSUME XInv, NEW p \in Proc, SyncMoves(p) \/ (Syncing!Abandon(p) /\ UNCHANGED payVars)
  PROVE  XInv' /\ [LedgerNext]_ledgerVars
<1>1. SyncInv /\ LedgerTypeOK /\ UNCHANGED payVars
  BY DEF XInv, IInv, WithdrawalTypeOK, SyncMoves
<1>2. /\ SyncInv' /\ log' = log
      /\ UNCHANGED ledgerVars \/ (pc[p] = "commit" /\ Syncing!Handle(p))
  BY <1>1, SyncStepKeeps, AbandonKeeps DEF SyncMoves
<1>3. PaidIn' = PaidIn
  BY <1>2 DEF PaidIn, Syncing!EventsOf
<1>4. CASE UNCHANGED ledgerVars
  <2>1. RowsAreNotes' /\ CreditsArePaid' /\ debited' = debited
    BY <1>3, <1>4 DEF XInv, RowsAreNotes, CreditsArePaid, ledgerVars
  <2>2. QED
    BY <1>1, <1>2, <1>3, <1>4, <2>1, QuietKeeps
<1>5. CASE pc[p] = "commit" /\ Syncing!Handle(p)
  <2> DEFINE n == log[pos[p]].note
  <2>1. LedgerNext /\ debited' = debited
    BY <1>1, <1>5, HandleIsLedgerStep
  <2>2. PICK new : /\ deposits' = [deposits EXCEPT ![n] = new]
                   /\ new.zat = NoteZat[n] /\ new.account = found[p]
    BY <1>1, <1>5, HandleIsLedgerStep
  <2>3. n \in Note /\ NoteZat[n] \in Nat /\ pos[p] \in 1..Len(log)
    BY <1>1, <1>5, CurrentEvent, ExchangeFacts
  <2>4. found[p] # NoAccount => n \in PaidIn
    BY <1>1, <1>5, <2>3 DEF SyncInv, AtEvent, PaidIn, Syncing!EventsOf
  <2> HIDE DEF n
  <2>5. RowsAreNotes'
    BY <1>1, <2>2, <2>3 DEF XInv, RowsAreNotes, LedgerTypeOK
  <2>6. CreditsArePaid'
    BY <1>1, <1>3, <2>2, <2>3, <2>4 DEF XInv, CreditsArePaid, LedgerTypeOK
  <2>7. QED
    BY <1>1, <1>2, <1>3, <2>1, <2>5, <2>6, QuietKeeps
<1>6. QED
  BY <1>2, <1>4, <1>5

LEMMA AddressKeeps ==
  ASSUME XInv, NEW a \in Account, Syncing!AssignAddress(a), UNCHANGED payVars
  PROVE  XInv' /\ LedgerNext
<1>1. GetOrAssignDepositAddress(a) /\ UNCHANGED <<log, cursor, pc, pos, last, found>>
  BY SameDebit DEF Syncing!AssignAddress, Syncing!syncVars
<1>2. LedgerNext /\ UNCHANGED <<deposits, debited>>
  BY <1>1 DEF LedgerNext, GetOrAssignDepositAddress
<1>3. SyncInv'
  BY <1>1, AssignKeeps DEF XInv, IInv, WithdrawalTypeOK
<1>4. PaidIn' = PaidIn /\ RowsAreNotes' /\ CreditsArePaid'
  BY <1>1, <1>2 DEF XInv, PaidIn, Syncing!EventsOf, RowsAreNotes, CreditsArePaid
<1>5. QED
  BY <1>2, <1>3, <1>4, QuietKeeps

-----------------------------------------------------------------------------
(* What the scanner reports.                                               *)
LEMMA LatestIsLast ==
  ASSUME SyncInv, NEW n \in Note, Syncing!EventsOf(n) # {}
  PROVE  \E top \in Syncing!EventsOf(n) :
            /\ \A j \in Syncing!EventsOf(n) : j <= top
            /\ Syncing!LatestKind(n) = log[top].kind /\ log[top].kind \in Syncing!Kind
<1> DEFINE S == Syncing!EventsOf(n)
<1> DEFINE T == {Len(log) - i : i \in S}
<1>1. S \subseteq 1..Len(log) /\ Len(log) \in Nat
  BY DEF SyncInv, Syncing!EventsOf
<1>2. T \subseteq Nat /\ T # {}
  BY <1>1
<1>3. PICK m \in T : \A k \in T : m <= k
  <2> HIDE DEF T
  <2> QED BY <1>2, LeastElement
<1>4. PICK i \in S : m = Len(log) - i
  BY <1>3
<1>5. ASSUME NEW j \in S PROVE j <= i
  <2>1. Len(log) - i <= Len(log) - j
    BY <1>3, <1>4
  <2>2. QED
    BY <1>1, <2>1
<1> DEFINE top == CHOOSE k \in S : \A j \in S : j <= k
<1>6. top \in S /\ \A j \in S : j <= top
  BY <1>5
<1>7. Syncing!LatestKind(n) = log[top].kind
  BY DEF Syncing!LatestKind
<1> HIDE DEF top
<1>8. log[top] \in Syncing!Event
  <2>1. top \in 1..Len(log) /\ log \in Seq(Syncing!Event)
    BY <1>1, <1>6 DEF SyncInv
  <2>2. QED
    BY <2>1
<1>9. log[top].kind \in Syncing!Kind
  BY <1>8 DEF Syncing!Event
<1>10. QED
  BY <1>6, <1>7, <1>9

LEMMA NoneIsNoEvent ==
  ASSUME SyncInv, NEW n \in Note
  PROVE  Syncing!LatestKind(n) = "none" <=> Syncing!EventsOf(n) = {}
<1>1. CASE Syncing!EventsOf(n) = {}
  BY <1>1 DEF Syncing!LatestKind
<1>2. CASE Syncing!EventsOf(n) # {}
  BY <1>2, LatestIsLast DEF Syncing!Kind, Syncing!DepositKind
<1>3. QED
  BY <1>1, <1>2

(* A report of a note that is known already, or of change.                 *)
LEMMA ReportKeeps ==
  ASSUME XInv, NEW n \in Note, ChangeSeen(n) \/ \E kind \in Emits : Reported(n, kind)
  PROVE  XInv' /\ UNCHANGED ledgerVars
<1>1. PICK kind : Syncing!ScannerEmits(n, kind, TRUE)
  BY DEF ChangeSeen, Reported
<1>2. UNCHANGED payVars /\ SyncInv /\ LedgerTypeOK
  BY DEF XInv, IInv, WithdrawalTypeOK, ChangeSeen, Reported
<1>3. /\ SyncInv' /\ UNCHANGED ledgerVars
      /\ Syncing!EventsOf(n)' # {}
      /\ \A m \in Note \ {n} : Syncing!EventsOf(m)' = Syncing!EventsOf(m)
  BY <1>1, <1>2, ScannerKeeps
<1>4. n \notin External \/ Syncing!EventsOf(n) # {}
  BY <1>2, NoneIsNoEvent DEF ChangeSeen, Reported, External
<1>5. PaidIn' = PaidIn
  BY <1>3, <1>4, ExchangeFacts DEF PaidIn
<1>6. RowsAreNotes' /\ CreditsArePaid' /\ debited' = debited
  BY <1>3, <1>5 DEF XInv, RowsAreNotes, CreditsArePaid, ledgerVars
<1>7. QED
  BY <1>2, <1>3, <1>5, <1>6, QuietKeeps

(* A deposit brings in a note that was not there before.                   *)
LEMMA DepositedKeeps ==
  ASSUME XInv, NEW n \in Note, Deposited(n)
  PROVE  XInv' /\ UNCHANGED ledgerVars
<1> DEFINE coin == DepositCoin(n)
<1>1. /\ Syncing!ScannerEmits(n, "DepositEvent", TRUE) /\ n \in External
      /\ coins' = coins \cup {coin} /\ txs' = txs /\ UNCHANGED <<cmd, rows, nextInternal, mishaps>>
  BY DEF Deposited, External, withdrawalVars
<1>2. IInv /\ SyncInv /\ NotesInv /\ Charged /\ NotesAreBroughtIn /\ AddUpTo(Funds)
  BY DEF XInv
<1>3. /\ SyncInv' /\ UNCHANGED ledgerVars
      /\ Syncing!EventsOf(n)' # {}
      /\ \A m \in Note \ {n} : Syncing!EventsOf(m)' = Syncing!EventsOf(m)
  BY <1>1, <1>2, ScannerKeeps
<1>4. Syncing!EventsOf(n) = {}
  BY <1>2, NoneIsNoEvent DEF Deposited
<1>5. PaidIn' = PaidIn \cup {n} /\ n \notin PaidIn /\ PaidIn \subseteq External
  BY <1>1, <1>3, <1>4, ExchangeFacts DEF PaidIn
<1>6. coin \in Coin /\ coin.tx = 0 /\ coin.zat = NoteZat[n] /\ ~BroughtIn(coin)
  <2>1. coin \in Coin
    BY WithdrawalAssumption, NodeAssumption, LedgerAssumption
    DEF WithdrawalAssumption, NodeAssumption, LedgerAssumption, DepositCoin, Coin, Wallet, Scope, Note, Zat
  <2>2. coin \notin Endowment
    BY WithdrawalAssumption DEF WithdrawalAssumption
  <2>3. \A m \in PaidIn : coin # DepositCoin(m)
    BY <1>5 DEF DepositCoin
  <2>4. QED
    BY <2>1, <2>2, <2>3 DEF BroughtIn, DepositCoin
<1> HIDE DEF coin
<1>7. coin \notin coins /\ \A i \in DOMAIN txs : coin \notin txs[i].inputs
  BY <1>2, <1>6 DEF NotesAreBroughtIn
<1>8. NodeTypeOK /\ NodeTypeOK'
  <2>1. IsFiniteSet(coins')
    BY <1>1, <1>2, FS_AddElement DEF IInv, WithdrawalTypeOK, NodeTypeOK
  <2>2. QED
    BY <1>1, <1>2, <1>6, <2>1 DEF IInv, WithdrawalTypeOK, NodeTypeOK
<1>9. IInv'
  <2>1. WithdrawalTypeOK'
    BY <1>1, <1>2, <1>3, <1>8
    DEF IInv, WithdrawalTypeOK, LedgerTypeOK, ledgerVars, WalletsTypeOK
  <2>2. Started' /\ Sent'
    BY <1>1, <1>2 DEF IInv, Started, Sent
  <2>3. RecordedWasBroadcast'
    BY <1>1, <1>2, <2>1, RowsStayTrue
  <2>4. QED
    BY <2>1, <2>2, <2>3 DEF IInv
<1>10. NotesInv'
  <2>1. SpentOnce'
    BY <1>1, <1>2, <1>6, <1>7 DEF NotesInv, SpentOnce, Real, Live, Pooled
  <2>2. QED
    BY <1>1, <1>2, <2>1 DEF NotesInv, PlansAddUp, AllAddUp, Outlay
<1>11. AddUpTo(Funds)'
  <2>1. \A i \in Pooled : coin \notin txs[i].outputs
    <3>1. \A i \in DOMAIN txs : \A c \in txs[i].outputs : c.tx = i /\ i # 0
      BY <1>2, <1>8, TxFacts DEF NotesInv, SpentOnce
    <3>2. QED
      BY <1>6, <3>1 DEF Pooled
  <2>2. Assets' = Assets \cup {coin} /\ coin \notin Assets
    <3> DEFINE spent == UNION {txs[i].inputs : i \in Pooled}
               made == UNION {txs[i].outputs : i \in Pooled}
    <3>1. coin \notin spent /\ coin \notin made
      BY <1>7, <2>1 DEF Pooled
    <3>2. Assets = (coins \ spent) \cup made /\ Assets' = (coins' \ spent) \cup made
      BY <1>1 DEF Assets, Pooled
    <3> HIDE DEF spent, made
    <3>3. QED
      BY <1>1, <1>7, <3>1, <3>2
  <2>3. IsFiniteSet(Assets) /\ Assets \subseteq Coin
        /\ Value(Assets) + Total(Outlays, Live) = Total(NoteZat, PaidIn) + Value(Endowment)
    BY <1>2, <1>8, AssetsAreCoins DEF AddUpTo, Funds
  <2>4. IsFiniteSet(Assets \cup {coin}) /\ Value(Assets \cup {coin}) = Value(Assets) + NoteZat[n]
    <3>1. IsFiniteSet({coin}) /\ Value({coin}) = NoteZat[n] /\ Assets \cap {coin} = {}
      BY <1>6, <2>2, ValueOfOne, FS_Singleton
    <3>2. Assets \in SUBSET Coin /\ {coin} \in SUBSET Coin
      BY <1>6, <2>3
    <3>3. Value(Assets \cup {coin}) = Value(Assets) + Value({coin})
      BY <2>3, <3>1, <3>2, ValueOfBoth
    <3>4. QED
      BY <2>3, <3>1, <3>3, FS_Union
  <2>5. Total(NoteZat, PaidIn \cup {n}) = NoteZat[n] + Total(NoteZat, PaidIn)
    <3>1. IsFiniteSet(PaidIn) /\ \A m \in PaidIn : NoteZat[m] \in Int
      BY <1>5, ExchangeFacts, FS_Subset
    <3>2. QED
      BY <1>5, <3>1, ExchangeFacts, SumAdd
  <2>6. Outlays' = Outlays /\ Live' = Live
    BY <1>1 DEF Outlays, Outlay, Live
  <2>7. Value(Assets) \in Nat /\ Value(Endowment) \in Nat /\ NoteZat[n] \in Nat
        /\ Total(NoteZat, PaidIn) \in Nat /\ Total(Outlays, Live) \in Nat
    <3>1. IsFiniteSet(PaidIn) /\ \A m \in PaidIn : NoteZat[m] \in Nat
      BY <1>5, ExchangeFacts, FS_Subset
    <3>2. IsFiniteSet(Live) /\ \A i \in Live : Outlays[i] \in Nat
      BY <1>8, TxsFinite, OutlayIsNat DEF Live, Outlays
    <3>3. QED
      BY <2>3, <3>1, <3>2, ExchangeFacts, ValueIsNat, IssuedIs, SumNat
  <2>8. Funds' = NoteZat[n] + Total(NoteZat, PaidIn) + Value(Endowment)
    BY <1>5, <2>5 DEF Funds
  <2>9. QED
    BY <2>2, <2>3, <2>4, <2>6, <2>7, <2>8 DEF AddUpTo
<1>12. NotesAreBroughtIn'
  BY <1>1, <1>2, <1>5 DEF NotesAreBroughtIn, BroughtIn, coin
<1>13. Charged'
  BY <1>1, <1>2, <1>3, <1>9, OthersCharge DEF ledgerVars
<1>14. RowsAreNotes' /\ CreditsArePaid'
  BY <1>3, <1>5 DEF XInv, RowsAreNotes, CreditsArePaid, ledgerVars
<1>15. QED
  BY <1>3, <1>9, <1>10, <1>11, <1>12, <1>13, <1>14 DEF XInv

LEMMA ExchangeKeeps == XInv /\ [ExchangeNext]_exchangeVars => XInv' /\ [LedgerNext]_ledgerVars
<1> SUFFICES ASSUME XInv, [ExchangeNext]_exchangeVars PROVE XInv' /\ [LedgerNext]_ledgerVars
  OBVIOUS
<1>1. ASSUME NEW n \in Note, Deposited(n) \/ ChangeSeen(n) \/ \E kind \in Emits : Reported(n, kind)
      PROVE  XInv' /\ [LedgerNext]_ledgerVars
  BY <1>1, DepositedKeeps, ReportKeeps
<1>2. ASSUME NEW p \in Proc, SyncMoves(p) \/ (Syncing!Abandon(p) /\ UNCHANGED payVars)
      PROVE  XInv' /\ [LedgerNext]_ledgerVars
  BY <1>2, MovesKeep
<1>3. ASSUME NEW a \in Account, Syncing!AssignAddress(a), UNCHANGED payVars
      PROVE  XInv' /\ [LedgerNext]_ledgerVars
  BY <1>3, AddressKeeps
<1>4. ASSUME UNCHANGED syncVars,
             (\E c \in Cmd : Step(c)) \/ (\E i \in DOMAIN txs : TxMined(i) \/ TxExpired(i))
      PROVE  XInv' /\ [LedgerNext]_ledgerVars
  BY <1>4, PaymentKeeps
<1>5. CASE UNCHANGED exchangeVars
  <2>1. UNCHANGED payVars /\ UNCHANGED ledgerVars /\ UNCHANGED <<log, cursor, pc, pos, last, found>>
    BY <1>5 DEF exchangeVars, syncVars
  <2>2. SyncInv' /\ PaidIn' = PaidIn
    BY <2>1 DEF XInv, SyncInv, FreshIndices, AtEvent, Answers, PaidIn, Syncing!EventsOf, ledgerVars
  <2>3. RowsAreNotes' /\ CreditsArePaid' /\ debited' = debited
    BY <2>1, <2>2 DEF XInv, RowsAreNotes, CreditsArePaid, ledgerVars
  <2>4. QED
    BY <2>1, <2>2, <2>3, QuietKeeps
<1>6. QED
  BY <1>1, <1>2, <1>3, <1>4, <1>5 DEF ExchangeNext, World

-----------------------------------------------------------------------------
(* Syncs and withdrawals together use the ledger as it allows, so the      *)
(* books balance.                                                          *)
LEMMA ExchangeImplementsLedger == ExchangeSpec => LedgerSpec
<1>1. ExchangeInit => LedgerInit
  BY DEF ExchangeInit, Syncing!SyncInit, Syncing!LedgerInit, LedgerInit, Syncing!Note, Note,
         Syncing!Index, Index, Syncing!NoRow, NoRow
<1>2. QED
  BY <1>1, InitXInv, ExchangeKeeps, PTL DEF ExchangeSpec, LedgerSpec

LEMMA ExchangeBooksBalance == ExchangeSpec => []BooksBalance
BY ExchangeImplementsLedger, BooksAlwaysBalance, PTL

(* All the way round, whatever the order in which deposits are paid,       *)
(* reported, replayed and taken back, syncs die and withdrawals race: what *)
(* the accounts are owed, the wallets have, but for what was sent and not  *)
(* debited.                                                                *)
THEOREM ExchangeIsSolvent == ExchangeSpec => []AlwaysSolvent
<1>1. XInv /\ BooksBalance => AlwaysSolvent
  <2> SUFFICES ASSUME XInv, BooksBalance PROVE LiabilitiesCovered
    BY DEF AlwaysSolvent
  <2>1. PICK paid : paid = PaidIn
    OBVIOUS
  <2>2. paid \in SUBSET Note /\ \A n \in Note : deposits[n].account # NoAccount => n \in paid
    BY <2>1, ExchangeFacts DEF XInv, CreditsArePaid, PaidIn
  <2>3. AddUpTo(Total(NoteZat, paid) + Value(Endowment))
    BY <2>1 DEF XInv, Funds
  <2>4. QED
    BY <2>2, <2>3, CoveredState DEF XInv
<1>2. QED
  BY <1>1, InitXInv, ExchangeKeeps, ExchangeBooksBalance, PTL DEF ExchangeSpec

(* A withdrawal debits what Sync's Withdraw may debit: nobody is owed more *)
(* than all deposits together.                                             *)
LEMMA DebitIsWithdraw ==
  ASSUME XInv, BooksBalance, NEW c \in Cmd, Debit(c), UNCHANGED syncVars
  PROVE  \E a \in Account : Syncing!Withdraw(a)
<1> DEFINE a == cmd[c].account
           amount == cmd[c].amount
           fee == cmd[c].fee
<1>1. CreateWithdrawalAndDebit(a, amount, fee) /\ cmd[c].pc = "sent"
  BY DEF Debit
<1>2. a \in Account /\ amount \in Nat \ {0} /\ fee \in Nat
  <2>1. cmd[c] \in Command /\ cmd[c].account \in Account /\ cmd[c].amount \in Amount
    BY <1>1 DEF XInv, IInv, WithdrawalTypeOK, Started, Running
  <2>2. QED
    BY <2>1, WithdrawalAssumption DEF WithdrawalAssumption, Command
<1> HIDE DEF a, amount, fee
<1>3. balance[a] <= MaxZat /\ balance[a] \in Nat
  <2>1. PICK paid : paid = PaidIn
    OBVIOUS
  <2>2. paid \subseteq External /\ \A n \in Note : deposits[n].account # NoAccount => n \in paid
    BY <2>1 DEF XInv, CreditsArePaid, PaidIn
  <2>3. LedgerTypeOK /\ RowsAreNotes
    BY DEF XInv, IInv, WithdrawalTypeOK
  <2>4. /\ Total(balance, Account) + Total(debited, Account) <= Total(NoteZat, paid)
        /\ Total(balance, Account) \in Nat /\ Total(debited, Account) \in Nat
        /\ Total(NoteZat, paid) \in Nat
    BY <2>2, <2>3, ExchangeFacts, CreditedWasDeposited
  <2>5. Total(NoteZat, paid) <= Total(NoteZat, External) /\ Total(NoteZat, External) \in Nat
    BY <2>2, ExchangeFacts, SumOfSome, SumNat
  <2>6. balance[a] <= Total(balance, Account) /\ balance[a] \in Nat
    <3>1. \A b \in Account : balance[b] \in Nat
      BY <2>3 DEF LedgerTypeOK
    <3>2. Total(balance, {a}) <= Total(balance, Account)
      BY <1>2, <3>1, AccountsFinite, SumOfSome
    <3>3. Total(balance, {a}) = balance[a]
      BY <1>2, <3>1, SumSingle
    <3>4. QED
      BY <1>2, <3>1, <3>2, <3>3
  <2>7. Total(NoteZat, External) <= MaxZat /\ MaxZat \in Nat
    BY ExchangeAssumption, LedgerAssumption DEF ExchangeAssumption, LedgerAssumption
  <2>8. QED
    BY <2>4, <2>5, <2>6, <2>7
<1>4. amount \in 1..MaxZat /\ fee \in 0..MaxZat
  BY <1>1, <1>2, <1>3, LedgerAssumption DEF LedgerAssumption, CreateWithdrawalAndDebit
<1>5. Syncing!CreateWithdrawalAndDebit(a, amount, fee)
  BY <1>1, SameDebit
<1>6. Syncing!Withdraw(a)
  BY <1>4, <1>5 DEF Syncing!Withdraw, Syncing!Zat, Syncing!syncVars, syncVars
<1>7. QED
  BY <1>2, <1>6

(* To the syncs everything else here is what Sync supposes of it: chain,   *)
(* users and withdrawals.                                                  *)
THEOREM ExchangeIsSync == ExchangeSpec => AsSyncAssumes
<1> USE DEF Syncing!vars, Syncing!ledgerVars, Syncing!syncVars, ledgerVars, syncVars
<1>1. ExchangeInit => Syncing!SyncInit
  BY DEF ExchangeInit
<1>2. XInv /\ BooksBalance /\ [ExchangeNext]_exchangeVars => [Syncing!Next]_(Syncing!vars)
  <2> SUFFICES ASSUME XInv, BooksBalance, [ExchangeNext]_exchangeVars
               PROVE  Syncing!Next \/ UNCHANGED Syncing!vars
    OBVIOUS
  <2>1. ASSUME NEW n \in Note, Deposited(n) \/ ChangeSeen(n) \/ \E kind \in Emits : Reported(n, kind)
        PROVE  Syncing!Next
    <3>1. PICK kind : Syncing!ScannerEmits(n, kind, TRUE)
      BY <2>1 DEF Deposited, ChangeSeen, Reported
    <3>2. kind \in Syncing!Kind
      BY <3>1, ExchangeAssumption DEF ExchangeAssumption, Syncing!ScannerEmits
    <3>3. QED
      BY <3>1, <3>2, SameLedger DEF Syncing!Next, Syncing!NextNoWithdrawals, Syncing!Chain
  <2>2. ASSUME NEW p \in Proc, SyncMoves(p) \/ Syncing!Abandon(p)
        PROVE  Syncing!Next
    BY <2>2 DEF SyncMoves, Syncing!Next, Syncing!NextNoWithdrawals
  <2>3. ASSUME NEW a \in Account, Syncing!AssignAddress(a) PROVE Syncing!Next
    BY <2>3 DEF Syncing!Next, Syncing!NextNoWithdrawals
  <2>4. ASSUME NEW c \in Cmd, Step(c), UNCHANGED syncVars PROVE Syncing!Next \/ UNCHANGED Syncing!vars
    <3>1. CASE Debit(c)
      BY <2>4, <3>1, DebitIsWithdraw DEF Syncing!Next
    <3>2. CASE ~Debit(c)
      BY <2>4, <3>2 DEF Step, Begin, TakeChangeAddress, Plan, Refuse, Submit, SubmitRejected,
                        SubmitUnanswered, DebitRefused, Die
    <3>3. QED
      BY <3>1, <3>2
  <2>5. ASSUME NEW i \in DOMAIN txs, TxMined(i) \/ TxExpired(i), UNCHANGED syncVars
        PROVE  UNCHANGED Syncing!vars
    BY <2>5 DEF TxMined, TxExpired
  <2>6. CASE UNCHANGED exchangeVars
    BY <2>6 DEF exchangeVars
  <2>7. QED
    BY <2>1, <2>2, <2>3, <2>4, <2>5, <2>6 DEF ExchangeNext, World
<1>3. QED
  BY <1>1, <1>2, InitXInv, ExchangeKeeps, ExchangeBooksBalance, PTL
  DEF ExchangeSpec, AsSyncAssumes, Syncing!Spec

-----------------------------------------------------------------------------
(* Nothing is ever taken back: one process syncs and has never stopped     *)
(* half way, the log has no reversal.  Then the log tells of each note     *)
(* once that it is there and once that it is confirmed, each event is      *)
(* handled once, and a balance a command has read only grows until it      *)
(* debits it.                                                              *)
EachOnce ==
  \A i, j \in DOMAIN log : i < j /\ log[i].note = log[j].note =>
     /\ log[j].kind # "DepositEvent"
     /\ log[j].kind = "DepositConfirmed" => log[i].kind = "DepositEvent"

Handled(p) == IF pc[p] = "idle" THEN cursor ELSE pos[p] - 1

ConfirmedBy(n, p) ==
  \E i \in DOMAIN log : i <= Handled(p) /\ log[i].note = n /\ log[i].kind = "DepositConfirmed"

CreditsAreHandled ==
  \A p \in Proc, n \in Note : deposits[n].status = "confirmed" => ConfirmedBy(n, p)

NoReversal == \A i \in DOMAIN log : log[i].kind \notin {"DepositUnconfirmed", "DepositOrphaned"}

Steady == EachOnce /\ CreditsAreHandled /\ Careful

SteadyInv == abandoned \in Nat /\ (NeverReversed /\ Solo /\ mishaps = 0 => Steady)

LEMMA InitSteady == ExchangeInit => SteadyInv
<1> SUFFICES ASSUME ExchangeInit PROVE abandoned \in Nat /\ Steady
  BY DEF SteadyInv
<1>1. /\ log = <<>> /\ \A n \in Note : deposits[n].status # "confirmed"
      /\ cmd = [c \in Cmd |-> NewCommand] /\ DOMAIN txs = {} /\ abandoned = 0
  BY DEF ExchangeInit, Syncing!SyncInit, Syncing!LedgerInit, Syncing!Note, Note, Syncing!NoRow
<1>2. EachOnce /\ CreditsAreHandled
  BY <1>1 DEF EachOnce, CreditsAreHandled
<1>3. Careful
  BY <1>1 DEF Careful, OnePerAccount, Funded, Settled, NewCommand, Running
<1>4. QED
  BY <1>1, <1>2, <1>3 DEF Steady

(* The scanner's next event of a note keeps their order.                   *)
LEMMA LogStaysInOrder ==
  ASSUME SyncInv, EachOnce, NoReversal', NEW n \in Note, NEW kind,
         Syncing!ScannerEmits(n, kind, TRUE)
  PROVE  EachOnce' /\ \A i \in DOMAIN log : i \in DOMAIN log' /\ log'[i] = log[i]
<1> DEFINE ev == [kind |-> kind, note |-> n, shown |-> TRUE]
<1> DEFINE S == Syncing!EventsOf(n)
<1>1. log' = Append(log, ev) /\ kind \in Syncing!MayFollow(Syncing!LatestKind(n))
  BY DEF Syncing!ScannerEmits
<1>2. ev.note = n /\ ev.kind = kind
  OBVIOUS
<1> HIDE DEF ev
<1>3. /\ Len(log) \in Nat /\ DOMAIN log = 1..Len(log) /\ DOMAIN log' = 1..(Len(log) + 1)
      /\ log'[Len(log) + 1] = ev
      /\ \A i \in 1..Len(log) : log'[i] = log[i]
  BY <1>1 DEF SyncInv
<1>4. kind \notin {"DepositUnconfirmed", "DepositOrphaned"} /\ NoReversal
  BY <1>2, <1>3 DEF NoReversal
<1>5. S = {i \in 1..Len(log) : log[i].note = n}
  BY DEF Syncing!EventsOf
<1> HIDE DEF S
<1>6. ASSUME NEW i \in S
      PROVE  kind # "DepositEvent" /\ (kind = "DepositConfirmed" => log[i].kind = "DepositEvent")
  <2>1. PICK top \in S : (\A j \in S : j <= top) /\ Syncing!LatestKind(n) = log[top].kind
    BY <1>6, LatestIsLast DEF S
  <2>2. log[top].kind \in Syncing!Kind /\ log[top].kind \notin {"DepositUnconfirmed", "DepositOrphaned"}
    <3>1. log[top] \in Syncing!Event
      BY <1>5, <2>1 DEF SyncInv
    <3>2. QED
      BY <1>3, <1>4, <1>5, <2>1, <3>1 DEF Syncing!Event, NoReversal
  <2>3. \/ log[top].kind = "DepositEvent" /\ kind \in {"DepositConfirmed", "DepositOrphaned"}
        \/ kind \in {"DepositUnconfirmed", "DepositOrphaned", "SpendEvent"}
    BY <1>1, <2>1, <2>2 DEF Syncing!MayFollow, Syncing!Kind, Syncing!DepositKind
  <2>4. kind = "DepositConfirmed" => log[top].kind = "DepositEvent"
    BY <2>3
  <2>5. log[top].kind = "DepositEvent" => i = top
    <3>1. i \in 1..Len(log) /\ top \in 1..Len(log) /\ i <= top /\ log[i].note = log[top].note
      BY <1>5, <1>6, <2>1
    <3>2. i < top => log[top].kind # "DepositEvent"
      BY <1>3, <3>1 DEF EachOnce
    <3>3. QED
      BY <3>1, <3>2
  <2>6. QED
    BY <1>4, <2>3, <2>4, <2>5
<1>7. EachOnce'
  <2>1. SUFFICES ASSUME NEW i \in DOMAIN log', NEW j \in DOMAIN log', i < j, log'[i].note = log'[j].note
                 PROVE  /\ log'[j].kind # "DepositEvent"
                        /\ log'[j].kind = "DepositConfirmed" => log'[i].kind = "DepositEvent"
    BY DEF EachOnce
  <2>2. CASE j \in 1..Len(log)
    <3>1. i \in 1..Len(log)
      BY <1>3, <2>1, <2>2
    <3>2. QED
      BY <1>3, <2>1, <2>2, <3>1 DEF EachOnce
  <2>3. CASE j = Len(log) + 1
    <3>1. i \in 1..Len(log) /\ log'[j] = ev
      BY <1>3, <2>1, <2>3
    <3>2. i \in S /\ log'[i] = log[i]
      BY <1>2, <1>3, <1>5, <2>1, <3>1
    <3>3. QED
      BY <1>2, <1>6, <3>1, <3>2
  <2>4. QED
    BY <1>3, <2>1, <2>2, <2>3
<1>8. QED
  BY <1>3, <1>7

(* The process that syncs posts to a row that is not confirmed.            *)
LEMMA RowNotConfirmed ==
  ASSUME SyncInv, EachOnce, CreditsAreHandled, NoReversal, NEW p \in Proc, pc[p] = "commit"
  PROVE  deposits[log[pos[p]].note].status # "confirmed"
<1> DEFINE n == log[pos[p]].note
<1>1. pos[p] \in DOMAIN log /\ n \in Note /\ log[pos[p]].kind \in Syncing!DepositKind /\ pos[p] \in Nat
  BY CurrentEvent DEF SyncInv, AtEvent
<1>2. SUFFICES ASSUME deposits[n].status = "confirmed" PROVE FALSE
  OBVIOUS
<1>3. PICK i \in DOMAIN log : /\ i <= pos[p] - 1 /\ log[i].note = n
                              /\ log[i].kind = "DepositConfirmed"
  BY <1>1, <1>2 DEF CreditsAreHandled, ConfirmedBy, Handled
<1>4. DOMAIN log = 1..Len(log) /\ i \in Nat
  BY <1>3 DEF SyncInv
<1>5. i < pos[p]
  BY <1>1, <1>3, <1>4
<1>6. log[pos[p]].kind \notin {"DepositEvent", "DepositConfirmed"}
  BY <1>1, <1>3, <1>5 DEF EachOnce
<1>7. QED
  BY <1>1, <1>6 DEF NoReversal, Syncing!DepositKind

LEMMA CommitSteady ==
  ASSUME XInv, XInv', Steady, NoReversal, NEW p \in Proc, Proc = {p},
         Syncing!CommitDeposit(p), UNCHANGED payVars
  PROVE  Steady'
<1> DEFINE n == log[pos[p]].note
           status == Syncing!StatusOf(log[pos[p]].kind)
<1>1. SyncInv /\ IInv /\ IInv' /\ LedgerTypeOK /\ EachOnce /\ CreditsAreHandled /\ Careful
  BY DEF XInv, Steady, IInv, WithdrawalTypeOK
<1>2. pc[p] = "commit" /\ Syncing!Handle(p) /\ Syncing!Advance(p) /\ log' = log /\ cursor' = cursor
  BY DEF Syncing!CommitDeposit
<1>3. pos[p] \in DOMAIN log /\ n \in Note /\ log[pos[p]].kind \in Syncing!DepositKind /\ pos[p] \in Nat
      /\ NoteZat[n] \in Nat
  BY <1>1, <1>2, CurrentEvent, ExchangeFacts DEF SyncInv, AtEvent
<1>4. deposits[n].status # "confirmed"
  BY <1>1, <1>2, RowNotConfirmed
<1>5. ApplyDeposit(n, NoteZat[n], found[p], log[pos[p]].shown, status)
  BY <1>2, SameApply DEF Syncing!Handle
<1>6. status = "confirmed" => log[pos[p]].kind = "DepositConfirmed"
  BY <1>3 DEF Syncing!DepositKind, Syncing!StatusOf
<1> HIDE DEF status
<1>7. \A a \in Account : balance'[a] >= balance[a]
  <2> HIDE DEF n
  <2>1. QED
    BY <1>1, <1>3, <1>4, <1>5, PostOnlyAdds
<1>8. EachOnce'
  BY <1>1, <1>2 DEF EachOnce
<1>9. CreditsAreHandled'
  <2>1. Handled(p)' = pos[p] /\ Handled(p) = pos[p] - 1
    BY <1>1, <1>2, <1>3 DEF Handled, Syncing!Advance, SyncInv
  <2>2. \A m \in Note : deposits'[m].status = "confirmed" =>
          deposits[m].status = "confirmed" \/ (m = n /\ status = "confirmed")
    BY <1>1, <1>3, <1>5 DEF ApplyDeposit, NewRow, LedgerTypeOK
  <2>3. SUFFICES ASSUME NEW m \in Note, deposits'[m].status = "confirmed" PROVE ConfirmedBy(m, p)'
    BY DEF CreditsAreHandled
  <2>4. CASE deposits[m].status = "confirmed"
    <3>1. PICK i \in DOMAIN log : /\ i <= Handled(p) /\ log[i].note = m
                                  /\ log[i].kind = "DepositConfirmed"
      BY <1>1, <2>4 DEF CreditsAreHandled, ConfirmedBy
    <3>2. i \in Nat
      BY <1>1, <3>1 DEF SyncInv
    <3>3. i <= Handled(p)'
      BY <1>3, <2>1, <3>1, <3>2
    <3>4. QED
      BY <1>2, <3>1, <3>3 DEF ConfirmedBy
  <2>5. CASE m = n /\ status = "confirmed"
    BY <1>2, <1>3, <1>6, <2>1, <2>5 DEF ConfirmedBy
  <2>6. QED
    BY <2>2, <2>3, <2>4, <2>5
<1>10. Careful'
  BY <1>1, <1>7, CarefulBystanders DEF payVars, withdrawalVars, nodeVars
<1>11. QED
  BY <1>8, <1>9, <1>10 DEF Steady

(* Its other steps leave the ledger, and it does not go back.              *)
LEMMA MovesSteady ==
  ASSUME XInv, XInv', Steady, NoReversal, NEW p \in Proc, Proc = {p}, SyncMoves(p)
  PROVE  Steady'
<1>1. /\ SyncInv /\ IInv /\ IInv' /\ LedgerTypeOK /\ EachOnce /\ CreditsAreHandled /\ Careful
      /\ UNCHANGED payVars /\ log' = log
  BY SyncStepKeeps DEF XInv, Steady, IInv, WithdrawalTypeOK, SyncMoves
<1>2. ~Syncing!FailDeposit(p)
  <2>1. SUFFICES ASSUME Syncing!FailDeposit(p) PROVE FALSE
    OBVIOUS
  <2>2. pc[p] = "commit" /\ Syncing!Refused(p)
    BY <2>1 DEF Syncing!FailDeposit
  <2>3. deposits[log[pos[p]].note].status = "confirmed"
    BY <2>2 DEF Syncing!Refused, Syncing!CanPost, Syncing!TakesBack
  <2>4. QED
    BY <1>1, <2>2, <2>3, RowNotConfirmed
<1>3. ASSUME UNCHANGED ledgerVars, Handled(p)' >= Handled(p) PROVE Steady'
  <2>1. EachOnce'
    BY <1>1 DEF EachOnce
  <2>2. Handled(p) \in Int /\ Handled(p)' \in Int
    BY <1>1 DEF Handled, SyncInv, XInv
  <2>3. CreditsAreHandled'
    <3>1. SUFFICES ASSUME NEW m \in Note, deposits'[m].status = "confirmed" PROVE ConfirmedBy(m, p)'
      BY DEF CreditsAreHandled
    <3>2. PICK i \in DOMAIN log : /\ i <= Handled(p) /\ log[i].note = m
                                  /\ log[i].kind = "DepositConfirmed"
      BY <1>1, <1>3, <3>1 DEF CreditsAreHandled, ConfirmedBy, ledgerVars
    <3>3. i \in Nat
      BY <1>1, <3>2 DEF SyncInv
    <3>4. i <= Handled(p)'
      BY <1>3, <2>2, <3>2, <3>3
    <3>5. QED
      BY <1>1, <3>2, <3>4 DEF ConfirmedBy
  <2>4. \A a \in Account : balance'[a] >= balance[a]
    BY <1>1, <1>3 DEF ledgerVars, LedgerTypeOK
  <2>5. Careful'
    BY <1>1, <2>4, CarefulBystanders DEF payVars, withdrawalVars, nodeVars
  <2>6. QED
    BY <2>1, <2>3, <2>5 DEF Steady
<1> USE DEF Syncing!ledgerVars, ledgerVars
<1>4. CASE Syncing!StartSync(p)
  BY <1>1, <1>3, <1>4 DEF Syncing!StartSync, Handled, SyncInv
<1>5. CASE Syncing!FetchPage(p)
  BY <1>1, <1>3, <1>5 DEF Syncing!FetchPage, Handled, SyncInv
<1>6. CASE Syncing!FetchEmptyPage(p)
  BY <1>1, <1>3, <1>6 DEF Syncing!FetchEmptyPage, Handled, SyncInv
<1>7. CASE Syncing!IgnoreEvent(p)
  BY <1>1, <1>3, <1>7 DEF Syncing!IgnoreEvent, Syncing!Advance, Handled, SyncInv
<1>8. CASE Syncing!LookupAccount(p)
  BY <1>1, <1>3, <1>8 DEF Syncing!LookupAccount, Handled, SyncInv
<1>9. CASE Syncing!SaveCursor(p)
  BY <1>1, <1>3, <1>9 DEF Syncing!SaveCursor, Syncing!Return, Handled, SyncInv
<1>10. CASE Syncing!CommitDeposit(p)
  BY <1>1, <1>10, CommitSteady
<1>11. QED
  BY <1>2, <1>4, <1>5, <1>6, <1>7, <1>8, <1>9, <1>10 DEF SyncMoves, Syncing!SyncStep

(* What a step may do to the premises: nothing that comes back.            *)
LEMMA PremisesStay ==
  ASSUME XInv, XInv', abandoned \in Nat, [ExchangeNext]_exchangeVars
  PROVE  /\ abandoned' \in Nat
         /\ NeverReversed' /\ mishaps' = 0 =>
              /\ NeverReversed /\ mishaps = 0 /\ NoReversal'
              /\ \A p \in Proc : ~Syncing!Abandon(p)
<1>1. ASSUME NEW p \in Proc, Syncing!SyncStep(p) PROVE abandoned' = abandoned /\ log' = log
  BY <1>1, SyncStepKeeps
  DEF XInv, IInv, WithdrawalTypeOK, Syncing!SyncStep, Syncing!StartSync, Syncing!FetchPage, Syncing!FetchEmptyPage,
      Syncing!IgnoreEvent, Syncing!LookupAccount, Syncing!FailDeposit, Syncing!CommitDeposit, Syncing!SaveCursor
<1>2. ASSUME NEW p \in Proc, Syncing!Abandon(p)
      PROVE  abandoned' = abandoned + 1 /\ log' = log
  BY <1>2 DEF Syncing!Abandon
<1>3. ASSUME NEW n \in Note, NEW kind, Syncing!ScannerEmits(n, kind, TRUE)
      PROVE  abandoned' = abandoned /\ \E ev : log' = Append(log, ev)
  BY <1>3 DEF Syncing!ScannerEmits
<1>4. \/ abandoned' = abandoned /\ (log' = log \/ \E ev : log' = Append(log, ev))
      \/ abandoned' = abandoned + 1 /\ log' = log
  <2>1. CASE \E n \in Note : Deposited(n) \/ ChangeSeen(n) \/ \E kind \in Emits : Reported(n, kind)
    BY <1>3, <2>1 DEF Deposited, ChangeSeen, Reported
  <2>2. CASE \E a \in Account : Syncing!AssignAddress(a)
    BY <2>2 DEF Syncing!AssignAddress, Syncing!syncVars
  <2>3. CASE UNCHANGED syncVars \/ UNCHANGED exchangeVars
    BY <2>3 DEF syncVars, exchangeVars
  <2>4. QED
    BY <1>1, <1>2, <2>1, <2>2, <2>3 DEF ExchangeNext, World, SyncMoves
<1>5. NoReversal' => NoReversal
  <2>1. log \in Seq(Syncing!Event)
    BY DEF XInv, SyncInv
  <2>2. ASSUME NEW ev, log' = Append(log, ev)
        PROVE  \A i \in DOMAIN log : i \in DOMAIN log' /\ log'[i] = log[i]
    BY <2>1, <2>2
  <2>3. QED
    BY <1>4, <2>2 DEF NoReversal
<1>6. mishaps' = mishaps \/ mishaps' = mishaps + 1
  <2>1. ASSUME NEW c \in Cmd, Step(c) PROVE mishaps' = mishaps \/ mishaps' = mishaps + 1
    BY <2>1 DEF Step, Begin, TakeChangeAddress, Plan, Refuse, Submit, SubmitRejected,
                SubmitUnanswered, Debit, DebitRefused, Die
  <2>2. UNCHANGED payVars \/ UNCHANGED exchangeVars => mishaps' = mishaps
    BY DEF payVars, exchangeVars, withdrawalVars
  <2>3. QED
    BY <2>1, <2>2 DEF ExchangeNext, World, SyncMoves, Deposited, ChangeSeen, Reported,
                      TxMined, TxExpired, withdrawalVars
<1>7. mishaps \in Nat
  BY WithdrawalAssumption DEF WithdrawalAssumption, XInv, IInv, WithdrawalTypeOK
<1>8. abandoned' \in Nat
  BY <1>4
<1>9. ASSUME NeverReversed', mishaps' = 0
      PROVE  /\ NeverReversed /\ mishaps = 0 /\ NoReversal'
             /\ \A p \in Proc : ~Syncing!Abandon(p)
  <2>1. abandoned' = 0 /\ NoReversal' /\ Cardinality(Proc) = 1
    BY <1>9 DEF NeverReversed, NoReversal
  <2>2. abandoned = 0 /\ mishaps = 0
    BY <1>4, <1>6, <1>7, <1>9, <2>1
  <2>3. NeverReversed
    BY <1>5, <2>1, <2>2 DEF NeverReversed, NoReversal
  <2>4. \A p \in Proc : ~Syncing!Abandon(p)
    BY <1>2, <2>1, <2>2
  <2>5. QED
    BY <2>1, <2>2, <2>3, <2>4
<1>10. QED
  BY <1>8, <1>9

(* Whatever leaves deposits and syncs alone and keeps Careful, keeps it.   *)
LEMMA SteadyElsewhere ==
  ASSUME XInv, Steady, Careful', UNCHANGED <<deposits, log, cursor, pc, pos>>
  PROVE  Steady'
BY DEF Steady, EachOnce, CreditsAreHandled, ConfirmedBy, Handled

(* The scanner's log grows in order.                                       *)
LEMMA ScannerSteady ==
  ASSUME XInv, XInv', Steady, NoReversal', NEW n \in Note, NEW kind,
         Syncing!ScannerEmits(n, kind, TRUE), UNCHANGED <<txs, nextInternal, withdrawalVars>>
  PROVE  Steady'
<1>1. /\ SyncInv /\ IInv /\ IInv' /\ LedgerTypeOK /\ EachOnce /\ CreditsAreHandled /\ Careful
  BY DEF XInv, Steady, IInv, WithdrawalTypeOK
<1>2. EachOnce' /\ \A i \in DOMAIN log : i \in DOMAIN log' /\ log'[i] = log[i]
  BY <1>1, LogStaysInOrder
<1>3. UNCHANGED <<ledgerVars, cursor, pc, pos>>
  BY DEF Syncing!ScannerEmits, Syncing!procVars, Syncing!ledgerVars, ledgerVars
<1>4. \A p \in Proc : Handled(p)' = Handled(p)
  BY <1>3 DEF Handled
<1>5. \A p \in Proc, m \in Note : ConfirmedBy(m, p) => ConfirmedBy(m, p)'
  BY <1>2, <1>4 DEF ConfirmedBy
<1>6. CreditsAreHandled'
  BY <1>1, <1>3, <1>5 DEF CreditsAreHandled, ledgerVars
<1>7. \A a \in Account : balance'[a] >= balance[a]
  BY <1>1, <1>3 DEF ledgerVars, LedgerTypeOK
<1>8. Careful'
  BY <1>1, <1>7, CarefulBystanders DEF withdrawalVars
<1>9. QED
  BY <1>2, <1>6, <1>8 DEF Steady

LEMMA SteadyKept ==
  ASSUME XInv, XInv', SteadyInv, [ExchangeNext]_exchangeVars
  PROVE  SteadyInv'
<1>1. SUFFICES ASSUME NeverReversed', Solo, mishaps' = 0 PROVE Steady'
  BY PremisesStay DEF SteadyInv
<1>2. /\ NeverReversed /\ mishaps = 0 /\ NoReversal' /\ NoReversal /\ Steady
      /\ \A p \in Proc : ~Syncing!Abandon(p)
  BY <1>1, PremisesStay DEF SteadyInv, NeverReversed, NoReversal
<1>3. IInv /\ IInv' /\ Careful /\ LedgerTypeOK
  BY <1>2 DEF XInv, Steady, IInv, WithdrawalTypeOK
<1>4. ASSUME NEW n \in Note, Deposited(n) \/ ChangeSeen(n) \/ \E kind \in Emits : Reported(n, kind)
      PROVE  Steady'
  BY <1>2, <1>4, ScannerSteady DEF Deposited, ChangeSeen, Reported, payVars, nodeVars
<1>5. ASSUME NEW p \in Proc, SyncMoves(p) PROVE Steady'
  <2>1. PICK q : Proc = {q}
    BY <1>2, ExchangeAssumption, FS_Singleton DEF ExchangeAssumption, NeverReversed
  <2>2. Proc = {p}
    BY <2>1
  <2>3. QED
    BY <1>2, <1>5, <2>2, MovesSteady
<1>6. ASSUME NEW a \in Account, Syncing!AssignAddress(a), UNCHANGED payVars PROVE Steady'
  <2>1. balance' = balance /\ UNCHANGED <<deposits, log, cursor, pc, pos>>
    BY <1>6 DEF Syncing!AssignAddress, Syncing!GetOrAssignDepositAddress, Syncing!syncVars, Syncing!procVars
  <2>2. \A b \in Account : balance'[b] >= balance[b]
    BY <1>3, <2>1 DEF LedgerTypeOK
  <2>3. Careful'
    BY <1>3, <1>6, <2>2, CarefulBystanders DEF payVars, withdrawalVars, nodeVars
  <2>4. QED
    BY <1>2, <2>1, <2>3, SteadyElsewhere
<1>7. ASSUME NEW c \in Cmd, Step(c), UNCHANGED syncVars PROVE Steady'
  <2>1. Careful'
    BY <1>1, <1>3, <1>7, CarefulSmallStep, CarefulPlan, CarefulSubmit, CarefulDebit DEF Step
  <2>2. deposits' = deposits
    BY <1>7 DEF Step, Begin, TakeChangeAddress, Plan, Refuse, Submit, SubmitRejected,
                SubmitUnanswered, Debit, DebitRefused, Die, CreateWithdrawalAndDebit, ledgerVars
  <2>3. QED
    BY <1>2, <1>7, <2>1, <2>2, SteadyElsewhere DEF syncVars
<1>8. ASSUME NEW i \in DOMAIN txs, TxMined(i) \/ TxExpired(i), UNCHANGED syncVars PROVE Steady'
  <2>1. Careful'
    BY <1>3, <1>8, CarefulWorld
  <2>2. deposits' = deposits
    BY <1>8 DEF TxMined, TxExpired, ledgerVars
  <2>3. QED
    BY <1>2, <1>8, <2>1, <2>2, SteadyElsewhere DEF syncVars
<1>9. CASE UNCHANGED exchangeVars
  <2>1. Careful'
    BY <1>3, <1>9, CarefulWorld DEF exchangeVars, payVars, vars
  <2>2. QED
    BY <1>2, <1>9, <2>1, SteadyElsewhere DEF exchangeVars, ledgerVars, syncVars
<1>10. QED
  BY <1>2, <1>4, <1>5, <1>6, <1>7, <1>8, <1>9 DEF ExchangeNext, World

(* As long as one process syncs and no credit was taken back, and careful  *)
(* operators meet no mishap, every payment the chain has or may still take *)
(* was debited once its command is over: no deposit, replay of an event or *)
(* other account's withdrawal gets between reading the balance and the     *)
(* debit.                                                                  *)
THEOREM SteadyIsDebited == ExchangeSpec => []PaidUnlessReversed
<1>1. SteadyInv => PaidUnlessReversed
  <2>1. SUFFICES ASSUME Careful, NEW i \in Live, txs[i].by \in Cmd, cmd[txs[i].by].pc \in Over
                 PROVE  \E r \in rows : r.tx = i
    BY DEF SteadyInv, Steady, PaidUnlessReversed, PaidIsDebited
  <2>2. QED
    BY <2>1 DEF Careful, Settled, Live, Over
<1>2. QED
  BY <1>1, InitXInv, ExchangeKeeps, InitSteady, SteadyKept, PTL DEF ExchangeSpec

=============================================================================
