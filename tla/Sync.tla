-------------------------------- MODULE Sync --------------------------------
(***************************************************************************)
(* syncWallet("hot") as run by several operating-system processes at once: *)
(* the daemon's polling loop and the sync, balances and wait-deposit       *)
(* commands share one database and one scanner, and nothing else.          *)
(*                                                                         *)
(* juno-scan (external) keeps an append-only log of wallet events.  A      *)
(* syncing process reads the stored cursor, pages through the log, applies *)
(* each event with ApplyDeposit, and writes the cursor back once, after an *)
(* empty page.  Between any two of these steps other processes run, and    *)
(* the process may die or give up: an error return and a crash look alike, *)
(* for neither writes anything.                                            *)
(***************************************************************************)
EXTENDS Ledger, Sequences

CONSTANTS
  Proc,          \* processes that may run syncWallet
  PageSize,      \* events per ListWalletEvents page (200 in the code)
  NoteAddr,      \* note -> [scope, index], the address it really pays
  NoteZat,       \* note -> its value
  Shown,         \* subset of BOOLEAN: may an event carry recipient_address?
  Emits,         \* the kinds of event the scanner emits: with or without reorganisations
  MaxLog,        \* bound: events the scanner emits
  MaxAbandon,    \* bound: crashes and failed syncs
  MaxFee         \* bound: largest withdrawal fee

Scope == {"external", "internal"}

DepositKind == {"DepositEvent", "DepositConfirmed", "DepositUnconfirmed", "DepositOrphaned"}
Kind        == DepositKind \cup {"SpendEvent"}
Event       == [kind: Kind, note: Note, shown: Shown]

ASSUME SyncAssumption ==
  /\ PageSize \in Nat \ {0}
  /\ NoteAddr \in [Note -> [scope: Scope, index: Index]]
  /\ NoteZat \in [Note -> Zat]
  /\ Shown \subseteq BOOLEAN /\ Emits \subseteq Kind
  /\ MaxLog \in Nat /\ MaxAbandon \in Nat
  /\ MaxFee \in 0..MaxZat

VARIABLES
  log,        \* the scanner's events: <<[kind, note, shown], ...>>
  cursor,     \* scan_cursors.cursor: events up to it are considered consumed
  pc,         \* where in syncWallet each process is
  pos,        \* the next event the process will handle; its cursor is pos - 1
  last,       \* the last event of the page it holds
  found,      \* the account its lookup returned, used after the lookup
  abandoned,  \* how many syncs have died, for the bound
  applied     \* history: events some process has handled to the end

procVars == <<pc, pos, last, found>>
syncVars == <<log, cursor, pc, pos, last, found, abandoned, applied>>
vars     == <<ledgerVars, syncVars>>

(* The status each kind of event is applied with. *)
StatusOf(kind) ==
  CASE kind = "DepositEvent"       -> "detected"
    [] kind = "DepositConfirmed"   -> "confirmed"
    [] kind = "DepositUnconfirmed" -> "unconfirmed"
    [] kind = "DepositOrphaned"    -> "orphaned"

SyncTypeOK ==
  /\ LedgerTypeOK
  /\ log \in Seq(Event)
  /\ cursor \in 0..Len(log)
  /\ pc \in [Proc -> {"idle", "fetch", "lookup", "commit", "save"}]
  /\ pos \in [Proc -> Nat]
  /\ last \in [Proc -> Nat]
  /\ found \in [Proc -> Account \cup {NoAccount}]
  /\ abandoned \in 0..MaxAbandon
  /\ applied \subseteq 1..Len(log)

SyncInit ==
  /\ LedgerInit
  /\ log = <<>>
  /\ cursor = 0
  /\ pc = [p \in Proc |-> "idle"]
  /\ pos = [p \in Proc |-> 0]
  /\ last = [p \in Proc |-> 0]
  /\ found = [p \in Proc |-> NoAccount]
  /\ abandoned = 0
  /\ applied = {}

-----------------------------------------------------------------------------
(* juno-scan: what may follow the latest deposit event of a note.  A note  *)
(* is detected, confirmed after N blocks, and by a reorganisation taken    *)
(* back to unconfirmed or out of the chain.                                *)
MayFollow(prev) ==
  CASE prev = "none"               -> {"DepositEvent"}
    [] prev = "DepositEvent"       -> {"DepositConfirmed", "DepositOrphaned"}
    [] prev = "DepositConfirmed"   -> {"DepositUnconfirmed", "DepositOrphaned", "SpendEvent"}
    [] prev = "DepositUnconfirmed" -> {"DepositConfirmed", "DepositOrphaned"}
    [] prev = "DepositOrphaned"    -> {"DepositEvent"}
    [] prev = "SpendEvent"         -> {"DepositUnconfirmed", "DepositOrphaned"}

EventsOf(n) == {i \in 1..Len(log) : log[i].note = n}
LatestKind(n) ==
  IF EventsOf(n) = {} THEN "none"
  ELSE log[CHOOSE i \in EventsOf(n) : \A j \in EventsOf(n) : j <= i].kind

ScannerEmits(n, kind, shown) ==
  /\ Len(log) < MaxLog
  /\ kind \in Emits \cap MayFollow(LatestKind(n))
  /\ log' = Append(log, [kind |-> kind, note |-> n, shown |-> shown])
  /\ UNCHANGED <<ledgerVars, cursor, procVars, abandoned, applied>>

-----------------------------------------------------------------------------
(* syncWallet, one step per database transaction or scanner call. *)

(* The process returns, with or without an error; its locals are gone. *)
Return(p) ==
  /\ pc' = [pc EXCEPT ![p] = "idle"]
  /\ pos' = [pos EXCEPT ![p] = 0]
  /\ last' = [last EXCEPT ![p] = 0]
  /\ found' = [found EXCEPT ![p] = NoAccount]

(* On to the next event of the page, or to the next page. *)
Advance(p) ==
  /\ pos' = [pos EXCEPT ![p] = @ + 1]
  /\ pc' = [pc EXCEPT ![p] = IF pos[p] < last[p] THEN "lookup" ELSE "fetch"]
  /\ last' = last
  /\ found' = [found EXCEPT ![p] = NoAccount]

StartSync(p) ==
  /\ pc[p] = "idle"
  /\ pc' = [pc EXCEPT ![p] = "fetch"]
  /\ pos' = [pos EXCEPT ![p] = cursor + 1]
  /\ UNCHANGED <<ledgerVars, log, cursor, last, found, abandoned, applied>>

PageEnd(first) == IF first + PageSize - 1 < Len(log) THEN first + PageSize - 1 ELSE Len(log)

FetchPage(p) ==
  /\ pc[p] = "fetch"
  /\ pos[p] <= Len(log)
  /\ pc' = [pc EXCEPT ![p] = "lookup"]
  /\ last' = [last EXCEPT ![p] = PageEnd(pos[p])]
  /\ UNCHANGED <<ledgerVars, log, cursor, pos, found, abandoned, applied>>

FetchEmptyPage_OneEarly(p) ==
  /\ pc[p] = "fetch"
  /\ pos[p] >= Len(log)
  /\ pc' = [pc EXCEPT ![p] = "save"]
  /\ UNCHANGED <<ledgerVars, log, cursor, pos, last, found, abandoned, applied>>

FetchEmptyPage(p) ==
  /\ pc[p] = "fetch"
  /\ pos[p] > Len(log)
  /\ pc' = [pc EXCEPT ![p] = "save"]
  /\ UNCHANGED <<ledgerVars, log, cursor, pos, last, found, abandoned, applied>>

(* Events of other kinds fall through the switch. *)
IgnoreEvent(p) ==
  /\ pc[p] = "lookup"
  /\ log[pos[p]].kind \notin DepositKind
  /\ applied' = applied \cup {pos[p]}
  /\ Advance(p)
  /\ UNCHANGED <<ledgerVars, log, cursor, abandoned>>

(* By recipient address when the event has one, else by diversifier index: *)
(* the index is all that an internal note has in common with an account.   *)
AccountFor_AnyScope(ev) == owner[NoteAddr[ev.note].index]

AccountFor(ev) ==
  LET addr == NoteAddr[ev.note]
  IN  IF ev.shown /\ addr.scope # "external" THEN NoAccount ELSE owner[addr.index]

LookupAccount(p) ==
  /\ pc[p] = "lookup"
  /\ log[pos[p]].kind \in DepositKind
  /\ found' = [found EXCEPT ![p] = AccountFor(log[pos[p]])]
  /\ pc' = [pc EXCEPT ![p] = "commit"]
  /\ UNCHANGED <<ledgerVars, log, cursor, pos, last, abandoned, applied>>

Handle(p) ==
  LET ev == log[pos[p]]
  IN  ApplyDeposit(ev.note, NoteZat[ev.note], found[p], ev.shown, StatusOf(ev.kind))

CommitDeposit_RowBeforeMoney(p) ==
  LET ev == log[pos[p]]
  IN  /\ pc[p] = "commit"
      /\ deposits' = [deposits EXCEPT ![ev.note] =
                        NewRow(ev.note, NoteZat[ev.note], found[p], ev.shown, StatusOf(ev.kind))]
      /\ applied' = applied \cup {pos[p]}
      /\ Advance(p)
      /\ UNCHANGED <<balance, debited, owner, nextIndex, log, cursor, abandoned>>

CommitDeposit(p) ==
  /\ pc[p] = "commit"
  /\ Handle(p)
  /\ applied' = applied \cup {pos[p]}
  /\ Advance(p)
  /\ UNCHANGED <<log, cursor, abandoned>>

(* "negative balance": the transaction rolls back and the sync fails. *)
Refused(p) ==
  LET ev == log[pos[p]]
  IN  ~CanPost(deposits[ev.note],
               NewRow(ev.note, NoteZat[ev.note], found[p], ev.shown, StatusOf(ev.kind)))

FailDeposit_SkipsEvent(p) ==
  /\ pc[p] = "commit"
  /\ Refused(p)
  /\ Advance(p)
  /\ UNCHANGED <<ledgerVars, log, cursor, abandoned, applied>>

FailDeposit(p) ==
  /\ pc[p] = "commit"
  /\ Refused(p)
  /\ Return(p)
  /\ UNCHANGED <<ledgerVars, log, cursor, abandoned, applied>>

SaveCursor_AtTheTip(p) ==
  /\ pc[p] = "save"
  /\ cursor' = Len(log)
  /\ Return(p)
  /\ UNCHANGED <<ledgerVars, log, abandoned, applied>>

SaveCursor_Forgotten(p) ==
  /\ pc[p] = "save"
  /\ Return(p)
  /\ UNCHANGED <<ledgerVars, log, cursor, abandoned, applied>>

SaveCursor(p) ==
  /\ pc[p] = "save"
  /\ cursor' = pos[p] - 1
  /\ Return(p)
  /\ UNCHANGED <<ledgerVars, log, abandoned, applied>>

(* Killed, timed out, scanner unreachable, database busy: same effect. *)
Abandon(p) ==
  /\ pc[p] # "idle"
  /\ abandoned < MaxAbandon
  /\ abandoned' = abandoned + 1
  /\ Return(p)
  /\ UNCHANGED <<ledgerVars, log, cursor, applied>>

-----------------------------------------------------------------------------
(* Other commands on the same tables. *)
Withdraw(a) ==
  /\ \E amount \in Zat, fee \in 0..MaxFee : CreateWithdrawalAndDebit(a, amount, fee)
  /\ UNCHANGED syncVars

AssignAddress(a) == GetOrAssignDepositAddress(a) /\ UNCHANGED syncVars

SyncStep(p) ==
  \/ StartSync(p)
  \/ FetchPage(p)
  \/ FetchEmptyPage(p)
  \/ IgnoreEvent(p)
  \/ LookupAccount(p)
  \/ CommitDeposit(p)
  \/ FailDeposit(p)
  \/ SaveCursor(p)

Chain == \E n \in Note, kind \in Kind, shown \in Shown : ScannerEmits(n, kind, shown)

(* Users are kept apart so that a run may leave withdrawals out. *)
NextNoWithdrawals ==
  \/ Chain
  \/ \E p \in Proc : SyncStep(p)
  \/ \E p \in Proc : Abandon(p)
  \/ \E a \in Account : AssignAddress(a)

Next == NextNoWithdrawals \/ \E a \in Account : Withdraw(a)

Spec == SyncInit /\ [][Next]_vars

(* Each process is scheduled, and is started again after it returns: the   *)
(* daemon's ticker, the polling loop of wait-deposit, an operator.         *)
Fairness == \A p \in Proc : WF_vars(SyncStep(p))

FairSpec == Spec /\ Fairness
FairSpecNoWithdrawals == SyncInit /\ [][NextNoWithdrawals]_vars /\ Fairness

-----------------------------------------------------------------------------
(* Every event at or below the stored cursor has been handled to the end   *)
(* by some process: no crash, failure, page boundary or race lets the      *)
(* cursor run past an event nobody applied.                                *)
CursorCoversApplied == 1..cursor \subseteq applied

(* The latest deposit event of a note decides its row. *)
DepositEventsOf(n) == {i \in EventsOf(n) : log[i].kind \in DepositKind}
AgreesWithChain(n) ==
  LET evs == DepositEventsOf(n)
  IN  deposits[n].status =
        IF evs = {} THEN "absent"
        ELSE StatusOf(log[CHOOSE i \in evs : \A j \in evs : j <= i].kind)

(* When nobody is syncing and the cursor is at the end of the log, every   *)
(* row has the status the chain gave it last, however often syncs died     *)
(* half way and events were applied again.                                 *)
CaughtUpAgrees ==
  (cursor = Len(log) /\ \A p \in Proc : pc[p] = "idle") => \A n \in Note : AgreesWithChain(n)

(* A row names only the account that owns the external address its note    *)
(* pays; change and internal notes are nobody's.                           *)
Owns(a, n) == NoteAddr[n].scope = "external" /\ owner[NoteAddr[n].index] = a

CreditsFollowAddresses ==
  \A n \in Note : deposits[n].account # NoAccount => Owns(deposits[n].account, n)

(* Once the scanner has fallen silent the books come to agree with it, row *)
(* by row, and stay so: a race between syncs may set a row back, but the   *)
(* process that did so still has the later events ahead of it.             *)
LedgerFollowsChain == <>[](\A n \in Note : AgreesWithChain(n))

(* Every event the scanner emits is eventually handled to the end by some  *)
(* process, as the README says of sync and daemon.                         *)
EventsConsumed == \A i \in 1..MaxLog : (i <= Len(log)) ~> (i \in applied)

=============================================================================
