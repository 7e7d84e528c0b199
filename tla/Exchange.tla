------------------------------- MODULE Exchange -------------------------------
(***************************************************************************)
(* The life of a deposit, all the way round: the chain pays it, the        *)
(* scanner reports it, a sync credits it, a withdrawal spends it and       *)
(* debits it, and the change is reported as the next note.  Sync and       *)
(* Withdrawal, each step by step, over one ledger and one chain.           *)
(*                                                                         *)
(* Withdrawal by itself has every deposit on the chain at the start, and   *)
(* credited and reversed in one step to its Payee; here that is Sync's     *)
(* business.  Withdrawals in turn are Sync's Withdraw.                     *)
(***************************************************************************)
EXTENDS Withdrawal

CONSTANTS Proc, PageSize, NoteAddr, Emits, MaxLog, MaxAbandon   \* as in Sync

VARIABLES log, cursor, pc, pos, last, found, abandoned, applied  \* as in Sync

Syncing == INSTANCE Sync WITH Shown <- {TRUE}, MaxFee <- MaxZat

(* Notes paid by depositors, not the change of a withdrawal. *)
External == {n \in Note : NoteAddr[n].scope = "external"}

ASSUME ExchangeAssumption ==
  /\ IsFiniteSet(Proc) /\ PageSize \in Nat \ {0}
  /\ NoteAddr \in [Note -> [scope : Scope, index : Index]]
  /\ Emits \subseteq Syncing!Kind
  /\ MaxLog \in Nat /\ MaxAbandon \in Nat
  /\ Total(NoteZat, External) <= MaxZat

syncVars == <<log, cursor, pc, pos, last, found, abandoned, applied>>
payVars  == <<nodeVars, nextInternal, withdrawalVars>>
exchangeVars == <<ledgerVars, syncVars, payVars>>

ExchangeInit ==
  /\ Syncing!SyncInit
  /\ WalletsInit
  /\ coins = Endowment /\ txs = <<>>
  /\ cmd = [c \in Cmd |-> NewCommand]
  /\ rows = {}
  /\ mishaps = 0

-----------------------------------------------------------------------------
(* A user pays the address the exchange gave out for the account, and the  *)
(* scanner sees the note.                                                  *)
Deposited(n) ==
  /\ NoteAddr[n].scope = "external" /\ owner[NoteAddr[n].index] # NoAccount
  /\ Syncing!LatestKind(n) = "none"
  /\ Syncing!ScannerEmits(n, "DepositEvent", TRUE)
  /\ coins' = coins \cup {DepositCoin(n)}
  /\ UNCHANGED <<txs, nextInternal, withdrawalVars>>

(* Change comes back to the wallet, which is a note like any other to the  *)
(* scanner.                                                                *)
ChangeSeen(n) ==
  /\ NoteAddr[n].scope = "internal"
  /\ \E c \in coins : c.scope = "internal" /\ c.out = NoteAddr[n].index /\ c.zat = NoteZat[n]
  /\ Syncing!LatestKind(n) = "none"
  /\ Syncing!ScannerEmits(n, "DepositEvent", TRUE)
  /\ UNCHANGED payVars

(* What the scanner reports of a note later.  A note it takes back to      *)
(* unconfirmed is still on the chain.                                      *)
Reported(n, kind) ==
  /\ Syncing!LatestKind(n) # "none"
  /\ Syncing!ScannerEmits(n, kind, TRUE)
  /\ UNCHANGED payVars

SyncMoves(p) == Syncing!SyncStep(p) /\ UNCHANGED payVars

World ==
  \/ \E n \in Note : Deposited(n) \/ ChangeSeen(n) \/ \E kind \in Emits : Reported(n, kind)
  \/ \E p \in Proc : Syncing!Abandon(p) /\ UNCHANGED payVars
  \/ \E a \in Account : Syncing!AssignAddress(a) /\ UNCHANGED payVars
  \/ \E i \in DOMAIN txs : (TxMined(i) \/ TxExpired(i)) /\ UNCHANGED syncVars

ExchangeNext ==
  \/ World
  \/ \E p \in Proc : SyncMoves(p)
  \/ \E c \in Cmd : Step(c) /\ UNCHANGED syncVars

(* Syncs go on and are started again, as in Sync; nobody else has to act.  *)
ExchangeFairness == \A p \in Proc : WF_exchangeVars(SyncMoves(p))

ExchangeSpec == ExchangeInit /\ [][ExchangeNext]_exchangeVars /\ ExchangeFairness

-----------------------------------------------------------------------------
(* Everything here is to Sync's processes what they share the tables with  *)
(* there: a withdrawal debits as Sync's Withdraw does, at any time, and    *)
(* the chain speaks as the scanner's log may.  So what SyncProofs shows of *)
(* cursors and rows holds here.                                            *)
AsSyncAssumes == Syncing!Spec

(* All the way round, the wallet can pay every account its balance but for *)
(* what was sent and not (yet) debited: neither a replay nor a             *)
(* confirmation taken back while a withdrawal is under way, nor the        *)
(* report of its change, makes the books promise more than the chain has.  *)
AlwaysSolvent == LiabilitiesCovered

(* There is one process that syncs, it has never died half way, and no     *)
(* confirmation was taken back: no credit is ever reversed.                *)
NeverReversed ==
  /\ Cardinality(Proc) = 1 /\ abandoned = 0
  /\ \A i \in DOMAIN log : log[i].kind \notin {"DepositUnconfirmed", "DepositOrphaned"}

(* Then a balance a command has read only grows until it debits it, so     *)
(* every payment that was sent is debited, unless the command itself dies  *)
(* or loses its answer.                                                    *)
PaidUnlessReversed == NeverReversed /\ Solo /\ mishaps = 0 => PaidIsDebited

(* Then withdrawals do not disturb the syncs either: every event is        *)
(* consumed, however much of what it credited has been spent.              *)
ConsumedUnlessReversed == []NeverReversed => Syncing!EventsConsumed

=============================================================================
