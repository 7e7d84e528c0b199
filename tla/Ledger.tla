------------------------------- MODULE Ledger -------------------------------
(***************************************************************************)
(* The money tables of <data-dir>/state.sqlite for the hot wallet, and the *)
(* three store transactions that write them:                               *)
(*   deposits           one row per (txid, action_index): a Note here      *)
(*   account_balances   what the exchange owes each account                *)
(*   withdrawals        kept as what they have debited from each account   *)
(*   deposit_addresses  external diversifier index -> account              *)
(* Each transaction runs alone (SQLite serialises writers), so each is one *)
(* step.  Who calls them, and with answers read when, is the business of   *)
(* the modules that extend this one; by itself the module lets callers use *)
(* the transactions in any order with any arguments.                       *)
(*                                                                         *)
(* Operators whose name ends in an underscore and a phrase, such as        *)
(* Gives_OnEveryConfirmation, are wrong on purpose: each is a plausible    *)
(* mistake in the operator that follows it, kept to show that the          *)
(* properties would notice.  No specification uses them.                   *)
(***************************************************************************)
EXTENDS Totals, FiniteSets

CONSTANTS
  Account,       \* account ids
  NoAccount,     \* the NULL account_id
  NumNotes,      \* how many notes the chain can pay to the wallet
  MaxZat,        \* bound: largest amount in zatoshis
  MaxIndex       \* bound: external addresses that can be derived

ASSUME LedgerAssumption ==
  /\ NoAccount \notin Account
  /\ NumNotes \in Nat /\ MaxZat \in Nat /\ MaxIndex \in Nat

Note   == 1..NumNotes
Zat    == 1..MaxZat
Index  == 0..(MaxIndex - 1)
Status == {"detected", "confirmed", "unconfirmed", "orphaned"}

VARIABLES
  deposits,   \* Note -> row; status "absent" when there is no row
  balance,    \* account_balances.balance_zat
  debited,    \* total amount + fee of the account's withdrawals rows
  owner,      \* deposit_addresses, scope 'external': index -> account
  nextIndex   \* wallets.next_external_index

ledgerVars == <<deposits, balance, debited, owner, nextIndex>>

Row == [status: Status \cup {"absent"}, account: Account \cup {NoAccount}, zat: 0..MaxZat]
NoRow == [status |-> "absent", account |-> NoAccount, zat |-> 0]

LedgerTypeOK ==
  /\ deposits \in [Note -> Row]
  /\ balance \in [Account -> Nat]
  /\ debited \in [Account -> Nat]
  /\ owner \in [Index -> Account \cup {NoAccount}]
  /\ nextIndex \in 0..MaxIndex

LedgerInit ==
  /\ deposits = [n \in Note |-> NoRow]
  /\ balance = [a \in Account |-> 0]
  /\ debited = [a \in Account |-> 0]
  /\ owner = [i \in Index |-> NoAccount]
  /\ nextIndex = 0

-----------------------------------------------------------------------------
(* ApplyDeposit: the row is overwritten with what the event says, and the  *)
(* balances follow the change of the row.                                  *)

(* Without a recipient address the mapping stored earlier wins. *)
RowAccount(row, found, hasRecipient) ==
  IF ~hasRecipient /\ row.account # NoAccount THEN row.account ELSE found

Differs(row, new) == row.account # new.account \/ row.zat # new.zat

(* The previous credit is taken back; the new one is given. *)
TakesBack(row, new) ==
  /\ row.status = "confirmed"
  /\ new.status # "confirmed" \/ Differs(row, new)
  /\ row.account # NoAccount
Gives_OnEveryConfirmation(row, new) ==
  new.status = "confirmed" /\ new.account # NoAccount

Gives_WhenDetected(row, new) ==
  row.status = "absent" /\ new.account # NoAccount

Gives(row, new) ==
  /\ new.status = "confirmed"
  /\ row.status # "confirmed" \/ Differs(row, new)
  /\ new.account # NoAccount

(* applyAccountBalanceDeltaTx refuses a negative balance, which rolls the  *)
(* whole transaction back.                                                 *)
CanPost_Overdrawn(row, new) == TRUE

CanPost(row, new) == TakesBack(row, new) => balance[row.account] >= row.zat

(* The deltas in the order they are posted: take back, then give. *)
AfterTakingBack(row, new) ==
  IF TakesBack(row, new) THEN [balance EXCEPT ![row.account] = @ - row.zat] ELSE balance
Posted(row, new) ==
  IF Gives(row, new)
  THEN [AfterTakingBack(row, new) EXCEPT ![new.account] = @ + new.zat]
  ELSE AfterTakingBack(row, new)

NewRow(n, zat, found, hasRecipient, status) ==
  [status  |-> status,
   account |-> RowAccount(deposits[n], found, hasRecipient),
   zat     |-> zat]

ApplyDeposit_FirstEventWins(n, zat, found, hasRecipient, status) ==
  LET new == NewRow(n, zat, found, hasRecipient, status)
  IN  /\ CanPost(deposits[n], new)
      /\ IF deposits[n] = NoRow
         THEN deposits' = [deposits EXCEPT ![n] = new] /\ balance' = Posted(deposits[n], new)
         ELSE UNCHANGED <<deposits, balance>>
      /\ UNCHANGED <<debited, owner, nextIndex>>

ApplyDeposit(n, zat, found, hasRecipient, status) ==
  LET new == NewRow(n, zat, found, hasRecipient, status)
  IN  /\ CanPost(deposits[n], new)
      /\ deposits' = [deposits EXCEPT ![n] = new]
      /\ balance' = Posted(deposits[n], new)
      /\ UNCHANGED <<debited, owner, nextIndex>>

CreateWithdrawalAndDebit_Overdraft(a, amount, fee) ==
  /\ balance' = [balance EXCEPT ![a] = @ - (amount + fee)]
  /\ debited' = [debited EXCEPT ![a] = @ + (amount + fee)]
  /\ UNCHANGED <<deposits, owner, nextIndex>>

(* CreateWithdrawalAndDebit: debit amount + fee, insert the row. *)
CreateWithdrawalAndDebit(a, amount, fee) ==
  /\ balance[a] >= amount + fee
  /\ balance' = [balance EXCEPT ![a] = @ - (amount + fee)]
  /\ debited' = [debited EXCEPT ![a] = @ + (amount + fee)]
  /\ UNCHANGED <<deposits, owner, nextIndex>>

(* GetOrAssignDepositAddress for an account that has no address yet (for   *)
(* one that has, it only reads).                                           *)
GetOrAssignDepositAddress(a) ==
  /\ \A i \in Index : owner[i] # a
  /\ nextIndex < MaxIndex
  /\ owner' = [owner EXCEPT ![nextIndex] = a]
  /\ nextIndex' = nextIndex + 1
  /\ UNCHANGED <<deposits, balance, debited>>

-----------------------------------------------------------------------------
(* What AccountForDiversifierIndex or AccountForRecipientAddress may have  *)
(* answered a caller, now or earlier.                                      *)
Answers == {NoAccount} \cup {owner[i] : i \in Index}

LedgerNext ==
  \/ \E n \in Note, zat \in Zat, found \in Answers, hasRecipient \in BOOLEAN, status \in Status :
        ApplyDeposit(n, zat, found, hasRecipient, status)
  \/ \E a \in Account : \E amount \in 1..balance[a] : \E fee \in 0..(balance[a] - amount) :
        CreateWithdrawalAndDebit(a, amount, fee)
  \/ \E a \in Account : GetOrAssignDepositAddress(a)

LedgerSpec == LedgerInit /\ [][LedgerNext]_ledgerVars

-----------------------------------------------------------------------------
(* The zatoshis row n stands for in account a's books. *)
Credit(a) ==
  [n \in Note |-> IF deposits[n].status = "confirmed" /\ deposits[n].account = a
                  THEN deposits[n].zat ELSE 0]

(* What is owed to an account plus what it has withdrawn is exactly the    *)
(* sum of its confirmed deposits, whatever events and replays ApplyDeposit *)
(* has been fed and in whatever order: no credit is posted twice, none is  *)
(* taken back twice, and no row moves without its money.                   *)
BooksBalance == \A a \in Account : balance[a] + debited[a] = Total(Credit(a), Note)

(* A balance grows only in a step that makes a deposit row of that account *)
(* confirmed: withdrawals, address assignment and every other status only  *)
(* leave it or lower it.                                                   *)
CreditNeedsConfirmation ==
  [][\A a \in Account : balance'[a] > balance[a] =>
        \E n \in Note : /\ deposits[n] # deposits'[n]
                        /\ deposits'[n].status = "confirmed" /\ deposits'[n].account = a
    ]_ledgerVars

=============================================================================
