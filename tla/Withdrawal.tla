----------------------------- MODULE Withdrawal -----------------------------
(***************************************************************************)
(* `juno-exchange-kit withdraw`, run by any number of operators at once.   *)
(* A command reads the account's balance, takes a change address, plans    *)
(* and signs a transaction from the notes the scanner lists, submits it,   *)
(* and only then debits the account.  It can be refused at every step, be  *)
(* killed, or lose the node's answer.                                      *)
(***************************************************************************)
EXTENDS Ledger, Wallets, Spending

CONSTANTS
  Cmd,        \* withdraw commands; other senders may submit as well
  Endowment,  \* notes of the exchange's own, no account's
  Payee,      \* Note -> the account whose address a deposited note pays
  NoteZat,    \* Note -> its zatoshis
  Amount,     \* amounts asked for
  Solo,       \* operators never run two withdrawals of one account at once
  MaxMishaps  \* bound: crashes, lost answers, failed commits and reversed deposits

(* The note a depositor pays to the hot wallet. *)
DepositCoin(n) ==
  [wallet |-> "hot", scope |-> "external", tx |-> 0, out |-> n, zat |-> NoteZat[n]]

ASSUME WithdrawalAssumption ==
  /\ Cmd \subseteq Sender /\ IsFiniteSet(Account)
  /\ Endowment \subseteq Coin /\ IsFiniteSet(Endowment)
  /\ \A c \in Endowment : c.tx = 0 /\ \A n \in Note : c # DepositCoin(n)
  /\ Payee \in [Note -> Account] /\ NoteZat \in [Note -> Zat]
  /\ \A n \in Note : NoteZat[n] <= Supply
  /\ Amount \subseteq Nat \ {0}
  /\ Solo \in BOOLEAN /\ MaxMishaps \in Nat

VARIABLES
  cmd,           \* Cmd -> what the process knows
  rows,          \* the withdrawals table
  mishaps

withdrawalVars == <<cmd, rows, mishaps>>
vars == <<ledgerVars, nodeVars, nextInternal, withdrawalVars>>

Running == {"begun", "addressed", "planned", "sent"}
Over    == {"refused", "failed", "killed", "done"}

Command == [pc      : {"new"} \cup Running \cup Over,
            account : Account \cup {NoAccount},
            amount  : Nat,
            seen    : Nat,          \* accountBal, read when the command began
            change  : Nat,          \* internal index the change goes to
            inputs  : SUBSET Coin,
            rest    : 0..Supply,    \* value of the change
            fee     : Nat,
            tx      : Nat]          \* the answer of Submit

NewCommand == [pc |-> "new", account |-> NoAccount, amount |-> 0, seen |-> 0, change |-> 0,
               inputs |-> {}, rest |-> 0, fee |-> 0, tx |-> 0]

WithdrawalRow == [tx : Nat, account : Account, amount : Nat, fee : Nat]

WithdrawalTypeOK ==
  /\ LedgerTypeOK /\ NodeTypeOK /\ WalletsTypeOK
  /\ cmd \in [Cmd -> Command]
  /\ rows \subseteq WithdrawalRow
  /\ mishaps \in 0..MaxMishaps

WithdrawalInit ==
  /\ LedgerInit /\ WalletsInit
  /\ coins = {DepositCoin(n) : n \in Note} \cup Endowment
  /\ txs = <<>>
  /\ cmd = [c \in Cmd |-> NewCommand]
  /\ rows = {}
  /\ mishaps = 0

-----------------------------------------------------------------------------
(* The command, step by step.                                              *)

Stop(c, how) == cmd' = [cmd EXCEPT ![c].pc = how]

Fits(c, fee) == cmd[c].seen >= cmd[c].amount + fee

Alone(c, a) == \A d \in Cmd \ {c} : cmd[d].account = a => cmd[d].pc \in Over

(* The balance is read once, and everything later is judged by it. *)
Begin(c, a, amount) ==
  /\ cmd[c].pc = "new"
  /\ Solo => Alone(c, a)
  /\ cmd' = [cmd EXCEPT ![c].pc = IF balance[a] < amount THEN "refused" ELSE "begun",
                        ![c].account = a, ![c].amount = amount, ![c].seen = balance[a]]
  /\ UNCHANGED <<ledgerVars, nodeVars, rows, nextInternal, mishaps>>

TakeChangeAddress(c) ==
  /\ cmd[c].pc = "begun"
  /\ cmd' = [cmd EXCEPT ![c].pc = "addressed", ![c].change = nextInternal["hot"]]
  /\ NextInternalAddress("hot")
  /\ UNCHANGED <<ledgerVars, nodeVars, rows, mishaps>>

Planned(c, notes, rest, fee) ==
  cmd' = [cmd EXCEPT ![c].pc = "planned", ![c].inputs = notes, ![c].rest = rest, ![c].fee = fee]

Plan_FeeNotChecked(c) ==
  /\ cmd[c].pc = "addressed"
  /\ \E listed \in Listings("hot") : \E notes \in Selections(listed, cmd[c].amount, 1) :
        LET fee == RequiredFeeSend(Cardinality(notes), 2)
        IN  \E rest \in 0..Supply : /\ Value(notes) = cmd[c].amount + fee + rest
                                    /\ Planned(c, notes, rest, fee)
  /\ UNCHANGED <<ledgerVars, nodeVars, rows, nextInternal, mishaps>>

(* PlanWithdrawal and signTxPlan; what the notes hold beyond amount and    *)
(* fee is the change.                                                      *)
Plan(c) ==
  /\ cmd[c].pc = "addressed"
  /\ \E listed \in Listings("hot") : \E notes \in Selections(listed, cmd[c].amount, 1) :
        LET fee == RequiredFeeSend(Cardinality(notes), 2)
        IN  /\ Fits(c, fee)
            /\ \E rest \in 0..Supply : /\ Value(notes) = cmd[c].amount + fee + rest
                                       /\ Planned(c, notes, rest, fee)
  /\ UNCHANGED <<ledgerVars, nodeVars, rows, nextInternal, mishaps>>

(* No liquidity, no room for the fee, no scanner, no signer: the command   *)
(* ends with an error before anything was sent.                            *)
Refuse(c) ==
  /\ cmd[c].pc \in {"begun", "addressed", "planned"}
  /\ Stop(c, "refused")
  /\ UNCHANGED <<ledgerVars, nodeVars, rows, nextInternal, mishaps>>

Change(c) ==
  IF cmd[c].rest = 0 THEN {}
  ELSE {[wallet |-> "hot", scope |-> "internal", tx |-> NextTx,
         out |-> cmd[c].change, zat |-> cmd[c].rest]}

Offer(c) == Accept(c, cmd[c].inputs, Change(c), cmd[c].amount, cmd[c].fee)

Submit(c) ==
  /\ cmd[c].pc = "planned"
  /\ Offer(c)
  /\ cmd' = [cmd EXCEPT ![c].pc = "sent", ![c].tx = NextTx]
  /\ UNCHANGED <<ledgerVars, rows, nextInternal, mishaps>>

SubmitRejected_Unnoticed(c) ==
  /\ cmd[c].pc = "planned"
  /\ ~Spendable(cmd[c].inputs)
  /\ cmd' = [cmd EXCEPT ![c].pc = "sent", ![c].tx = NextTx]
  /\ UNCHANGED <<ledgerVars, nodeVars, rows, nextInternal, mishaps>>

(* "broadcast_failed", because another transaction spends the same notes. *)
SubmitRejected(c) ==
  /\ cmd[c].pc = "planned"
  /\ ~Spendable(cmd[c].inputs)
  /\ Stop(c, "failed")
  /\ UNCHANGED <<ledgerVars, nodeVars, rows, nextInternal, mishaps>>

(* "broadcast_failed" as well, but the node has the transaction: only the  *)
(* answer was lost.                                                        *)
SubmitUnanswered(c) ==
  /\ cmd[c].pc = "planned"
  /\ mishaps < MaxMishaps /\ mishaps' = mishaps + 1
  /\ Offer(c)
  /\ Stop(c, "failed")
  /\ UNCHANGED <<ledgerVars, rows, nextInternal>>

NewRowOf(c) ==
  [tx |-> cmd[c].tx, account |-> cmd[c].account, amount |-> cmd[c].amount, fee |-> cmd[c].fee]

Debit_WithoutFee(c) ==
  /\ cmd[c].pc = "sent"
  /\ CreateWithdrawalAndDebit(cmd[c].account, cmd[c].amount, 0)
  /\ rows' = rows \cup {NewRowOf(c)}
  /\ Stop(c, "done")
  /\ UNCHANGED <<nodeVars, nextInternal, mishaps>>

Debit_RowWithoutMoney(c) ==
  /\ cmd[c].pc = "sent"
  /\ debited' = [debited EXCEPT ![cmd[c].account] = @ + cmd[c].amount + cmd[c].fee]
  /\ rows' = rows \cup {NewRowOf(c)}
  /\ Stop(c, "done")
  /\ UNCHANGED <<deposits, balance, owner, nextIndex, nodeVars, nextInternal, mishaps>>

Debit(c) ==
  /\ cmd[c].pc = "sent"
  /\ CreateWithdrawalAndDebit(cmd[c].account, cmd[c].amount, cmd[c].fee)
  /\ rows' = rows \cup {NewRowOf(c)}
  /\ Stop(c, "done")
  /\ UNCHANGED <<nodeVars, nextInternal, mishaps>>

(* "At this point the tx is already broadcast; surface a clear error." *)
DebitRefused(c) ==
  /\ cmd[c].pc = "sent"
  /\ balance[cmd[c].account] < cmd[c].amount + cmd[c].fee
  /\ Stop(c, "failed")
  /\ UNCHANGED <<ledgerVars, nodeVars, rows, nextInternal, mishaps>>

(* Killed, out of its seven minutes, or SQLite stayed busy. *)
Die(c) ==
  /\ cmd[c].pc \in Running
  /\ mishaps < MaxMishaps /\ mishaps' = mishaps + 1
  /\ Stop(c, "killed")
  /\ UNCHANGED <<ledgerVars, nodeVars, rows, nextInternal>>

-----------------------------------------------------------------------------
(* What goes on around it: users get addresses, the daemon posts what the  *)
(* chain says of their deposits (see Sync), transactions are mined or      *)
(* expire.                                                                 *)

AssignAddress(a) ==
  /\ GetOrAssignDepositAddress(a)
  /\ UNCHANGED <<nodeVars, nextInternal, withdrawalVars>>

Post(n, status) ==
  /\ Payee[n] \in {owner[i] : i \in Index}
  /\ ApplyDeposit(n, NoteZat[n], Payee[n], TRUE, status)
  /\ UNCHANGED <<nodeVars, cmd, rows, nextInternal>>

DepositCredited(n) ==
  /\ deposits[n].status # "confirmed"
  /\ Post(n, "confirmed")
  /\ UNCHANGED mishaps

(* The credit is taken back while the note stays on the chain: a           *)
(* DepositUnconfirmed, or a DepositEvent replayed.                         *)
DepositReversed(n) ==
  /\ deposits[n].status = "confirmed"
  /\ mishaps < MaxMishaps /\ mishaps' = mishaps + 1
  /\ Post(n, "unconfirmed")

TxMined(i)   == Mine(i) /\ UNCHANGED <<ledgerVars, nextInternal, withdrawalVars>>
TxExpired(i) == Expire(i) /\ UNCHANGED <<ledgerVars, nextInternal, withdrawalVars>>

Step(c) ==
  \/ \E a \in Account, amount \in Amount : Begin(c, a, amount)
  \/ TakeChangeAddress(c)
  \/ Plan(c)
  \/ Refuse(c)
  \/ Submit(c)
  \/ SubmitRejected(c)
  \/ SubmitUnanswered(c)
  \/ Debit(c)
  \/ DebitRefused(c)
  \/ Die(c)

Next ==
  \/ \E c \in Cmd : Step(c)
  \/ \E a \in Account : AssignAddress(a)
  \/ \E n \in Note : DepositCredited(n) \/ DepositReversed(n)
  \/ \E i \in DOMAIN txs : TxMined(i) \/ TxExpired(i)

Spec == WithdrawalInit /\ [][Next]_vars

(* What the node accepts from others: unspent notes pay for the new notes, *)
(* for what leaves the wallets and for the fee.                            *)
Acceptable(tx) ==
  /\ tx \in Tx /\ tx.state = "pooled" /\ Spendable(tx.inputs)
  /\ IsFiniteSet(tx.outputs) /\ \A c \in tx.outputs : c.tx = NextTx
  /\ Value(tx.inputs) = Value(tx.outputs) + tx.pays + tx.fee

(* The same among others who take internal addresses and submit what they  *)
(* like, but write neither the ledger nor the withdrawals table.           *)
OthersAct ==
  /\ UNCHANGED <<ledgerVars, coins, withdrawalVars>>
  /\ nextInternal' \in [Wallet -> Nat]
  /\ \/ UNCHANGED txs
     \/ /\ NextTx \in DOMAIN txs'
        /\ LET tx == txs'[NextTx]
           IN  Acceptable(tx) /\ tx.by \notin Cmd /\ txs' = Append(txs, tx)

OpenSpec == WithdrawalInit /\ [][Next \/ OthersAct]_vars

-----------------------------------------------------------------------------
(* A withdrawals row is only written for a transaction the node has        *)
(* accepted, with the amount and fee it really pays, and never two for the *)
(* same transaction: history shows nothing that was not sent.              *)
RowMatchesTx(r) ==
  /\ r.tx \in DOMAIN txs
  /\ txs[r.tx].pays = r.amount /\ txs[r.tx].fee = r.fee
  /\ txs[r.tx].by \in Cmd
  /\ cmd[txs[r.tx].by].account = r.account
  /\ cmd[txs[r.tx].by].pc = "done"

RecordedWasBroadcast ==
  /\ \A r \in rows : RowMatchesTx(r)
  /\ \A r, s \in rows : r.tx = s.tx => r = s

(* Once a command is over, a payment of it that the chain has or may still *)
(* take has been debited from its account.  Broadcasting comes before      *)
(* debiting (withdraw.go), so this needs operators who run one withdrawal  *)
(* of an account at a time and no mishap in between.                       *)
PaidIsDebited ==
  \A i \in Live :
     txs[i].by \in Cmd /\ cmd[txs[i].by].pc \in Over => \E r \in rows : r.tx = i

(* Transactions of different commands never pay the same internal address. *)
Internal(i) == {[wallet |-> x.wallet, out |-> x.out] :
                  x \in {y \in txs[i].outputs : y.scope = "internal"}}

ChangeNeverReused ==
  \A i, j \in DOMAIN txs : txs[i].by # txs[j].by => Internal(i) \cap Internal(j) = {}

(* The notes the wallets have or will have, when what is pooled is mined.  *)
Assets == (coins \ UNION {txs[i].inputs : i \in Pooled}) \cup UNION {txs[i].outputs : i \in Pooled}

Outlay(i) == txs[i].pays + txs[i].fee
Unrecorded == {i \in Live : \A r \in rows : r.tx # i}

(* The wallets can pay every account its balance, and would be left with   *)
(* the exchange's own, but for what was sent and not (yet) debited: the    *)
(* change comes back whole and the fee is charged to the account, whatever *)
(* commands do to each other.  What moves money between the wallets debits *)
(* nobody: its fees are the exchange's loss.                               *)
LiabilitiesCovered ==
  Total(balance, Account) + Value(Endowment)
    <= Value(Assets) + Total([i \in Unrecorded |-> Outlay(i)], Unrecorded)

=============================================================================
