-------------------------- MODULE WithdrawalProofs --------------------------
(***************************************************************************)
(* Theorems about Withdrawal, for any accounts, commands, notes, amounts   *)
(* and number of mishaps.                                                  *)
(* They are stated for OpenSpec, where others spend as well: Spec is a     *)
(* special case (WithdrawalAlone), and so are sweeps and transfers (see    *)
(* TreasuryProofs).                                                        *)
(*                                                                         *)
(*   1. types; a command that has an answer from Submit holds the          *)
(*      transaction it sent (Sent), so a row is only written for what was  *)
(*      broadcast (RecordedIsBroadcast)                                    *)
(*   2. every step is a step of the ledger (WithdrawalImplementsLedger)    *)
(*   3. no note is spent twice (SpentOnce, NeverSpentTwice), so nothing is *)
(*      lost or made: what the wallets have and what was spent is what     *)
(*      they were issued (AllAddUp, Conserved)                             *)
(*   4. what was debited is what the recorded transactions spent (Charged) *)
(*      and no row of the ledger claims more than its note is worth        *)
(*      (RowsAreNotes); with 2 and 3, what accounts are owed is covered    *)
(*      (LiabilitiesAlwaysCovered)                                         *)
(*   5. with one command per account and no mishap, the balance read at    *)
(*      the start still holds when the debit comes (Funded), so whatever   *)
(*      was broadcast is debited (CarefulIsDebited)                        *)
(***************************************************************************)
EXTENDS Withdrawal, LedgerProofs, FiniteSetTheorems

(* The transaction a command has sent is the one it planned. *)
Sent ==
  \A c \in Cmd : cmd[c].pc = "sent" =>
     /\ cmd[c].account \in Account /\ cmd[c].tx \in DOMAIN txs
     /\ txs[cmd[c].tx].by = c
     /\ txs[cmd[c].tx].pays = cmd[c].amount /\ txs[cmd[c].tx].fee = cmd[c].fee

Started ==
  \A c \in Cmd : cmd[c].pc \in Running => cmd[c].account \in Account /\ cmd[c].amount \in Amount

IInv == WithdrawalTypeOK /\ Started /\ Sent /\ RecordedWasBroadcast

(* Nothing has happened yet, whatever notes there are to start with.       *)
Untouched ==
  /\ LedgerInit /\ WalletsInit
  /\ coins \subseteq Coin /\ IsFiniteSet(coins) /\ \A c \in coins : c.tx = 0
  /\ txs = <<>>
  /\ cmd = [c \in Cmd |-> NewCommand]
  /\ rows = {}
  /\ mishaps = 0

LEMMA InitUntouched == WithdrawalInit => Untouched
<1> SUFFICES ASSUME WithdrawalInit PROVE Untouched
  OBVIOUS
<1>1. \A n \in Note : DepositCoin(n) \in Coin /\ DepositCoin(n).tx = 0
  BY WithdrawalAssumption, NodeAssumption, LedgerAssumption
  DEF WithdrawalAssumption, NodeAssumption, LedgerAssumption, DepositCoin, Coin, Wallet, Scope, Note, Zat
<1>2. IsFiniteSet(coins)
  <2>1. IsFiniteSet(Note)
    BY LedgerAssumption, FS_Interval DEF LedgerAssumption, Note
  <2> DEFINE f == [n \in Note |-> DepositCoin(n)]
  <2> DEFINE paid == {DepositCoin(n) : n \in Note}
  <2>2. f \in Surjection(Note, paid)
    BY DEF Surjection
  <2>3. IsFiniteSet(paid)
    BY <2>1, <2>2, FS_Surjection
  <2>4. QED
    BY <2>3, FS_Union, WithdrawalAssumption DEF WithdrawalInit, WithdrawalAssumption
<1>3. QED
  BY <1>1, <1>2, WithdrawalAssumption DEF Untouched, WithdrawalInit, WithdrawalAssumption

LEMMA UntouchedIInv == Untouched => IInv
<1> SUFFICES ASSUME Untouched PROVE IInv
  OBVIOUS
<1>1. LedgerTypeOK
  BY LedgerAssumption DEF LedgerAssumption, Untouched, LedgerInit, LedgerTypeOK, NoRow, Row
<1>2. NodeTypeOK
  <2>1. txs \in Seq(Tx) /\ DOMAIN txs = {}
    BY DEF Untouched
  <2>2. QED
    BY <2>1 DEF NodeTypeOK, Untouched
<1>3. NewCommand \in Command
  BY NodeAssumption DEF NodeAssumption, NewCommand, Command
<1>4. cmd = [c \in Cmd |-> NewCommand] /\ rows = {} /\ WalletsTypeOK /\ mishaps = 0
  BY DEF Untouched, WalletsInit, WalletsTypeOK
<1>5. WithdrawalTypeOK
  <2>1. mishaps \in 0..MaxMishaps
    BY <1>4, WithdrawalAssumption DEF WithdrawalAssumption
  <2>2. cmd \in [Cmd -> Command]
    BY <1>3, <1>4
  <2>3. QED
    BY <1>1, <1>2, <1>4, <2>1, <2>2 DEF WithdrawalTypeOK
<1>6. Started /\ Sent
  BY <1>4 DEF NewCommand, Started, Sent, Running
<1>7. RecordedWasBroadcast
  BY <1>4 DEF RecordedWasBroadcast
<1>8. QED
  BY <1>5, <1>6, <1>7 DEF IInv

LEMMA InitIInv == WithdrawalInit => IInv
BY InitUntouched, UntouchedIInv

-----------------------------------------------------------------------------
(* Two rows of one transaction are the same row, because a row says what   *)
(* its transaction says.                                                   *)
LEMMA OneRowPerTx ==
  ASSUME rows' \subseteq WithdrawalRow, \A r \in rows' : RowMatchesTx(r)'
  PROVE  RecordedWasBroadcast'
<1>1. ASSUME NEW r \in rows', NEW s \in rows', r.tx = s.tx
      PROVE  r = s
  <2>1. RowMatchesTx(r)' /\ RowMatchesTx(s)'
    OBVIOUS
  <2>2. r.amount = s.amount /\ r.fee = s.fee /\ r.account = s.account
    BY <1>1, <2>1 DEF RowMatchesTx
  <2>3. r \in WithdrawalRow /\ s \in WithdrawalRow
    OBVIOUS
  <2>4. QED
    BY <1>1, <2>2, <2>3 DEF WithdrawalRow
<1>2. QED
  BY <1>1 DEF RecordedWasBroadcast

LEMMA TxFacts ==
  ASSUME NodeTypeOK
  PROVE  /\ Len(txs) \in Nat /\ DOMAIN txs = 1..Len(txs)
         /\ \A i \in DOMAIN txs : /\ txs[i].by \in Sender
                                  /\ txs[i].inputs \subseteq Coin /\ txs[i].outputs \subseteq Coin
                                  /\ IsFiniteSet(txs[i].outputs)
<1>1. \A i \in DOMAIN txs : txs[i] \in Tx
  BY DEF NodeTypeOK
<1>2. QED
  BY <1>1 DEF NodeTypeOK, Tx

(* Rows keep their transaction while transactions are only added or move   *)
(* on, and commands that are done stay as they are.                        *)
LEMMA RowsStayTrue ==
  ASSUME IInv, WithdrawalTypeOK', rows' = rows,
         \A i \in DOMAIN txs : /\ i \in DOMAIN txs' /\ txs'[i].by = txs[i].by
                               /\ txs'[i].pays = txs[i].pays /\ txs'[i].fee = txs[i].fee,
         \A d \in Cmd : cmd[d].pc = "done" => cmd'[d] = cmd[d]
  PROVE  RecordedWasBroadcast'
<1>1. \A r \in rows' : RowMatchesTx(r)'
  <2>1. SUFFICES ASSUME NEW r \in rows PROVE RowMatchesTx(r)'
    OBVIOUS
  <2>2. RowMatchesTx(r)
    BY DEF IInv, RecordedWasBroadcast
  <2>3. QED
    BY <2>2 DEF RowMatchesTx
<1>2. QED
  BY <1>1, OneRowPerTx DEF WithdrawalTypeOK

(* A step of command c that leaves the ledger, the node and the rows alone *)
(* and does not end in "sent".                                             *)
LEMMA LocalStep ==
  ASSUME IInv, NEW c \in Cmd, UNCHANGED <<ledgerVars, nodeVars, rows>>,
         cmd' \in [Cmd -> Command], \A d \in Cmd \ {c} : cmd'[d] = cmd[d],
         cmd[c].pc # "done", cmd'[c].pc # "sent",
         cmd'[c].pc \in Running => cmd'[c].account \in Account /\ cmd'[c].amount \in Amount,
         WalletsTypeOK', mishaps' \in 0..MaxMishaps
  PROVE  IInv'
<1>1. WithdrawalTypeOK'
  BY DEF IInv, WithdrawalTypeOK, LedgerTypeOK, NodeTypeOK, ledgerVars, nodeVars
<1>2. Started'
  BY DEF IInv, Started
<1>3. Sent'
  BY DEF IInv, Sent, nodeVars
<1>4. RecordedWasBroadcast'
  BY <1>1, RowsStayTrue DEF nodeVars
<1>5. QED
  BY <1>1, <1>2, <1>3, <1>4 DEF IInv

(* One more transaction. *)
LEMMA AppendTx ==
  ASSUME NodeTypeOK, NEW tx \in Tx, IsFiniteSet(tx.outputs),
         txs' = Append(txs, tx), coins' = coins
  PROVE  /\ NodeTypeOK'
         /\ DOMAIN txs' = DOMAIN txs \cup {NextTx} /\ NextTx \notin DOMAIN txs
         /\ \A i \in DOMAIN txs : txs'[i] = txs[i]
         /\ txs'[NextTx] = tx
<1>1. Len(txs) \in Nat /\ DOMAIN txs = 1..Len(txs) /\ txs \in Seq(Tx)
  BY TxFacts DEF NodeTypeOK
<1>2. /\ txs' \in Seq(Tx) /\ DOMAIN txs' = 1..(Len(txs) + 1) /\ txs'[Len(txs) + 1] = tx
      /\ \A i \in 1..Len(txs) : txs'[i] = txs[i]
  BY <1>1
<1>3. \A i \in DOMAIN txs' : IsFiniteSet(txs'[i].outputs)
  <2>1. SUFFICES ASSUME NEW i \in DOMAIN txs' PROVE IsFiniteSet(txs'[i].outputs)
    OBVIOUS
  <2>2. CASE i = Len(txs) + 1
    BY <2>2, <1>2
  <2>3. CASE i \in DOMAIN txs
    BY <2>3, <1>1, <1>2, TxFacts
  <2>4. QED
    BY <2>1, <2>2, <2>3, <1>1, <1>2
<1>4. NodeTypeOK'
  BY <1>2, <1>3 DEF NodeTypeOK
<1>5. QED
  BY <1>1, <1>2, <1>4 DEF NextTx

(* What Accept does to the transactions. *)
LEMMA AcceptTypes ==
  ASSUME IInv, NEW c \in Cmd, cmd[c].pc = "planned", Offer(c)
  PROVE  /\ NodeTypeOK'
         /\ DOMAIN txs' = DOMAIN txs \cup {NextTx} /\ NextTx \notin DOMAIN txs
         /\ \A i \in DOMAIN txs : txs'[i] = txs[i]
         /\ txs'[NextTx].by = c /\ txs'[NextTx].state = "pooled"
         /\ txs'[NextTx].pays = cmd[c].amount /\ txs'[NextTx].fee = cmd[c].fee
<1> DEFINE new == [by |-> c, inputs |-> cmd[c].inputs, outputs |-> Change(c),
                   pays |-> cmd[c].amount, fee |-> cmd[c].fee, state |-> "pooled"]
<1>1. NodeTypeOK /\ cmd[c] \in Command /\ c \in Sender
  BY WithdrawalAssumption DEF WithdrawalAssumption, IInv, WithdrawalTypeOK
<1>2. txs' = Append(txs, new) /\ coins' = coins
  BY DEF Offer, Accept
<1>3. NextTx \in Nat
  BY <1>1, TxFacts DEF NextTx
<1>4. Change(c) \subseteq Coin
  BY <1>1, <1>3 DEF Change, Command, Coin, Wallet, Scope
<1>5. IsFiniteSet(Change(c))
  <2>1. Change(c) = {} \/ \E x : Change(c) = {x}
    BY DEF Change
  <2>2. QED
    BY <2>1, FS_EmptySet, FS_Singleton
<1>6. new \in Tx
  BY <1>1, <1>4 DEF Tx, Command
<1>7. new.by = c /\ new.state = "pooled" /\ new.pays = cmd[c].amount /\ new.fee = cmd[c].fee
      /\ new.outputs = Change(c)
  OBVIOUS
<1> HIDE DEF new
<1>8. QED
  BY <1>1, <1>2, <1>5, <1>6, <1>7, AppendTx

-----------------------------------------------------------------------------
(* No transaction is free. *)
LEMMA FeeIsPositive ==
  ASSUME NEW n \in Nat, NEW m \in Nat
  PROVE  RequiredFeeSend(n, m) \in Nat \ {0}
<1> DEFINE k == Larger(2, Larger(n, m))
<1>1. k \in Nat /\ k >= 2
  BY DEF Larger
<1> HIDE DEF k
<1>2. FeeUnit * k \in Nat \ {0}
  BY <1>1, SpendingAssumption DEF SpendingAssumption
<1>3. QED
  BY <1>2 DEF k, RequiredFeeSend

(* One lemma for each kind of step.                                        *)
LEMMA PlanKeeps ==
  ASSUME IInv, NEW c \in Cmd, Plan(c)
  PROVE  IInv'
<1>1. PICK listed \in Listings("hot") : \E notes \in Selections(listed, cmd[c].amount, 1) :
        \E rest \in 0..Supply : Planned(c, notes, rest, RequiredFeeSend(Cardinality(notes), 2))
  BY DEF Plan
<1>2. PICK notes \in Selections(listed, cmd[c].amount, 1) :
        \E rest \in 0..Supply : Planned(c, notes, rest, RequiredFeeSend(Cardinality(notes), 2))
  BY <1>1
<1>3. PICK rest \in 0..Supply : Planned(c, notes, rest, RequiredFeeSend(Cardinality(notes), 2))
  BY <1>2
<1> DEFINE fee == RequiredFeeSend(Cardinality(notes), 2)
<1>4. cmd[c].pc = "addressed" /\ UNCHANGED <<ledgerVars, nodeVars, rows, nextInternal, mishaps>>
  BY DEF Plan
<1>5. cmd[c] \in Command /\ coins \subseteq Coin /\ IsFiniteSet(coins)
  BY DEF IInv, WithdrawalTypeOK, NodeTypeOK
<1>6. notes \subseteq coins
  BY <1>1, <1>2 DEF Selections, Listings
<1>7. fee \in Nat
  <2>1. Cardinality(notes) \in Nat
    BY <1>5, <1>6, FS_Subset, FS_CardinalityType
  <2>2. QED
    BY <2>1, FeeIsPositive
<1> HIDE DEF fee
<1>8. cmd' = [cmd EXCEPT ![c].pc = "planned", ![c].inputs = notes, ![c].rest = rest, ![c].fee = fee]
  BY <1>3 DEF Planned, fee
<1>9. cmd \in [Cmd -> Command] /\ WalletsTypeOK /\ mishaps \in 0..MaxMishaps
  BY DEF IInv, WithdrawalTypeOK
<1>10. cmd' \in [Cmd -> Command]
  BY <1>5, <1>6, <1>7, <1>8, <1>9 DEF Command, Running
<1>11. \A d \in Cmd \ {c} : cmd'[d] = cmd[d]
  BY <1>8, <1>9
<1>12. cmd'[c].pc = "planned" /\ cmd'[c].account = cmd[c].account /\ cmd'[c].amount = cmd[c].amount
  BY <1>8, <1>9 DEF Command
<1>13. cmd[c].account \in Account /\ cmd[c].amount \in Amount
  BY <1>4 DEF IInv, Started, Running
<1>14. QED
  BY <1>4, <1>9, <1>10, <1>11, <1>12, <1>13, LocalStep DEF WalletsTypeOK

(* Steps that only move a command on, or end it. *)
LEMMA SmallStepKeeps ==
  ASSUME IInv, NEW c \in Cmd,
         \/ \E a \in Account, amount \in Amount : Begin(c, a, amount)
         \/ TakeChangeAddress(c) \/ Refuse(c) \/ SubmitRejected(c) \/ DebitRefused(c) \/ Die(c)
  PROVE  IInv'
<1>1. /\ cmd \in [Cmd -> Command] /\ cmd[c] \in Command
      /\ WalletsTypeOK /\ mishaps \in 0..MaxMishaps /\ balance \in [Account -> Nat]
  BY DEF IInv, WithdrawalTypeOK, LedgerTypeOK
<1>2. ASSUME NEW a \in Account, NEW amount \in Amount, Begin(c, a, amount)
      PROVE  IInv'
  <2>1. PICK how \in {"refused", "begun"} :
          cmd' = [cmd EXCEPT ![c].pc = how, ![c].account = a, ![c].amount = amount, ![c].seen = balance[a]]
    BY <1>2 DEF Begin
  <2>2. amount \in Nat /\ balance[a] \in Nat
    BY <1>1, WithdrawalAssumption DEF WithdrawalAssumption
  <2>3. cmd' \in [Cmd -> Command]
    BY <1>1, <2>1, <2>2 DEF Command, Running, Over
  <2>4. /\ \A d \in Cmd \ {c} : cmd'[d] = cmd[d]
        /\ cmd'[c].pc # "sent" /\ cmd'[c].account = a /\ cmd'[c].amount = amount
    BY <1>1, <2>1 DEF Command
  <2>5. cmd[c].pc = "new" /\ UNCHANGED <<ledgerVars, nodeVars, rows, nextInternal, mishaps>>
    BY <1>2 DEF Begin
  <2>6. QED
    BY <1>1, <2>2, <2>3, <2>4, <2>5, LocalStep DEF WalletsTypeOK
<1>3. CASE TakeChangeAddress(c)
  <2>1. cmd' = [cmd EXCEPT ![c].pc = "addressed", ![c].change = nextInternal["hot"]]
    BY <1>3 DEF TakeChangeAddress
  <2>2. nextInternal["hot"] \in Nat /\ WalletsTypeOK'
    BY <1>1, <1>3 DEF WalletsTypeOK, Wallet, TakeChangeAddress, NextInternalAddress
  <2>6. cmd' \in [Cmd -> Command]
    BY <1>1, <2>1, <2>2 DEF Command, Running
  <2>3. /\ \A d \in Cmd \ {c} : cmd'[d] = cmd[d]
        /\ cmd'[c].pc = "addressed" /\ cmd'[c].account = cmd[c].account
        /\ cmd'[c].amount = cmd[c].amount
    BY <1>1, <2>1 DEF Command
  <2>4. cmd[c].account \in Account /\ cmd[c].amount \in Amount
    BY <1>3 DEF TakeChangeAddress, IInv, Started, Running
  <2>5. QED
    BY <1>1, <1>3, <2>2, <2>6, <2>3, <2>4, LocalStep DEF TakeChangeAddress
<1>4. ASSUME NEW how \in Over \ {"done"}, Stop(c, how), cmd[c].pc # "done",
             UNCHANGED <<ledgerVars, nodeVars, rows, nextInternal>>, mishaps' \in 0..MaxMishaps
      PROVE  IInv'
  <2>1. cmd' \in [Cmd -> Command]
    BY <1>1, <1>4 DEF Stop, Command, Over
  <2>2. (\A d \in Cmd \ {c} : cmd'[d] = cmd[d]) /\ cmd'[c].pc = how
    BY <1>1, <1>4 DEF Stop, Command
  <2>3. how # "sent" /\ how \notin Running
    BY DEF Over, Running
  <2>4. QED
    BY <1>1, <1>4, <2>1, <2>2, <2>3, LocalStep DEF WalletsTypeOK
<1>5. CASE Refuse(c) \/ SubmitRejected(c) \/ DebitRefused(c)
  BY <1>1, <1>4, <1>5 DEF Refuse, SubmitRejected, DebitRefused, Over
<1>6. CASE Die(c)
  <2>1. mishaps' \in 0..MaxMishaps
    BY <1>1, <1>6, WithdrawalAssumption DEF WithdrawalAssumption, Die
  <2>2. QED
    BY <1>4, <1>6, <2>1 DEF Die, Over, Running
<1>7. QED
  BY <1>2, <1>3, <1>5, <1>6

LEMMA SubmitKeeps ==
  ASSUME IInv, NEW c \in Cmd, Submit(c) \/ SubmitUnanswered(c)
  PROVE  IInv'
<1>1. /\ cmd[c].pc = "planned" /\ Offer(c)
      /\ UNCHANGED <<ledgerVars, rows, nextInternal>> /\ mishaps' \in 0..MaxMishaps
  BY WithdrawalAssumption DEF WithdrawalAssumption, Submit, SubmitUnanswered, IInv, WithdrawalTypeOK
<1>2. /\ NodeTypeOK'
      /\ DOMAIN txs' = DOMAIN txs \cup {NextTx} /\ NextTx \notin DOMAIN txs
      /\ \A i \in DOMAIN txs : txs'[i] = txs[i]
      /\ txs'[NextTx].by = c /\ txs'[NextTx].pays = cmd[c].amount /\ txs'[NextTx].fee = cmd[c].fee
  BY <1>1, AcceptTypes
<1>3. cmd \in [Cmd -> Command] /\ cmd[c] \in Command /\ NextTx \in Nat
  BY TxFacts DEF IInv, WithdrawalTypeOK, NextTx
<1>4. cmd' = [cmd EXCEPT ![c].pc = "sent", ![c].tx = NextTx] \/ cmd' = [cmd EXCEPT ![c].pc = "failed"]
  BY DEF Submit, SubmitUnanswered, Stop
<1>5. /\ cmd' \in [Cmd -> Command] /\ \A d \in Cmd \ {c} : cmd'[d] = cmd[d]
      /\ cmd'[c].account = cmd[c].account /\ cmd'[c].amount = cmd[c].amount /\ cmd'[c].fee = cmd[c].fee
      /\ cmd'[c].pc = "sent" => cmd'[c].tx = NextTx
      /\ cmd'[c].pc # "done"
  BY <1>3, <1>4 DEF Command, Running, Over
<1>6. cmd[c].account \in Account /\ cmd[c].amount \in Amount
  BY <1>1 DEF IInv, Started, Running
<1>7. WithdrawalTypeOK'
  BY <1>1, <1>2, <1>5 DEF IInv, WithdrawalTypeOK, WalletsTypeOK, LedgerTypeOK, ledgerVars
<1>8. Started'
  BY <1>5, <1>6 DEF IInv, Started
<1>9. Sent'
  BY <1>2, <1>5, <1>6 DEF IInv, Sent
<1>10. RecordedWasBroadcast'
  BY <1>1, <1>2, <1>5, <1>7, RowsStayTrue
<1>11. QED
  BY <1>7, <1>8, <1>9, <1>10 DEF IInv

LEMMA DebitKeeps ==
  ASSUME IInv, NEW c \in Cmd, Debit(c)
  PROVE  IInv' /\ LedgerNext
<1>1. /\ cmd[c].pc = "sent" /\ cmd' = [cmd EXCEPT ![c].pc = "done"]
      /\ CreateWithdrawalAndDebit(cmd[c].account, cmd[c].amount, cmd[c].fee)
      /\ rows' = rows \cup {NewRowOf(c)} /\ UNCHANGED <<nodeVars, nextInternal, mishaps>>
  BY DEF Debit, Stop
<1>2. /\ cmd \in [Cmd -> Command] /\ cmd[c] \in Command /\ LedgerTypeOK /\ NodeTypeOK
      /\ cmd[c].account \in Account /\ cmd[c].amount \in Nat \ {0} /\ cmd[c].fee \in Nat
  BY <1>1, WithdrawalAssumption DEF WithdrawalAssumption, IInv, WithdrawalTypeOK, Started, Running, Command
<1>3. LedgerNext /\ LedgerTypeOK'
  BY <1>1, <1>2, DebitIsLedgerStep
<1>4. /\ cmd' \in [Cmd -> Command] /\ \A d \in Cmd \ {c} : cmd'[d] = cmd[d]
      /\ cmd'[c].pc = "done" /\ cmd'[c].account = cmd[c].account
  BY <1>1, <1>2 DEF Command, Over
<1>5. NewRowOf(c) \in WithdrawalRow
  BY <1>2 DEF NewRowOf, WithdrawalRow, Command
<1>6. WithdrawalTypeOK'
  BY <1>1, <1>2, <1>3, <1>4, <1>5 DEF IInv, WithdrawalTypeOK, WalletsTypeOK, NodeTypeOK, nodeVars
<1>7. Started' /\ Sent'
  BY <1>1, <1>4 DEF IInv, Started, Sent, Running, nodeVars
<1>8. txs' = txs
  BY <1>1 DEF nodeVars
<1>9. ASSUME NEW r \in rows' PROVE RowMatchesTx(r)'
  <2>1. CASE r \in rows
    <3>1. RowMatchesTx(r) /\ txs[r.tx].by \in Cmd
      BY <1>2, <2>1, TxFacts DEF IInv, RecordedWasBroadcast, RowMatchesTx
    <3>2. txs[r.tx].by # c
      BY <1>1, <3>1 DEF RowMatchesTx
    <3>3. QED
      BY <1>4, <1>8, <3>1, <3>2 DEF RowMatchesTx
  <2>2. CASE r = NewRowOf(c)
    <3>1. /\ cmd[c].tx \in DOMAIN txs /\ txs[cmd[c].tx].by = c
          /\ txs[cmd[c].tx].pays = cmd[c].amount /\ txs[cmd[c].tx].fee = cmd[c].fee
      BY <1>1 DEF IInv, Sent
    <3>2. QED
      BY <1>4, <1>8, <2>2, <3>1 DEF RowMatchesTx, NewRowOf
  <2>3. QED
    BY <1>1, <2>1, <2>2
<1>10. RecordedWasBroadcast'
  BY <1>6, <1>9, OneRowPerTx DEF WithdrawalTypeOK
<1>11. QED
  BY <1>3, <1>6, <1>7, <1>10 DEF IInv

(* Steps of the rest of the world on the ledger. *)
LEMMA LedgerStepKeeps ==
  ASSUME IInv, LedgerNext, UNCHANGED <<nodeVars, cmd, rows, nextInternal>>,
         mishaps' \in 0..MaxMishaps
  PROVE  IInv'
<1>1. WithdrawalTypeOK'
  BY LedgerNextKeepsType DEF IInv, WithdrawalTypeOK, WalletsTypeOK, NodeTypeOK, nodeVars
<1>2. cmd' = cmd /\ rows' = rows /\ txs' = txs
  BY DEF nodeVars
<1>3. Started' /\ Sent'
  BY <1>2 DEF IInv, Started, Sent
<1>4. RecordedWasBroadcast'
  BY <1>1, <1>2, RowsStayTrue
<1>5. QED
  BY <1>1, <1>3, <1>4 DEF IInv

LEMMA PostIsLedgerStep ==
  ASSUME NEW n \in Note, NEW status \in Status, Post(n, status)
  PROVE  LedgerNext
<1>1. Payee[n] \in Answers /\ NoteZat[n] \in Zat
  BY WithdrawalAssumption DEF WithdrawalAssumption, Post, Answers
<1>2. ApplyDeposit(n, NoteZat[n], Payee[n], TRUE, status)
  BY DEF Post
<1>3. QED
  BY <1>1, <1>2 DEF LedgerNext

LEMMA DepositKeeps ==
  ASSUME IInv, NEW n \in Note, DepositCredited(n) \/ DepositReversed(n)
  PROVE  IInv' /\ LedgerNext
<1>1. PICK status \in Status : Post(n, status)
  BY DEF DepositCredited, DepositReversed, Status
<1>2. LedgerNext /\ UNCHANGED <<nodeVars, cmd, rows, nextInternal>>
  BY <1>1, PostIsLedgerStep DEF Post
<1>3. mishaps' \in 0..MaxMishaps
  BY WithdrawalAssumption
  DEF WithdrawalAssumption, DepositCredited, DepositReversed, IInv, WithdrawalTypeOK
<1>4. QED
  BY <1>2, <1>3, LedgerStepKeeps

LEMMA AssignIsLedgerStep ==
  ASSUME NEW a \in Account, AssignAddress(a)
  PROVE  LedgerNext
BY DEF AssignAddress, LedgerNext

LEMMA NodeStepKeeps ==
  ASSUME IInv, NEW i \in DOMAIN txs, TxMined(i) \/ TxExpired(i)
  PROVE  IInv'
<1>1. /\ NodeTypeOK /\ Len(txs) \in Nat /\ DOMAIN txs = 1..Len(txs) /\ txs \in Seq(Tx)
      /\ \A j \in DOMAIN txs : txs[j] \in Tx
  BY TxFacts DEF IInv, WithdrawalTypeOK, NodeTypeOK
<1>2. UNCHANGED <<ledgerVars, cmd, rows, nextInternal, mishaps>>
  BY DEF TxMined, TxExpired, withdrawalVars
<1>3. PICK how \in {"mined", "expired"} : txs' = [txs EXCEPT ![i].state = how]
  BY DEF TxMined, TxExpired, Mine, Expire
<1>4. txs' \in Seq(Tx)
  <2>1. [txs[i] EXCEPT !.state = how] \in Tx
    BY <1>1 DEF Tx
  <2>2. txs' = [txs EXCEPT ![i] = [txs[i] EXCEPT !.state = how]]
    BY <1>3
  <2>3. QED
    BY <1>1, <2>1, <2>2
<1>5. /\ DOMAIN txs' = DOMAIN txs
      /\ \A j \in DOMAIN txs : /\ txs'[j].by = txs[j].by /\ txs'[j].outputs = txs[j].outputs
                               /\ txs'[j].pays = txs[j].pays /\ txs'[j].fee = txs[j].fee
  BY <1>1, <1>3 DEF Tx
<1>6. coins' \subseteq Coin /\ IsFiniteSet(coins')
  <2>1. CASE coins' = coins
    BY <1>1, <2>1 DEF NodeTypeOK
  <2>2. CASE coins' = (coins \ txs[i].inputs) \cup txs[i].outputs
    <3>1. IsFiniteSet(coins \ txs[i].inputs) /\ IsFiniteSet(txs[i].outputs)
      BY <1>1, FS_Difference DEF NodeTypeOK
    <3>2. IsFiniteSet(coins')
      BY <2>2, <3>1, FS_Union
    <3>3. QED
      BY <1>1, <2>2, <3>2, TxFacts DEF NodeTypeOK
  <2>3. QED
    BY <2>1, <2>2 DEF TxMined, TxExpired, Mine, Expire
<1>7. NodeTypeOK'
  BY <1>1, <1>4, <1>5, <1>6 DEF NodeTypeOK
<1>8. WithdrawalTypeOK'
  BY <1>2, <1>7 DEF IInv, WithdrawalTypeOK, WalletsTypeOK, LedgerTypeOK, ledgerVars
<1>9. Started' /\ Sent'
  BY <1>2, <1>5 DEF IInv, Started, Sent
<1>10. RecordedWasBroadcast'
  BY <1>2, <1>5, <1>8, RowsStayTrue
<1>11. QED
  BY <1>8, <1>9, <1>10 DEF IInv

(* Others add transactions, which no row refers to. *)
LEMMA OthersKeep ==
  ASSUME IInv, OthersAct
  PROVE  IInv'
<1>1. NodeTypeOK /\ UNCHANGED <<ledgerVars, coins, cmd, rows, mishaps>> /\ WalletsTypeOK'
  BY DEF OthersAct, withdrawalVars, IInv, WithdrawalTypeOK, WalletsTypeOK
<1>2. /\ NodeTypeOK'
      /\ \A i \in DOMAIN txs : i \in DOMAIN txs' /\ txs'[i] = txs[i]
  <2>1. CASE UNCHANGED txs
    BY <1>1, <2>1 DEF NodeTypeOK
  <2>2. CASE ~UNCHANGED txs
    <3> DEFINE tx == txs'[NextTx]
    <3>1. txs' = Append(txs, tx) /\ tx \in Tx /\ IsFiniteSet(tx.outputs)
      BY <2>2 DEF OthersAct, Acceptable
    <3> HIDE DEF tx
    <3>2. QED
      BY <1>1, <3>1, AppendTx
  <2>3. QED
    BY <2>1, <2>2
<1>3. WithdrawalTypeOK'
  BY <1>1, <1>2 DEF IInv, WithdrawalTypeOK, LedgerTypeOK, ledgerVars
<1>4. Started' /\ Sent'
  BY <1>1, <1>2 DEF IInv, Started, Sent
<1>5. RecordedWasBroadcast'
  BY <1>1, <1>2, <1>3, RowsStayTrue
<1>6. QED
  BY <1>3, <1>4, <1>5 DEF IInv

LEMMA StepKeeps ==
  ASSUME IInv, NEW c \in Cmd, Step(c)
  PROVE  IInv' /\ [LedgerNext]_ledgerVars
<1>1. CASE Debit(c)
  BY <1>1, DebitKeeps
<1>2. CASE Plan(c)
  BY <1>2, PlanKeeps DEF Plan
<1>3. CASE Submit(c) \/ SubmitUnanswered(c)
  BY <1>3, SubmitKeeps DEF Submit, SubmitUnanswered
<1>4. CASE \/ \E a \in Account, amount \in Amount : Begin(c, a, amount)
           \/ TakeChangeAddress(c) \/ Refuse(c) \/ SubmitRejected(c) \/ DebitRefused(c) \/ Die(c)
  BY <1>4, SmallStepKeeps DEF Begin, TakeChangeAddress, Refuse, SubmitRejected, DebitRefused, Die
<1>5. QED
  BY <1>1, <1>2, <1>3, <1>4 DEF Step

LEMMA NextKeeps == IInv /\ [Next \/ OthersAct]_vars => IInv' /\ [LedgerNext]_ledgerVars
<1> SUFFICES ASSUME IInv, [Next \/ OthersAct]_vars PROVE IInv' /\ [LedgerNext]_ledgerVars
  OBVIOUS
<1>1. ASSUME NEW c \in Cmd, Step(c) PROVE IInv' /\ [LedgerNext]_ledgerVars
  BY <1>1, StepKeeps
<1>2. ASSUME NEW a \in Account, AssignAddress(a) PROVE IInv' /\ [LedgerNext]_ledgerVars
  BY <1>2, AssignIsLedgerStep, LedgerStepKeeps
  DEF AssignAddress, withdrawalVars, IInv, WithdrawalTypeOK
<1>3. ASSUME NEW n \in Note, DepositCredited(n) \/ DepositReversed(n)
      PROVE  IInv' /\ [LedgerNext]_ledgerVars
  BY <1>3, DepositKeeps
<1>4. ASSUME NEW i \in DOMAIN txs, TxMined(i) \/ TxExpired(i) PROVE IInv' /\ [LedgerNext]_ledgerVars
  BY <1>4, NodeStepKeeps DEF TxMined, TxExpired
<1>5. CASE UNCHANGED vars
  <2>1. UNCHANGED ledgerVars /\ UNCHANGED <<coins, txs, cmd, rows, nextInternal, mishaps>>
    BY <1>5 DEF vars, nodeVars, withdrawalVars
  <2>2. WithdrawalTypeOK' /\ Started' /\ Sent'
    BY <2>1 DEF IInv, WithdrawalTypeOK, WalletsTypeOK, LedgerTypeOK, NodeTypeOK, ledgerVars, Started, Sent
  <2>3. RecordedWasBroadcast'
    BY <2>1, <2>2, RowsStayTrue
  <2>4. QED
    BY <2>1, <2>2, <2>3 DEF IInv
<1>6. CASE OthersAct
  BY <1>6, OthersKeep DEF OthersAct
<1>7. QED
  BY <1>1, <1>2, <1>3, <1>4, <1>5, <1>6 DEF Next

(* Commands with nobody else around. *)
LEMMA WithdrawalAlone == Spec => OpenSpec
<1>1. [Next]_vars => [Next \/ OthersAct]_vars
  OBVIOUS
<1>2. QED
  BY <1>1, PTL DEF Spec, OpenSpec

-----------------------------------------------------------------------------
(* Types are kept. *)
THEOREM WithdrawalTypeCorrect == OpenSpec => []WithdrawalTypeOK
<1>1. IInv => WithdrawalTypeOK
  BY DEF IInv
<1>2. QED
  BY <1>1, InitIInv, NextKeeps, PTL DEF OpenSpec

(* The withdrawals table lists only what was broadcast, as it was          *)
(* broadcast, and each transaction once, however commands overlap or end.  *)
THEOREM RecordedIsBroadcast == OpenSpec => []RecordedWasBroadcast
<1>1. IInv => RecordedWasBroadcast
  BY DEF IInv
<1>2. QED
  BY <1>1, InitIInv, NextKeeps, PTL DEF OpenSpec

(* Withdrawals by any number of operators implement the ledger, so its     *)
(* books balance.                                                          *)
THEOREM WithdrawalImplementsLedger == OpenSpec => LedgerSpec
<1>1. WithdrawalInit => LedgerInit
  BY DEF WithdrawalInit
<1>2. QED
  BY <1>1, InitIInv, NextKeeps, PTL DEF OpenSpec, LedgerSpec

THEOREM WithdrawalBooksBalance == OpenSpec => []BooksBalance
BY WithdrawalImplementsLedger, BooksAlwaysBalance, PTL

-----------------------------------------------------------------------------
(* A transaction tx is submitted and accepted. *)
Offered(tx) == Acceptable(tx) /\ txs' = Append(txs, tx) /\ coins' = coins

(* The note is there since the beginning, or its transaction was mined. *)
Real(c) == c.tx = 0 \/ (c.tx \in DOMAIN txs /\ txs[c.tx].state = "mined")

(* No note is spent by two transactions that live, and one that waits to   *)
(* be mined finds its notes unspent.                                       *)
SpentOnce ==
  /\ \A c \in coins : Real(c)
  /\ \A i \in DOMAIN txs : \A c \in txs[i].inputs : Real(c)
  /\ \A i \in DOMAIN txs : \A c \in txs[i].outputs : c.tx = i
  /\ \A i \in DOMAIN txs : txs[i].state = "mined" => txs[i].inputs \cap coins = {}
  /\ \A i, j \in Live : i # j => txs[i].inputs \cap txs[j].inputs = {}
  /\ \A i \in Pooled : txs[i].inputs \subseteq coins

(* What a block or an expiry leaves of the transactions. *)
LEMMA NodeMoves ==
  ASSUME NodeTypeOK, NEW i \in DOMAIN txs, Mine(i) \/ Expire(i)
  PROVE  /\ DOMAIN txs' = DOMAIN txs /\ txs[i].state = "pooled"
         /\ txs'[i].state \in {"mined", "expired"}
         /\ \A j \in DOMAIN txs : /\ txs'[j].by = txs[j].by /\ txs'[j].inputs = txs[j].inputs
                                  /\ txs'[j].outputs = txs[j].outputs
                                  /\ j # i => txs'[j].state = txs[j].state
<1>1. \A j \in DOMAIN txs : txs[j] \in Tx
  BY DEF NodeTypeOK
<1>2. PICK how \in {"mined", "expired"} : txs' = [txs EXCEPT ![i].state = how]
  BY DEF Mine, Expire
<1>3. QED
  BY <1>1, <1>2 DEF Tx, Mine, Expire, Pooled

LEMMA MineKeepsSpentOnce ==
  ASSUME NodeTypeOK, SpentOnce, NEW i \in DOMAIN txs, Mine(i)
  PROVE  SpentOnce'
<1>1. /\ DOMAIN txs' = DOMAIN txs /\ txs[i].state = "pooled"
      /\ \A j \in DOMAIN txs : /\ txs'[j].inputs = txs[j].inputs /\ txs'[j].outputs = txs[j].outputs
                               /\ j # i => txs'[j].state = txs[j].state
  BY NodeMoves
<1>2. txs'[i].state = "mined"
  <2>1. \A j \in DOMAIN txs : txs[j] \in Tx
    BY DEF NodeTypeOK
  <2>2. QED
    BY <2>1 DEF Mine, Tx
<1>3. coins' = (coins \ txs[i].inputs) \cup txs[i].outputs
  BY DEF Mine
<1>4. \A c : Real(c) => Real(c)'
  BY <1>1, <1>2 DEF Real
<1>5. \A c \in txs[i].outputs : c.tx = i /\ ~Real(c) /\ Real(c)'
  <2>1. \A c \in txs[i].outputs : c.tx = i
    BY DEF SpentOnce
  <2>2. i # 0
    BY DEF NodeTypeOK
  <2>3. QED
    BY <1>1, <1>2, <2>1, <2>2 DEF Real
<1>6. \A c \in coins' : Real(c)'
  BY <1>3, <1>4, <1>5 DEF SpentOnce
<1>7. \A j \in DOMAIN txs' : \A c \in txs'[j].inputs : Real(c)'
  BY <1>1, <1>4 DEF SpentOnce
<1>8. \A j \in DOMAIN txs' : \A c \in txs'[j].outputs : c.tx = j
  BY <1>1 DEF SpentOnce
<1>9. ASSUME NEW j \in DOMAIN txs', txs'[j].state = "mined" PROVE txs'[j].inputs \cap coins' = {}
  <2>1. txs[j].inputs \cap txs[i].outputs = {}
    BY <1>1, <1>5 DEF SpentOnce
  <2>2. txs[j].inputs \cap (coins \ txs[i].inputs) = {}
    BY <1>1, <1>9 DEF SpentOnce
  <2>3. QED
    BY <1>1, <1>3, <2>1, <2>2
<1>10. ASSUME NEW j \in Live', NEW l \in Live', j # l PROVE txs'[j].inputs \cap txs'[l].inputs = {}
  <2>1. j \in Live /\ l \in Live
    BY <1>1 DEF Live
  <2>2. QED
    BY <1>1, <1>10, <2>1 DEF SpentOnce, Live
<1>11. ASSUME NEW j \in Pooled' PROVE txs'[j].inputs \subseteq coins'
  <2>1. j # i /\ j \in Pooled /\ i \in Pooled
    BY <1>1, <1>2 DEF Pooled
  <2>2. txs[j].inputs \cap txs[i].inputs = {} /\ txs[j].inputs \subseteq coins
    BY <2>1 DEF SpentOnce, Live, Pooled
  <2>3. QED
    BY <1>1, <1>3, <2>1, <2>2 DEF Pooled
<1>12. QED
  BY <1>6, <1>7, <1>8, <1>9, <1>10, <1>11 DEF SpentOnce

LEMMA ExpireKeepsSpentOnce ==
  ASSUME NodeTypeOK, SpentOnce, NEW i \in DOMAIN txs, Expire(i)
  PROVE  SpentOnce'
<1>1. /\ DOMAIN txs' = DOMAIN txs /\ txs[i].state = "pooled"
      /\ \A j \in DOMAIN txs : /\ txs'[j].inputs = txs[j].inputs /\ txs'[j].outputs = txs[j].outputs
                               /\ j # i => txs'[j].state = txs[j].state
  BY NodeMoves
<1>2. txs'[i].state = "expired" /\ coins' = coins
  <2>1. \A j \in DOMAIN txs : txs[j] \in Tx
    BY DEF NodeTypeOK
  <2>2. QED
    BY <2>1 DEF Expire, Tx
<1>3. \A c : Real(c) => Real(c)'
  BY <1>1 DEF Real
<1>4. /\ \A c \in coins' : Real(c)'
      /\ \A j \in DOMAIN txs' : \A c \in txs'[j].inputs : Real(c)'
      /\ \A j \in DOMAIN txs' : \A c \in txs'[j].outputs : c.tx = j
  BY <1>1, <1>2, <1>3 DEF SpentOnce
<1>5. \A j \in DOMAIN txs' : txs'[j].state = "mined" => txs'[j].inputs \cap coins' = {}
  BY <1>1, <1>2 DEF SpentOnce
<1>6. ASSUME NEW j \in Live', NEW l \in Live', j # l PROVE txs'[j].inputs \cap txs'[l].inputs = {}
  <2>1. j \in Live /\ l \in Live
    BY <1>1, <1>2 DEF Live
  <2>2. QED
    BY <1>1, <1>6, <2>1 DEF SpentOnce, Live
<1>7. \A j \in Pooled' : txs'[j].inputs \subseteq coins'
  BY <1>1, <1>2 DEF SpentOnce, Pooled
<1>8. QED
  BY <1>4, <1>5, <1>6, <1>7 DEF SpentOnce

LEMMA OfferedKeepsSpentOnce ==
  ASSUME NodeTypeOK, SpentOnce, NEW tx, Offered(tx)
  PROVE  SpentOnce'
<1>1. tx \in Tx /\ IsFiniteSet(tx.outputs) /\ txs' = Append(txs, tx) /\ coins' = coins
  BY DEF Offered, Acceptable
<1>2. /\ DOMAIN txs' = DOMAIN txs \cup {NextTx} /\ NextTx \notin DOMAIN txs
      /\ \A i \in DOMAIN txs : txs'[i] = txs[i]
      /\ txs'[NextTx] = tx
  BY <1>1, AppendTx
<1>3. /\ tx.inputs \subseteq coins /\ \A i \in Pooled : tx.inputs \cap txs[i].inputs = {}
      /\ \A c \in tx.outputs : c.tx = NextTx
      /\ tx.state = "pooled"
  BY DEF Offered, Acceptable, Spendable
<1>4. \A c : Real(c) => Real(c)'
  BY <1>2 DEF Real
<1>5. /\ \A c \in coins' : Real(c)'
      /\ \A j \in DOMAIN txs' : \A c \in txs'[j].inputs : Real(c)'
      /\ \A j \in DOMAIN txs' : \A c \in txs'[j].outputs : c.tx = j
  BY <1>1, <1>2, <1>3, <1>4 DEF SpentOnce
<1>6. \A j \in DOMAIN txs' : txs'[j].state = "mined" => txs'[j].inputs \cap coins' = {}
  BY <1>1, <1>2, <1>3 DEF SpentOnce
<1>7. \A j \in Live : tx.inputs \cap txs[j].inputs = {}
  BY <1>3 DEF SpentOnce, Live, Pooled
<1>8. ASSUME NEW j \in Live', NEW l \in Live', j # l PROVE txs'[j].inputs \cap txs'[l].inputs = {}
  <2>1. (j \in Live \/ j = NextTx) /\ (l \in Live \/ l = NextTx)
    BY <1>2 DEF Live
  <2>2. QED
    BY <1>2, <1>7, <1>8, <2>1 DEF SpentOnce, Live
<1>9. \A j \in Pooled' : txs'[j].inputs \subseteq coins'
  BY <1>1, <1>2, <1>3 DEF SpentOnce, Pooled
<1>10. QED
  BY <1>5, <1>6, <1>8, <1>9 DEF SpentOnce

LEMMA UntouchedSpentOnce == Untouched => SpentOnce
<1> SUFFICES ASSUME Untouched PROVE SpentOnce
  OBVIOUS
<1>1. DOMAIN txs = {} /\ \A c \in coins : c.tx = 0
  BY DEF Untouched
<1>2. QED
  BY <1>1 DEF SpentOnce, Real, Live, Pooled

-----------------------------------------------------------------------------
(* What notes are worth.                                                   *)
LEMMA ZatIsNat == \A c \in Coin : c.zat \in Nat
BY NodeAssumption DEF NodeAssumption, Coin

LEMMA ValueIsTotal ==
  ASSUME NEW U \in SUBSET Coin, NEW S \in SUBSET U, IsFiniteSet(S)
  PROVE  Value(S) = Total([c \in U |-> c.zat], S)
<1> DEFINE v == [c \in S |-> c.zat]
<1> DEFINE w == [c \in U |-> c.zat]
<1>1. \A c \in S : w[c] \in Int /\ v[c] = w[c]
  BY ZatIsNat
<1>2. Value(S) = Total(v, S)
  BY DEF Value
<1> HIDE DEF v, w
<1>3. Total(v, S) = Total(w, S)
  BY <1>1, SumSame
<1>4. QED
  BY <1>2, <1>3 DEF w

LEMMA ValueIsNat ==
  ASSUME NEW S \in SUBSET Coin, IsFiniteSet(S)
  PROVE  Value(S) \in Nat
<1> DEFINE v == [c \in S |-> c.zat]
<1>1. \A c \in S : v[c] \in Nat
  BY ZatIsNat
<1>2. Value(S) = Total(v, S)
  BY DEF Value
<1> HIDE DEF v
<1>3. QED
  BY <1>1, <1>2, SumNat

LEMMA ValueOfNone == Value({}) = 0
BY SumEmpty DEF Value

LEMMA ValueOfOne ==
  ASSUME NEW c \in Coin
  PROVE  Value({c}) = c.zat
<1> DEFINE v == [x \in {c} |-> x.zat]
<1>1. v[c] = c.zat /\ v[c] \in Int
  BY ZatIsNat
<1>2. Value({c}) = Total(v, {c})
  BY DEF Value
<1> HIDE DEF v
<1>3. QED
  BY <1>1, <1>2, SumSingle

LEMMA ValueOfBoth ==
  ASSUME NEW A \in SUBSET Coin, NEW B \in SUBSET Coin,
         IsFiniteSet(A), IsFiniteSet(B), A \cap B = {}
  PROVE  Value(A \cup B) = Value(A) + Value(B)
<1> DEFINE U == A \cup B
<1> DEFINE v == [c \in U |-> c.zat]
<1>1. A \in SUBSET U /\ B \in SUBSET U /\ U \in SUBSET U /\ U \in SUBSET Coin /\ IsFiniteSet(U)
  BY FS_Union
<1>2. \A c \in A \cup B : v[c] \in Int
  BY ZatIsNat
<1> HIDE DEF v
<1>3. Total(v, A \cup B) = Total(v, A) + Total(v, B)
  BY <1>2, SumUnion
<1>4. Value(A) = Total(v, A) /\ Value(B) = Total(v, B) /\ Value(U) = Total(v, U)
  <2> HIDE DEF U
  <2> QED BY <1>1, ValueIsTotal DEF v
<1>5. QED
  BY <1>3, <1>4

(* Notes are spent and others made.                                        *)
LEMMA ValueMoves ==
  ASSUME NEW A \in SUBSET Coin, IsFiniteSet(A), NEW in \in SUBSET A,
         NEW out \in SUBSET Coin, IsFiniteSet(out), out \cap A = {}
  PROVE  /\ IsFiniteSet((A \ in) \cup out) /\ IsFiniteSet(in)
         /\ Value((A \ in) \cup out) + Value(in) = Value(A) + Value(out)
<1>1. IsFiniteSet(in) /\ IsFiniteSet(A \ in) /\ A \ in \in SUBSET Coin /\ in \in SUBSET Coin
  BY FS_Subset
<1>2. IsFiniteSet((A \ in) \cup out)
  BY <1>1, FS_Union
<1>3. Value((A \ in) \cup out) = Value(A \ in) + Value(out)
  BY <1>1, ValueOfBoth
<1>4. Value(A) = Value(A \ in) + Value(in)
  <2>1. A = (A \ in) \cup in /\ (A \ in) \cap in = {}
    OBVIOUS
  <2>2. Value((A \ in) \cup in) = Value(A \ in) + Value(in)
    BY <1>1, <2>1, ValueOfBoth
  <2>3. QED
    BY <2>1, <2>2
<1>5. Value(A \ in) \in Nat /\ Value(in) \in Nat /\ Value(out) \in Nat
  BY <1>1, ValueIsNat
<1>6. QED
  BY <1>1, <1>2, <1>3, <1>4, <1>5

-----------------------------------------------------------------------------
(* Nothing is lost and nothing made: what the wallets have, or will have   *)
(* when what is pooled is mined, and what has been spent, is what was      *)
(* issued to them.                                                         *)
PlansAddUp ==
  \A c \in Cmd : cmd[c].pc = "planned" =>
     /\ Value(cmd[c].inputs) = cmd[c].amount + cmd[c].fee + cmd[c].rest
     /\ cmd[c].fee > 0 /\ \A x \in cmd[c].inputs : x.wallet = "hot"

Issued == Value({DepositCoin(n) : n \in Note} \cup Endowment)

Outlays == [i \in DOMAIN txs |-> Outlay(i)]

AllAddUp ==
  \A i \in DOMAIN txs :
     /\ IsFiniteSet(txs[i].inputs)
     /\ Value(txs[i].inputs) = Value(txs[i].outputs) + Outlay(i)

AddUpTo(worth) == IsFiniteSet(Assets) /\ Value(Assets) + Total(Outlays, Live) = worth

Conserved == AddUpTo(Issued)

LEMMA OutlayIsNat ==
  ASSUME NodeTypeOK
  PROVE  \A i \in DOMAIN txs : Outlays[i] = txs[i].pays + txs[i].fee /\ Outlays[i] \in Nat
<1>1. \A i \in DOMAIN txs : txs[i] \in Tx
  BY DEF NodeTypeOK
<1>2. QED
  BY <1>1 DEF Outlays, Outlay, Tx

LEMMA TxsFinite ==
  ASSUME NodeTypeOK, NEW T \in SUBSET DOMAIN txs
  PROVE  IsFiniteSet(T)
<1>1. Len(txs) \in Nat /\ DOMAIN txs = 1..Len(txs)
  BY TxFacts
<1>2. IsFiniteSet(DOMAIN txs)
  BY <1>1, FS_Interval
<1>3. QED
  BY <1>2, FS_Subset

LEMMA AssetsAreCoins == NodeTypeOK => Assets \subseteq Coin
<1> SUFFICES ASSUME NodeTypeOK PROVE Assets \subseteq Coin
  OBVIOUS
<1>1. coins \subseteq Coin /\ \A i \in Pooled : txs[i].outputs \subseteq Coin
  BY TxFacts DEF NodeTypeOK, Pooled
<1>2. QED
  BY <1>1 DEF Assets

LEMMA MineConserves ==
  ASSUME NodeTypeOK, NodeTypeOK', SpentOnce, AllAddUp, NEW worth, AddUpTo(worth), NEW i \in DOMAIN txs, Mine(i)
  PROVE  AllAddUp' /\ AddUpTo(worth)'
<1>1. /\ DOMAIN txs' = DOMAIN txs /\ txs[i].state = "pooled" /\ i \in Pooled
      /\ coins' = (coins \ txs[i].inputs) \cup txs[i].outputs
  BY NodeMoves DEF Mine
<1>2. \A j \in DOMAIN txs : txs[j] \in Tx
  BY DEF NodeTypeOK
<1>3. \A j \in DOMAIN txs :
        /\ txs'[j].inputs = txs[j].inputs /\ txs'[j].outputs = txs[j].outputs
        /\ txs'[j].pays = txs[j].pays /\ txs'[j].fee = txs[j].fee
        /\ txs'[j].state = IF j = i THEN "mined" ELSE txs[j].state
  BY <1>2 DEF Mine, Tx
<1>4. AllAddUp'
  BY <1>1, <1>3 DEF AllAddUp, Outlay
<1>5. Pooled' = Pooled \ {i} /\ Live' = Live
  BY <1>1, <1>3 DEF Pooled, Live
<1>6. Outlays' = Outlays
  BY <1>1, <1>3 DEF Outlays, Outlay
<1>7. Assets' = Assets
  <2> DEFINE spent == UNION {txs[j].inputs : j \in Pooled \ {i}}
  <2> DEFINE made == UNION {txs[j].outputs : j \in Pooled \ {i}}
  <2>1. /\ UNION {txs[j].inputs : j \in Pooled} = spent \cup txs[i].inputs
        /\ UNION {txs[j].outputs : j \in Pooled} = made \cup txs[i].outputs
    BY <1>1
  <2>2. /\ UNION {txs'[j].inputs : j \in Pooled'} = spent
        /\ UNION {txs'[j].outputs : j \in Pooled'} = made
    <3>1. \A j \in Pooled' : txs'[j].inputs = txs[j].inputs /\ txs'[j].outputs = txs[j].outputs
      BY <1>1, <1>3, <1>5 DEF Pooled
    <3>2. QED
      BY <1>5, <3>1
  <2>3. txs[i].outputs \cap spent = {}
    <3>1. \A j \in Pooled : \A c \in txs[j].inputs : Real(c)
      BY DEF SpentOnce, Pooled
    <3>2. \A c \in txs[i].outputs : c.tx = i
      BY DEF SpentOnce
    <3>3. i # 0
      BY DEF NodeTypeOK
    <3>4. \A c \in txs[i].outputs : ~Real(c)
      BY <1>1, <3>2, <3>3 DEF Real
    <3>5. QED
      BY <3>1, <3>4
  <2>4. Assets = (coins \ (spent \cup txs[i].inputs)) \cup (made \cup txs[i].outputs)
    BY <2>1 DEF Assets
  <2>5. Assets' = (((coins \ txs[i].inputs) \cup txs[i].outputs) \ spent) \cup made
    BY <1>1, <2>2 DEF Assets
  <2> HIDE DEF spent, made
  <2>6. QED
    BY <2>3, <2>4, <2>5
<1>8. QED
  BY <1>4, <1>5, <1>6, <1>7 DEF AddUpTo

LEMMA ExpireConserves ==
  ASSUME NodeTypeOK, NodeTypeOK', SpentOnce, AllAddUp, NEW worth, AddUpTo(worth), NEW i \in DOMAIN txs, Expire(i)
  PROVE  AllAddUp' /\ AddUpTo(worth)'
<1>1. /\ DOMAIN txs' = DOMAIN txs /\ txs[i].state = "pooled" /\ i \in Pooled /\ coins' = coins
  BY NodeMoves DEF Expire
<1>2. \A j \in DOMAIN txs : txs[j] \in Tx
  BY DEF NodeTypeOK
<1>3. \A j \in DOMAIN txs :
        /\ txs'[j].inputs = txs[j].inputs /\ txs'[j].outputs = txs[j].outputs
        /\ txs'[j].pays = txs[j].pays /\ txs'[j].fee = txs[j].fee
        /\ txs'[j].state = IF j = i THEN "expired" ELSE txs[j].state
  BY <1>2 DEF Expire, Tx
<1>4. AllAddUp'
  BY <1>1, <1>3 DEF AllAddUp, Outlay
<1>5. Pooled' = Pooled \ {i} /\ Live' = Live \ {i} /\ i \in Live /\ Live \subseteq DOMAIN txs
  BY <1>1, <1>3 DEF Pooled, Live
<1>6. Outlays' = Outlays
  BY <1>1, <1>3 DEF Outlays, Outlay
<1> DEFINE in == txs[i].inputs
<1> DEFINE out == txs[i].outputs
<1>7. Assets' = (Assets \ out) \cup in /\ out \subseteq Assets /\ in \cap Assets = {}
  <2> DEFINE spent == UNION {txs[j].inputs : j \in Pooled \ {i}}
  <2> DEFINE made == UNION {txs[j].outputs : j \in Pooled \ {i}}
  <2>1. /\ UNION {txs[j].inputs : j \in Pooled} = spent \cup in
        /\ UNION {txs[j].outputs : j \in Pooled} = made \cup out
    BY <1>1
  <2>2. /\ UNION {txs'[j].inputs : j \in Pooled'} = spent
        /\ UNION {txs'[j].outputs : j \in Pooled'} = made
    <3>1. \A j \in Pooled' : txs'[j].inputs = txs[j].inputs /\ txs'[j].outputs = txs[j].outputs
      BY <1>1, <1>3, <1>5 DEF Pooled
    <3>2. QED
      BY <1>5, <3>1
  <2>3. \A j \in Pooled : \A c \in txs[j].outputs : c.tx = j /\ ~Real(c)
    <3>1. \A j \in Pooled : j # 0 /\ j \in DOMAIN txs /\ txs[j].state = "pooled"
      BY DEF NodeTypeOK, Pooled
    <3>2. \A j \in Pooled : \A c \in txs[j].outputs : c.tx = j
      BY <3>1 DEF SpentOnce
    <3>3. QED
      BY <3>1, <3>2 DEF Real
  <2>4. (\A c \in coins : Real(c)) /\ in \subseteq coins
    BY <1>1 DEF SpentOnce
  <2>5. out \cap coins = {} /\ out \cap made = {} /\ in \cap made = {} /\ in \cap out = {}
    BY <1>1, <2>3, <2>4
  <2>6. in \cap spent = {}
    <3>1. \A j \in Pooled \ {i} : txs[j].inputs \cap in = {}
      BY <1>1, <1>5 DEF SpentOnce, Live, Pooled
    <3>2. QED
      BY <3>1
  <2>7. Assets = (coins \ (spent \cup in)) \cup (made \cup out)
    BY <2>1 DEF Assets
  <2>8. Assets' = (coins \ spent) \cup made
    BY <1>1, <2>2 DEF Assets
  <2> HIDE DEF spent, made, in, out
  <2>9. QED
    BY <2>4, <2>5, <2>6, <2>7, <2>8
<1>8. /\ IsFiniteSet(in) /\ in \in SUBSET Coin /\ out \in SUBSET Coin /\ IsFiniteSet(out)
      /\ Value(in) = Value(out) + Outlays[i] /\ Outlays[i] \in Nat
  BY TxFacts, OutlayIsNat DEF AllAddUp, Outlays
<1>9. Assets \in SUBSET Coin /\ IsFiniteSet(Assets) /\ Value(Assets) + Total(Outlays, Live) = worth
  BY AssetsAreCoins DEF AddUpTo
<1> HIDE DEF in, out
<1>10. IsFiniteSet(Assets') /\ Value(Assets') + Value(out) = Value(Assets) + Value(in)
  BY <1>7, <1>8, <1>9, ValueMoves
<1>11. Total(Outlays, Live) = Outlays[i] + Total(Outlays, Live \ {i})
  <2>1. IsFiniteSet(Live) /\ \A j \in Live : Outlays[j] \in Int
    BY <1>5, TxsFinite, OutlayIsNat
  <2>2. QED
    BY <1>5, <2>1, SumRemove
<1>12. /\ Value(Assets') \in Nat /\ Value(out) \in Nat /\ Value(in) \in Nat /\ Value(Assets) \in Nat
       /\ Total(Outlays, Live \ {i}) \in Nat
  <2>1. Assets' \in SUBSET Coin
    BY <1>7, <1>8, <1>9
  <2>2. Live \ {i} \in SUBSET DOMAIN txs
    BY <1>5
  <2>3. IsFiniteSet(Live \ {i}) /\ \A j \in Live \ {i} : Outlays[j] \in Nat
    BY <2>2, TxsFinite, OutlayIsNat
  <2>4. QED
    BY <1>8, <1>9, <1>10, <2>1, <2>3, ValueIsNat, SumNat
<1>13. Value(Assets') + Total(Outlays, Live \ {i}) = worth
  BY <1>8, <1>9, <1>10, <1>11, <1>12
<1>14. AddUpTo(worth)'
  BY <1>5, <1>6, <1>10, <1>13 DEF AddUpTo
<1>15. QED
  BY <1>4, <1>14

LEMMA OfferedConserves ==
  ASSUME NodeTypeOK, NodeTypeOK', SpentOnce, AllAddUp, NEW worth, AddUpTo(worth), NEW tx, Offered(tx)
  PROVE  AllAddUp' /\ AddUpTo(worth)'
<1>1. /\ tx \in Tx /\ tx.state = "pooled" /\ IsFiniteSet(tx.outputs) /\ coins' = coins
      /\ txs' = Append(txs, tx) /\ \A c \in tx.outputs : c.tx = NextTx
      /\ tx.inputs \subseteq coins /\ \A j \in Pooled : tx.inputs \cap txs[j].inputs = {}
      /\ Value(tx.inputs) = Value(tx.outputs) + tx.pays + tx.fee
  BY DEF Offered, Acceptable, Spendable
<1>2. /\ DOMAIN txs' = DOMAIN txs \cup {NextTx} /\ NextTx \notin DOMAIN txs
      /\ \A j \in DOMAIN txs : txs'[j] = txs[j]
      /\ txs'[NextTx] = tx
  BY <1>1, AppendTx
<1>3. Pooled' = Pooled \cup {NextTx} /\ Live' = Live \cup {NextTx} /\ Live \subseteq DOMAIN txs
  BY <1>1, <1>2 DEF Pooled, Live
<1> DEFINE in == tx.inputs
<1> DEFINE out == tx.outputs
<1>4. /\ IsFiniteSet(in) /\ in \in SUBSET Coin /\ out \in SUBSET Coin /\ IsFiniteSet(out)
      /\ tx.pays \in Nat /\ tx.fee \in Nat
  BY <1>1, FS_Subset DEF NodeTypeOK, Tx
<1>5. AllAddUp'
  <2>1. SUFFICES ASSUME NEW j \in DOMAIN txs'
                 PROVE  /\ IsFiniteSet(txs'[j].inputs)
                        /\ Value(txs'[j].inputs) = Value(txs'[j].outputs) + (txs'[j].pays + txs'[j].fee)
    BY DEF AllAddUp, Outlay
  <2>2. CASE j \in DOMAIN txs
    BY <1>2, <2>2 DEF AllAddUp, Outlay
  <2>3. CASE j = NextTx
    <3>1. Value(out) \in Nat
      BY <1>4, ValueIsNat
    <3>2. Value(in) = Value(out) + (tx.pays + tx.fee)
      BY <1>1, <1>4, <3>1
    <3>3. QED
      BY <1>2, <1>4, <2>3, <3>2
  <2>4. QED
    BY <1>2, <2>2, <2>3
<1>6. Assets' = (Assets \ in) \cup out /\ in \subseteq Assets /\ out \cap Assets = {}
  <2> DEFINE spent == UNION {txs[j].inputs : j \in Pooled}
  <2> DEFINE made == UNION {txs[j].outputs : j \in Pooled}
  <2>1. /\ UNION {txs'[j].inputs : j \in Pooled'} = spent \cup in
        /\ UNION {txs'[j].outputs : j \in Pooled'} = made \cup out
    <3>1. \A j \in Pooled : txs'[j] = txs[j]
      BY <1>2 DEF Pooled
    <3>2. QED
      BY <1>2, <1>3, <3>1
  <2>2. \A c \in coins : Real(c)
    BY DEF SpentOnce
  <2>3. \A j \in Pooled : \A c \in txs[j].outputs : c.tx = j /\ j \in DOMAIN txs /\ ~Real(c)
    <3>1. \A j \in Pooled : j # 0 /\ j \in DOMAIN txs /\ txs[j].state = "pooled"
      BY DEF NodeTypeOK, Pooled
    <3>2. \A j \in Pooled : \A c \in txs[j].outputs : c.tx = j
      BY <3>1 DEF SpentOnce
    <3>3. QED
      BY <3>1, <3>2 DEF Real
  <2>4. \A c \in out : c.tx = NextTx /\ ~Real(c)
    <3>1. NextTx # 0
      BY TxFacts DEF NextTx
    <3>2. QED
      BY <1>1, <1>2, <3>1 DEF Real
  <2>5. out \cap coins = {} /\ out \cap made = {} /\ in \cap made = {} /\ in \cap spent = {}
    BY <1>1, <1>2, <2>2, <2>3, <2>4
  <2>6. Assets = (coins \ spent) \cup made
    BY DEF Assets
  <2>7. Assets' = (coins \ (spent \cup in)) \cup (made \cup out)
    BY <1>1, <2>1 DEF Assets
  <2>8. in \subseteq coins
    BY <1>1
  <2> HIDE DEF spent, made, in, out
  <2>9. QED
    BY <2>5, <2>6, <2>7, <2>8
<1>7. Assets \in SUBSET Coin /\ IsFiniteSet(Assets) /\ Value(Assets) + Total(Outlays, Live) = worth
  BY AssetsAreCoins DEF AddUpTo
<1>8. /\ Outlays'[NextTx] = tx.pays + tx.fee /\ Outlays'[NextTx] \in Int
      /\ \A j \in Live : Outlays'[j] = Outlays[j] /\ Outlays[j] \in Nat
  BY <1>2, <1>3, <1>4, OutlayIsNat DEF Outlays, Outlay
<1>9. IsFiniteSet(Live) /\ NextTx \notin Live
  BY <1>2, <1>3, TxsFinite
<1>10. Total(Outlays', Live') = tx.pays + tx.fee + Total(Outlays, Live) /\ Total(Outlays, Live) \in Nat
  <2>1. Total(Outlays', Live \cup {NextTx}) = Outlays'[NextTx] + Total(Outlays', Live)
    <3>1. \A j \in Live : Outlays'[j] \in Int
      BY <1>8
    <3>2. QED
      BY <1>8, <1>9, <3>1, SumAdd
  <2>2. Total(Outlays', Live) = Total(Outlays, Live)
    BY <1>8, <1>9, SumSame
  <2>3. Total(Outlays, Live) \in Nat
    BY <1>8, <1>9, SumNat
  <2>4. QED
    BY <1>3, <1>8, <2>1, <2>2, <2>3
<1>11. Value(tx.inputs) = Value(tx.outputs) + tx.pays + tx.fee
  BY <1>1
<1>12. Value(in) = Value(out) + tx.pays + tx.fee
  BY <1>11
<1> HIDE DEF in, out
<1>13. IsFiniteSet(Assets') /\ Value(Assets') + Value(in) = Value(Assets) + Value(out)
  BY <1>4, <1>6, <1>7, ValueMoves
<1>14. Value(Assets') \in Nat /\ Value(out) \in Nat /\ Value(in) \in Nat /\ Value(Assets) \in Nat
  <2>1. Assets' \in SUBSET Coin
    BY <1>4, <1>6, <1>7
  <2>2. QED
    BY <1>4, <1>7, <1>13, <2>1, ValueIsNat
<1>15. Value(Assets') + Total(Outlays', Live') = worth
  BY <1>4, <1>7, <1>10, <1>12, <1>13, <1>14
<1>16. AddUpTo(worth)'
  BY <1>13, <1>15 DEF AddUpTo
<1>17. QED
  BY <1>5, <1>16

(* Only planning makes a plan, and what is left of the notes is change.    *)
LEMMA PlansStay ==
  ASSUME IInv, PlansAddUp, [Next \/ OthersAct]_vars
  PROVE  PlansAddUp'
<1>1. cmd \in [Cmd -> Command]
  BY DEF IInv, WithdrawalTypeOK
<1>2. ASSUME NEW c \in Cmd, Plan(c) PROVE PlansAddUp'
  <2>1. PICK listed \in Listings("hot") : \E notes \in Selections(listed, cmd[c].amount, 1) :
          \E rest \in 0..Supply :
             /\ Value(notes) = cmd[c].amount + RequiredFeeSend(Cardinality(notes), 2) + rest
             /\ Planned(c, notes, rest, RequiredFeeSend(Cardinality(notes), 2))
    BY <1>2 DEF Plan
  <2>2. PICK notes \in Selections(listed, cmd[c].amount, 1), rest \in 0..Supply :
             /\ Value(notes) = cmd[c].amount + RequiredFeeSend(Cardinality(notes), 2) + rest
             /\ Planned(c, notes, rest, RequiredFeeSend(Cardinality(notes), 2))
    BY <2>1
  <2> DEFINE fee == RequiredFeeSend(Cardinality(notes), 2)
  <2>3. cmd' = [cmd EXCEPT ![c].pc = "planned", ![c].inputs = notes, ![c].rest = rest, ![c].fee = fee]
        /\ Value(notes) = cmd[c].amount + fee + rest
    BY <2>2 DEF Planned
  <2>4. notes \subseteq coins /\ \A x \in notes : x.wallet = "hot"
    BY <2>1, <2>2 DEF Selections, Listings
  <2>5. fee > 0
    <3>1. Cardinality(notes) \in Nat
      BY <2>4, FS_Subset, FS_CardinalityType DEF IInv, WithdrawalTypeOK, NodeTypeOK
    <3>2. QED
      BY <3>1, FeeIsPositive
  <2> HIDE DEF fee
  <2>6. /\ \A d \in Cmd \ {c} : cmd'[d] = cmd[d]
        /\ cmd'[c].inputs = notes /\ cmd'[c].rest = rest /\ cmd'[c].fee = fee
        /\ cmd'[c].amount = cmd[c].amount
    BY <1>1, <2>3 DEF Command
  <2>7. SUFFICES ASSUME NEW d \in Cmd, cmd'[d].pc = "planned"
                 PROVE  /\ Value(cmd'[d].inputs) = cmd'[d].amount + cmd'[d].fee + cmd'[d].rest
                        /\ cmd'[d].fee > 0 /\ \A x \in cmd'[d].inputs : x.wallet = "hot"
    BY DEF PlansAddUp
  <2>8. QED
    BY <2>3, <2>4, <2>5, <2>6, <2>7 DEF PlansAddUp
<1>3. ASSUME \A d \in Cmd : cmd'[d].pc = "planned" => cmd'[d] = cmd[d] PROVE PlansAddUp'
  <2>1. SUFFICES ASSUME NEW d \in Cmd, cmd'[d].pc = "planned"
                 PROVE  /\ Value(cmd'[d].inputs) = cmd'[d].amount + cmd'[d].fee + cmd'[d].rest
                        /\ cmd'[d].fee > 0 /\ \A x \in cmd'[d].inputs : x.wallet = "hot"
    BY DEF PlansAddUp
  <2>2. QED
    BY <1>3, <2>1 DEF PlansAddUp
<1>4. ASSUME NEW c \in Cmd, Step(c), ~Plan(c)
      PROVE  \A d \in Cmd : cmd'[d].pc = "planned" => cmd'[d] = cmd[d]
  <2>1. ASSUME NEW a \in Account, NEW amount \in Amount, Begin(c, a, amount)
        PROVE  cmd'[c].pc # "planned" /\ \A d \in Cmd \ {c} : cmd'[d] = cmd[d]
    BY <1>1, <2>1 DEF Begin, Command
  <2>2. ASSUME TakeChangeAddress(c) \/ Submit(c)
        PROVE  cmd'[c].pc # "planned" /\ \A d \in Cmd \ {c} : cmd'[d] = cmd[d]
    BY <1>1, <2>2 DEF TakeChangeAddress, Submit, Command
  <2>3. ASSUME \E how \in Over : Stop(c, how)
        PROVE  cmd'[c].pc # "planned" /\ \A d \in Cmd \ {c} : cmd'[d] = cmd[d]
    BY <1>1, <2>3 DEF Stop, Over, Command
  <2>4. ASSUME Refuse(c) \/ SubmitRejected(c) \/ SubmitUnanswered(c) \/ Debit(c) \/ DebitRefused(c) \/ Die(c)
        PROVE  \E how \in Over : Stop(c, how)
    BY <2>4 DEF Refuse, SubmitRejected, SubmitUnanswered, Debit, DebitRefused, Die, Over
  <2>5. cmd'[c].pc # "planned" /\ \A d \in Cmd \ {c} : cmd'[d] = cmd[d]
    BY <1>4, <2>1, <2>2, <2>3, <2>4 DEF Step
  <2>6. QED
    BY <2>5
<1>5. ASSUME ~(\E c \in Cmd : Step(c)) PROVE cmd' = cmd
  BY <1>5 DEF Next, AssignAddress, DepositCredited, DepositReversed, Post, TxMined, TxExpired,
              OthersAct, vars, withdrawalVars
<1>6. QED
  BY <1>2, <1>3, <1>4, <1>5

(* What a withdrawal submits. *)
LEMMA CommandOffered ==
  ASSUME IInv, PlansAddUp, NEW c \in Cmd, cmd[c].pc = "planned", Offer(c)
  PROVE  \E tx : /\ Offered(tx) /\ tx.by = c
                 /\ tx.inputs = cmd[c].inputs /\ tx.outputs = Change(c)
                 /\ tx.pays = cmd[c].amount /\ tx.fee = cmd[c].fee
<1> DEFINE tx == [by |-> c, inputs |-> cmd[c].inputs, outputs |-> Change(c),
                  pays |-> cmd[c].amount, fee |-> cmd[c].fee, state |-> "pooled"]
<1>1. cmd[c] \in Command /\ c \in Sender
  BY WithdrawalAssumption DEF WithdrawalAssumption, IInv, WithdrawalTypeOK
<1>2. NextTx \in Nat
  BY TxFacts DEF IInv, WithdrawalTypeOK, NextTx
<1>3. Change(c) \subseteq Coin /\ \A x \in Change(c) : x.tx = NextTx
  BY <1>1, <1>2 DEF Change, Command, Coin, Wallet, Scope
<1>4. IsFiniteSet(Change(c)) /\ Value(Change(c)) = cmd[c].rest
  <2>1. CASE cmd[c].rest = 0
    BY <2>1, FS_EmptySet, ValueOfNone DEF Change
  <2>2. CASE cmd[c].rest # 0
    <3> DEFINE x == [wallet |-> "hot", scope |-> "internal", tx |-> NextTx,
                     out |-> cmd[c].change, zat |-> cmd[c].rest]
    <3>1. Change(c) = {x} /\ x.zat = cmd[c].rest
      BY <2>2 DEF Change
    <3> HIDE DEF x
    <3>2. QED
      BY <1>3, <3>1, FS_Singleton, ValueOfOne
  <2>3. QED
    BY <2>1, <2>2
<1>5. Spendable(cmd[c].inputs) /\ txs' = Append(txs, tx) /\ coins' = coins
  BY DEF Offer, Accept
<1>6. tx \in Tx
  BY <1>1, <1>3 DEF Tx, Command
<1>7. Value(cmd[c].inputs) = Value(Change(c)) + cmd[c].amount + cmd[c].fee
  <2>1. cmd[c].amount \in Nat /\ cmd[c].fee \in Nat /\ cmd[c].rest \in Int
    BY <1>1 DEF Command
  <2>2. Value(cmd[c].inputs) = cmd[c].amount + cmd[c].fee + cmd[c].rest
    BY DEF PlansAddUp
  <2>3. QED
    BY <1>4, <2>1, <2>2
<1>8. /\ tx.by = c /\ tx.inputs = cmd[c].inputs /\ tx.outputs = Change(c) /\ tx.state = "pooled"
      /\ tx.pays = cmd[c].amount /\ tx.fee = cmd[c].fee
  OBVIOUS
<1> HIDE DEF tx
<1>9. Offered(tx)
  BY <1>3, <1>4, <1>5, <1>6, <1>7, <1>8 DEF Offered, Acceptable
<1>10. QED
  BY <1>8, <1>9

(* What a step does to the node. *)
LEMMA OpenNodeSteps ==
  ASSUME IInv, PlansAddUp, [Next \/ OthersAct]_vars
  PROVE  \/ UNCHANGED nodeVars
         \/ \E i \in DOMAIN txs : Mine(i) \/ Expire(i)
         \/ \E tx : Offered(tx)
<1>1. ASSUME NEW c \in Cmd, Step(c) PROVE UNCHANGED nodeVars \/ \E tx : Offered(tx)
  <2>1. CASE Submit(c) \/ SubmitUnanswered(c)
    BY <2>1, CommandOffered DEF Submit, SubmitUnanswered
  <2>2. CASE ~Submit(c) /\ ~SubmitUnanswered(c)
    BY <1>1, <2>2
    DEF Step, Begin, TakeChangeAddress, Plan, Refuse, SubmitRejected, Debit, DebitRefused, Die
  <2>3. QED
    BY <2>1, <2>2
<1>2. CASE OthersAct
  BY <1>2 DEF OthersAct, Offered, nodeVars
<1>3. ASSUME NEW i \in DOMAIN txs, TxMined(i) \/ TxExpired(i) PROVE Mine(i) \/ Expire(i)
  BY <1>3 DEF TxMined, TxExpired
<1>4. CASE UNCHANGED vars
  BY <1>4 DEF vars
<1>5. ASSUME NEW a \in Account, AssignAddress(a) PROVE UNCHANGED nodeVars
  BY <1>5 DEF AssignAddress
<1>6. ASSUME NEW n \in Note, DepositCredited(n) \/ DepositReversed(n) PROVE UNCHANGED nodeVars
  BY <1>6 DEF DepositCredited, DepositReversed, Post
<1>7. QED
  BY <1>1, <1>2, <1>3, <1>4, <1>5, <1>6 DEF Next

(* Every step keeps the account of the notes. *)
NotesInv == PlansAddUp /\ SpentOnce /\ AllAddUp

LEMMA NotesKept ==
  ASSUME IInv, NotesInv, NEW worth, AddUpTo(worth), [Next \/ OthersAct]_vars
  PROVE  NotesInv' /\ AddUpTo(worth)'
<1>1. NodeTypeOK /\ NodeTypeOK' /\ PlansAddUp' /\ PlansAddUp /\ SpentOnce /\ AllAddUp
  BY NextKeeps, PlansStay DEF IInv, WithdrawalTypeOK, NotesInv
<1>2. CASE UNCHANGED nodeVars
  <2>1. coins' = coins /\ txs' = txs
    BY <1>2 DEF nodeVars
  <2>2. SpentOnce' /\ AllAddUp' /\ AddUpTo(worth)'
    BY <1>1, <2>1 DEF SpentOnce, Real, Live, Pooled, AllAddUp, Outlay, Outlays, Assets, AddUpTo
  <2>3. QED
    BY <1>1, <2>2 DEF NotesInv
<1>3. CASE \E i \in DOMAIN txs : Mine(i) \/ Expire(i)
  BY <1>1, <1>3, MineKeepsSpentOnce, ExpireKeepsSpentOnce, MineConserves, ExpireConserves DEF NotesInv
<1>4. CASE \E tx : Offered(tx)
  BY <1>1, <1>4, OfferedKeepsSpentOnce, OfferedConserves DEF NotesInv
<1>5. QED
  BY <1>1, <1>2, <1>3, <1>4, OpenNodeSteps

ChainInv == NotesInv /\ Conserved

LEMMA ChainKept == IInv /\ ChainInv /\ [Next \/ OthersAct]_vars => ChainInv'
<1> SUFFICES ASSUME IInv, ChainInv, [Next \/ OthersAct]_vars PROVE ChainInv'
  OBVIOUS
<1>1. PICK worth : worth = Issued
  OBVIOUS
<1>2. NotesInv' /\ AddUpTo(worth)'
  BY <1>1, NotesKept DEF ChainInv, Conserved
<1>3. QED
  BY <1>1, <1>2 DEF ChainInv, Conserved, Issued

LEMMA UntouchedChain == Untouched => NotesInv /\ AddUpTo(Value(coins))
<1> SUFFICES ASSUME Untouched PROVE NotesInv /\ AddUpTo(Value(coins))
  OBVIOUS
<1>1. DOMAIN txs = {} /\ cmd = [c \in Cmd |-> NewCommand]
  BY DEF Untouched
<1>2. PlansAddUp /\ SpentOnce /\ AllAddUp
  BY <1>1, UntouchedSpentOnce DEF PlansAddUp, NewCommand, AllAddUp
<1>3. Pooled = {} /\ Live = {} /\ Assets = coins
  BY <1>1 DEF Pooled, Live, Assets
<1>4. Total(Outlays, Live) = 0
  BY <1>3, SumEmpty
<1>5. IsFiniteSet(coins) /\ Value(coins) \in Nat
  BY ValueIsNat DEF Untouched
<1>6. AddUpTo(Value(coins))
  BY <1>3, <1>4, <1>5 DEF AddUpTo
<1>7. QED
  BY <1>2, <1>6 DEF NotesInv

LEMMA InitChain == WithdrawalInit => ChainInv
<1>1. WithdrawalInit => Value(coins) = Issued
  BY DEF WithdrawalInit, Issued
<1>2. QED
  BY <1>1, InitUntouched, UntouchedChain DEF ChainInv, Conserved

-----------------------------------------------------------------------------
(* What has been debited is what was spent by the transactions that have a *)
(* row, and a row of deposits is worth what its note is.                   *)
Recorded == {i \in DOMAIN txs : \E r \in rows : r.tx = i}

Charged == Total(debited, Account) = Total(Outlays, Recorded)

RowsAreNotes == \A n \in Note : deposits[n].zat <= NoteZat[n]

LEMMA AccountsFinite == IsFiniteSet(Account)
BY WithdrawalAssumption DEF WithdrawalAssumption

LEMMA DebitCharges ==
  ASSUME IInv, Charged, NEW c \in Cmd, Debit(c)
  PROVE  Charged'
<1> DEFINE i == cmd[c].tx
<1> DEFINE a == cmd[c].account
<1> DEFINE spent == cmd[c].amount + cmd[c].fee
<1>1. /\ cmd[c].pc = "sent" /\ rows' = rows \cup {NewRowOf(c)} /\ txs' = txs
      /\ debited' = [debited EXCEPT ![a] = @ + spent]
  BY DEF Debit, CreateWithdrawalAndDebit, nodeVars
<1>2. /\ a \in Account /\ i \in DOMAIN txs /\ txs[i].by = c
      /\ txs[i].pays = cmd[c].amount /\ txs[i].fee = cmd[c].fee
  BY <1>1 DEF IInv, Sent
<1>3. NodeTypeOK /\ debited \in [Account -> Nat]
  BY DEF IInv, WithdrawalTypeOK, LedgerTypeOK
<1>4. i \notin Recorded
  <2>1. ASSUME NEW r \in rows, r.tx = i PROVE FALSE
    <3>1. RowMatchesTx(r)
      BY DEF IInv, RecordedWasBroadcast
    <3>2. QED
      BY <1>1, <1>2, <2>1, <3>1 DEF RowMatchesTx
  <2>2. QED
    BY <2>1 DEF Recorded
<1>5. Recorded' = Recorded \cup {i}
  <2>1. rows' = rows \cup {NewRowOf(c)} /\ txs' = txs /\ NewRowOf(c).tx = i /\ i \in DOMAIN txs
    BY <1>1, <1>2 DEF NewRowOf
  <2> HIDE DEF i
  <2>2. QED
    BY <2>1 DEF Recorded
<1>6. Outlays' = Outlays /\ Outlays[i] = spent /\ Outlays[i] \in Nat
      /\ \A j \in Recorded : Outlays[j] \in Nat
  BY <1>1, <1>2, <1>3, OutlayIsNat DEF Outlays, Outlay, Recorded
<1>7. IsFiniteSet(Recorded)
  BY <1>3, TxsFinite DEF Recorded
<1> HIDE DEF i, a, spent
<1>8. Total(Outlays, Recorded \cup {i}) = Outlays[i] + Total(Outlays, Recorded)
  BY <1>4, <1>6, <1>7, SumAdd
<1>9. Total(debited', Account) = Total(debited, Account) + debited'[a] - debited[a]
  <2>1. spent \in Nat
    BY <1>6
  <2>2. /\ \A b \in Account : debited[b] \in Int /\ debited'[b] \in Int
        /\ \A b \in Account \ {a} : debited'[b] = debited[b]
    BY <1>1, <1>2, <1>3, <2>1
  <2>3. QED
    BY <1>2, <2>2, AccountsFinite, SumChange
<1>10. debited'[a] = debited[a] + spent /\ debited[a] \in Nat /\ spent \in Nat
  BY <1>1, <1>2, <1>3, <1>6
<1>11. Total(debited, Account) \in Nat /\ Total(Outlays, Recorded) \in Nat
  BY <1>3, <1>6, <1>7, AccountsFinite, SumNat
<1>12. Total(debited', Account) = Total(Outlays, Recorded \cup {i})
  BY <1>6, <1>8, <1>9, <1>10, <1>11 DEF Charged
<1>13. QED
  BY <1>5, <1>6, <1>12 DEF Charged

(* Steps that debit nobody. *)
LEMMA OthersCharge ==
  ASSUME IInv, IInv', Charged, rows' = rows, debited' = debited,
         \A i \in DOMAIN txs : /\ i \in DOMAIN txs'
                               /\ txs'[i].pays = txs[i].pays /\ txs'[i].fee = txs[i].fee
  PROVE  Charged'
<1>1. NodeTypeOK /\ \A r \in rows : r.tx \in DOMAIN txs
  BY DEF IInv, WithdrawalTypeOK, RecordedWasBroadcast, RowMatchesTx
<1>2. Recorded' = Recorded
  BY <1>1 DEF Recorded
<1>3. \A i \in Recorded : Outlays'[i] = Outlays[i] /\ Outlays[i] \in Int
  BY <1>1, OutlayIsNat DEF Recorded, Outlays, Outlay
<1>4. IsFiniteSet(Recorded)
  BY <1>1, TxsFinite DEF Recorded
<1>5. Total(Outlays', Recorded) = Total(Outlays, Recorded)
  BY <1>3, <1>4, SumSame
<1>6. QED
  BY <1>2, <1>5 DEF Charged

LEMMA BooksKept ==
  ASSUME IInv, PlansAddUp, Charged, RowsAreNotes, [Next \/ OthersAct]_vars
  PROVE  Charged' /\ RowsAreNotes'
<1>1. IInv' /\ NodeTypeOK /\ deposits \in [Note -> Row]
  BY NextKeeps DEF IInv, WithdrawalTypeOK, LedgerTypeOK
<1>2. \A i \in DOMAIN txs : /\ i \in DOMAIN txs'
                            /\ txs'[i].pays = txs[i].pays /\ txs'[i].fee = txs[i].fee
  <2>1. CASE UNCHANGED nodeVars
    BY <2>1 DEF nodeVars
  <2>2. ASSUME NEW i \in DOMAIN txs, Mine(i) \/ Expire(i)
        PROVE  \A j \in DOMAIN txs : /\ j \in DOMAIN txs'
                                     /\ txs'[j].pays = txs[j].pays /\ txs'[j].fee = txs[j].fee
    <3>1. \A j \in DOMAIN txs : txs[j] \in Tx
      BY <1>1 DEF NodeTypeOK
    <3>2. QED
      BY <2>2, <3>1 DEF Mine, Expire, Tx
  <2>3. ASSUME NEW tx, Offered(tx) PROVE \A j \in DOMAIN txs : j \in DOMAIN txs' /\ txs'[j] = txs[j]
    BY <1>1, <2>3, AppendTx DEF Offered, Acceptable
  <2>4. QED
    BY <2>1, <2>2, <2>3, OpenNodeSteps
<1>3. ASSUME NEW c \in Cmd, Step(c), ~Debit(c)
      PROVE  rows' = rows /\ UNCHANGED <<deposits, debited>>
  BY <1>3
  DEF Step, Begin, TakeChangeAddress, Plan, Refuse, Submit, SubmitRejected, SubmitUnanswered,
      DebitRefused, Die, ledgerVars
<1>4. ASSUME NEW n \in Note, DepositCredited(n) \/ DepositReversed(n)
      PROVE  rows' = rows /\ UNCHANGED debited /\ RowsAreNotes'
  <2>1. PICK status \in Status : Post(n, status)
    BY <1>4 DEF DepositCredited, DepositReversed, Status
  <2>2. PICK new : new.zat = NoteZat[n] /\ deposits' = [deposits EXCEPT ![n] = new]
    BY <2>1 DEF Post, ApplyDeposit, NewRow
  <2>3. NoteZat[n] \in Nat
    BY WithdrawalAssumption, LedgerAssumption DEF WithdrawalAssumption, LedgerAssumption, Zat
  <2>4. RowsAreNotes'
    BY <1>1, <2>2, <2>3 DEF RowsAreNotes
  <2>5. QED
    BY <2>1, <2>4 DEF Post, ApplyDeposit
<1>5. CASE \E c \in Cmd : Debit(c)
  <2>1. UNCHANGED deposits
    BY <1>5 DEF Debit, CreateWithdrawalAndDebit
  <2>2. QED
    BY <1>5, <2>1, DebitCharges DEF RowsAreNotes
<1>6. CASE rows' = rows /\ UNCHANGED debited /\ RowsAreNotes'
  BY <1>1, <1>2, <1>6, OthersCharge
<1>7. CASE rows' = rows /\ UNCHANGED <<deposits, debited>>
  BY <1>6, <1>7 DEF RowsAreNotes
<1>8. ASSUME NEW a \in Account, AssignAddress(a)
      PROVE  rows' = rows /\ UNCHANGED <<deposits, debited>>
  BY <1>8 DEF AssignAddress, GetOrAssignDepositAddress, withdrawalVars
<1>9. ASSUME (\E i \in DOMAIN txs : TxMined(i) \/ TxExpired(i)) \/ OthersAct \/ UNCHANGED vars
      PROVE  rows' = rows /\ UNCHANGED <<deposits, debited>>
  BY <1>9 DEF TxMined, TxExpired, OthersAct, vars, ledgerVars, withdrawalVars
<1>10. QED
  BY <1>3, <1>4, <1>5, <1>6, <1>7, <1>8, <1>9 DEF Next

-----------------------------------------------------------------------------
(* The credits of some accounts, row by row.                               *)
CreditOfSome(B) ==
  [n \in Note |-> IF deposits[n].status = "confirmed" /\ deposits[n].account \in B
                  THEN deposits[n].zat ELSE 0]

LEMMA CreditsByRow ==
  ASSUME LedgerTypeOK, NEW sum, \A a \in Account : sum[a] = Total(Credit(a), Note)
  PROVE  Total(sum, Account) = Total(CreditOfSome(Account), Note)
<1> DEFINE Bad == {T \in SUBSET Account : Total(sum, T) # Total(CreditOfSome(T), Note)}
<1>1. SUFFICES ASSUME Bad # {} PROVE FALSE
  OBVIOUS
<1>2. PICK T \in Bad : \A U \in Bad : U \subseteq T => U = T
  <2>1. Bad \subseteq SUBSET Account
    OBVIOUS
  <2> HIDE DEF Bad
  <2>2. QED
    BY <1>1, <2>1, AccountsFinite, SmallestMember
<1>3. T \in SUBSET Account /\ Total(sum, T) # Total(CreditOfSome(T), Note)
  BY <1>2
<1>4. \A B \in SUBSET Account : \A n \in Note : CreditOfSome(B)[n] \in Int
  BY LedgerAssumption DEF LedgerAssumption, CreditOfSome, LedgerTypeOK, Row
<1>5. \A a \in Account : sum[a] \in Int
  BY CreditType, NotesFinite, SumType
<1>6. T # {}
  <2>1. \A n \in Note : CreditOfSome({})[n] = 0
    BY DEF CreditOfSome
  <2>2. Total(CreditOfSome({}), Note) = 0 /\ Total(sum, {}) = 0
    BY <2>1, NotesFinite, SumZero, SumEmpty
  <2>3. QED
    BY <1>3, <2>2
<1>7. PICK a \in T : TRUE
  BY <1>6
<1>8. T \ {a} \in SUBSET Account /\ T \ {a} \notin Bad /\ a \in Account
  <2>1. T \ {a} \in SUBSET Account /\ T \ {a} # T /\ a \in Account
    BY <1>3, <1>7
  <2> HIDE DEF Bad
  <2>2. QED
    BY <1>2, <2>1
<1>9. Total(sum, T \ {a}) = Total(CreditOfSome(T \ {a}), Note)
  BY <1>8
<1> HIDE DEF Bad
<1>10. Total(sum, T) = sum[a] + Total(sum, T \ {a})
  <2>1. IsFiniteSet(T) /\ \A b \in T : sum[b] \in Int
    BY <1>3, <1>5, AccountsFinite, FS_Subset
  <2>2. QED
    BY <1>7, <2>1, SumRemove
<1>11. Total(CreditOfSome(T), Note) = Total(Credit(a), Note) + Total(CreditOfSome(T \ {a}), Note)
  <2>1. \A n \in Note : CreditOfSome(T)[n] = Credit(a)[n] + CreditOfSome(T \ {a})[n]
    BY <1>7, LedgerAssumption DEF LedgerAssumption, CreditOfSome, Credit, LedgerTypeOK, Row
  <2>2. \A n \in Note : Credit(a)[n] \in Int /\ CreditOfSome(T \ {a})[n] \in Int
    BY <1>4, <1>8, CreditType
  <2>3. QED
    BY <2>1, <2>2, NotesFinite, SumPlus
<1>12. QED
  BY <1>3, <1>8, <1>9, <1>10, <1>11

(* Nobody is owed, or has been debited, more than was deposited: of the    *)
(* notes in paid, if no account is credited for others.                    *)
LEMMA CreditedWasDeposited ==
  ASSUME LedgerTypeOK, BooksBalance, RowsAreNotes,
         NEW paid \in SUBSET Note, \A n \in Note : deposits[n].account # NoAccount => n \in paid
  PROVE  /\ Total(balance, Account) + Total(debited, Account) <= Total(NoteZat, paid)
         /\ Total(balance, Account) \in Nat /\ Total(debited, Account) \in Nat
         /\ Total(NoteZat, paid) \in Nat
<1> DEFINE sum == [a \in Account |-> balance[a] + debited[a]]
<1>1. \A a \in Account : /\ balance[a] \in Nat /\ debited[a] \in Nat
                         /\ sum[a] = balance[a] + debited[a]
  BY DEF LedgerTypeOK
<1>2. \A a \in Account : sum[a] = Total(Credit(a), Note)
  BY DEF BooksBalance
<1> HIDE DEF sum
<1>3. Total(sum, Account) = Total(balance, Account) + Total(debited, Account)
  <2>1. \A a \in Account : balance[a] \in Int /\ debited[a] \in Int /\ sum[a] = balance[a] + debited[a]
    BY <1>1
  <2>2. QED
    BY ONLY <2>1, AccountsFinite, SumPlus
<1>4. Total(sum, Account) = Total(CreditOfSome(Account), Note)
  BY <1>2, CreditsByRow
<1>5. \A n \in Note : NoteZat[n] \in Nat
  BY WithdrawalAssumption, LedgerAssumption DEF WithdrawalAssumption, LedgerAssumption, Zat
<1>6. \A n \in Note : /\ CreditOfSome(Account)[n] \in Int /\ CreditOfSome(Account)[n] <= NoteZat[n]
                      /\ n \notin paid => CreditOfSome(Account)[n] = 0
  BY <1>5, LedgerAssumption DEF LedgerAssumption, CreditOfSome, LedgerTypeOK, Row, RowsAreNotes
<1>7. Total(CreditOfSome(Account), Note) <= Total(NoteZat, paid)
  <2>1. IsFiniteSet(Note) /\ IsFiniteSet(paid) /\ IsFiniteSet(Note \ paid)
    BY NotesFinite, FS_Subset
  <2>2. Total(CreditOfSome(Account), Note)
          = Total(CreditOfSome(Account), paid) + Total(CreditOfSome(Account), Note \ paid)
    BY <1>6, <2>1, SumSplit
  <2>3. Total(CreditOfSome(Account), Note \ paid) = 0
    BY <1>6, <2>1, SumZero
  <2>4. Total(CreditOfSome(Account), paid) <= Total(NoteZat, paid)
    BY <1>5, <1>6, <2>1, SumAtMost
  <2>5. Total(CreditOfSome(Account), paid) \in Int
    BY <1>6, <2>1, SumType
  <2>6. QED
    BY <2>2, <2>3, <2>4, <2>5
<1>8. Total(NoteZat, paid) \in Nat
  BY <1>5, NotesFinite, FS_Subset, SumNat
<1>9. QED
  BY <1>1, <1>3, <1>4, <1>7, <1>8, AccountsFinite, SumNat

LEMMA IssuedIs == Issued = Total(NoteZat, Note) + Value(Endowment) /\ Value(Endowment) \in Nat
<1> DEFINE f == [n \in Note |-> DepositCoin(n)]
<1> DEFINE paid == {f[n] : n \in Note}
<1> DEFINE v == [c \in Coin |-> c.zat]
<1>1. \A n \in Note : f[n] \in Coin /\ v[f[n]] = NoteZat[n] /\ NoteZat[n] \in Int
  BY WithdrawalAssumption, NodeAssumption, LedgerAssumption
  DEF WithdrawalAssumption, NodeAssumption, LedgerAssumption, DepositCoin, Coin, Wallet, Scope, Note, Zat
<1>2. \A m, n \in Note : f[m] = f[n] => m = n
  BY DEF DepositCoin
<1>3. paid = {DepositCoin(n) : n \in Note}
  OBVIOUS
<1>4. IsFiniteSet(paid)
  <2>1. f \in Surjection(Note, paid)
    BY DEF Surjection
  <2> HIDE DEF f, paid
  <2>2. QED
    BY <2>1, NotesFinite, FS_Surjection
<1>5. paid \in SUBSET Coin /\ Endowment \in SUBSET Coin /\ IsFiniteSet(Endowment) /\ paid \cap Endowment = {}
  BY <1>1, <1>3, WithdrawalAssumption DEF WithdrawalAssumption
<1>6. Total(v, {f[n] : n \in Note}) = Total(NoteZat, Note)
  <2> HIDE DEF f, v
  <2> QED BY <1>1, <1>2, NotesFinite, SumImage
<1>7. Value(paid) = Total(v, paid)
  <2> HIDE DEF paid
  <2> QED BY <1>4, <1>5, ValueIsTotal
<1>8. Value(paid \cup Endowment) = Value(paid) + Value(Endowment) /\ Value(Endowment) \in Nat
  <2> HIDE DEF paid
  <2> QED BY <1>4, <1>5, ValueOfBoth, ValueIsNat
<1>9. QED
  BY <1>3, <1>6, <1>7, <1>8 DEF Issued

(* What was deposited, and is credited to accounts, pays for what they are *)
(* owed.                                                                   *)
LEMMA CoveredState ==
  ASSUME IInv, Charged, RowsAreNotes, BooksBalance,
         NEW paid \in SUBSET Note, \A n \in Note : deposits[n].account # NoAccount => n \in paid,
         AddUpTo(Total(NoteZat, paid) + Value(Endowment))
  PROVE  LiabilitiesCovered
<1>1. NodeTypeOK /\ LedgerTypeOK
  BY DEF IInv, WithdrawalTypeOK
<1> DEFINE B == Total(balance, Account)
<1> DEFINE D == Total(debited, Account)
<1> DEFINE N == Total(NoteZat, paid)
<1> DEFINE E == Value(Endowment)
<1> DEFINE V == Value(Assets)
<1>2. B + D <= N /\ B \in Nat /\ D \in Nat /\ N \in Nat
  BY <1>1, CreditedWasDeposited
<1>3. V + Total(Outlays, Live) = N + E /\ E \in Nat /\ V \in Nat
  BY <1>1, IssuedIs, AssetsAreCoins, ValueIsNat DEF AddUpTo
<1>4. D = Total(Outlays, Recorded)
  BY DEF Charged
<1>5. /\ Live \in SUBSET DOMAIN txs /\ Recorded \in SUBSET DOMAIN txs
      /\ Unrecorded \subseteq Live /\ Live \ Unrecorded \subseteq Recorded
  BY DEF Live, Recorded, Unrecorded
<1>6. /\ IsFiniteSet(Live) /\ IsFiniteSet(Recorded) /\ IsFiniteSet(Unrecorded)
      /\ \A i \in DOMAIN txs : Outlays[i] \in Nat
  BY <1>1, <1>5, TxsFinite, OutlayIsNat, FS_Subset
<1>7. Total(Outlays, Live) = Total(Outlays, Unrecorded) + Total(Outlays, Live \ Unrecorded)
  <2>1. \A i \in Live : Outlays[i] \in Int
    BY <1>5, <1>6
  <2>2. QED
    BY <1>5, <1>6, <2>1, SumSplit
<1>8. Total(Outlays, Live \ Unrecorded) <= Total(Outlays, Recorded)
  <2>1. \A i \in Recorded : Outlays[i] \in Nat
    BY <1>5, <1>6
  <2>2. QED
    BY <1>5, <1>6, <2>1, SumOfSome
<1>9. /\ Total(Outlays, Unrecorded) \in Nat /\ Total(Outlays, Live \ Unrecorded) \in Nat
      /\ Total(Outlays, Recorded) \in Nat
  <2>1. IsFiniteSet(Live \ Unrecorded)
    BY <1>6, FS_Difference
  <2>2. QED
    BY <1>5, <1>6, <2>1, SumNat
<1>10. Total([i \in Unrecorded |-> Outlay(i)], Unrecorded) = Total(Outlays, Unrecorded)
  <2> DEFINE w == [i \in Unrecorded |-> Outlay(i)]
  <2>1. \A i \in Unrecorded : Outlays[i] \in Int /\ w[i] = Outlays[i]
    BY <1>5, <1>6 DEF Outlays
  <2> HIDE DEF w
  <2>2. Total(w, Unrecorded) = Total(Outlays, Unrecorded)
    BY <1>6, <2>1, SumSame
  <2>3. QED
    BY <2>2 DEF w
<1> HIDE DEF B, D, N, E, V
<1>11. B + E <= V + Total(Outlays, Unrecorded)
  BY <1>2, <1>3, <1>4, <1>7, <1>8, <1>9
<1>12. QED
  BY <1>10, <1>11 DEF B, E, V, LiabilitiesCovered

(* No note is spent by two transactions that are mined or may still be,    *)
(* and one that waits to be mined finds its notes unspent.                 *)
THEOREM NeverSpentTwice == OpenSpec => []SpentOnce
<1>1. ChainInv => SpentOnce
  BY DEF ChainInv, NotesInv
<1>2. QED
  BY <1>1, InitIInv, InitChain, NextKeeps, ChainKept, PTL DEF OpenSpec

LEMMA UntouchedBooks == Untouched => Charged /\ RowsAreNotes
<1> SUFFICES ASSUME Untouched PROVE Charged /\ RowsAreNotes
  OBVIOUS
<1>1. /\ \A a \in Account : debited[a] = 0
      /\ \A n \in Note : deposits[n].zat = 0
      /\ DOMAIN txs = {}
  BY DEF Untouched, LedgerInit, NoRow
<1>2. \A n \in Note : NoteZat[n] \in Nat
  BY WithdrawalAssumption, LedgerAssumption DEF WithdrawalAssumption, LedgerAssumption, Zat
<1>3. Total(debited, Account) = 0
  BY <1>1, AccountsFinite, SumZero
<1>4. Recorded = {}
  BY <1>1 DEF Recorded
<1>5. Total(Outlays, Recorded) = 0
  BY <1>4, SumEmpty
<1>6. QED
  BY <1>1, <1>2, <1>3, <1>5 DEF Charged, RowsAreNotes

(* The wallets can pay what is owed to the accounts, and keep what is the  *)
(* exchange's own, but for what was sent and not debited, whatever         *)
(* commands and others do to each other and wherever they stop.            *)
THEOREM LiabilitiesAlwaysCovered == OpenSpec => []LiabilitiesCovered
<1> DEFINE Books == ChainInv /\ Charged /\ RowsAreNotes
<1>1. WithdrawalInit => Books
  BY InitUntouched, InitChain, UntouchedBooks
<1>2. IInv /\ Books /\ [Next \/ OthersAct]_vars => Books'
  BY ChainKept, BooksKept DEF ChainInv, NotesInv
<1>3. IInv /\ Books /\ BooksBalance => LiabilitiesCovered
  BY IssuedIs, CoveredState DEF ChainInv, Conserved
<1> HIDE DEF Books
<1>4. QED
  BY <1>1, <1>2, <1>3, InitIInv, NextKeeps, WithdrawalBooksBalance, PTL DEF OpenSpec

-----------------------------------------------------------------------------
(* Careful operators: one withdrawal of an account at a time, no mishap.   *)

OnePerAccount ==
  \A c, d \in Cmd : c # d /\ cmd[c].pc \in Running /\ cmd[d].pc \in Running =>
     cmd[c].account # cmd[d].account

(* What a command has seen is still there when it comes to the debit. *)
Funded ==
  \A c \in Cmd :
     /\ cmd[c].pc \in Running => balance[cmd[c].account] >= cmd[c].seen
     /\ cmd[c].pc \in {"planned", "sent"} => cmd[c].seen >= cmd[c].amount + cmd[c].fee

Settled ==
  \A i \in DOMAIN txs : txs[i].by \in Cmd =>
     \/ cmd[txs[i].by].pc = "sent" /\ cmd[txs[i].by].tx = i
     \/ \E r \in rows : r.tx = i

Careful == OnePerAccount /\ Funded /\ Settled

(* A step of one command that keeps the ledger and sends nothing. *)
LEMMA CarefulLocal ==
  ASSUME IInv, Careful, NEW c \in Cmd, UNCHANGED <<ledgerVars, nodeVars, rows>>,
         \A d \in Cmd \ {c} : cmd'[d] = cmd[d], cmd[c].pc # "sent", cmd'[c].pc # "sent",
         cmd'[c].pc \in Running =>
            /\ balance[cmd'[c].account] >= cmd'[c].seen
            /\ \A d \in Cmd \ {c} : cmd[d].pc \in Running => cmd[d].account # cmd'[c].account,
         cmd'[c].pc = "planned" => cmd'[c].seen >= cmd'[c].amount + cmd'[c].fee
  PROVE  Careful'
<1>1. OnePerAccount'
  BY DEF Careful, OnePerAccount
<1>2. Funded'
  BY DEF Careful, Funded, ledgerVars
<1>3. Settled'
  <2>1. SUFFICES ASSUME NEW i \in DOMAIN txs, txs[i].by \in Cmd
                 PROVE  \/ cmd'[txs[i].by].pc = "sent" /\ cmd'[txs[i].by].tx = i
                        \/ \E r \in rows : r.tx = i
    BY DEF Settled, nodeVars
  <2>2. QED
    BY <2>1 DEF Careful, Settled
<1>4. QED
  BY <1>1, <1>2, <1>3 DEF Careful

LEMMA CarefulSmallStep ==
  ASSUME IInv, Careful, Solo, mishaps' = 0, NEW c \in Cmd,
         \/ \E a \in Account, amount \in Amount : Begin(c, a, amount)
         \/ TakeChangeAddress(c) \/ Refuse(c) \/ SubmitRejected(c) \/ DebitRefused(c) \/ Die(c)
         \/ SubmitUnanswered(c)
  PROVE  Careful'
<1>1. /\ cmd \in [Cmd -> Command] /\ cmd[c] \in Command
      /\ mishaps \in Nat /\ balance \in [Account -> Nat]
  BY WithdrawalAssumption DEF WithdrawalAssumption, IInv, WithdrawalTypeOK, LedgerTypeOK
<1>2. ASSUME NEW a \in Account, NEW amount \in Amount, Begin(c, a, amount)
      PROVE  Careful'
  <2>1. PICK how \in {"refused", "begun"} :
          cmd' = [cmd EXCEPT ![c].pc = how, ![c].account = a, ![c].amount = amount, ![c].seen = balance[a]]
    BY <1>2 DEF Begin
  <2>2. /\ \A d \in Cmd \ {c} : cmd'[d] = cmd[d]
        /\ cmd'[c].pc = how /\ cmd'[c].account = a /\ cmd'[c].seen = balance[a]
    BY <1>1, <2>1 DEF Command
  <2>3. cmd[c].pc = "new" /\ UNCHANGED <<ledgerVars, nodeVars, rows>> /\ Alone(c, a)
    BY <1>2 DEF Begin
  <2>4. \A d \in Cmd \ {c} : cmd[d].pc \in Running => cmd[d].account # a
    BY <2>3 DEF Alone, Running, Over
  <2>5. QED
    BY <1>1, <2>2, <2>3, <2>4, CarefulLocal
<1>3. CASE TakeChangeAddress(c)
  <2>1. /\ \A d \in Cmd \ {c} : cmd'[d] = cmd[d]
        /\ cmd'[c].pc = "addressed" /\ cmd'[c].account = cmd[c].account /\ cmd'[c].seen = cmd[c].seen
    BY <1>1, <1>3 DEF TakeChangeAddress, Command
  <2>2. cmd[c].pc = "begun" /\ UNCHANGED <<ledgerVars, nodeVars, rows>>
    BY <1>3 DEF TakeChangeAddress
  <2>3. balance[cmd[c].account] >= cmd[c].seen
    BY <2>2 DEF Careful, Funded, Running
  <2>4. \A d \in Cmd \ {c} : cmd[d].pc \in Running => cmd[d].account # cmd[c].account
    BY <2>2 DEF Careful, OnePerAccount, Running
  <2>5. QED
    BY <2>1, <2>2, <2>3, <2>4, CarefulLocal
<1>4. CASE Refuse(c) \/ SubmitRejected(c)
  <2>1. PICK how \in {"refused", "failed"} : Stop(c, how)
    BY <1>4 DEF Refuse, SubmitRejected
  <2>2. (\A d \in Cmd \ {c} : cmd'[d] = cmd[d]) /\ cmd'[c].pc = how
    BY <1>1, <2>1 DEF Stop, Command
  <2>3. cmd[c].pc # "sent" /\ UNCHANGED <<ledgerVars, nodeVars, rows>>
    BY <1>4 DEF Refuse, SubmitRejected
  <2>4. QED
    BY <2>2, <2>3, CarefulLocal DEF Running
<1>5. ~DebitRefused(c)
  <2>1. ASSUME DebitRefused(c) PROVE FALSE
    <3>1. cmd[c].pc = "sent" /\ balance[cmd[c].account] < cmd[c].amount + cmd[c].fee
      BY <2>1 DEF DebitRefused
    <3>2. /\ balance[cmd[c].account] >= cmd[c].seen /\ cmd[c].seen >= cmd[c].amount + cmd[c].fee
          /\ cmd[c].account \in Account
      BY <3>1 DEF Careful, Funded, Running, IInv, Sent
    <3>3. balance[cmd[c].account] \in Nat /\ cmd[c].seen \in Nat /\ cmd[c].amount + cmd[c].fee \in Nat
      BY <1>1, <3>2 DEF Command
    <3>4. QED
      BY <3>1, <3>2, <3>3
  <2>2. QED
    BY <2>1
<1>6. ~Die(c) /\ ~SubmitUnanswered(c)
  BY <1>1 DEF Die, SubmitUnanswered
<1>7. QED
  BY <1>2, <1>3, <1>4, <1>5, <1>6

LEMMA CarefulPlan ==
  ASSUME IInv, Careful, NEW c \in Cmd, Plan(c)
  PROVE  Careful'
<1>1. PICK listed \in Listings("hot") : \E notes \in Selections(listed, cmd[c].amount, 1) :
        /\ Fits(c, RequiredFeeSend(Cardinality(notes), 2))
        /\ \E rest \in 0..Supply : Planned(c, notes, rest, RequiredFeeSend(Cardinality(notes), 2))
  BY DEF Plan
<1>2. PICK notes \in Selections(listed, cmd[c].amount, 1), rest \in 0..Supply :
        /\ Fits(c, RequiredFeeSend(Cardinality(notes), 2))
        /\ Planned(c, notes, rest, RequiredFeeSend(Cardinality(notes), 2))
  BY <1>1
<1> DEFINE fee == RequiredFeeSend(Cardinality(notes), 2)
<1>3. cmd[c].seen >= cmd[c].amount + fee
  BY <1>2 DEF Fits
<1>4. cmd' = [cmd EXCEPT ![c].pc = "planned", ![c].inputs = notes, ![c].rest = rest, ![c].fee = fee]
  BY <1>2 DEF Planned
<1> HIDE DEF fee
<1>5. cmd \in [Cmd -> Command] /\ cmd[c] \in Command
  BY DEF IInv, WithdrawalTypeOK
<1>6. /\ \A d \in Cmd \ {c} : cmd'[d] = cmd[d]
      /\ cmd'[c].pc = "planned" /\ cmd'[c].account = cmd[c].account /\ cmd'[c].seen = cmd[c].seen
      /\ cmd'[c].amount = cmd[c].amount /\ cmd'[c].fee = fee
  BY <1>4, <1>5 DEF Command
<1>7. cmd[c].pc = "addressed" /\ UNCHANGED <<ledgerVars, nodeVars, rows>>
  BY DEF Plan
<1>8. balance[cmd[c].account] >= cmd[c].seen
  BY <1>7 DEF Careful, Funded, Running
<1>9. \A d \in Cmd \ {c} : cmd[d].pc \in Running => cmd[d].account # cmd[c].account
  BY <1>7 DEF Careful, OnePerAccount, Running
<1>10. QED
  BY <1>3, <1>6, <1>7, <1>8, <1>9, CarefulLocal

LEMMA CarefulSubmit ==
  ASSUME IInv, Careful, NEW c \in Cmd, Submit(c)
  PROVE  Careful'
<1>1. cmd[c].pc = "planned" /\ Offer(c) /\ UNCHANGED <<ledgerVars, rows>>
  BY DEF Submit
<1>2. /\ DOMAIN txs' = DOMAIN txs \cup {NextTx}
      /\ \A i \in DOMAIN txs : txs'[i] = txs[i]
      /\ txs'[NextTx].by = c
  BY <1>1, AcceptTypes
<1>3. cmd \in [Cmd -> Command] /\ cmd[c] \in Command
  BY DEF IInv, WithdrawalTypeOK
<1>4. /\ \A d \in Cmd \ {c} : cmd'[d] = cmd[d]
      /\ cmd'[c].pc = "sent" /\ cmd'[c].tx = NextTx
      /\ cmd'[c].account = cmd[c].account /\ cmd'[c].seen = cmd[c].seen
      /\ cmd'[c].amount = cmd[c].amount /\ cmd'[c].fee = cmd[c].fee
  BY <1>3 DEF Submit, Command
<1>5. OnePerAccount'
  BY <1>1, <1>4 DEF Careful, OnePerAccount, Running
<1>6. Funded'
  BY <1>1, <1>4 DEF Careful, Funded, Running, ledgerVars
<1>7. Settled'
  <2>1. SUFFICES ASSUME NEW i \in DOMAIN txs', txs'[i].by \in Cmd
                 PROVE  \/ cmd'[txs'[i].by].pc = "sent" /\ cmd'[txs'[i].by].tx = i
                        \/ \E r \in rows : r.tx = i
    BY <1>1 DEF Settled
  <2>2. CASE i \in DOMAIN txs
    <3>1. txs'[i] = txs[i] /\ rows' = rows
      BY <1>1, <1>2, <2>2
    <3>2. QED
      BY <1>1, <1>4, <2>1, <2>2, <3>1 DEF Careful, Settled
  <2>3. CASE i = NextTx
    BY <1>2, <1>4, <2>3
  <2>4. QED
    BY <1>2, <2>2, <2>3
<1>8. QED
  BY <1>5, <1>6, <1>7 DEF Careful

LEMMA CarefulDebit ==
  ASSUME IInv, Careful, NEW c \in Cmd, Debit(c)
  PROVE  Careful'
<1>1. /\ cmd[c].pc = "sent" /\ cmd' = [cmd EXCEPT ![c].pc = "done"]
      /\ CreateWithdrawalAndDebit(cmd[c].account, cmd[c].amount, cmd[c].fee)
      /\ rows' = rows \cup {NewRowOf(c)} /\ txs' = txs
  BY DEF Debit, Stop, nodeVars
<1>2. cmd \in [Cmd -> Command] /\ cmd[c] \in Command /\ balance \in [Account -> Nat]
  BY DEF IInv, WithdrawalTypeOK, LedgerTypeOK
<1>3. (\A d \in Cmd \ {c} : cmd'[d] = cmd[d]) /\ cmd'[c].pc = "done"
  BY <1>1, <1>2 DEF Command
<1>4. OnePerAccount'
  BY <1>3 DEF Careful, OnePerAccount, Running
<1>5. Funded'
  <2>1. SUFFICES ASSUME NEW d \in Cmd
                 PROVE  /\ cmd'[d].pc \in Running => balance'[cmd'[d].account] >= cmd'[d].seen
                        /\ cmd'[d].pc \in {"planned", "sent"} => cmd'[d].seen >= cmd'[d].amount + cmd'[d].fee
    BY DEF Funded
  <2>2. CASE d = c
    BY <1>3, <2>2 DEF Running
  <2>3. CASE d # c /\ cmd[d].pc \in Running
    <3>1. cmd[d].account # cmd[c].account /\ cmd[d].account \in Account
      BY <1>1, <2>3 DEF Careful, OnePerAccount, Running, IInv, Started
    <3>2. balance'[cmd[d].account] = balance[cmd[d].account]
      BY <1>1, <1>2, <3>1 DEF CreateWithdrawalAndDebit
    <3>3. QED
      BY <1>3, <2>3, <3>2 DEF Careful, Funded
  <2>4. CASE d # c /\ cmd[d].pc \notin Running
    BY <1>3, <2>4 DEF Running
  <2>5. QED
    BY <2>2, <2>3, <2>4
<1>6. Settled'
  <2>1. SUFFICES ASSUME NEW i \in DOMAIN txs, txs[i].by \in Cmd
                 PROVE  \/ cmd'[txs[i].by].pc = "sent" /\ cmd'[txs[i].by].tx = i
                        \/ \E r \in rows' : r.tx = i
    BY <1>1 DEF Settled
  <2>3. CASE txs[i].by = c /\ cmd[c].tx = i
    <3>1. NewRowOf(c) \in rows' /\ NewRowOf(c).tx = i
      BY <1>1, <2>3 DEF NewRowOf
    <3>2. QED
      BY <3>1
  <2>4. CASE txs[i].by # c \/ cmd[c].tx # i
    BY <1>1, <1>3, <2>1, <2>4 DEF Careful, Settled
  <2>5. QED
    BY <2>3, <2>4
<1>7. QED
  BY <1>4, <1>5, <1>6 DEF Careful

(* Posting an event only adds to balances, unless the row was confirmed.   *)
LEMMA PostOnlyAdds ==
  ASSUME LedgerTypeOK, NEW n \in Note, NEW zat \in Nat, NEW who, NEW has, NEW status,
         deposits[n].status # "confirmed", ApplyDeposit(n, zat, who, has, status),
         NEW a \in Account
  PROVE  balance'[a] >= balance[a]
<1> DEFINE new == NewRow(n, zat, who, has, status)
<1>1. deposits[n].status # "confirmed" /\ balance' = Posted(deposits[n], new)
  BY DEF ApplyDeposit
<1>2. AfterTakingBack(deposits[n], new) = balance
  BY <1>1 DEF AfterTakingBack, TakesBack
<1>3. new.zat \in Nat
  BY DEF NewRow
<1> HIDE DEF new
<1>4. balance' = [balance EXCEPT ![new.account] = @ + new.zat] \/ balance' = balance
  BY <1>1, <1>2 DEF Posted
<1>5. balance \in [Account -> Nat]
  BY DEF LedgerTypeOK
<1>6. CASE balance' = [balance EXCEPT ![new.account] = @ + new.zat] /\ new.account = a
  <2>1. balance'[a] = balance[a] + new.zat /\ balance[a] \in Nat
    BY <1>5, <1>6
  <2>2. QED
    BY <1>3, <2>1
<1>7. CASE balance'[a] = balance[a]
  BY <1>5, <1>7
<1>8. QED
  BY <1>4, <1>5, <1>6, <1>7

(* A step of anybody else: balances grow at most, and no transaction of a  *)
(* command is new.                                                         *)
LEMMA CarefulBystanders ==
  ASSUME IInv, IInv', Careful, cmd' = cmd, rows' = rows,
         \A a \in Account : balance'[a] >= balance[a],
         \A i \in DOMAIN txs' : txs'[i].by \in Cmd => i \in DOMAIN txs /\ txs'[i].by = txs[i].by
  PROVE  Careful'
<1>1. OnePerAccount' /\ Settled'
  BY DEF Careful, OnePerAccount, Settled
<1>2. Funded'
  <2>1. SUFFICES ASSUME NEW c \in Cmd, cmd[c].pc \in Running
                 PROVE  balance'[cmd[c].account] >= cmd[c].seen
    BY DEF Careful, Funded
  <2>2. cmd[c].account \in Account /\ balance[cmd[c].account] >= cmd[c].seen
    BY <2>1 DEF Careful, Funded, IInv, Started
  <2>3. balance \in [Account -> Nat] /\ balance' \in [Account -> Nat] /\ cmd[c] \in Command
    BY DEF IInv, WithdrawalTypeOK, LedgerTypeOK
  <2>4. /\ balance'[cmd[c].account] >= balance[cmd[c].account] /\ balance[cmd[c].account] \in Nat
        /\ cmd[c].seen \in Nat /\ balance'[cmd[c].account] \in Nat
    BY <2>2, <2>3 DEF Command
  <2>5. QED
    BY <2>2, <2>4
<1>3. QED
  BY <1>1, <1>2 DEF Careful

LEMMA CarefulWorld ==
  ASSUME IInv, Careful,
         \/ \E a \in Account : AssignAddress(a)
         \/ \E n \in Note : DepositCredited(n)
         \/ \E i \in DOMAIN txs : TxMined(i) \/ TxExpired(i)
         \/ OthersAct
         \/ UNCHANGED vars
  PROVE  Careful'
<1>1. cmd' = cmd /\ rows' = rows /\ IInv'
  BY NextKeeps
  DEF Next, AssignAddress, DepositCredited, Post, TxMined, TxExpired, OthersAct, vars, withdrawalVars
<1>2. LedgerTypeOK /\ balance \in [Account -> Nat] /\ NodeTypeOK
  BY DEF IInv, WithdrawalTypeOK, LedgerTypeOK
<1>3. \A a \in Account : balance'[a] >= balance[a]
  <2>1. ASSUME NEW n \in Note, DepositCredited(n) PROVE \A a \in Account : balance'[a] >= balance[a]
    <3>1. /\ deposits[n].status # "confirmed"
          /\ ApplyDeposit(n, NoteZat[n], Payee[n], TRUE, "confirmed")
      BY <2>1 DEF DepositCredited, Post
    <3>2. NoteZat[n] \in Nat
      BY WithdrawalAssumption, LedgerAssumption DEF WithdrawalAssumption, LedgerAssumption, Zat
    <3>3. QED
      BY <1>2, <3>1, <3>2, PostOnlyAdds
  <2>2. CASE balance' = balance
    BY <1>2, <2>2
  <2>3. QED
    BY <2>1, <2>2
    DEF AssignAddress, GetOrAssignDepositAddress, TxMined, TxExpired, OthersAct, vars, ledgerVars
<1>4. \A i \in DOMAIN txs' : txs'[i].by \in Cmd => i \in DOMAIN txs /\ txs'[i].by = txs[i].by
  <2>1. \A j \in DOMAIN txs : txs[j] \in Tx
    BY <1>2 DEF NodeTypeOK
  <2>2. ASSUME NEW i \in DOMAIN txs, TxMined(i) \/ TxExpired(i)
        PROVE  DOMAIN txs' = DOMAIN txs /\ \A j \in DOMAIN txs : txs'[j].by = txs[j].by
    BY <2>1, <2>2 DEF TxMined, TxExpired, Mine, Expire, Tx
  <2>3. CASE OthersAct /\ ~UNCHANGED txs
    <3> DEFINE tx == txs'[NextTx]
    <3>1. /\ txs' = Append(txs, tx) /\ tx \in Tx /\ IsFiniteSet(tx.outputs) /\ tx.by \notin Cmd
          /\ coins' = coins
      BY <2>3 DEF OthersAct, Acceptable
    <3>2. /\ DOMAIN txs' = DOMAIN txs \cup {NextTx}
          /\ \A i \in DOMAIN txs : txs'[i] = txs[i]
      <4> HIDE DEF tx
      <4>1. QED
        BY <1>2, <3>1, AppendTx
    <3>3. QED
      BY <3>1, <3>2
  <2>4. CASE UNCHANGED txs
    BY <2>4
  <2>5. QED
    BY <2>2, <2>3, <2>4 DEF AssignAddress, DepositCredited, Post, vars, nodeVars
<1>5. QED
  BY <1>1, <1>3, <1>4, CarefulBystanders

(* If operators run one withdrawal of an account at a time and nothing     *)
(* goes wrong between reading the balance and debiting it, every payment   *)
(* the chain has or may still take is debited once its command is over,    *)
(* whatever others spend meanwhile.                                        *)
THEOREM CarefulIsDebited ==
  ASSUME Solo, MaxMishaps = 0
  PROVE  OpenSpec => []PaidIsDebited
<1>1. WithdrawalInit => Careful
  <2>1. WithdrawalInit => cmd = [c \in Cmd |-> NewCommand] /\ DOMAIN txs = {}
    BY DEF WithdrawalInit
  <2>2. QED
    BY <2>1 DEF Careful, OnePerAccount, Funded, Settled, NewCommand, Running
<1>2. IInv /\ Careful /\ [Next \/ OthersAct]_vars => Careful'
  <2> SUFFICES ASSUME IInv, Careful, [Next \/ OthersAct]_vars PROVE Careful'
    OBVIOUS
  <2>1. mishaps' = 0
    BY NextKeeps DEF IInv, WithdrawalTypeOK
  <2>2. ASSUME NEW c \in Cmd, Step(c) PROVE Careful'
    BY <2>2, <2>1, CarefulSmallStep, CarefulPlan, CarefulSubmit, CarefulDebit DEF Step
  <2>3. \A n \in Note : ~DepositReversed(n)
    BY DEF DepositReversed, IInv, WithdrawalTypeOK
  <2>4. QED
    BY <2>2, <2>3, CarefulWorld DEF Next
<1>3. IInv /\ Careful => PaidIsDebited
  <2> SUFFICES ASSUME IInv, Careful, NEW i \in Live, txs[i].by \in Cmd, cmd[txs[i].by].pc \in Over
               PROVE  \E r \in rows : r.tx = i
    BY DEF PaidIsDebited
  <2>1. QED
    BY DEF Careful, Settled, Live, Over
<1>4. QED
  BY <1>1, <1>2, <1>3, InitIInv, NextKeeps, PTL DEF OpenSpec

=============================================================================
