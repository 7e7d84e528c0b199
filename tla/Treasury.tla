------------------------------- MODULE Treasury -------------------------------
(***************************************************************************)
(* Everything that spends, at once: withdrawals, sweeps and transfers from *)
(* the cold wallet, on one ledger, one table of wallets and one chain, and *)
(* nothing that keeps them apart but what each does by itself.             *)
(***************************************************************************)
EXTENDS Withdrawal, Sweep, ColdToHot

ASSUME TreasuryAssumption ==
  /\ Cmd \cap Sweeper = {} /\ Cmd \cap Transfer = {} /\ Sweeper \cap Transfer = {}
  /\ Sender = Cmd \cup Sweeper \cup Transfer
  /\ Value({DepositCoin(n) : n \in Note} \cup Endowment) <= Supply

treasuryVars == <<vars, sweep, transfer>>

TreasuryTypeOK == WithdrawalTypeOK /\ SweepTypeOK /\ ColdToHotTypeOK

TreasuryInit == WithdrawalInit /\ SweepInit /\ ColdToHotInit

TreasuryNext ==
  \/ Next /\ UNCHANGED <<sweep, transfer>>
  \/ \E s \in Sweeper : SweepStep(s) /\ UNCHANGED <<ledgerVars, withdrawalVars, transfer>>
  \/ \E t \in Transfer : TransferStep(t) /\ UNCHANGED <<ledgerVars, withdrawalVars, sweep>>

TreasurySpec == TreasuryInit /\ [][TreasuryNext]_treasuryVars

-----------------------------------------------------------------------------
(* The wallets implement Vault: what is mined counts. *)
MinedOf(sender) == {i \in DOMAIN txs : txs[i].state = "mined" /\ txs[i].by = sender}
HotOutputs(i) == {c \in txs[i].outputs : c.wallet = "hot"}

AbstractVault ==
  INSTANCE Vault WITH
    Payer   <- Cmd,
    Carrier <- Transfer,
    Asked   <- Amount,
    Ordered <- MovedAmount,
    Worth   <- Supply,
    hot     <- Value({c \in coins : c.wallet = "hot"}),
    cold    <- Value({c \in coins : c.wallet = "cold"}),
    fees    <- Total([i \in DOMAIN txs |-> txs[i].fee], {i \in DOMAIN txs : txs[i].state = "mined"}),
    paid    <- [c \in Cmd |-> Total([i \in DOMAIN txs |-> txs[i].pays], MinedOf(c))],
    moved   <- [t \in Transfer |-> Total([i \in DOMAIN txs |-> Value(HotOutputs(i))], MinedOf(t))]

(* Every block takes money out of the wallets, or from one to the other,   *)
(* only as one payment, sweep or transfer of Vault: nothing is spent       *)
(* twice, no fee is lost, no change goes to the wrong wallet, no payment   *)
(* or transfer happens twice, whatever competes for the notes.             *)
ImplementsVault == AbstractVault!VaultSpec

=============================================================================
