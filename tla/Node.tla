-------------------------------- MODULE Node --------------------------------
(***************************************************************************)
(* The parts of the world a spending command talks to, modelled from how   *)
(* the code uses them: junocashd behind juno-broadcast (which transactions *)
(* are accepted, mined or expire) and the notes juno-scan lists.           *)
(*                                                                         *)
(* A coin is a note of one of the two wallets on the chain, paid to the    *)
(* address with index out of its scope by transaction txs[tx]; coins paid  *)
(* by depositors carry tx = 0 and are told apart by out.                   *)
(***************************************************************************)
EXTENDS Integers, Sequences, FiniteSets

CONSTANTS
  Sender,   \* who submits transactions
  Supply    \* all the zatoshis there are

ASSUME NodeAssumption == Supply \in Nat

VARIABLES
  coins,    \* notes mined and not spent by a mined transaction
  txs       \* every transaction the node has accepted, in order

nodeVars == <<coins, txs>>

Wallet == {"hot", "cold"}
Scope  == {"external", "internal"}

Coin == [wallet : Wallet, scope : Scope, tx : Nat, out : Nat, zat : 0..Supply]

Tx == [by      : Sender,               \* whose transaction it is (history)
       inputs  : SUBSET Coin,
       outputs : SUBSET Coin,          \* those that come back to a wallet
       pays    : Nat,                  \* what leaves both, without the fee
       fee     : Nat,
       state   : {"pooled", "mined", "expired"}]

NodeTypeOK ==
  /\ coins \subseteq Coin /\ IsFiniteSet(coins)
  /\ txs \in Seq(Tx) /\ \A i \in DOMAIN txs : IsFiniteSet(txs[i].outputs)

Pooled == {i \in DOMAIN txs : txs[i].state = "pooled"}
Live   == {i \in DOMAIN txs : txs[i].state \in {"pooled", "mined"}}

NextTx == Len(txs) + 1

(* The node takes a transaction unless it spends what another one does. *)
Spendable(inputs) ==
  /\ inputs \subseteq coins
  /\ \A i \in Pooled : inputs \cap txs[i].inputs = {}

Accept(sender, inputs, outputs, pays, fee) ==
  /\ Spendable(inputs)
  /\ txs' = Append(txs, [by |-> sender, inputs |-> inputs, outputs |-> outputs,
                         pays |-> pays, fee |-> fee, state |-> "pooled"])
  /\ UNCHANGED coins

Mine(i) ==
  /\ i \in Pooled
  /\ txs' = [txs EXCEPT ![i].state = "mined"]
  /\ coins' = (coins \ txs[i].inputs) \cup txs[i].outputs

(* The chain passed the expiry height of the plan before it was mined. *)
Expire(i) ==
  /\ i \in Pooled
  /\ txs' = [txs EXCEPT ![i].state = "expired"]
  /\ UNCHANGED coins

(* What listSpendableNotes may answer: notes can be missing because they   *)
(* are pending-spent, too young for --minconf, or not scanned yet; a note  *)
(* whose spend the scanner has not noticed is still listed.                *)
Listings(w) == SUBSET {c \in coins : c.wallet = w}

=============================================================================
