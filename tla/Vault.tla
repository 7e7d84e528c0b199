-------------------------------- MODULE Vault --------------------------------
(***************************************************************************)
(* What the commands that spend promise together: money leaves the two     *)
(* wallets only as a payment a withdrawal was asked for, once, and as      *)
(* fees; it moves from cold to hot only as a transfer somebody planned,    *)
(* once; and it moves from hot to cold only in sweeps, which pay nobody.   *)
(***************************************************************************)
EXTENDS Integers

CONSTANTS Payer, Carrier, Asked, Ordered, Worth

VARIABLES
  hot, cold,  \* what the wallets hold on the chain
  fees,       \* what the network has taken
  paid,       \* Payer -> what was paid for it
  moved       \* Carrier -> what it brought to the hot wallet

vaultVars == <<hot, cold, fees, paid, moved>>

VaultInit ==
  /\ hot \in 0..Worth /\ cold \in 0..Worth
  /\ fees = 0
  /\ paid = [p \in Payer |-> 0]
  /\ moved = [c \in Carrier |-> 0]

Pay(p) ==
  /\ paid[p] = 0
  /\ \E amount \in Asked, fee \in 1..Worth :
        /\ amount + fee <= hot
        /\ hot' = hot - amount - fee
        /\ fees' = fees + fee
        /\ paid' = [paid EXCEPT ![p] = amount]
  /\ UNCHANGED <<cold, moved>>

Merge ==
  /\ \E fee \in 1..hot : hot' = hot - fee /\ fees' = fees + fee
  /\ UNCHANGED <<cold, paid, moved>>

Store ==
  /\ \E amount, fee \in 1..hot :
        /\ amount + fee <= hot
        /\ hot' = hot - amount - fee
        /\ cold' = cold + amount
        /\ fees' = fees + fee
  /\ UNCHANGED <<paid, moved>>

TopUp(c) ==
  /\ moved[c] = 0
  /\ \E amount \in Ordered, fee \in 1..Worth :
        /\ amount + fee <= cold
        /\ cold' = cold - amount - fee
        /\ hot' = hot + amount
        /\ fees' = fees + fee
        /\ moved' = [moved EXCEPT ![c] = amount]
  /\ UNCHANGED paid

VaultNext ==
  \/ \E p \in Payer : Pay(p)
  \/ Merge
  \/ Store
  \/ \E c \in Carrier : TopUp(c)

VaultSpec == VaultInit /\ [][VaultNext]_vaultVars

=============================================================================
