------------------------------- MODULE Wallets -------------------------------
(***************************************************************************)
(* The counters of the table wallets from which commands take a fresh      *)
(* internal address: for change, for consolidated notes, for money that    *)
(* comes back from the cold wallet.                                        *)
(***************************************************************************)
EXTENDS Node

VARIABLE nextInternal   \* wallets.next_internal_index

WalletsTypeOK == nextInternal \in [Wallet -> Nat]

WalletsInit == nextInternal = [w \in Wallet |-> 0]

NextInternalAddress_ReadOnly(w) == UNCHANGED nextInternal

(* NextInternalAddress hands out index nextInternal[w] in one transaction: *)
(* never twice, and one that a failed command took is not given back.      *)
NextInternalAddress(w) == nextInternal' = [nextInternal EXCEPT ![w] = @ + 1]

=============================================================================
