------------------------------- MODULE MCSync -------------------------------
(* Values for Sync's constants: note 1 pays external index 0, note 2 the   *)
(* internal address with the same diversifier index.                       *)
EXTENDS Sync

MCNoteAddr == [n \in Note |-> [scope |-> IF n = 1 THEN "external" ELSE "internal", index |-> 0]]
MCNoteZat  == [n \in Note |-> n]
AlwaysShown == {TRUE}
SometimesShown == BOOLEAN

AllKinds == Kind
NoReorgs == {"DepositEvent", "DepositConfirmed"}
=============================================================================
