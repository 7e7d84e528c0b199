------------------------------ MODULE MCTreasury ------------------------------
(* A small instance of Treasury for TLC. *)
EXTENDS Treasury, TLC

CONSTANTS c1, c2, s1, s2, t1, t2, a1, a2

OnePayee  == [n \in Note |-> a1]
NoteWorth == [n \in Note |-> 8]

Own(wallet, out, zat) ==
  [wallet |-> wallet, scope |-> "external", tx |-> 0, out |-> out, zat |-> zat]
OwnNotes == {Own("hot", 2, 4), Own("hot", 3, 2), Own("cold", 0, 6)}

=============================================================================
