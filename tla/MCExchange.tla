------------------------------ MODULE MCExchange ------------------------------
(* A small instance of Exchange for TLC: a deposit, and the change of a    *)
(* withdrawal of it, to the addresses with index 0 of the two scopes.      *)
EXTENDS Exchange

CONSTANTS c1, c2, a1, p1

DepositAndChange == [n \in Note |-> [scope |-> IF n = 1 THEN "external" ELSE "internal", index |-> 0]]
Anyone == [n \in Note |-> a1]
Worth == [n \in Note |-> IF n = 1 THEN 8 ELSE 4]

=============================================================================
