---------------------------- MODULE MCWithdrawal ----------------------------
(* Small instances of Withdrawal for TLC. *)
EXTENDS Withdrawal, TLC

CONSTANTS c1, c2, c3, a1, a2

OnePayee  == [n \in Note |-> a1]
TwoPayees == [n \in Note |-> IF n = 1 THEN a1 ELSE a2]
NoteWorth == [n \in Note |-> IF n = 1 THEN 6 ELSE 4]

CmdSymmetry == Permutations(Cmd)

=============================================================================
