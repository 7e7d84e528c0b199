------------------------------ MODULE Splitting ------------------------------
(***************************************************************************)
(* splitNotesBalanced: the notes of a sweep, largest first, are dealt      *)
(* round robin to as many transactions as it takes to keep each within the *)
(* number of spends the signer accepts.                                    *)
(*                                                                         *)
(* The code then lets a transaction with a single note borrow one from the *)
(* transaction with the most, if that has more than two.  Dealing never    *)
(* leaves such a pair (NothingToBorrow; proved in TreasuryProofs for      *)
(* every number of notes and transactions), so the loop ends at its first  *)
(* test and is not modelled.                                               *)
(***************************************************************************)
EXTENDS Spending, Sequences

(* How many transactions n notes need with at most max of them in each. *)
Parts_RoundedDown(n, max) == IF n <= max THEN 1 ELSE n \div max

Parts(n, max) == IF n <= max THEN 1 ELSE (n + max - 1) \div max

(* chunks[i % k] = append(chunks[i % k], sorted[i]), from 1 instead of 0. *)
Hand(n, k, c) == {j \in 1..n : (j - 1) % k = c - 1}

(* Notes of equal value come in the order of their ids, which is left open. *)
LargestFirst(notes) ==
  {s \in [1..Cardinality(notes) -> notes] :
     \A i, j \in DOMAIN s : i < j => s[i] # s[j] /\ s[i].zat >= s[j].zat}

Deal(s, k) == [c \in 1..k |-> {s[j] : j \in Hand(Len(s), k, c)}]

Splits(notes, max) == {Deal(s, Parts(Len(s), max)) : s \in LargestFirst(notes)}

(* planSweepWithNotes: one output, no change; the notes must be worth more *)
(* than the fee.                                                           *)
SweepFee(chunk) == RequiredFeeSend(Cardinality(chunk), 1)
Yield(chunk)    == Value(chunk) - SweepFee(chunk)

NothingToBorrow(chunks) ==
  \A c, d \in DOMAIN chunks : Cardinality(chunks[c]) = 1 => Cardinality(chunks[d]) <= 2

=============================================================================
