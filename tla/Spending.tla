------------------------------ MODULE Spending ------------------------------
(***************************************************************************)
(* What internal/txplan promises about the notes a transaction spends: the *)
(* ZIP-317 style fee, and which sets of notes SelectNotes may answer.      *)
(* NoteSelection checks the loop in the code against this; Withdrawal uses *)
(* it as the planner.                                                      *)
(*                                                                         *)
(* A note is a record whose zat field is its value.  Notes of equal value  *)
(* are ordered by txid and action index in the code, which is left open    *)
(* here: any of them may come first.                                       *)
(***************************************************************************)
EXTENDS Totals, FiniteSets

CONSTANT FeeUnit   \* zatoshis per Orchard action: 5000

ASSUME SpendingAssumption == FeeUnit \in Nat \ {0}

Larger(a, b) == IF a > b THEN a ELSE b

(* One unit per action; an Orchard bundle has at least two actions, and an *)
(* action spends one note and makes one output.                            *)
RequiredFeeSend(spends, outputs) == FeeUnit * Larger(2, Larger(spends, outputs))

Value(notes) == Total([c \in notes |-> c.zat], notes)

(* The notes pay amount and the fee.  With nothing left for change, the    *)
(* change output must not have been paid for either.                       *)
Covers(notes, amount, outputs) ==
  LET spends == Cardinality(notes)
      need   == amount + RequiredFeeSend(spends, outputs + 1)
  IN  \/ Value(notes) > need
      \/ /\ Value(notes) = need
         /\ RequiredFeeSend(spends, outputs) = RequiredFeeSend(spends, outputs + 1)

(* Largest notes first. *)
Largest(notes, all) == \A c \in notes, d \in all \ notes : c.zat >= d.zat

(* As few as cover the amount; none when no number of the largest does. *)
Selections(all, amount, outputs) ==
  {notes \in SUBSET all :
     /\ notes # {}
     /\ Largest(notes, all)
     /\ Covers(notes, amount, outputs)
     /\ \A fewer \in SUBSET notes :
           fewer # {} /\ fewer # notes /\ Largest(fewer, all) => ~Covers(fewer, amount, outputs)}

=============================================================================
