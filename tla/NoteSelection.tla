---------------------------- MODULE NoteSelection ---------------------------
(***************************************************************************)
(* The loop of txplan.SelectNotes, one iteration a step: take the notes    *)
(* from the largest down until they pay the amount and the fee.  Sums are  *)
(* kept in machine words, and only the sum of amount and fee is checked    *)
(* for overflow.                                                           *)
(***************************************************************************)
EXTENDS Spending, Sequences

CONSTANTS
  MaxNotes,   \* bound: how many notes are listed
  MaxNote,    \* bound: largest note
  Word,       \* 2^64
  Outputs     \* how many outputs a plan can have, without change

ASSUME NoteSelectionAssumption ==
  /\ MaxNotes \in Nat /\ MaxNote \in Nat
  /\ Word \in Nat \ {0} /\ MaxNote < Word
  /\ Outputs \subseteq Nat \ {0}

VARIABLES
  notes,      \* values of the listed notes, largest first (after sort.Slice)
  amount,     \* amountZat
  outputs,    \* outputCount
  taken,      \* len(selected)
  total,      \* the word the loop sums in
  sum,        \* what the selected notes are really worth (history)
  result      \* "looping", or what SelectNotes returns

vars == <<notes, amount, outputs, taken, total, sum, result>>

Descending(s) == \A i, j \in DOMAIN s : i < j => s[i] >= s[j]

Fee == RequiredFeeSend(taken, outputs + 1)

NoteSelectionTypeOK ==
  /\ notes \in Seq(1..MaxNote) /\ Descending(notes)
  /\ amount \in 1..(Word - 1)
  /\ outputs \in Outputs
  /\ taken \in 0..Len(notes)
  /\ total \in 0..(Word - 1)
  /\ sum \in Nat
  /\ result \in {"looping", "selected", "insufficient"}

Init ==
  /\ notes \in UNION {[1..k -> 1..MaxNote] : k \in 0..MaxNotes} /\ Descending(notes)
  /\ amount \in 1..(Word - 1)
  /\ outputs \in Outputs
  /\ taken = 0 /\ total = 0 /\ sum = 0
  /\ result = "looping"

(* The verdict of one iteration on the notes taken so far. *)
Verdict_ExactIsEnough(k, t) ==
  LET fee == RequiredFeeSend(k, outputs + 1)
  IN  IF amount + fee >= Word THEN "insufficient"
      ELSE IF t >= amount + fee THEN "selected" ELSE "looping"

Verdict_FeeWithoutChange(k, t) ==
  LET fee == RequiredFeeSend(k, outputs)
  IN  IF amount + fee >= Word THEN "insufficient"
      ELSE IF t >= amount + fee THEN "selected" ELSE "looping"

Verdict(k, t) ==
  LET fee  == RequiredFeeSend(k, outputs + 1)
      need == amount + fee
  IN  IF need >= Word THEN "insufficient"
      ELSE IF t > need THEN "selected"
      ELSE IF t = need /\ RequiredFeeSend(k, outputs) = fee THEN "selected"
      ELSE "looping"

TakeNote_Unbounded ==
  /\ result = "looping" /\ taken < Len(notes)
  /\ taken' = taken + 1
  /\ total' = total + notes[taken + 1]
  /\ sum' = sum + notes[taken + 1]
  /\ result' = Verdict(taken', total')
  /\ UNCHANGED <<notes, amount, outputs>>

TakeNote ==
  /\ result = "looping" /\ taken < Len(notes)
  /\ taken' = taken + 1
  /\ total' = (total + notes[taken + 1]) % Word
  /\ sum' = sum + notes[taken + 1]
  /\ result' = Verdict(taken', total')
  /\ UNCHANGED <<notes, amount, outputs>>

RunOut ==
  /\ result = "looping" /\ taken = Len(notes)
  /\ result' = "insufficient"
  /\ UNCHANGED <<notes, amount, outputs, taken, total, sum>>

Next == TakeNote \/ RunOut

Spec == Init /\ [][Next]_vars

-----------------------------------------------------------------------------
(* What is selected pays the amount and the fee the plan will carry, even  *)
(* if the sum of the notes wrapped around: a plan never spends more than   *)
(* its inputs.                                                             *)
SelectionCovers == result = "selected" => sum >= amount + Fee

(* As long as no sum exceeds a word, SelectNotes answers what Spending     *)
(* promises the rest of the project: the fewest of the largest notes that  *)
(* pay for themselves, and "insufficient funds" only when there are none.  *)
NoteSet == {[id |-> i, zat |-> notes[i]] : i \in DOMAIN notes}
Selected == {c \in NoteSet : c.id <= taken}

InWord == Value(NoteSet) < Word /\ amount + RequiredFeeSend(Len(notes), outputs + 1) < Word

SelectsAsPromised ==
  InWord =>
    /\ result = "selected" => Selected \in Selections(NoteSet, amount, outputs)
    /\ result = "insufficient" => Selections(NoteSet, amount, outputs) = {}

(* coldMaxSendable: what is left of all the notes after the fee for a      *)
(* transaction without change.                                             *)
MaxSendable_FeePerNote ==
  LET fee == FeeUnit * Len(notes)
  IN  IF Value(NoteSet) > fee THEN Value(NoteSet) - fee ELSE 0

MaxSendable ==
  LET fee == RequiredFeeSend(Len(notes), 1)
  IN  IF Value(NoteSet) > fee THEN Value(NoteSet) - fee ELSE 0

(* The largest amount `cold-to-hot plan` offers after NO_LIQUIDITY_IN_COLD *)
(* is one it will then accept, for the same notes.                         *)
MaxSendableIsSendable ==
  InWord /\ outputs = 1 /\ amount = MaxSendable => result # "insufficient"

=============================================================================
