------------------------ MODULE NoteSelectionProofs -------------------------
(***************************************************************************)
(* SelectNotes for every list of notes, every amount and every word size.  *)
(*                                                                         *)
(*   1. it never selects notes that do not pay: the word the loop sums in  *)
(*      is never more than what the notes are worth, so a sum that wraps   *)
(*      around can only make it go on (IInv, SelectionAlwaysCovers)        *)
(*   2. as long as no sum exceeds a word, it answers what Spending         *)
(*      promises: nothing it has passed over covers the amount (Promise),  *)
(*      and of the largest notes only their number counts (Ties)           *)
(*                                                                         *)
(* LedgerProofs is here for its lemmas about sums; nothing in this module  *)
(* depends on the ledger, its constants or its assumptions.                *)
(***************************************************************************)
EXTENDS NoteSelection, LedgerProofs, SequenceTheorems

(* The fee is a natural number of at least two actions. *)
LEMMA FeeType ==
  ASSUME NEW spends \in Nat, NEW outs \in Nat
  PROVE  /\ RequiredFeeSend(spends, outs) \in Nat
         /\ RequiredFeeSend(spends, outs) >= 2 * FeeUnit
<1>1. PICK m \in Nat : m = Larger(2, Larger(spends, outs)) /\ m >= 2
  BY DEF Larger
<1>2. FeeUnit \in Nat /\ RequiredFeeSend(spends, outs) = FeeUnit * m
  BY <1>1, SpendingAssumption DEF SpendingAssumption, RequiredFeeSend
<1>3. FeeUnit * m \in Nat /\ FeeUnit * m >= 2 * FeeUnit
  BY <1>1, <1>2
<1>4. QED
  BY <1>2, <1>3

(* One more spend never makes the fee smaller. *)
LEMMA FeeGrows ==
  ASSUME NEW spends \in Nat, NEW outs \in Nat
  PROVE  RequiredFeeSend(spends + 1, outs) >= RequiredFeeSend(spends, outs)
<1>1. PICK m \in Nat, k \in Nat : /\ m = Larger(2, Larger(spends, outs))
                                  /\ k = Larger(2, Larger(spends + 1, outs)) /\ k >= m
  BY DEF Larger
<1>2. FeeUnit \in Nat /\ FeeUnit * k >= FeeUnit * m
  BY <1>1, SpendingAssumption DEF SpendingAssumption
<1>3. QED
  BY <1>1, <1>2 DEF RequiredFeeSend

IInv == NoteSelectionTypeOK /\ total <= sum /\ SelectionCovers

(* A verdict of "selected" means the word covers amount and fee. *)
LEMMA VerdictCovers ==
  ASSUME NEW k \in Nat, NEW t \in Nat, amount \in Nat, outputs \in Nat
  PROVE  /\ Verdict(k, t) \in {"looping", "selected", "insufficient"}
         /\ Verdict(k, t) = "selected" => t >= amount + RequiredFeeSend(k, outputs + 1)
<1>1. RequiredFeeSend(k, outputs + 1) \in Nat
  BY FeeType
<1> DEFINE fee  == RequiredFeeSend(k, outputs + 1)
           fits == t = amount + fee /\ RequiredFeeSend(k, outputs) = fee
<1>2. Verdict(k, t) = IF amount + fee >= Word THEN "insufficient"
                      ELSE IF t > amount + fee THEN "selected"
                      ELSE IF fits THEN "selected" ELSE "looping"
  BY DEF Verdict
<1>3. (t > amount + fee \/ fits) => t >= amount + fee
  BY <1>1
<1> HIDE DEF fits, fee
<1>4. QED
  BY <1>2, <1>3 DEF fee

LEMMA InitIInv == Init => IInv
<1> SUFFICES ASSUME Init PROVE IInv
  OBVIOUS
<1>1. PICK k \in 0..MaxNotes : notes \in [1..k -> 1..MaxNote]
  BY DEF Init
<1>2. notes \in Seq(1..MaxNote) /\ Len(notes) \in Nat
  <2>1. k \in Nat
    BY NoteSelectionAssumption DEF NoteSelectionAssumption
  <2>2. notes \in Seq(1..MaxNote)
    BY <1>1, <2>1, SeqDef
  <2>3. QED
    BY <2>2
<1>3. QED
  BY <1>2, NoteSelectionAssumption
  DEF NoteSelectionAssumption, Init, IInv, NoteSelectionTypeOK, SelectionCovers

LEMMA TakeNoteKeeps ==
  ASSUME IInv, TakeNote
  PROVE  IInv'
<1>1. /\ notes \in Seq(1..MaxNote) /\ Descending(notes) /\ Len(notes) \in Nat
      /\ amount \in Nat /\ outputs \in Outputs /\ outputs \in Nat
      /\ taken \in Nat /\ taken < Len(notes) /\ total \in Nat /\ sum \in Nat /\ total <= sum
  BY NoteSelectionAssumption DEF NoteSelectionAssumption, IInv, NoteSelectionTypeOK, TakeNote
<1>2. notes[taken + 1] \in Nat
  BY <1>1, NoteSelectionAssumption DEF NoteSelectionAssumption
<1>3. /\ taken' = taken + 1 /\ sum' = sum + notes[taken + 1]
      /\ total' = (total + notes[taken + 1]) % Word
      /\ result' = Verdict(taken', total')
      /\ UNCHANGED <<notes, amount, outputs>>
  BY DEF TakeNote
<1>4. total' \in 0..(Word - 1) /\ total' <= total + notes[taken + 1]
  <2>1. PICK x \in Nat, w \in Nat \ {0} : x = total + notes[taken + 1] /\ w = Word
    BY <1>1, <1>2, NoteSelectionAssumption DEF NoteSelectionAssumption
  <2>2. /\ x % w \in 0..(w - 1)
        /\ x = w * (x \div w) + (x % w)
    OBVIOUS
  <2>3. x \div w \in Nat
    OBVIOUS
  <2>4. w * (x \div w) \in Nat
    BY <2>3
  <2>5. x % w <= x
    BY <2>2, <2>4
  <2>6. QED
    BY <1>3, <2>1, <2>2, <2>5
<1>5. total' <= sum' /\ sum' \in Nat /\ total' \in Nat
  BY <1>1, <1>2, <1>3, <1>4
<1>6. /\ Verdict(taken', total') \in {"looping", "selected", "insufficient"}
      /\ Verdict(taken', total') = "selected" =>
            total' >= amount + RequiredFeeSend(taken', outputs + 1)
  BY <1>1, <1>3, <1>5, VerdictCovers
<1>7. NoteSelectionTypeOK'
  BY <1>1, <1>3, <1>4, <1>5, <1>6 DEF IInv, NoteSelectionTypeOK, Descending
<1>8. SelectionCovers'
  <2>1. RequiredFeeSend(taken', outputs + 1) \in Nat
    <3>1. taken' \in Nat /\ outputs + 1 \in Nat
      BY <1>1, <1>3
    <3>2. QED
      BY <3>1, FeeType
  <2>2. QED
    BY <1>1, <1>3, <1>5, <1>6, <2>1 DEF SelectionCovers, Fee
<1>9. QED
  BY <1>5, <1>7, <1>8 DEF IInv

LEMMA NextKeeps == IInv /\ [Next]_vars => IInv'
<1> SUFFICES ASSUME IInv, [Next]_vars PROVE IInv'
  OBVIOUS
<1>1. CASE TakeNote
  BY <1>1, TakeNoteKeeps
<1>2. CASE RunOut
  BY <1>2 DEF RunOut, IInv, NoteSelectionTypeOK, SelectionCovers, Descending
<1>3. CASE UNCHANGED vars
  BY <1>3 DEF vars, IInv, NoteSelectionTypeOK, SelectionCovers, Fee, Descending
<1>4. QED
  BY <1>1, <1>2, <1>3 DEF Next

(* What SelectNotes selects always pays for the amount and the fee of the  *)
(* plan, change output included, whether or not the sum wrapped.           *)
THEOREM SelectionAlwaysCovers == Spec => []SelectionCovers
<1>1. IInv => SelectionCovers
  BY DEF IInv
<1>2. QED
  BY <1>1, InitIInv, NextKeeps, PTL DEF Spec

(* Types of the loop's variables, for any notes, amount and word size: the *)
(* running sum stays in its word and the index in the list.                *)
THEOREM SelectionTypeCorrect == Spec => []NoteSelectionTypeOK
<1>1. IInv => NoteSelectionTypeOK
  BY DEF IInv
<1>2. QED
  BY <1>1, InitIInv, NextKeeps, PTL DEF Spec

-----------------------------------------------------------------------------
(* Notes with ids, and what any of them are worth.                         *)
Zats == [c \in NoteSet |-> c.zat]

First(k) == {c \in NoteSet : c.id <= k}

LEMMA NoteSetType ==
  ASSUME NoteSelectionTypeOK
  PROVE  /\ Len(notes) \in Nat /\ DOMAIN notes = 1..Len(notes)
         /\ \A i \in 1..Len(notes) : notes[i] \in Nat
         /\ IsFiniteSet(NoteSet)
         /\ \A c \in NoteSet : c.id \in 1..Len(notes) /\ c.zat = notes[c.id]
         /\ \A c, d \in NoteSet : c.id = d.id => c = d
         /\ \A c \in NoteSet : Zats[c] = c.zat /\ c.zat \in Nat
<1>1. Len(notes) \in Nat /\ DOMAIN notes = 1..Len(notes) /\ \A i \in 1..Len(notes) : notes[i] \in Nat
  BY NoteSelectionAssumption DEF NoteSelectionAssumption, NoteSelectionTypeOK
<1>2. IsFiniteSet(NoteSet)
  <2>1. IsFiniteSet(1..Len(notes))
    BY <1>1, FS_Interval
  <2> DEFINE f == [i \in 1..Len(notes) |-> [id |-> i, zat |-> notes[i]]]
  <2>2. f \in Surjection(1..Len(notes), NoteSet)
    BY <1>1 DEF NoteSet, Surjection
  <2>3. QED
    BY <2>1, <2>2, FS_Surjection
<1>3. \A c \in NoteSet : c.id \in 1..Len(notes) /\ c.zat = notes[c.id]
  BY <1>1 DEF NoteSet
<1>4. \A c, d \in NoteSet : c.id = d.id => c = d
  BY DEF NoteSet
<1>5. QED
  BY <1>1, <1>2, <1>3, <1>4 DEF Zats

LEMMA ValueIs ==
  ASSUME NoteSelectionTypeOK, NEW T \in SUBSET NoteSet
  PROVE  /\ IsFiniteSet(T) /\ Cardinality(T) \in Nat
         /\ Value(T) = Total(Zats, T) /\ Value(T) \in Nat /\ Value(T) <= Value(NoteSet)
<1>1. \A U \in SUBSET NoteSet :
        /\ IsFiniteSet(U) /\ Value(U) = Total(Zats, U)
        /\ Total(Zats, U) \in Nat
  <2>1. SUFFICES ASSUME NEW U \in SUBSET NoteSet
                 PROVE  /\ IsFiniteSet(U) /\ Value(U) = Total(Zats, U)
                        /\ Total(Zats, U) \in Nat
    OBVIOUS
  <2> DEFINE z == [c \in U |-> c.zat]
  <2>2. IsFiniteSet(U) /\ \A c \in U : Zats[c] \in Nat /\ z[c] = Zats[c]
    BY NoteSetType, FS_Subset
  <2>3. Value(U) = Total(z, U)
    BY DEF Value
  <2> HIDE DEF z
  <2>4. Total(z, U) = Total(Zats, U)
    BY <2>2, SumSame
  <2>5. QED
    BY <2>2, <2>3, <2>4, SumNat
<1>2. Total(Zats, T) <= Total(Zats, NoteSet)
  BY NoteSetType, SumOfSome
<1>3. QED
  BY <1>1, <1>2, FS_CardinalityType

(* The same value, as often as there are elements.                         *)
LEMMA SumConstant ==
  ASSUME NEW S, IsFiniteSet(S), NEW v, NEW z \in Nat, \A x \in S : v[x] = z
  PROVE  Total(v, S) = Cardinality(S) * z
<1> DEFINE Bad == {T \in SUBSET S : Total(v, T) # Cardinality(T) * z}
<1>1. SUFFICES ASSUME Bad # {} PROVE FALSE
  OBVIOUS
<1>2. PICK T \in Bad : \A U \in Bad : U \subseteq T => U = T
  <2>1. Bad \subseteq SUBSET S
    OBVIOUS
  <2> HIDE DEF Bad
  <2>2. QED
    BY <1>1, <2>1, SmallestMember
<1>3. T \in SUBSET S /\ Total(v, T) # Cardinality(T) * z
  BY <1>2
<1>4. T # {}
  <2>1. Total(v, {}) = 0 /\ Cardinality({}) = 0 /\ 0 * z = 0
    BY SumEmpty, FS_EmptySet
  <2>2. QED
    BY <1>3, <2>1
<1>5. PICK x \in T : TRUE
  BY <1>4
<1>6. T \ {x} \in SUBSET S /\ T \ {x} \notin Bad
  <2>1. T \ {x} \in SUBSET S /\ T \ {x} # T
    BY <1>3, <1>5
  <2> HIDE DEF Bad
  <2>2. QED
    BY <1>2, <2>1
<1>7. Total(v, T \ {x}) = Cardinality(T \ {x}) * z
  BY <1>6
<1>8. IsFiniteSet(T) /\ \A y \in T : v[y] \in Int
  BY <1>3, FS_Subset
<1>9. Total(v, T) = v[x] + Total(v, T \ {x}) /\ v[x] = z
  BY <1>3, <1>5, <1>8, SumRemove
<1>10. PICK k \in Nat : k = Cardinality(T \ {x}) /\ Cardinality(T) = k + 1
  <2>1. IsFiniteSet(T \ {x}) /\ Cardinality(T \ {x}) = Cardinality(T) - 1
    BY <1>5, <1>8, FS_RemoveElement
  <2>2. Cardinality(T \ {x}) \in Nat /\ Cardinality(T) \in Nat
    BY <1>8, <2>1, FS_CardinalityType
  <2>3. QED
    BY <2>1, <2>2
<1>11. z + k * z = (k + 1) * z
  OBVIOUS
<1>12. QED
  BY <1>3, <1>7, <1>9, <1>10, <1>11

(* Two sets of largest notes of one size are worth the same: where they    *)
(* differ they hold notes of one value.                                    *)
LEMMA Ties ==
  ASSUME NoteSelectionTypeOK, NEW T \in SUBSET NoteSet, NEW U \in SUBSET NoteSet,
         Largest(T, NoteSet), Largest(U, NoteSet), Cardinality(T) = Cardinality(U)
  PROVE  Value(T) = Value(U)
<1>1. /\ IsFiniteSet(T) /\ IsFiniteSet(U) /\ Cardinality(T) \in Nat
      /\ Value(T) = Total(Zats, T) /\ Value(U) = Total(Zats, U)
  BY ValueIs
<1>2. \A c \in NoteSet : Zats[c] = c.zat /\ c.zat \in Nat
  BY NoteSetType
<1>3. /\ Total(Zats, T) = Total(Zats, T \cap U) + Total(Zats, T \ U)
      /\ Total(Zats, U) = Total(Zats, T \cap U) + Total(Zats, U \ T)
  <2>1. T \ (T \cap U) = T \ U /\ U \ (T \cap U) = U \ T
    OBVIOUS
  <2>2. /\ Total(Zats, T) = Total(Zats, T \cap U) + Total(Zats, T \ (T \cap U))
        /\ Total(Zats, U) = Total(Zats, T \cap U) + Total(Zats, U \ (T \cap U))
    BY <1>1, <1>2, SumSplit
  <2>3. QED
    BY <2>1, <2>2
<1>4. /\ IsFiniteSet(T \ U) /\ IsFiniteSet(U \ T)
      /\ Cardinality(T \ U) = Cardinality(U \ T)
  <2>1. T \cap U = U \cap T
    OBVIOUS
  <2>2. /\ IsFiniteSet(T \ U) /\ Cardinality(T \ U) = Cardinality(T) - Cardinality(T \cap U)
        /\ IsFiniteSet(U \ T) /\ Cardinality(U \ T) = Cardinality(U) - Cardinality(U \cap T)
    BY <1>1, FS_Difference
  <2>3. QED
    BY <2>1, <2>2
<1>5. CASE T \ U = {} \/ U \ T = {}
  <2>1. T \ U = {} /\ U \ T = {}
    BY <1>4, <1>5, FS_EmptySet
  <2>2. T = U
    BY <2>1
  <2>3. QED
    BY <2>2
<1>6. CASE \E c \in T \ U, d \in U \ T : TRUE
  <2>1. PICK c \in T \ U, d \in U \ T : TRUE
    BY <1>6
  <2>2. \A x \in T \ U, y \in U \ T : x.zat = y.zat
    BY <1>2 DEF Largest
  <2>3. (\A x \in T \ U : Zats[x] = d.zat) /\ (\A y \in U \ T : Zats[y] = d.zat) /\ d.zat \in Nat
    BY <1>2, <2>1, <2>2
  <2>4. /\ Total(Zats, T \ U) = Cardinality(T \ U) * d.zat
        /\ Total(Zats, U \ T) = Cardinality(U \ T) * d.zat
    BY <1>4, <2>3, SumConstant
  <2>5. QED
    BY <1>1, <1>3, <1>4, <2>4
<1>7. QED
  BY <1>5, <1>6

(* The notes taken are the first of the list, so the largest; what is      *)
(* passed over is every set of largest notes of at most their number.      *)
Passed(T) ==
  /\ T # {} /\ Largest(T, NoteSet) /\ Cardinality(T) <= taken
  /\ result = "selected" => Cardinality(T) < taken

Promise ==
  /\ sum = Value(Selected) /\ Cardinality(Selected) = taken
  /\ InWord =>
       /\ total = sum
       /\ result = "selected" => taken > 0 /\ Covers(Selected, amount, outputs)
       /\ result = "insufficient" => taken = Len(notes)
       /\ \A T \in SUBSET NoteSet : Passed(T) => ~Covers(T, amount, outputs)

LEMMA FirstAreLargest ==
  ASSUME NoteSelectionTypeOK, NEW k \in 0..Len(notes)
  PROVE  Largest(First(k), NoteSet)
<1>1. SUFFICES ASSUME NEW c \in NoteSet, NEW d \in NoteSet, c.id <= k, ~(d.id <= k)
               PROVE  c.zat >= d.zat
  BY DEF Largest, First
<1>2. c.id \in 1..Len(notes) /\ d.id \in 1..Len(notes) /\ c.zat = notes[c.id] /\ d.zat = notes[d.id]
      /\ Len(notes) \in Nat /\ DOMAIN notes = 1..Len(notes)
  BY NoteSetType
<1>3. c.id < d.id
  BY <1>1, <1>2
<1>4. QED
  BY <1>2, <1>3 DEF NoteSelectionTypeOK, Descending

LEMMA FirstGrows ==
  ASSUME NoteSelectionTypeOK, NEW k \in Nat, k < Len(notes)
  PROVE  /\ First(k) \in SUBSET NoteSet /\ First(k + 1) \in SUBSET NoteSet
         /\ Cardinality(First(k + 1)) = Cardinality(First(k)) + 1
         /\ Value(First(k + 1)) = Value(First(k)) + notes[k + 1]
<1> DEFINE c == [id |-> k + 1, zat |-> notes[k + 1]]
<1>1. First(k) \in SUBSET NoteSet /\ First(k + 1) \in SUBSET NoteSet
  BY DEF First
<1>2. c \in NoteSet /\ c.id = k + 1 /\ c.zat = notes[k + 1]
  BY NoteSetType DEF NoteSet
<1> HIDE DEF c
<1>3. \A d \in NoteSet : d.id \in Nat /\ (d.id = k + 1 => d = c)
  BY <1>2, NoteSetType
<1>4. First(k + 1) = First(k) \cup {c} /\ c \notin First(k)
  BY <1>2, <1>3 DEF First
<1>5. IsFiniteSet(First(k)) /\ \A d \in NoteSet : Zats[d] \in Nat
  BY <1>1, ValueIs, NoteSetType
<1>6. Cardinality(First(k + 1)) = Cardinality(First(k)) + 1
  BY <1>4, <1>5, FS_AddElement
<1>7. Total(Zats, First(k) \cup {c}) = Zats[c] + Total(Zats, First(k))
  BY <1>1, <1>2, <1>4, <1>5, SumAdd
<1>8. /\ Value(First(k + 1)) = Total(Zats, First(k + 1))
      /\ Value(First(k)) = Total(Zats, First(k)) /\ Value(First(k)) \in Nat
      /\ Zats[c] = notes[k + 1] /\ Zats[c] \in Nat
  BY <1>1, <1>2, <1>5, ValueIs, NoteSetType
<1>9. Total(Zats, First(k + 1)) = Zats[c] + Total(Zats, First(k))
  BY <1>4, <1>7
<1>10. Value(First(k + 1)) = Value(First(k)) + notes[k + 1]
  BY <1>8, <1>9
<1>11. QED
  BY <1>1, <1>6, <1>10

(* All the notes are taken at the end of the list.                         *)
LEMMA AllTaken ==
  ASSUME NoteSelectionTypeOK, taken = Len(notes)
  PROVE  Selected = NoteSet
BY NoteSetType DEF Selected

LEMMA InitPromise == Init => Promise
<1> SUFFICES ASSUME Init PROVE Promise
  OBVIOUS
<1>1. NoteSelectionTypeOK /\ taken = 0 /\ sum = 0 /\ total = 0 /\ result = "looping"
  BY InitIInv DEF IInv, Init
<1>2. Selected = {}
  BY <1>1, NoteSetType DEF Selected
<1>3. Value(Selected) = 0 /\ Cardinality(Selected) = 0
  BY <1>2, SumEmpty, FS_EmptySet DEF Value
<1>4. ASSUME NEW T \in SUBSET NoteSet PROVE ~Passed(T)
  <2>1. IsFiniteSet(T) /\ Cardinality(T) \in Nat
    BY <1>1, ValueIs
  <2>2. T # {} => Cardinality(T) # 0
    BY <2>1, FS_EmptySet
  <2>3. QED
    BY <1>1, <2>1, <2>2 DEF Passed
<1>5. QED
  BY <1>1, <1>3, <1>4 DEF Promise

(* The fee only grows with the number of notes.                            *)
LEMMA FeeMonotone ==
  ASSUME NEW j \in Nat, NEW k \in Nat, j <= k, NEW outs \in Nat
  PROVE  RequiredFeeSend(j, outs) <= RequiredFeeSend(k, outs)
<1>1. PICK m \in Nat, n \in Nat : /\ m = Larger(2, Larger(j, outs))
                                  /\ n = Larger(2, Larger(k, outs)) /\ m <= n
  BY DEF Larger
<1>2. FeeUnit \in Nat /\ FeeUnit * m <= FeeUnit * n
  BY <1>1, SpendingAssumption DEF SpendingAssumption
<1>3. QED
  BY <1>1, <1>2 DEF RequiredFeeSend

(* A number that fits its word is not changed by it.                       *)
LEMMA NoRemainder ==
  ASSUME NEW x \in Nat, NEW w \in Nat \ {0}, x < w
  PROVE  x % w = x
<1>1. x = w * (x \div w) + (x % w) /\ x % w \in 0..(w - 1)
  OBVIOUS
<1>2. x \div w \in Nat
  OBVIOUS
<1>3. ASSUME NEW q \in Nat, q >= 1 PROVE w * q >= w
  BY <1>3
<1>4. x \div w = 0
  <2>1. PICK q \in Nat, r \in Nat : q = x \div w /\ r = x % w
    BY <1>1, <1>2
  <2>2. x = w * q + r
    BY <1>1, <2>1
  <2>3. w * q \in Nat
    OBVIOUS
  <2>4. w * q < w
    BY <2>2, <2>3
  <2>5. ~(q >= 1)
    BY <1>3, <2>3, <2>4
  <2>6. QED
    BY <2>1, <2>5
<1>5. w * (x \div w) = 0
  BY <1>4
<1>6. QED
  BY <1>1, <1>5

LEMMA TakeNotePromise ==
  ASSUME IInv, IInv', Promise, TakeNote
  PROVE  Promise'
<1>1. /\ NoteSelectionTypeOK /\ Len(notes) \in Nat /\ taken \in Nat /\ taken < Len(notes)
      /\ outputs \in Nat /\ amount \in Nat /\ sum \in Nat /\ result = "looping"
      /\ notes[taken + 1] \in Nat
  BY NoteSetType, NoteSelectionAssumption
  DEF NoteSelectionAssumption, IInv, NoteSelectionTypeOK, TakeNote
<1>2. /\ taken' = taken + 1 /\ sum' = sum + notes[taken + 1]
      /\ total' = (total + notes[taken + 1]) % Word /\ result' = Verdict(taken', total')
      /\ UNCHANGED <<notes, amount, outputs>>
  BY DEF TakeNote
<1>3. NoteSet' = NoteSet /\ InWord' = InWord
  BY <1>2 DEF NoteSet, InWord
<1>4. Selected = First(taken) /\ Selected' = First(taken + 1)
  BY <1>2, <1>3 DEF Selected, First
<1> DEFINE S == First(taken + 1)
           fee == RequiredFeeSend(taken + 1, outputs + 1)
<1>5. /\ S \in SUBSET NoteSet /\ Cardinality(S) = taken + 1 /\ Value(S) = sum'
      /\ Largest(S, NoteSet)
  <2>1. taken + 1 \in 0..Len(notes)
    BY <1>1
  <2>2. QED
    BY <1>1, <1>2, <1>4, <2>1, FirstGrows, FirstAreLargest DEF Promise
<1>6. fee \in Nat
  <2>1. taken + 1 \in Nat /\ outputs + 1 \in Nat
    BY <1>1
  <2>2. QED
    BY <2>1, FeeType
<1> HIDE DEF S
<1>7. ASSUME InWord
      PROVE  /\ total' = sum' /\ result' # "insufficient"
             /\ result' = "selected" <=> Covers(S, amount, outputs)
  <2>1. sum' < Word /\ sum' \in Nat
    <3>1. Value(S) <= Value(NoteSet) /\ Value(NoteSet) < Word /\ Value(S) \in Nat
          /\ Value(NoteSet) \in Nat /\ Word \in Nat
      BY <1>1, <1>5, <1>7, ValueIs, NoteSelectionAssumption DEF InWord, NoteSelectionAssumption
    <3>2. QED
      BY <1>5, <3>1
  <2>2. total' = sum'
    <3>1. total = sum
      BY <1>7 DEF Promise
    <3>2. PICK x \in Nat, w \in Nat \ {0} : x = sum' /\ w = Word /\ x < w
      BY <2>1, NoteSelectionAssumption DEF NoteSelectionAssumption
    <3>3. x % w = x
      BY <3>2, NoRemainder
    <3>4. QED
      BY <1>2, <3>1, <3>2, <3>3
  <2>3. amount + fee < Word
    <3>1. fee <= RequiredFeeSend(Len(notes), outputs + 1)
      BY <1>1, FeeMonotone
    <3>2. RequiredFeeSend(Len(notes), outputs + 1) \in Nat
      <4>1. outputs + 1 \in Nat
        BY <1>1
      <4>2. QED
        BY <1>1, <4>1, FeeType
    <3>3. QED
      BY <1>1, <1>6, <1>7, <3>1, <3>2, NoteSelectionAssumption DEF InWord, NoteSelectionAssumption
  <2> DEFINE exact == RequiredFeeSend(taken + 1, outputs) = fee
  <2>4. result' = IF amount + fee >= Word THEN "insufficient"
                  ELSE IF sum' > amount + fee THEN "selected"
                  ELSE IF sum' = amount + fee /\ exact THEN "selected" ELSE "looping"
    BY <1>2, <2>2 DEF Verdict
  <2>5. Covers(S, amount, outputs) <=> \/ sum' > amount + fee
                                       \/ sum' = amount + fee /\ exact
    BY <1>5 DEF Covers
  <2> HIDE DEF fee, exact
  <2>6. ~(amount + fee >= Word)
    BY <1>1, <1>6, <2>3, NoteSelectionAssumption DEF NoteSelectionAssumption
  <2>7. QED
    BY <2>2, <2>4, <2>5, <2>6
<1>8. ASSUME InWord, NEW T \in SUBSET NoteSet, Passed(T)' PROVE ~Covers(T, amount, outputs)
  <2>1. /\ T # {} /\ Largest(T, NoteSet) /\ Cardinality(T) <= taken + 1 /\ Cardinality(T) \in Nat
        /\ result' = "selected" => Cardinality(T) < taken + 1
    BY <1>1, <1>2, <1>3, <1>8, ValueIs DEF Passed
  <2>2. CASE Cardinality(T) <= taken
    BY <1>1, <1>8, <2>1, <2>2 DEF Promise, Passed
  <2>3. CASE Cardinality(T) = taken + 1
    <3>1. ~Covers(S, amount, outputs)
      BY <1>1, <1>7, <1>8, <2>1, <2>3
    <3>2. Value(T) = Value(S) /\ Cardinality(T) = Cardinality(S)
      BY <1>1, <1>5, <2>1, <2>3, Ties
    <3>3. QED
      BY <3>1, <3>2 DEF Covers
  <2>4. QED
    BY <1>1, <2>1, <2>2, <2>3
<1>9. sum' = Value(Selected)' /\ Cardinality(Selected)' = taken'
  BY <1>2, <1>4, <1>5 DEF S
<1>10. ASSUME InWord, result' = "selected" PROVE taken' > 0 /\ Covers(Selected, amount, outputs)'
  <2>1. Covers(S, amount, outputs)
    BY <1>7, <1>10
  <2>2. Covers(Selected, amount, outputs)' = Covers(S, amount, outputs)
    BY <1>2, <1>4 DEF Covers, S
  <2>3. QED
    BY <1>1, <1>2, <2>1, <2>2
<1>11. \A T \in SUBSET NoteSet : Covers(T, amount, outputs)' = Covers(T, amount, outputs)
  BY <1>2 DEF Covers
<1>12. QED
  BY <1>3, <1>7, <1>8, <1>9, <1>10, <1>11 DEF Promise

LEMMA PromiseKept == IInv /\ Promise /\ [Next]_vars => Promise'
<1> SUFFICES ASSUME IInv, Promise, [Next]_vars PROVE Promise'
  OBVIOUS
<1>1. CASE TakeNote
  BY <1>1, NextKeeps, TakeNotePromise DEF Next
<1>2. CASE RunOut
  <2>1. UNCHANGED <<notes, amount, outputs, taken, total, sum>> /\ result' = "insufficient"
        /\ result = "looping" /\ taken = Len(notes)
    BY <1>2 DEF RunOut
  <2>2. NoteSet' = NoteSet /\ InWord' = InWord /\ Selected' = Selected
    BY <2>1 DEF NoteSet, InWord, Selected
  <2>3. \A T \in SUBSET NoteSet : /\ Passed(T)' => Passed(T)
                                  /\ Covers(T, amount, outputs)' = Covers(T, amount, outputs)
    BY <2>1, <2>2 DEF Passed, Covers
  <2>4. QED
    BY <2>1, <2>2, <2>3 DEF Promise
<1>3. CASE UNCHANGED vars
  <2>1. UNCHANGED <<notes, amount, outputs, taken, total, sum, result>>
    BY <1>3 DEF vars
  <2>2. NoteSet' = NoteSet /\ InWord' = InWord /\ Selected' = Selected
    BY <2>1 DEF NoteSet, InWord, Selected
  <2>3. \A T \in SUBSET NoteSet : /\ Passed(T)' => Passed(T)
                                  /\ Covers(T, amount, outputs)' = Covers(T, amount, outputs)
    BY <2>1, <2>2 DEF Passed, Covers
  <2>4. QED
    BY <2>1, <2>2, <2>3 DEF Promise
<1>4. QED
  BY <1>1, <1>2, <1>3 DEF Next

LEMMA PromiseAlways == Spec => [](IInv /\ Promise)
BY InitIInv, NextKeeps, InitPromise, PromiseKept, PTL DEF Spec

(* "insufficient funds" means that no set of largest notes would do.       *)
LEMMA InsufficientIsNone ==
  ASSUME IInv, Promise, InWord, result = "insufficient",
         NEW T \in SUBSET NoteSet, T # {}, Largest(T, NoteSet)
  PROVE  ~Covers(T, amount, outputs)
<1>1. taken = Len(notes) /\ NoteSelectionTypeOK
  BY DEF Promise, IInv
<1>2. Cardinality(NoteSet) = taken /\ IsFiniteSet(NoteSet)
  BY <1>1, AllTaken, NoteSetType DEF Promise
<1>3. Cardinality(T) <= taken
  BY <1>2, FS_Subset
<1>4. QED
  BY <1>3 DEF Promise, Passed

(* What SelectNotes answers is what Spending promises Withdrawal, Sweep    *)
(* and ColdToHot: the fewest of the largest notes that pay for themselves, *)
(* and "insufficient funds" only when there are none, as long as the sums  *)
(* fit their word.                                                         *)
THEOREM AlwaysSelectsAsPromised == Spec => []SelectsAsPromised
<1>1. IInv /\ Promise => SelectsAsPromised
  <2>1. SUFFICES ASSUME IInv, Promise, InWord PROVE
          /\ result = "selected" => Selected \in Selections(NoteSet, amount, outputs)
          /\ result = "insufficient" => Selections(NoteSet, amount, outputs) = {}
    BY DEF SelectsAsPromised
  <2>2. NoteSelectionTypeOK
    BY <2>1 DEF IInv
  <2>3. ASSUME result = "selected" PROVE Selected \in Selections(NoteSet, amount, outputs)
    <3>1. /\ Selected \in SUBSET NoteSet /\ Cardinality(Selected) = taken /\ taken > 0
          /\ Covers(Selected, amount, outputs)
      BY <2>1, <2>3 DEF Promise, Selected
    <3>2. Selected # {}
      BY <3>1, FS_EmptySet
    <3>3. Largest(Selected, NoteSet)
      BY <2>2, FirstAreLargest DEF Selected, First, NoteSelectionTypeOK
    <3>4. ASSUME NEW fewer \in SUBSET Selected, fewer # {}, fewer # Selected, Largest(fewer, NoteSet)
          PROVE  ~Covers(fewer, amount, outputs)
      <4>1. IsFiniteSet(Selected) /\ fewer \in SUBSET NoteSet
        BY <2>2, <3>1, ValueIs
      <4>2. Cardinality(fewer) <= taken /\ Cardinality(fewer) # taken /\ Cardinality(fewer) \in Nat
        BY <2>2, <3>1, <3>4, <4>1, FS_Subset, ValueIs
      <4>3. Cardinality(fewer) < taken
        BY <2>2, <4>2 DEF NoteSelectionTypeOK
      <4>4. Passed(fewer)
        BY <3>4, <4>2, <4>3 DEF Passed
      <4>5. QED
        BY <2>1, <4>1, <4>4 DEF Promise
    <3>5. QED
      BY <3>1, <3>2, <3>3, <3>4 DEF Selections
  <2>4. ASSUME result = "insufficient" PROVE Selections(NoteSet, amount, outputs) = {}
    BY <2>1, <2>4, InsufficientIsNone DEF Selections
  <2>5. QED
    BY <2>3, <2>4
<1>2. QED
  BY <1>1, PromiseAlways, PTL

(* The amount `cold-to-hot plan` offers after NO_LIQUIDITY_IN_COLD is one  *)
(* SelectNotes accepts for the same notes: all of them pay for it, since a *)
(* fee is never for less than two actions.                                 *)
THEOREM MaxSendableAlwaysSendable == Spec => []MaxSendableIsSendable
<1>1. IInv /\ Promise => MaxSendableIsSendable
  <2>1. SUFFICES ASSUME IInv, Promise, InWord, outputs = 1, amount = MaxSendable,
                        result = "insufficient"
                 PROVE  FALSE
    BY DEF MaxSendableIsSendable
  <2>2. /\ NoteSelectionTypeOK /\ amount \in Nat /\ amount > 0 /\ taken = Len(notes)
        /\ Len(notes) \in Nat
    BY <2>1, NoteSetType, NoteSelectionAssumption
    DEF IInv, NoteSelectionTypeOK, NoteSelectionAssumption, Promise
  <2>3. Cardinality(NoteSet) = Len(notes) /\ Value(NoteSet) \in Nat
    BY <2>1, <2>2, AllTaken, ValueIs DEF Promise
  <2>4. RequiredFeeSend(Len(notes), 1) = RequiredFeeSend(Len(notes), 2)
        /\ RequiredFeeSend(Len(notes), 1) \in Nat
    BY <2>2, FeeType DEF RequiredFeeSend, Larger
  <2>5. Value(NoteSet) = amount + RequiredFeeSend(Len(notes), 1)
    <3> DEFINE fee == RequiredFeeSend(Len(notes), 1)
    <3>1. amount = IF Value(NoteSet) > fee THEN Value(NoteSet) - fee ELSE 0
      BY <2>1 DEF MaxSendable
    <3> HIDE DEF fee
    <3>2. fee \in Nat
      BY <2>4 DEF fee
    <3>3. QED
      BY <2>2, <2>3, <3>1, <3>2 DEF fee
  <2>6. Covers(NoteSet, amount, 1)
    BY <2>3, <2>4, <2>5 DEF Covers
  <2>7. NoteSet # {}
    <3>1. Value({}) = 0
      BY SumEmpty DEF Value
    <3>2. QED
      BY <2>2, <2>3, <2>4, <2>5, <3>1
  <2>8. Largest(NoteSet, NoteSet)
    BY DEF Largest
  <2>9. QED
    BY <2>1, <2>6, <2>7, <2>8, InsufficientIsNone
<1>2. QED
  BY <1>1, PromiseAlways, PTL

=============================================================================
