---------------------------- MODULE LedgerProofs ----------------------------
(***************************************************************************)
(* The ledger's invariants for any accounts, notes, amounts and addresses, *)
(* and before them what all the books need: Total, which is defined by     *)
(* choosing elements one after the other, is a sum in the ordinary sense.  *)
(* Induction over a finite set is done with a member of a family of its    *)
(* subsets that has no smaller one in the family (SmallestMember).         *)
(***************************************************************************)
EXTENDS Ledger, TLAPS, WellFoundedInduction, FiniteSetTheorems

(* Every non-empty set of naturals has a least element. *)
LEMMA LeastElement ==
  ASSUME NEW T, T \subseteq Nat, T # {}
  PROVE  \E m \in T : \A k \in T : m <= k
<1>1. PICK m \in T : \A k \in T : ~(<<k, m>> \in OpToRel(<, Nat))
  BY WFMin, NatLessThanWellFounded
<1>2. ASSUME NEW k \in T PROVE m <= k
  <2>1. ~(<<k, m>> \in OpToRel(<, Nat))
    BY <1>1
  <2>2. k \in Nat /\ m \in Nat
    OBVIOUS
  <2>3. ~(k < m)
    BY <2>1, <2>2 DEF OpToRel
  <2>4. QED
    BY <2>2, <2>3
<1>3. QED
  BY <1>2


(* A family of subsets of a finite set has a member none of whose strict   *)
(* subsets is in the family: induction over finite sets.                   *)
LEMMA SmallestMember ==
  ASSUME NEW D, IsFiniteSet(D), NEW F, F \subseteq SUBSET D, F # {}
  PROVE  \E T \in F : \A U \in F : U \subseteq T => U = T
<1> DEFINE sizes == {Cardinality(T) : T \in F}
<1>1. \A T \in F : IsFiniteSet(T) /\ Cardinality(T) \in Nat
  BY FS_Subset, FS_CardinalityType
<1>2. sizes \subseteq Nat /\ sizes # {}
  BY <1>1
<1>3. PICK m \in sizes : \A k \in sizes : m <= k
  <2> HIDE DEF sizes
  <2> QED BY <1>2, LeastElement
<1>4. PICK T \in F : Cardinality(T) = m
  BY <1>3
<1>5. ASSUME NEW U \in F, U \subseteq T PROVE U = T
  <2>1. Cardinality(U) <= Cardinality(T) /\ (Cardinality(T) = Cardinality(U) => T = U)
    BY <1>1, <1>5, FS_Subset
  <2>2. Cardinality(T) <= Cardinality(U)
    BY <1>3, <1>4
  <2>3. QED
    BY <1>1, <2>1, <2>2
<1>6. QED
  BY <1>5

(* s adds up v over the subsets of D, taking the elements as CHOOSE does.  *)
Adds(s, v, D) ==
  s = [T \in SUBSET D |-> IF T = {} THEN 0
                          ELSE v[CHOOSE x \in T : TRUE] + s[T \ {CHOOSE x \in T : TRUE}]]

(* Any two such functions agree, whatever larger set one of them covers.   *)
LEMMA AddsOneWay ==
  ASSUME NEW D, IsFiniteSet(D), NEW E, D \subseteq E, NEW v, NEW w, \A x \in D : v[x] = w[x],
         NEW s, Adds(s, v, D), NEW t, Adds(t, w, E)
  PROVE  s[D] = t[D]
<1> DEFINE Bad == {T \in SUBSET D : s[T] # t[T]}
<1>1. SUFFICES ASSUME Bad # {} PROVE FALSE
  OBVIOUS
<1>2. PICK T \in Bad : \A U \in Bad : U \subseteq T => U = T
  <2>1. Bad \subseteq SUBSET D
    OBVIOUS
  <2> HIDE DEF Bad
  <2>2. QED
    BY <1>1, <2>1, SmallestMember
<1> DEFINE x == CHOOSE y \in T : TRUE
<1>3. T \in SUBSET D /\ T \in SUBSET E /\ s[T] # t[T]
  BY <1>2
<1>4. /\ s[T] = IF T = {} THEN 0 ELSE v[x] + s[T \ {x}]
      /\ t[T] = IF T = {} THEN 0 ELSE w[x] + t[T \ {x}]
  BY <1>3 DEF Adds
<1>5. T # {} /\ x \in T
  BY <1>3, <1>4
<1>6. T \ {x} \notin Bad /\ T \ {x} \in SUBSET D
  <2> HIDE DEF Bad
  <2> QED BY <1>2, <1>3, <1>5
<1>7. s[T \ {x}] = t[T \ {x}] /\ v[x] = w[x]
  BY <1>3, <1>5, <1>6
<1>8. QED
  BY <1>3, <1>4, <1>5, <1>7

(* There is one: the recursion inside MapThenFoldSet has a solution.       *)
LEMMA AddsExists ==
  ASSUME NEW D, IsFiniteSet(D), NEW v, \A x \in D : v[x] \in Int
  PROVE  \E s \in [SUBSET D -> Int] : Adds(s, v, D)
<1> DEFINE Bad == {T \in SUBSET D : ~\E s \in [SUBSET T -> Int] : Adds(s, v, T)}
<1>1. SUFFICES ASSUME Bad # {} PROVE FALSE
  OBVIOUS
<1>2. PICK T \in Bad : \A U \in Bad : U \subseteq T => U = T
  <2>1. Bad \subseteq SUBSET D
    OBVIOUS
  <2> HIDE DEF Bad
  <2>2. QED
    BY <1>1, <2>1, SmallestMember
<1> DEFINE of(U) == CHOOSE s \in [SUBSET U -> Int] : Adds(s, v, U)
<1>3. T \subseteq D /\ ~\E s \in [SUBSET T -> Int] : Adds(s, v, T)
  BY <1>2
<1>4. ASSUME NEW U \in SUBSET T, U # T
      PROVE  of(U) \in [SUBSET U -> Int] /\ Adds(of(U), v, U)
  <2>1. U \notin Bad
    <3> HIDE DEF Bad
    <3> QED BY <1>2, <1>4
  <2>2. \E s \in [SUBSET U -> Int] : Adds(s, v, U)
    BY <1>3, <2>1
  <2>3. QED
    BY <2>2
<1> HIDE DEF of
<1> DEFINE pick(U) == CHOOSE y \in U : TRUE
<1>5. \A U \in SUBSET T : U # {} => pick(U) \in U /\ v[pick(U)] \in Int /\ U \ {pick(U)} \in SUBSET T
                                     /\ U \ {pick(U)} # T /\ U \ {pick(U)} # U
  BY <1>3
<1> HIDE DEF pick
<1> DEFINE last == IF T = {} THEN 0 ELSE v[pick(T)] + of(T \ {pick(T)})[T \ {pick(T)}]
<1> DEFINE f == [U \in SUBSET T |-> IF U = T THEN last ELSE of(U)[U]]
<1>6. ASSUME NEW U \in SUBSET T
      PROVE  f[U] = IF U = {} THEN 0 ELSE v[pick(U)] + f[U \ {pick(U)}]
  <2>1. CASE U = T
    <3>1. f[U] = last
      BY <2>1
    <3>2. U # {} => f[U \ {pick(U)}] = of(U \ {pick(U)})[U \ {pick(U)}]
      BY <1>5, <2>1
    <3>3. QED
      BY <2>1, <3>1, <3>2
  <2>2. CASE U # T
    <3>1. f[U] = of(U)[U] /\ Adds(of(U), v, U)
      BY <1>4, <2>2
    <3>2. of(U)[U] = IF U = {} THEN 0 ELSE v[pick(U)] + of(U)[U \ {pick(U)}]
      BY <3>1 DEF Adds, pick
    <3>3. ASSUME U # {} PROVE of(U)[U \ {pick(U)}] = of(U \ {pick(U)})[U \ {pick(U)}]
      <4>1. Adds(of(U \ {pick(U)}), v, U \ {pick(U)}) /\ IsFiniteSet(U \ {pick(U)})
        BY <1>3, <1>4, <1>5, <3>3, FS_Subset
      <4>2. QED
        BY <3>1, <4>1, AddsOneWay
    <3>4. U # {} => f[U \ {pick(U)}] = of(U \ {pick(U)})[U \ {pick(U)}]
      BY <1>5
    <3>5. QED
      BY <3>1, <3>2, <3>3, <3>4
  <2>3. QED
    BY <2>1, <2>2
<1>7. f \in [SUBSET T -> Int]
  <2>1. ASSUME NEW U \in SUBSET T, U # T PROVE of(U)[U] \in Int
    BY <1>4, <2>1
  <2>2. last \in Int
    BY <1>5, <2>1
  <2> HIDE DEF last
  <2>3. QED
    BY <2>1, <2>2
<1>8. Adds(f, v, T)
  <2>1. f = [U \in SUBSET T |-> f[U]]
    OBVIOUS
  <2> HIDE DEF f
  <2>2. QED
    BY <1>6, <2>1 DEF Adds, pick
<1>9. QED
  <2> HIDE DEF f
  <2> QED BY <1>3, <1>7, <1>8

(* What the proofs need to know of a sum.                                  *)
LEMMA SumAdds ==
  ASSUME NEW S, IsFiniteSet(S), NEW v, \A x \in S : v[x] \in Int
  PROVE  \E s \in [SUBSET S -> Int] : Adds(s, v, S) /\ Total(v, S) = s[S]
<1> DEFINE f == CHOOSE s : s = [T \in SUBSET S |-> IF T = {} THEN 0
                          ELSE v[CHOOSE x \in T : TRUE] + s[T \ {CHOOSE x \in T : TRUE}]]
<1>3. PICK s \in [SUBSET S -> Int] : Adds(s, v, S)
  BY AddsExists
<1>1. Adds(f, v, S)
  <2>1. \E t : Adds(t, v, S)
    BY <1>3
  <2>2. QED
    BY <2>1 DEF Adds
<1>2. Total(v, S) = f[S]
  BY DEF Total, MapThenSumSet, MapThenFoldSet
<1> HIDE DEF f
<1>4. f[S] = s[S]
  BY <1>1, <1>3, AddsOneWay
<1>5. QED
  BY <1>2, <1>3, <1>4

(* A sum of integers is an integer.                                        *)
LEMMA SumType ==
  ASSUME NEW S, IsFiniteSet(S), NEW v, \A x \in S : v[x] \in Int
  PROVE  Total(v, S) \in Int
<1>1. PICK s \in [SUBSET S -> Int] : Total(v, S) = s[S]
  BY SumAdds
<1>2. QED
  BY <1>1

(* Nothing sums to nothing.                                                *)
LEMMA SumEmpty ==
  ASSUME NEW v
  PROVE  Total(v, {}) = 0
<1>1. PICK s \in [SUBSET {} -> Int] : Adds(s, v, {}) /\ Total(v, {}) = s[{}]
  BY SumAdds, FS_EmptySet
<1>2. QED
  BY <1>1 DEF Adds

(* Only the values on the set count.                                       *)
LEMMA SumSame ==
  ASSUME NEW S, IsFiniteSet(S), NEW v, NEW w, \A x \in S : v[x] \in Int /\ w[x] = v[x]
  PROVE  Total(w, S) = Total(v, S)
<1>1. PICK s \in [SUBSET S -> Int] : Adds(s, v, S) /\ Total(v, S) = s[S]
  BY SumAdds
<1>2. PICK t \in [SUBSET S -> Int] : Adds(t, w, S) /\ Total(w, S) = t[S]
  BY SumAdds
<1>3. QED
  BY <1>1, <1>2, AddsOneWay

(* The order in which CHOOSE takes the elements does not matter.           *)
LEMMA SumRemove ==
  ASSUME NEW S, IsFiniteSet(S), NEW v, \A x \in S : v[x] \in Int, NEW y \in S
  PROVE  Total(v, S) = v[y] + Total(v, S \ {y})
<1> DEFINE Bad == {T \in SUBSET S : \E z \in T : Total(v, T) # v[z] + Total(v, T \ {z})}
<1>1. SUFFICES ASSUME Bad # {} PROVE FALSE
  OBVIOUS
<1>2. PICK T \in Bad : \A U \in Bad : U \subseteq T => U = T
  <2>1. Bad \subseteq SUBSET S
    OBVIOUS
  <2> HIDE DEF Bad
  <2>2. QED
    BY <1>1, <2>1, SmallestMember
<1>3. PICK z \in T : Total(v, T) # v[z] + Total(v, T \ {z})
  BY <1>2
<1> DEFINE x == CHOOSE u \in T : TRUE
<1>4. x \in T /\ T \in SUBSET S
  BY <1>2, <1>3
<1>5. ASSUME NEW U \in SUBSET S
      PROVE  IsFiniteSet(U) /\ Total(v, U) \in Int /\ \A u \in U : v[u] \in Int
  BY FS_Subset, SumType
<1>6. Total(v, T) = v[x] + Total(v, T \ {x})
  <2>1. PICK s \in [SUBSET T -> Int] : Adds(s, v, T) /\ Total(v, T) = s[T]
    BY <1>4, <1>5, SumAdds
  <2>2. T \ {x} \in SUBSET S
    BY <1>4
  <2>3. PICK t \in [SUBSET (T \ {x}) -> Int] : Adds(t, v, T \ {x}) /\ Total(v, T \ {x}) = t[T \ {x}]
    <3> HIDE DEF x
    <3> QED BY <1>5, <2>2, SumAdds
  <2>4. s[T] = v[x] + s[T \ {x}]
    BY <1>4, <2>1 DEF Adds
  <2>5. s[T \ {x}] = t[T \ {x}]
    <3> HIDE DEF x
    <3>1. IsFiniteSet(T \ {x}) /\ T \ {x} \subseteq T
      BY <1>5, <2>2
    <3>2. QED
      BY <2>1, <2>3, <3>1, AddsOneWay
  <2>6. QED
    BY <2>1, <2>3, <2>4, <2>5
<1> HIDE DEF x
<1>7. x # z
  BY <1>3, <1>6
<1> DEFINE both == T \ {x, z}
<1>8. /\ T \ {x} \in SUBSET S /\ T \ {z} \in SUBSET S /\ both \in SUBSET S
      /\ T \ {x} # T /\ T \ {z} # T /\ (T \ {x}) \ {z} = both /\ (T \ {z}) \ {x} = both
      /\ z \in T \ {x} /\ x \in T \ {z}
  BY <1>3, <1>4, <1>7
<1>9. T \ {x} \notin Bad /\ T \ {z} \notin Bad
  <2> HIDE DEF Bad
  <2> QED BY <1>2, <1>8
<1>10. Total(v, T \ {x}) = v[z] + Total(v, both)
  <2> HIDE DEF both
  <2> QED BY <1>8, <1>9
<1>11. Total(v, T \ {z}) = v[x] + Total(v, both)
  <2> HIDE DEF both
  <2> QED BY <1>8, <1>9
<1>12. Total(v, both) \in Int /\ v[x] \in Int /\ v[z] \in Int
  <2> HIDE DEF both
  <2> QED BY <1>3, <1>4, <1>5, <1>8
<1>13. QED
  <2> HIDE DEF both, Bad
  <2> QED BY <1>3, <1>6, <1>10, <1>11, <1>12

(* One element more.                                                       *)
LEMMA SumAdd ==
  ASSUME NEW S, IsFiniteSet(S), NEW v, \A x \in S : v[x] \in Int, NEW y, y \notin S, v[y] \in Int
  PROVE  Total(v, S \cup {y}) = v[y] + Total(v, S)
<1>1. IsFiniteSet(S \cup {y}) /\ (S \cup {y}) \ {y} = S
  BY FS_AddElement
<1>2. \A x \in S \cup {y} : v[x] \in Int
  OBVIOUS
<1>3. QED
  BY <1>1, <1>2, SumRemove

(* One element.                                                            *)
LEMMA SumSingle ==
  ASSUME NEW v, NEW y, v[y] \in Int
  PROVE  Total(v, {y}) = v[y]
<1>1. Total(v, {} \cup {y}) = v[y] + Total(v, {})
  BY SumAdd, FS_EmptySet
<1>2. QED
  BY <1>1, SumEmpty

(* Two sets with nothing in common.                                        *)
LEMMA SumUnion ==
  ASSUME NEW A, NEW B, IsFiniteSet(A), IsFiniteSet(B), A \cap B = {},
         NEW v, \A x \in A \cup B : v[x] \in Int
  PROVE  Total(v, A \cup B) = Total(v, A) + Total(v, B)
<1> DEFINE Bad == {T \in SUBSET B : Total(v, A \cup T) # Total(v, A) + Total(v, T)}
<1>1. SUFFICES ASSUME Bad # {} PROVE FALSE
  OBVIOUS
<1>2. PICK T \in Bad : \A U \in Bad : U \subseteq T => U = T
  <2>1. Bad \subseteq SUBSET B
    OBVIOUS
  <2> HIDE DEF Bad
  <2>2. QED
    BY <1>1, <2>1, SmallestMember
<1>3. T \in SUBSET B /\ Total(v, A \cup T) # Total(v, A) + Total(v, T)
  BY <1>2
<1>4. Total(v, A) \in Int /\ Total(v, {}) = 0
  BY SumType, SumEmpty
<1>5. T # {}
  <2>1. A \cup {} = A
    OBVIOUS
  <2>2. \A n \in Int : n + 0 = n
    OBVIOUS
  <2>3. Total(v, A \cup {}) = Total(v, A) + Total(v, {})
    BY <1>4, <2>1, <2>2
  <2>4. QED
    BY <1>3, <2>3
<1>6. PICK x \in T : TRUE
  BY <1>5
<1>7. T \ {x} \in SUBSET B /\ T \ {x} \notin Bad
  <2>1. T \ {x} \in SUBSET B /\ T \ {x} # T
    BY <1>3, <1>6
  <2> HIDE DEF Bad
  <2>2. QED
    BY <1>2, <2>1
<1>8. Total(v, A \cup (T \ {x})) = Total(v, A) + Total(v, T \ {x})
  BY <1>7
<1>9. /\ IsFiniteSet(A \cup T) /\ IsFiniteSet(T) /\ IsFiniteSet(T \ {x})
      /\ x \in A \cup T /\ (A \cup T) \ {x} = A \cup (T \ {x})
      /\ \A y \in A \cup T : v[y] \in Int
  <2>1. IsFiniteSet(T) /\ IsFiniteSet(T \ {x})
    BY <1>3, <1>7, FS_Subset
  <2>2. IsFiniteSet(A \cup T)
    BY <2>1, FS_Union
  <2>3. QED
    BY <1>3, <1>6, <2>1, <2>2
<1>10. Total(v, A \cup T) = v[x] + Total(v, A \cup (T \ {x}))
  <2>1. Total(v, A \cup T) = v[x] + Total(v, (A \cup T) \ {x})
    BY <1>9, SumRemove
  <2>2. QED
    BY <1>9, <2>1
<1>11. Total(v, T) = v[x] + Total(v, T \ {x})
  BY <1>6, <1>9, SumRemove
<1>12. v[x] \in Int /\ Total(v, T \ {x}) \in Int
  BY <1>9, SumType
<1>13. QED
  BY <1>3, <1>4, <1>8, <1>10, <1>11, <1>12

(* A part and the rest.                                                    *)
LEMMA SumSplit ==
  ASSUME NEW S, IsFiniteSet(S), NEW T, T \subseteq S, NEW v, \A x \in S : v[x] \in Int
  PROVE  Total(v, S) = Total(v, T) + Total(v, S \ T)
<1>1. IsFiniteSet(T) /\ IsFiniteSet(S \ T) /\ T \cup (S \ T) = S /\ T \cap (S \ T) = {}
  BY FS_Subset
<1>2. \A x \in T \cup (S \ T) : v[x] \in Int
  OBVIOUS
<1>3. Total(v, T \cup (S \ T)) = Total(v, T) + Total(v, S \ T)
  BY <1>1, <1>2, SumUnion
<1>4. QED
  BY <1>1, <1>3

(* The sum of the sums.                                                    *)
LEMMA SumPlus ==
  ASSUME NEW S, IsFiniteSet(S), NEW u, NEW v, NEW w,
         \A x \in S : v[x] \in Int /\ w[x] \in Int /\ u[x] = v[x] + w[x]
  PROVE  Total(u, S) = Total(v, S) + Total(w, S)
<1> DEFINE Bad == {T \in SUBSET S : Total(u, T) # Total(v, T) + Total(w, T)}
<1>1. SUFFICES ASSUME Bad # {} PROVE FALSE
  OBVIOUS
<1>2. PICK T \in Bad : \A U \in Bad : U \subseteq T => U = T
  <2>1. Bad \subseteq SUBSET S
    OBVIOUS
  <2> HIDE DEF Bad
  <2>2. QED
    BY <1>1, <2>1, SmallestMember
<1>3. T \in SUBSET S /\ Total(u, T) # Total(v, T) + Total(w, T)
  BY <1>2
<1>4. T # {}
  <2>1. Total(u, {}) = 0 /\ Total(v, {}) = 0 /\ Total(w, {}) = 0
    BY SumEmpty
  <2>2. Total(u, {}) = Total(v, {}) + Total(w, {})
    BY <2>1
  <2>3. QED
    BY <1>3, <2>2
<1>5. PICK x \in T : TRUE
  BY <1>4
<1>6. T \ {x} \in SUBSET S /\ T \ {x} \notin Bad
  <2>1. T \ {x} \in SUBSET S /\ T \ {x} # T
    BY <1>3, <1>5
  <2> HIDE DEF Bad
  <2>2. QED
    BY <1>2, <2>1
<1>7. Total(u, T \ {x}) = Total(v, T \ {x}) + Total(w, T \ {x})
  BY <1>6
<1>8. /\ IsFiniteSet(T) /\ IsFiniteSet(T \ {x})
      /\ \A y \in T : v[y] \in Int /\ w[y] \in Int /\ u[y] \in Int /\ u[y] = v[y] + w[y]
  BY <1>3, <1>6, FS_Subset
<1>9. /\ Total(u, T) = u[x] + Total(u, T \ {x}) /\ Total(v, T) = v[x] + Total(v, T \ {x})
      /\ Total(w, T) = w[x] + Total(w, T \ {x})
  BY <1>5, <1>8, SumRemove
<1>10. Total(v, T \ {x}) \in Int /\ Total(w, T \ {x}) \in Int
  BY <1>8, SumType
<1>11. v[x] \in Int /\ w[x] \in Int /\ u[x] = v[x] + w[x]
  BY <1>8
<1> HIDE DEF Bad
<1>12. QED
  BY <1>3, <1>7, <1>9, <1>10, <1>11

(* Zeros sum to zero.                                                      *)
LEMMA SumZero ==
  ASSUME NEW S, IsFiniteSet(S), NEW v, \A x \in S : v[x] = 0
  PROVE  Total(v, S) = 0
<1>1. Total(v, S) = Total(v, S) + Total(v, S)
  BY SumPlus
<1>2. Total(v, S) \in Int
  BY SumType
<1>3. \A n \in Int : n = n + n => n = 0
  OBVIOUS
<1>4. QED
  BY <1>1, <1>2, <1>3

(* What is never negative does not sum to less than zero.                  *)
LEMMA SumNat ==
  ASSUME NEW S, IsFiniteSet(S), NEW v, \A x \in S : v[x] \in Nat
  PROVE  Total(v, S) \in Nat
<1> DEFINE Bad == {T \in SUBSET S : Total(v, T) \notin Nat}
<1>1. SUFFICES ASSUME Bad # {} PROVE FALSE
  OBVIOUS
<1>2. PICK T \in Bad : \A U \in Bad : U \subseteq T => U = T
  <2>1. Bad \subseteq SUBSET S
    OBVIOUS
  <2> HIDE DEF Bad
  <2>2. QED
    BY <1>1, <2>1, SmallestMember
<1>3. T \in SUBSET S /\ Total(v, T) \notin Nat
  BY <1>2
<1>4. T # {}
  BY <1>3, SumEmpty
<1>5. PICK x \in T : TRUE
  BY <1>4
<1>6. T \ {x} \in SUBSET S /\ T \ {x} \notin Bad
  <2>1. T \ {x} \in SUBSET S /\ T \ {x} # T
    BY <1>3, <1>5
  <2> HIDE DEF Bad
  <2>2. QED
    BY <1>2, <2>1
<1>7. Total(v, T \ {x}) \in Nat /\ v[x] \in Nat
  BY <1>3, <1>5, <1>6
<1>8. Total(v, T) = v[x] + Total(v, T \ {x})
  <2>1. IsFiniteSet(T) /\ \A y \in T : v[y] \in Int
    BY <1>3, FS_Subset
  <2>2. QED
    BY <1>5, <2>1, SumRemove
<1>9. QED
  BY <1>3, <1>7, <1>8

(* Smaller values, smaller sum.                                            *)
LEMMA SumAtMost ==
  ASSUME NEW S, IsFiniteSet(S), NEW v, NEW w,
         \A x \in S : v[x] \in Int /\ w[x] \in Int /\ v[x] <= w[x]
  PROVE  Total(v, S) <= Total(w, S)
<1> DEFINE d == [x \in S |-> w[x] - v[x]]
<1>1. \A x \in S : d[x] \in Nat /\ v[x] \in Int /\ w[x] = v[x] + d[x]
  OBVIOUS
<1> HIDE DEF d
<1>2. Total(w, S) = Total(v, S) + Total(d, S)
  BY <1>1, SumPlus
<1>3. Total(d, S) \in Nat /\ Total(v, S) \in Int
  BY <1>1, SumNat, SumType
<1>4. QED
  BY <1>2, <1>3

(* Fewer elements, smaller sum.                                            *)
LEMMA SumOfSome ==
  ASSUME NEW S, IsFiniteSet(S), NEW T, T \subseteq S, NEW v, \A x \in S : v[x] \in Nat
  PROVE  Total(v, T) <= Total(v, S)
<1>1. Total(v, S) = Total(v, T) + Total(v, S \ T)
  BY SumSplit
<1>2. Total(v, T) \in Nat /\ Total(v, S \ T) \in Nat
  BY SumNat, FS_Subset
<1>3. QED
  BY <1>1, <1>2

(* Replacing one value moves the sum by the difference.                    *)
LEMMA SumChange ==
  ASSUME NEW S, IsFiniteSet(S), NEW y \in S, NEW v, NEW w,
         \A x \in S : v[x] \in Int /\ w[x] \in Int, \A x \in S \ {y} : w[x] = v[x]
  PROVE  Total(w, S) = Total(v, S) + w[y] - v[y]
<1>1. Total(w, S) = w[y] + Total(w, S \ {y}) /\ Total(v, S) = v[y] + Total(v, S \ {y})
  BY SumRemove
<1>2. Total(w, S \ {y}) = Total(v, S \ {y}) /\ Total(v, S \ {y}) \in Int
  <2>1. IsFiniteSet(S \ {y})
    BY FS_Subset
  <2>2. QED
    BY <2>1, SumSame, SumType
<1>3. QED
  BY <1>1, <1>2

(* Adding up over the images of different elements.                        *)
LEMMA SumImage ==
  ASSUME NEW S, IsFiniteSet(S), NEW f, \A x, y \in S : f[x] = f[y] => x = y,
         NEW v, NEW w, \A x \in S : w[x] \in Int /\ v[f[x]] = w[x]
  PROVE  Total(v, {f[x] : x \in S}) = Total(w, S)
<1> DEFINE image(T) == {f[x] : x \in T}
<1> DEFINE Bad == {T \in SUBSET S : Total(v, image(T)) # Total(w, T)}
<1>1. SUFFICES ASSUME Bad # {} PROVE FALSE
  OBVIOUS
<1>2. PICK T \in Bad : \A U \in Bad : U \subseteq T => U = T
  <2>1. Bad \subseteq SUBSET S
    OBVIOUS
  <2> HIDE DEF Bad
  <2>2. QED
    BY <1>1, <2>1, SmallestMember
<1>3. T \in SUBSET S /\ Total(v, image(T)) # Total(w, T)
  BY <1>2
<1>4. T # {}
  <2>1. image({}) = {}
    OBVIOUS
  <2> HIDE DEF image
  <2>2. QED
    BY <1>3, <2>1, SumEmpty
<1>5. PICK x \in T : TRUE
  BY <1>4
<1>6. T \ {x} \in SUBSET S /\ T \ {x} \notin Bad
  <2>1. T \ {x} \in SUBSET S /\ T \ {x} # T
    BY <1>3, <1>5
  <2> HIDE DEF Bad
  <2>2. QED
    BY <1>2, <2>1
<1>7. Total(v, image(T \ {x})) = Total(w, T \ {x})
  BY <1>6
<1>8. IsFiniteSet(T) /\ IsFiniteSet(image(T))
  <2>1. IsFiniteSet(T)
    BY <1>3, FS_Subset
  <2> DEFINE g == [y \in T |-> f[y]]
  <2>2. g \in Surjection(T, image(T))
    BY DEF Surjection
  <2>3. IsFiniteSet(image(T))
    <3> HIDE DEF g, image
    <3> QED BY <2>1, <2>2, FS_Surjection
  <2>4. QED
    BY <2>1, <2>3
<1>9. f[x] \in image(T) /\ image(T) \ {f[x]} = image(T \ {x}) /\ \A z \in image(T) : v[z] \in Int
  BY <1>3, <1>5
<1>10. Total(v, image(T)) = v[f[x]] + Total(v, image(T \ {x}))
  <2> HIDE DEF image
  <2>1. Total(v, image(T)) = v[f[x]] + Total(v, image(T) \ {f[x]})
    BY <1>8, <1>9, SumRemove
  <2>2. QED
    BY <1>9, <2>1
<1>11. Total(w, T) = w[x] + Total(w, T \ {x})
  BY <1>3, <1>5, <1>8, SumRemove
<1>12. v[f[x]] = w[x]
  BY <1>3, <1>5
<1> HIDE DEF image
<1>13. QED
  BY <1>3, <1>7, <1>10, <1>11, <1>12

-----------------------------------------------------------------------------
LEMMA RowAccountType ==
  ASSUME NEW row \in Row, NEW found \in Account \cup {NoAccount}, NEW hasRecipient \in BOOLEAN
  PROVE  RowAccount(row, found, hasRecipient) \in Account \cup {NoAccount}
BY DEF RowAccount, Row

LEMMA NewRowType ==
  ASSUME LedgerTypeOK, NEW n \in Note, NEW zat \in Zat,
         NEW found \in Account \cup {NoAccount},
         NEW hasRecipient \in BOOLEAN, NEW status \in Status
  PROVE  /\ NewRow(n, zat, found, hasRecipient, status) \in Row
         /\ NewRow(n, zat, found, hasRecipient, status).status = status
<1>1. deposits[n] \in Row
  BY DEF LedgerTypeOK
<1>2. RowAccount(deposits[n], found, hasRecipient) \in Account \cup {NoAccount}
  BY <1>1, RowAccountType
<1>3. zat \in 0..MaxZat
  BY LedgerAssumption DEF Zat, LedgerAssumption
<1>4. QED
  BY <1>2, <1>3 DEF NewRow, Row

LEMMA AnswersType == LedgerTypeOK => Answers \subseteq Account \cup {NoAccount}
BY DEF LedgerTypeOK, Answers

(* What a row is worth to an account. *)
Worth(row, a) == IF row.status = "confirmed" /\ row.account = a THEN row.zat ELSE 0

LEMMA WorthType ==
  ASSUME NEW row \in Row, NEW a \in Account
  PROVE  Worth(row, a) \in Nat
BY LedgerAssumption DEF Worth, Row, LedgerAssumption

(* Posting moves every balance by what the row's worth to it changes, and  *)
(* stays non-negative when CanPost lets it through.                        *)
LEMMA PostedIsWorthChange ==
  ASSUME LedgerTypeOK, NEW row \in Row, NEW new \in Row, CanPost(row, new),
         new.status # "absent"
  PROVE  /\ Posted(row, new) \in [Account -> Nat]
         /\ \A a \in Account :
              Posted(row, new)[a] = balance[a] + Worth(new, a) - Worth(row, a)
<1>1. /\ row.account \in Account \cup {NoAccount} /\ new.account \in Account \cup {NoAccount}
      /\ row.zat \in Nat /\ new.zat \in Nat
  BY LedgerAssumption DEF Row, LedgerAssumption
<1>2. balance \in [Account -> Nat]
  BY DEF LedgerTypeOK
<1>3. NoAccount \notin Account
  BY LedgerAssumption DEF LedgerAssumption
<1> DEFINE back == AfterTakingBack(row, new)
<1>4. back \in [Account -> Nat]
  <2>1. CASE TakesBack(row, new)
    <3>1. row.account \in Account
      BY <1>1, <2>1 DEF TakesBack
    <3>2. balance[row.account] - row.zat \in Nat
      BY <1>1, <1>2, <2>1, <3>1 DEF CanPost
    <3>3. QED
      BY <1>2, <2>1, <3>1, <3>2 DEF AfterTakingBack
  <2>2. CASE ~TakesBack(row, new)
    BY <1>2, <2>2 DEF AfterTakingBack
  <2>3. QED
    BY <2>1, <2>2
<1>5. ASSUME NEW a \in Account
      PROVE  back[a] = balance[a] - (IF TakesBack(row, new) /\ row.account = a THEN row.zat ELSE 0)
  BY <1>1, <1>2 DEF AfterTakingBack
<1>6. Posted(row, new) \in [Account -> Nat]
  <2>1. CASE Gives(row, new)
    <3>1. new.account \in Account
      BY <1>1, <2>1 DEF Gives
    <3>2. back[new.account] + new.zat \in Nat
      BY <1>1, <1>4, <3>1
    <3>3. QED
      BY <1>4, <2>1, <3>1, <3>2 DEF Posted
  <2>2. CASE ~Gives(row, new)
    BY <1>4, <2>2 DEF Posted
  <2>3. QED
    BY <2>1, <2>2
<1>7. ASSUME NEW a \in Account
      PROVE  Posted(row, new)[a] = back[a] + (IF Gives(row, new) /\ new.account = a THEN new.zat ELSE 0)
  <2> HIDE DEF back
  <2>1. back[a] \in Nat
    BY <1>4
  <2>2. Posted(row, new) = IF Gives(row, new) THEN [back EXCEPT ![new.account] = @ + new.zat] ELSE back
    BY DEF Posted, back
  <2>3. QED
    BY <1>1, <1>4, <2>1, <2>2
<1>8. ASSUME NEW a \in Account
      PROVE  Posted(row, new)[a] = balance[a] + Worth(new, a) - Worth(row, a)
  <2> HIDE DEF back
  <2>1. balance[a] \in Nat
    BY <1>2
  <2>2. CASE row.status = "confirmed" /\ new.status = "confirmed" /\ ~Differs(row, new)
    <3>1. Worth(new, a) = Worth(row, a)
      BY <2>2 DEF Differs, Worth
    <3>2. ~TakesBack(row, new) /\ ~Gives(row, new)
      BY <2>2 DEF TakesBack, Gives
    <3>3. QED
      BY <1>1, <1>5, <1>7, <2>1, <3>1, <3>2 DEF Worth
  <2>3. CASE ~(row.status = "confirmed" /\ new.status = "confirmed" /\ ~Differs(row, new))
    <3>1. (IF TakesBack(row, new) /\ row.account = a THEN row.zat ELSE 0) = Worth(row, a)
      BY <1>3, <2>3 DEF TakesBack, Worth
    <3>2. (IF Gives(row, new) /\ new.account = a THEN new.zat ELSE 0) = Worth(new, a)
      BY <1>3, <2>3 DEF Gives, Worth
    <3>3. Worth(row, a) \in Nat /\ Worth(new, a) \in Nat
      BY WorthType
    <3>4. Posted(row, new)[a] = balance[a] - Worth(row, a) + Worth(new, a)
      BY <1>5, <1>7, <3>1, <3>2
    <3>5. QED
      BY <2>1, <3>3, <3>4
  <2>4. QED
    BY <2>2, <2>3
<1>9. QED
  BY <1>6, <1>8

-----------------------------------------------------------------------------
(* The three transactions, with withdrawals of any amount and fee.         *)
LEMMA LedgerNextCases ==
  ASSUME LedgerTypeOK, LedgerNext
  PROVE  \/ \E n \in Note, zat \in Zat, found \in Answers, hasRecipient \in BOOLEAN, status \in Status :
                ApplyDeposit(n, zat, found, hasRecipient, status)
         \/ \E a \in Account, amount \in Nat, fee \in Nat : CreateWithdrawalAndDebit(a, amount, fee)
         \/ \E a \in Account : GetOrAssignDepositAddress(a)
<1>1. ASSUME NEW a \in Account, NEW amount \in 1..balance[a], NEW fee \in 0..(balance[a] - amount)
      PROVE  amount \in Nat /\ fee \in Nat
  BY DEF LedgerTypeOK
<1>2. QED
  BY <1>1 DEF LedgerNext

(* Whatever a caller withdraws within the balance is such a transaction.   *)
LEMMA DebitIsLedgerStep ==
  ASSUME LedgerTypeOK, NEW a \in Account, NEW amount \in Nat \ {0}, NEW fee \in Nat,
         CreateWithdrawalAndDebit(a, amount, fee)
  PROVE  LedgerNext /\ LedgerTypeOK'
<1>1. balance[a] \in Nat /\ debited[a] \in Nat /\ balance[a] >= amount + fee
  BY DEF LedgerTypeOK, CreateWithdrawalAndDebit
<1>2. amount \in 1..balance[a] /\ fee \in 0..(balance[a] - amount)
  BY <1>1
<1>3. balance[a] - (amount + fee) \in Nat /\ debited[a] + (amount + fee) \in Nat
  BY <1>1
<1>4. LedgerTypeOK'
  BY <1>3 DEF LedgerTypeOK, CreateWithdrawalAndDebit
<1>5. QED
  BY <1>2, <1>4 DEF LedgerNext

-----------------------------------------------------------------------------
LEMMA ApplyDepositType ==
  ASSUME LedgerTypeOK, NEW n \in Note, NEW zat \in Zat,
         NEW found \in Account \cup {NoAccount},
         NEW hasRecipient \in BOOLEAN, NEW status \in Status,
         ApplyDeposit(n, zat, found, hasRecipient, status)
  PROVE  LedgerTypeOK'
<1> DEFINE new == NewRow(n, zat, found, hasRecipient, status)
<1>1. new \in Row /\ new.status = status
  BY NewRowType
<1>2. deposits[n] \in Row
  BY DEF LedgerTypeOK
<1>3. CanPost(deposits[n], new) /\ balance' = Posted(deposits[n], new)
  BY DEF ApplyDeposit
<1>4. balance' \in [Account -> Nat]
  <2>1. new.status # "absent"
    BY <1>1 DEF Status
  <2> HIDE DEF new
  <2>2. QED
    BY <1>1, <1>2, <1>3, <2>1, PostedIsWorthChange
<1>5. deposits' \in [Note -> Row]
  <2>1. deposits' = [deposits EXCEPT ![n] = new]
    BY DEF ApplyDeposit
  <2> HIDE DEF new
  <2>2. QED
    BY <1>1, <2>1 DEF LedgerTypeOK
<1>6. UNCHANGED <<debited, owner, nextIndex>>
  BY DEF ApplyDeposit
<1>7. QED
  BY <1>4, <1>5, <1>6 DEF LedgerTypeOK

LEMMA LedgerNextKeepsType ==
  ASSUME LedgerTypeOK, LedgerNext
  PROVE  LedgerTypeOK'
<1>1. ASSUME NEW n \in Note, NEW zat \in Zat, NEW found \in Answers,
             NEW hasRecipient \in BOOLEAN, NEW status \in Status,
             ApplyDeposit(n, zat, found, hasRecipient, status)
      PROVE  LedgerTypeOK'
  BY <1>1, AnswersType, ApplyDepositType
<1>2. ASSUME NEW a \in Account, NEW amount \in Nat, NEW fee \in Nat,
             CreateWithdrawalAndDebit(a, amount, fee)
      PROVE  LedgerTypeOK'
  <2>1. amount + fee \in Nat
    OBVIOUS
  <2>2. balance[a] \in Nat /\ balance[a] - (amount + fee) \in Nat /\ debited[a] + (amount + fee) \in Nat
    BY <1>2, <2>1 DEF LedgerTypeOK, CreateWithdrawalAndDebit
  <2>3. QED
    BY <1>2, <2>2 DEF LedgerTypeOK, CreateWithdrawalAndDebit
<1>3. ASSUME NEW a \in Account, GetOrAssignDepositAddress(a)
      PROVE  LedgerTypeOK'
  BY <1>3, LedgerAssumption DEF LedgerAssumption, LedgerTypeOK, GetOrAssignDepositAddress, Index
<1>4. QED
  BY <1>1, <1>2, <1>3, LedgerNextCases

(* Every table column keeps its type: in particular no balance and no      *)
(* total of withdrawals is ever negative.                                  *)
THEOREM LedgerTypeCorrect == LedgerSpec => []LedgerTypeOK
<1>1. LedgerInit => LedgerTypeOK
  BY LedgerAssumption DEF LedgerAssumption, LedgerInit, LedgerTypeOK, NoRow, Row
<1>2. LedgerTypeOK /\ [LedgerNext]_ledgerVars => LedgerTypeOK'
  <2>1. LedgerTypeOK /\ UNCHANGED ledgerVars => LedgerTypeOK'
    BY DEF ledgerVars, LedgerTypeOK
  <2>2. QED
    BY <2>1, LedgerNextKeepsType
<1>3. QED
  BY <1>1, <1>2, PTL DEF LedgerSpec

-----------------------------------------------------------------------------
LEMMA NotesFinite == IsFiniteSet(Note)
BY LedgerAssumption, FS_Interval DEF LedgerAssumption, Note

LEMMA CreditType == LedgerTypeOK => \A a \in Account, n \in Note : Credit(a)[n] \in Int
BY LedgerAssumption DEF LedgerAssumption, LedgerTypeOK, Credit, Note, Row

LEMMA CreditTypeNext == LedgerTypeOK' => \A a \in Account, n \in Note : Credit(a)'[n] \in Int
BY LedgerAssumption DEF LedgerAssumption, LedgerTypeOK, Credit, Note, Row

(* One applied event changes one entry of each account's column, by as     *)
(* much as the balance moves.                                              *)
LEMMA ApplyDepositBalances ==
  ASSUME LedgerTypeOK, LedgerTypeOK', BooksBalance, NEW n \in Note, NEW zat \in Zat,
         NEW found \in Account \cup {NoAccount},
         NEW hasRecipient \in BOOLEAN, NEW status \in Status,
         ApplyDeposit(n, zat, found, hasRecipient, status)
  PROVE  BooksBalance'
<1> DEFINE new == NewRow(n, zat, found, hasRecipient, status)
<1>1. new \in Row /\ new.status # "absent"
  BY NewRowType DEF Status
<1>2. /\ CanPost(deposits[n], new) /\ balance' = Posted(deposits[n], new)
      /\ deposits' = [deposits EXCEPT ![n] = new] /\ debited' = debited
  BY DEF ApplyDeposit
<1>3. deposits[n] \in Row /\ deposits'[n] = new
  BY <1>2 DEF LedgerTypeOK
<1> HIDE DEF new
<1>4. SUFFICES ASSUME NEW a \in Account
               PROVE  balance'[a] + debited'[a] = Total(Credit(a)', Note)
  BY DEF BooksBalance
<1>5. balance'[a] = balance[a] + Worth(new, a) - Worth(deposits[n], a)
  BY <1>1, <1>2, <1>3, PostedIsWorthChange
<1>6. \A i \in Note : Credit(a)[i] \in Int /\ Credit(a)'[i] \in Int
  BY CreditType, CreditTypeNext
<1>7. \A i \in Note \ {n} : Credit(a)'[i] = Credit(a)[i]
  BY <1>2 DEF Credit, LedgerTypeOK
<1>8. Credit(a)[n] = Worth(deposits[n], a) /\ Credit(a)'[n] = Worth(new, a)
  BY <1>3 DEF Credit, Worth
<1>9. Total(Credit(a)', Note) = Total(Credit(a), Note) + Worth(new, a) - Worth(deposits[n], a)
  <2>1. Total(Credit(a)', Note) = Total(Credit(a), Note) + Credit(a)'[n] - Credit(a)[n]
    BY <1>6, <1>7, NotesFinite, SumChange
  <2>2. QED
    BY <1>8, <2>1
<1>10. balance[a] + debited[a] = Total(Credit(a), Note)
  BY DEF BooksBalance
<1>11. /\ balance[a] \in Nat /\ debited[a] \in Nat /\ debited'[a] = debited[a]
       /\ Worth(new, a) \in Nat /\ Worth(deposits[n], a) \in Nat
  BY <1>1, <1>2, <1>3, WorthType DEF LedgerTypeOK
<1>12. QED
  BY <1>5, <1>9, <1>10, <1>11

LEMMA WithdrawalBalances ==
  ASSUME LedgerTypeOK, BooksBalance, NEW a \in Account, NEW amount \in Nat, NEW fee \in Nat,
         CreateWithdrawalAndDebit(a, amount, fee)
  PROVE  BooksBalance'
<1>1. SUFFICES ASSUME NEW b \in Account
               PROVE  balance'[b] + debited'[b] = Total(Credit(b)', Note)
  BY DEF BooksBalance
<1>2. Credit(b)' = Credit(b)
  BY DEF CreateWithdrawalAndDebit, Credit
<1>3. amount + fee \in Nat
  OBVIOUS
<1>4. balance[b] \in Nat /\ debited[b] \in Nat
  BY DEF LedgerTypeOK
<1>5. balance'[b] + debited'[b] = balance[b] + debited[b]
  BY <1>3, <1>4 DEF LedgerTypeOK, CreateWithdrawalAndDebit
<1>6. QED
  BY <1>2, <1>5 DEF BooksBalance

(* The books balance in every reachable state. *)
THEOREM BooksAlwaysBalance == LedgerSpec => []BooksBalance
<1>1. LedgerInit => BooksBalance
  <2> SUFFICES ASSUME LedgerInit, NEW a \in Account
               PROVE  balance[a] + debited[a] = Total(Credit(a), Note)
    BY DEF BooksBalance
  <2>1. \A i \in Note : Credit(a)[i] = 0
    BY DEF LedgerInit, NoRow, Credit
  <2>2. Total(Credit(a), Note) = 0
    BY <2>1, NotesFinite, SumZero
  <2>3. QED
    BY <2>2 DEF LedgerInit
<1>2. LedgerTypeOK /\ LedgerTypeOK' /\ BooksBalance /\ [LedgerNext]_ledgerVars => BooksBalance'
  <2> SUFFICES ASSUME LedgerTypeOK, LedgerTypeOK', BooksBalance, [LedgerNext]_ledgerVars
               PROVE  BooksBalance'
    OBVIOUS
  <2>1. ASSUME NEW n \in Note, NEW zat \in Zat, NEW found \in Answers,
               NEW hasRecipient \in BOOLEAN, NEW status \in Status,
               ApplyDeposit(n, zat, found, hasRecipient, status)
        PROVE  BooksBalance'
    BY <2>1, AnswersType, ApplyDepositBalances
  <2>2. ASSUME NEW a \in Account, NEW amount \in Nat, NEW fee \in Nat,
               CreateWithdrawalAndDebit(a, amount, fee)
        PROVE  BooksBalance'
    BY <2>2, WithdrawalBalances
  <2>3. ASSUME NEW a \in Account, GetOrAssignDepositAddress(a)
        PROVE  BooksBalance'
    BY <2>3 DEF GetOrAssignDepositAddress, BooksBalance, Credit
  <2>4. CASE UNCHANGED ledgerVars
    BY <2>4 DEF ledgerVars, BooksBalance, Credit
  <2>5. QED
    BY <2>1, <2>2, <2>3, <2>4, LedgerNextCases
<1>3. QED
  BY <1>1, <1>2, LedgerTypeCorrect, PTL DEF LedgerSpec

-----------------------------------------------------------------------------
(* A balance grows only together with a row that becomes confirmed for the *)
(* account, or stays confirmed with a new amount or account.               *)
THEOREM CreditsAreConfirmations == LedgerSpec => CreditNeedsConfirmation
<1> DEFINE Step == \A a \in Account : balance'[a] > balance[a] =>
             \E n \in Note : /\ deposits[n] # deposits'[n]
                             /\ deposits'[n].status = "confirmed" /\ deposits'[n].account = a
<1>1. LedgerTypeOK /\ [LedgerNext]_ledgerVars => [Step]_ledgerVars
  <2> SUFFICES ASSUME LedgerTypeOK, LedgerNext, NEW a \in Account, balance'[a] > balance[a]
               PROVE  \E n \in Note : /\ deposits[n] # deposits'[n]
                                      /\ deposits'[n].status = "confirmed"
                                      /\ deposits'[n].account = a
    OBVIOUS
  <2>1. ASSUME NEW n \in Note, NEW zat \in Zat, NEW found \in Answers,
               NEW hasRecipient \in BOOLEAN, NEW status \in Status,
               ApplyDeposit(n, zat, found, hasRecipient, status)
        PROVE  /\ deposits[n] # deposits'[n]
               /\ deposits'[n].status = "confirmed" /\ deposits'[n].account = a
    <3> DEFINE new == NewRow(n, zat, found, hasRecipient, status)
    <3>1. new \in Row /\ new.status # "absent"
      BY AnswersType, NewRowType DEF Status
    <3>2. CanPost(deposits[n], new) /\ balance' = Posted(deposits[n], new)
      BY <2>1 DEF ApplyDeposit
    <3>3. deposits[n] \in Row /\ deposits'[n] = new
      BY <2>1 DEF ApplyDeposit, LedgerTypeOK
    <3> HIDE DEF new
    <3>4. balance'[a] = balance[a] + Worth(new, a) - Worth(deposits[n], a)
      BY <3>1, <3>2, <3>3, PostedIsWorthChange
    <3>5. balance[a] \in Nat /\ Worth(new, a) \in Nat /\ Worth(deposits[n], a) \in Nat
      BY <3>1, <3>3, WorthType DEF LedgerTypeOK
    <3>6. Worth(new, a) > Worth(deposits[n], a)
      BY <3>4, <3>5
    <3>7. Worth(new, a) # 0 /\ new # deposits[n]
      BY <3>5, <3>6
    <3>8. QED
      BY <3>3, <3>7 DEF Worth
  <2>2. ASSUME NEW b \in Account, NEW amount \in Nat, NEW fee \in Nat,
               CreateWithdrawalAndDebit(b, amount, fee)
        PROVE  FALSE
    <3>1. amount + fee \in Nat /\ balance[a] \in Nat
      BY DEF LedgerTypeOK
    <3>2. balance'[a] \in Int /\ balance'[a] <= balance[a]
      BY <2>2, <3>1 DEF LedgerTypeOK, CreateWithdrawalAndDebit
    <3>3. QED
      BY <3>1, <3>2
  <2>3. ASSUME NEW b \in Account, GetOrAssignDepositAddress(b)
        PROVE  FALSE
    BY <2>3 DEF GetOrAssignDepositAddress, LedgerTypeOK
  <2>4. QED
    BY <2>1, <2>2, <2>3, LedgerNextCases
<1>2. QED
  BY <1>1, LedgerTypeCorrect, PTL DEF LedgerSpec, CreditNeedsConfirmation

=============================================================================
