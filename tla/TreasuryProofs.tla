--------------------------- MODULE TreasuryProofs ---------------------------
(***************************************************************************)
(* Theorems about Treasury, for any number of withdrawals, sweeps,         *)
(* transfers, notes and amounts.                                           *)
(*                                                                         *)
(*   1. every step of a sweep or a transfer is one that Withdrawal allows  *)
(*      others (TreasuryIsOpen), so what is proved there holds here        *)
(*   2. what accounts are owed stays covered (TreasuryCoversLiabilities),  *)
(*      and no note is spent twice, so a transfer moves money once         *)
(*      (TransfersMoveOnce)                                                *)
(*   3. nobody shares an internal address (AddressesDiffer,                *)
(*      AddressesNeverShared)                                              *)
(*   4. a sweep has submitted the transactions it counts, of notes only a  *)
(*      block can take (Dispatched, StillThere), so it leaves nothing      *)
(*      behind (SweepsAreComplete) and competes with others only           *)
(*      (SweepsCompeteWithOthers)                                          *)
(*   5. every block is one payment, sweep or transfer of Vault and none    *)
(*      happens twice (VaultInv, TreasuryIsVault)                          *)
(***************************************************************************)
EXTENDS Treasury, WithdrawalProofs

-----------------------------------------------------------------------------
(* Splitting, for any number of notes and any number of spends the signer  *)
(* accepts: dealing loses no note and repeats none, every transaction gets *)
(* at least one and at most as many as allowed, and none that has a single *)
(* note could borrow one.                                                  *)

(* Division with remainder. *)
LEMMA Division ==
  ASSUME NEW a \in Nat, NEW k \in Nat, k > 0
  PROVE  a = k * (a \div k) + (a % k) /\ a \div k \in Nat /\ a % k \in 0..(k - 1)
OBVIOUS

LEMMA SameQuotient ==
  ASSUME NEW a \in Nat, NEW b \in Nat, NEW k \in Nat, k > 0, a \div k = b \div k, a % k = b % k
  PROVE  a = b
<1>1. a = k * (a \div k) + (a % k) /\ b = k * (b \div k) + (b % k)
  BY Division
<1>2. QED
  BY <1>1

(* Enough transactions for all notes, and a note for every transaction. *)
LEMMA EnoughParts ==
  ASSUME NEW n \in Nat, n > 0, NEW max \in Nat, max > 0
  PROVE  Parts(n, max) \in 1..n /\ n <= Parts(n, max) * max
<1>1. CASE n <= max
  BY <1>1 DEF Parts
<1>2. CASE n > max
  <2> DEFINE a == n + max - 1
  <2> DEFINE k == a \div max
  <2>1. a \in Nat /\ Parts(n, max) = k
    BY <1>2 DEF Parts
  <2> HIDE DEF a
  <2>2. a = max * k + (a % max) /\ k \in Nat /\ a % max \in 0..(max - 1)
    BY <2>1, Division
  <2> HIDE DEF k
  <2>3. n <= max * k
    BY <2>2 DEF a
  <2>4. k > 0
    BY <2>2, <2>3
  <2>5. k <= n
    <3>1. SUFFICES ASSUME k >= n + 1 PROVE FALSE
      BY <2>2
    <3>2. max * k >= max * (n + 1)
      BY <2>2, <3>1
    <3>3. max * (n + 1) = max * n + max /\ max * n >= n
      OBVIOUS
    <3>4. QED
      BY <2>2, <3>2, <3>3 DEF a
  <2>6. k * max = max * k
    BY <2>2
  <2>7. QED
    BY <2>1, <2>2, <2>3, <2>4, <2>5, <2>6
<1>3. QED
  BY <1>1, <1>2

(* The hands share out the positions 1..n. *)
LEMMA HandsShare ==
  ASSUME NEW n \in Nat, NEW k \in 1..n
  PROVE  /\ \A c \in 1..k : c \in Hand(n, k, c)
         /\ \A j \in 1..n : \E c \in 1..k : j \in Hand(n, k, c)
         /\ \A c, d \in 1..k : c # d => Hand(n, k, c) \cap Hand(n, k, d) = {}
<1>1. ASSUME NEW c \in 1..k PROVE c \in Hand(n, k, c)
  <2>1. (c - 1) % k = c - 1
    OBVIOUS
  <2>2. QED
    BY <2>1 DEF Hand
<1>2. ASSUME NEW j \in 1..n PROVE \E c \in 1..k : j \in Hand(n, k, c)
  <2> DEFINE r == (j - 1) % k
  <2>1. r \in 0..(k - 1)
    BY Division
  <2> HIDE DEF r
  <2>2. r + 1 \in 1..k /\ r = (r + 1) - 1
    BY <2>1
  <2>3. j \in Hand(n, k, r + 1)
    BY <2>2 DEF Hand, r
  <2>4. QED
    BY <2>2, <2>3
<1>3. ASSUME NEW c \in 1..k, NEW d \in 1..k, c # d PROVE Hand(n, k, c) \cap Hand(n, k, d) = {}
  BY <1>3 DEF Hand
<1>4. QED
  BY <1>1, <1>2, <1>3

(* Nobody is dealt more than the rounds it takes: two notes of one hand    *)
(* come from different rounds.                                             *)
LEMMA HandFits ==
  ASSUME NEW n \in Nat, NEW k \in 1..n, NEW max \in Nat, n <= k * max, NEW c \in 1..k
  PROVE  IsFiniteSet(Hand(n, k, c)) /\ Cardinality(Hand(n, k, c)) \in 1..max
<1> DEFINE round == [j \in Hand(n, k, c) |-> (j - 1) \div k]
<1>1. \A j \in Hand(n, k, c) : j \in 1..n /\ j - 1 \in Nat /\ (j - 1) % k = c - 1
  BY DEF Hand
<1>2. ASSUME NEW j \in Hand(n, k, c) PROVE round[j] \in 0..(max - 1)
  <2> DEFINE q == (j - 1) \div k
  <2>1. j - 1 = k * q + ((j - 1) % k) /\ q \in Nat /\ (j - 1) % k \in 0..(k - 1)
    BY <1>1, Division
  <2>2. j - 1 < k * max
    BY <1>1
  <2>3. round[j] = q
    OBVIOUS
  <2> HIDE DEF q, round
  <2>4. k * q < k * max
    BY <1>1, <2>1, <2>2
  <2>5. q < max
    BY <2>1, <2>4
  <2>6. QED
    BY <2>1, <2>3, <2>5
<1>3. ASSUME NEW i \in Hand(n, k, c), NEW j \in Hand(n, k, c), round[i] = round[j] PROVE i = j
  <2>1. (i - 1) \div k = (j - 1) \div k /\ (i - 1) % k = (j - 1) % k
    BY <1>1, <1>3
  <2>2. i - 1 = j - 1
    BY <1>1, <2>1, SameQuotient
  <2>3. QED
    BY <1>1, <2>2
<1>4. round \in Injection(Hand(n, k, c), 0..(max - 1))
  BY <1>2, <1>3 DEF Injection, IsInjective
<1> HIDE DEF round
<1>5. IsFiniteSet(0..(max - 1)) /\ Cardinality(0..(max - 1)) = max
  BY FS_Interval
<1>6. IsFiniteSet(Hand(n, k, c)) /\ Cardinality(Hand(n, k, c)) <= max
  BY <1>4, <1>5, FS_Injection
<1>7. Cardinality(Hand(n, k, c)) \in Nat /\ Cardinality(Hand(n, k, c)) # 0
  <2>1. Hand(n, k, c) # {}
    BY HandsShare
  <2>2. QED
    BY <1>6, <2>1, FS_CardinalityType, FS_EmptySet
<1>8. QED
  BY <1>6, <1>7

(* One note in a hand means the second round was not dealt to the end, so  *)
(* there was no third.                                                     *)
LEMMA OneMeansTwoRounds ==
  ASSUME NEW n \in Nat, NEW k \in 1..n, NEW c \in 1..k, NEW d \in 1..k,
         Cardinality(Hand(n, k, c)) = 1
  PROVE  Cardinality(Hand(n, k, d)) <= 2
<1>1. IsFiniteSet(Hand(n, k, c)) /\ c \in Hand(n, k, c)
  <2>1. n <= k * n
    OBVIOUS
  <2>2. QED
    BY <2>1, HandFits, HandsShare
<1>2. c + k \notin Hand(n, k, c)
  <2>1. Hand(n, k, c) = {c}
    <3>1. PICK x : Hand(n, k, c) = {x}
      BY <1>1, FS_Singleton
    <3>2. QED
      BY <1>1, <3>1
  <2>2. QED
    BY <2>1
<1>3. c + k > n
  <2>1. (c + k - 1) % k = (c - 1) % k /\ (c - 1) % k = c - 1
    <3>1. c - 1 \in Nat /\ c + k - 1 = (c - 1) + k
      OBVIOUS
    <3>2. ((c - 1) + k) % k = (c - 1) % k
      BY <3>1
    <3>3. QED
      BY <3>1, <3>2
  <2>2. QED
    BY <1>2, <2>1 DEF Hand
<1>4. n <= k * 2
  BY <1>3
<1>5. Cardinality(Hand(n, k, d)) \in 1..2
  BY <1>4, HandFits
<1>6. QED
  BY <1>5

(* Some order of the notes lists each of them once. *)
LEMMA OrderedOnce ==
  ASSUME NEW notes, IsFiniteSet(notes), NEW s \in LargestFirst(notes)
  PROVE  /\ s \in [1..Cardinality(notes) -> notes] /\ Cardinality(notes) \in Nat
         /\ \A i, j \in 1..Cardinality(notes) : s[i] = s[j] => i = j
         /\ \A x \in notes : \E i \in 1..Cardinality(notes) : s[i] = x
<1> DEFINE n == Cardinality(notes)
<1>1. n \in Nat
  BY FS_CardinalityType
<1>2. s \in [1..n -> notes] /\ \A i, j \in 1..n : i < j => s[i] # s[j]
  BY DEF LargestFirst
<1>3. \A i, j \in 1..n : s[i] = s[j] => i = j
  <2>1. \A i, j \in 1..n : i # j => i < j \/ j < i
    BY <1>1
  <2>2. QED
    BY <1>2, <2>1
<1>4. s \in Injection(1..n, notes)
  BY <1>2, <1>3 DEF Injection, IsInjective
<1>5. IsFiniteSet(1..n) /\ Cardinality(1..n) = n
  BY <1>1, FS_Interval
<1>6. s \in Surjection(1..n, notes)
  BY <1>4, <1>5, FS_Injection
<1>7. QED
  BY <1>1, <1>2, <1>3, <1>6 DEF Surjection

(* Every note of a sweep is in exactly one transaction, every transaction  *)
(* has a note and no more than the signer accepts, and the loop that lets  *)
(* a transaction of one note borrow another (sweep_many.go) never finds    *)
(* one to lend.                                                            *)
THEOREM SplitSharesOut ==
  ASSUME NEW notes, IsFiniteSet(notes), notes # {}, NEW max \in Nat, max > 0,
         NEW chunks \in Splits(notes, max)
  PROVE  /\ chunks \in Seq(SUBSET notes) /\ chunks # <<>>
         /\ \A x \in notes : \E c \in DOMAIN chunks : x \in chunks[c]
         /\ \A c \in DOMAIN chunks : IsFiniteSet(chunks[c]) /\ Cardinality(chunks[c]) \in 1..max
         /\ \A c, d \in DOMAIN chunks : c # d => chunks[c] \cap chunks[d] = {}
         /\ NothingToBorrow(chunks)
<1> DEFINE n == Cardinality(notes)
<1>1. n \in Nat /\ n > 0
  BY FS_CardinalityType, FS_EmptySet
<1>2. PICK s \in LargestFirst(notes) : chunks = Deal(s, Parts(Len(s), max))
  BY DEF Splits
<1>3. /\ s \in [1..n -> notes]
      /\ \A i, j \in 1..n : s[i] = s[j] => i = j
      /\ \A x \in notes : \E i \in 1..n : s[i] = x
  BY OrderedOnce
<1>4. Len(s) = n
  BY <1>1, <1>3
<1> DEFINE k == Parts(n, max)
<1>5. k \in 1..n /\ n <= k * max
  BY <1>1, EnoughParts
<1>6. chunks = [c \in 1..k |-> {s[j] : j \in Hand(n, k, c)}]
  BY <1>2, <1>4 DEF Deal
<1> HIDE DEF n, k
<1>7. \A c \in 1..k : Hand(n, k, c) \subseteq 1..n
  BY DEF Hand
<1>8. chunks \in Seq(SUBSET notes) /\ chunks # <<>> /\ DOMAIN chunks = 1..k
  <2>1. chunks \in [1..k -> SUBSET notes]
    BY <1>3, <1>6, <1>7
  <2>2. k \in Nat /\ 1 \in 1..k
    BY <1>1, <1>5
  <2>3. QED
    BY <2>1, <2>2
<1>9. ASSUME NEW x \in notes PROVE \E c \in 1..k : x \in chunks[c]
  <2>1. PICK i \in 1..n : s[i] = x
    BY <1>3
  <2>2. PICK c \in 1..k : i \in Hand(n, k, c)
    BY <1>1, <1>5, HandsShare
  <2>3. QED
    BY <1>6, <2>1, <2>2
<1>10. ASSUME NEW c \in 1..k
       PROVE  /\ IsFiniteSet(Hand(n, k, c)) /\ Cardinality(Hand(n, k, c)) \in 1..max
              /\ IsFiniteSet(chunks[c]) /\ Cardinality(chunks[c]) = Cardinality(Hand(n, k, c))
  <2> DEFINE hand == Hand(n, k, c)
  <2> DEFINE f == [j \in hand |-> s[j]]
  <2>1. IsFiniteSet(hand) /\ Cardinality(hand) \in 1..max
    BY <1>1, <1>5, HandFits
  <2>2. hand \subseteq 1..n /\ chunks[c] = {s[j] : j \in hand}
    BY <1>6, <1>7
  <2> HIDE DEF hand
  <2>3. f \in Surjection(hand, chunks[c])
    BY <2>2 DEF Surjection
  <2>4. f \in Injection(hand, chunks[c])
    BY <1>3, <2>2 DEF Injection, IsInjective
  <2> HIDE DEF f
  <2>5. IsFiniteSet(chunks[c]) /\ Cardinality(chunks[c]) = Cardinality(hand)
    BY <2>1, <2>3, <2>4, FS_Surjection
  <2>6. QED
    BY <2>1, <2>5 DEF hand
<1>11. ASSUME NEW c \in 1..k, NEW d \in 1..k, c # d PROVE chunks[c] \cap chunks[d] = {}
  <2>1. SUFFICES ASSUME NEW i \in Hand(n, k, c), NEW j \in Hand(n, k, d), s[i] = s[j] PROVE FALSE
    BY <1>6
  <2>2. i = j
    BY <1>3, <1>7, <2>1
  <2>3. QED
    BY <1>1, <1>5, <1>11, <2>1, <2>2, HandsShare
<1>12. NothingToBorrow(chunks)
  <2>1. SUFFICES ASSUME NEW c \in 1..k, NEW d \in 1..k, Cardinality(Hand(n, k, c)) = 1
                 PROVE  Cardinality(Hand(n, k, d)) <= 2
    BY <1>8, <1>10 DEF NothingToBorrow
  <2>2. QED
    BY <1>1, <1>5, <2>1, OneMeansTwoRounds
<1>13. QED
  BY <1>8, <1>9, <1>10, <1>11, <1>12

-----------------------------------------------------------------------------
(* The plan of a sweep by itself. *)
SplitUp(s) ==
  /\ sweep[s].pc \in {"new", "addressed", "failed"} => sweep[s].sent = 0
  /\ sweep[s].pc \in {"planned", "done"} =>
       LET chunks == sweep[s].chunks
       IN  /\ chunks \in Seq(SUBSET sweep[s].listed)
           /\ \A x \in sweep[s].listed : x.wallet = "hot" /\ \E c \in DOMAIN chunks : x \in chunks[c]
           /\ \A c \in DOMAIN chunks : /\ IsFiniteSet(chunks[c])
                                       /\ Cardinality(chunks[c]) \in 1..MaxSpends
                                       /\ Yield(chunks[c]) \in 1..Supply
           /\ \A c, d \in DOMAIN chunks : c # d => chunks[c] \cap chunks[d] = {}
           /\ NothingToBorrow(chunks)
  /\ sweep[s].pc = "planned" => sweep[s].sent < Len(sweep[s].chunks)
  /\ sweep[s].pc = "done" => sweep[s].sent = Len(sweep[s].chunks)

SweepsSplit == \A s \in Sweeper : SplitUp(s)

(* What the notes of a plan hold beyond amount and fee is its change. *)
AddsUp(t) ==
  /\ transfer[t].pc \notin {"new", "refused"} => transfer[t].amount \in MovedAmount
  /\ transfer[t].pc \in {"planned", "signed"} =>
       /\ Value(transfer[t].inputs) = transfer[t].amount + transfer[t].fee + transfer[t].rest
       /\ transfer[t].fee > 0 /\ \A x \in transfer[t].inputs : x.wallet = "cold"

FilesAddUp == \A t \in Transfer : AddsUp(t)

TypeInv ==
  /\ IInv /\ PlansAddUp
  /\ SweepTypeOK /\ SweepsSplit
  /\ ColdToHotTypeOK /\ FilesAddUp

-----------------------------------------------------------------------------
(* Who is who. *)
LEMMA Senders ==
  /\ \A c \in Cmd : c \in Sender /\ c \notin Sweeper /\ c \notin Transfer
  /\ \A s \in Sweeper : s \in Sender /\ s \notin Cmd /\ s \notin Transfer
  /\ \A t \in Transfer : t \in Sender /\ t \notin Cmd /\ t \notin Sweeper
BY TreasuryAssumption DEF TreasuryAssumption

(* What a transaction is for: a withdrawal pays from hot notes and takes   *)
(* its change to hot; a sweep makes one note of hot ones and pays nobody;  *)
(* a transfer makes one hot note of cold ones and keeps its change cold.   *)
Purpose(tx) ==
  /\ tx.fee > 0
  /\ tx.by \in Cmd =>
       /\ tx.pays \in Amount
       /\ \A c \in tx.inputs \cup tx.outputs : c.wallet = "hot"
  /\ tx.by \in Sweeper =>
       /\ tx.pays = 0 /\ \A c \in tx.inputs : c.wallet = "hot"
       /\ \E x : x.zat > 0 /\ tx.outputs = {x}
  /\ tx.by \in Transfer =>
       /\ tx.pays = 0 /\ \A c \in tx.inputs : c.wallet = "cold"
       /\ \E x \in tx.outputs : /\ x.wallet = "hot" /\ x.zat \in MovedAmount
                                /\ \A y \in tx.outputs \ {x} : y.wallet = "cold"

(* What a sweep submits. *)
LEMMA ChunkOffered ==
  ASSUME TypeInv, NEW s \in Sweeper, sweep[s].pc = "planned", OfferChunk(s)
  PROVE  \E tx : /\ Offered(tx) /\ Purpose(tx) /\ tx.by = s
                 /\ tx.inputs = NextChunk(s) /\ tx.outputs = Swept(s)
<1> DEFINE chunk == NextChunk(s)
<1> DEFINE tx == [by |-> s, inputs |-> chunk, outputs |-> Swept(s),
                  pays |-> 0, fee |-> SweepFee(chunk), state |-> "pooled"]
<1>1. sweep[s] \in SweepRecord /\ SplitUp(s) /\ s \in Sender
  BY Senders DEF TypeInv, SweepTypeOK, SweepsSplit
<1>2. sweep[s].sent + 1 \in DOMAIN sweep[s].chunks
  <2>1. sweep[s].chunks \in Seq(SUBSET Coin) /\ sweep[s].sent \in Nat
    BY <1>1 DEF SweepRecord
  <2>2. QED
    BY <1>1, <2>1 DEF SplitUp
<1>3. /\ chunk \subseteq Coin /\ IsFiniteSet(chunk) /\ Cardinality(chunk) \in Nat
      /\ Yield(chunk) \in 1..Supply
  BY <1>1, <1>2, SweepAssumption DEF SplitUp, SweepRecord, NextChunk, SweepAssumption
<1>4. SweepFee(chunk) \in Nat \ {0} /\ \A c \in chunk : c.wallet = "hot"
  <2>1. SweepFee(chunk) \in Nat \ {0}
    BY <1>3, FeeIsPositive DEF SweepFee
  <2>2. chunk \subseteq sweep[s].listed /\ \A x \in sweep[s].listed : x.wallet = "hot"
    BY <1>1, <1>2 DEF SplitUp, NextChunk
  <2>3. QED
    BY <2>1, <2>2
<1>5. Swept(s) \subseteq Coin /\ IsFiniteSet(Swept(s)) /\ \A c \in Swept(s) : c.tx = NextTx
  <2>1. NextTx \in Nat
    BY TxFacts DEF TypeInv, IInv, WithdrawalTypeOK, NextTx
  <2>2. IsFiniteSet(Swept(s))
    BY FS_Singleton DEF Swept
  <2>3. Yield(NextChunk(s)) \in 0..Supply
    BY <1>3
  <2>4. Swept(s) \subseteq Coin
    BY <1>1, <2>1, <2>3 DEF Swept, Coin, SweepRecord
  <2>5. QED
    BY <2>2, <2>4 DEF Swept
<1>6. Spendable(chunk) /\ txs' = Append(txs, tx) /\ coins' = coins
  BY DEF OfferChunk, Accept
<1>7. PICK x : Swept(s) = {x} /\ x.zat = Yield(chunk)
  <2> DEFINE note == [wallet |-> sweep[s].to.wallet, scope |-> sweep[s].to.scope, tx |-> NextTx,
                      out |-> sweep[s].to.out, zat |-> Yield(NextChunk(s))]
  <2>1. Swept(s) = {note} /\ note.zat = Yield(chunk)
    BY DEF Swept
  <2> HIDE DEF note
  <2>2. QED
    BY <2>1
<1>8. Value(chunk) = Value(Swept(s)) + 0 + SweepFee(chunk)
  <2>1. Value(Swept(s)) = Yield(chunk)
    BY <1>5, <1>7, ValueOfOne
  <2>2. Value(chunk) \in Nat
    BY <1>3, ValueIsNat
  <2>3. QED
    BY <1>4, <2>1, <2>2 DEF Yield
<1> HIDE DEF chunk
<1>9. tx \in Tx
  BY <1>1, <1>3, <1>4, <1>5 DEF Tx
<1>10. /\ tx.by = s /\ tx.inputs = chunk /\ tx.outputs = Swept(s) /\ tx.state = "pooled"
       /\ tx.pays = 0 /\ tx.fee = SweepFee(chunk)
  OBVIOUS
<1> HIDE DEF tx
<1>11. Offered(tx)
  BY <1>5, <1>6, <1>8, <1>9, <1>10 DEF Offered, Acceptable
<1>12. Purpose(tx)
  BY <1>3, <1>4, <1>7, <1>10, Senders DEF Purpose
<1>13. QED
  BY <1>10, <1>11, <1>12 DEF chunk

(* What a transfer submits. *)
LEMMA TransferOffered ==
  ASSUME TypeInv, NEW t \in Transfer, Broadcast(t)
  PROVE  \E tx : /\ Offered(tx) /\ Purpose(tx) /\ tx.by = t
                 /\ tx.inputs = transfer[t].inputs /\ tx.outputs = Moved(t)
<1> DEFINE tx == [by |-> t, inputs |-> transfer[t].inputs, outputs |-> Moved(t),
                  pays |-> 0, fee |-> transfer[t].fee, state |-> "pooled"]
<1>1. transfer[t] \in TransferRecord /\ t \in Sender
  BY Senders DEF TypeInv, ColdToHotTypeOK
<1>2. NextTx \in Nat
  BY TxFacts DEF TypeInv, IInv, WithdrawalTypeOK, NextTx
<1>3. Moved(t) \subseteq Coin /\ \A c \in Moved(t) : c.tx = NextTx
  BY <1>1, <1>2 DEF Moved, Coin, Wallet, Scope, TransferRecord
<1>4. IsFiniteSet(Moved(t)) /\ Value(Moved(t)) = transfer[t].amount + transfer[t].rest
  <2> DEFINE first == [wallet |-> "hot", scope |-> "internal", tx |-> NextTx,
                       out |-> transfer[t].to, zat |-> transfer[t].amount]
  <2> DEFINE second == [wallet |-> "cold", scope |-> "internal", tx |-> NextTx,
                        out |-> transfer[t].change, zat |-> transfer[t].rest]
  <2>1. Moved(t) = {first} \cup IF transfer[t].rest = 0 THEN {} ELSE {second}
    BY DEF Moved
  <2>2. first # second /\ first.zat = transfer[t].amount /\ second.zat = transfer[t].rest
    OBVIOUS
  <2>3. transfer[t].amount \in Nat /\ transfer[t].rest \in Nat
    BY <1>1, NodeAssumption DEF NodeAssumption, TransferRecord
  <2> HIDE DEF first, second
  <2>4. IsFiniteSet({first}) /\ IsFiniteSet({second})
    BY FS_Singleton
  <2>5. CASE transfer[t].rest = 0
    <3>1. Moved(t) = {first} /\ first \in Coin
      BY <1>3, <2>1, <2>5
    <3>2. QED
      BY <2>2, <2>3, <2>4, <2>5, <3>1, ValueOfOne
  <2>6. CASE transfer[t].rest # 0
    <3>1. Moved(t) = {first} \cup {second} /\ first \in Coin /\ second \in Coin
      BY <1>3, <2>1, <2>6
    <3>2. {first} \cap {second} = {} /\ {first} \in SUBSET Coin /\ {second} \in SUBSET Coin
      BY <2>2, <3>1
    <3>3. Value({first} \cup {second}) = Value({first}) + Value({second})
      BY <2>4, <3>2, ValueOfBoth
    <3>4. Value({first}) = first.zat /\ Value({second}) = second.zat
      BY <3>1, ValueOfOne
    <3>5. QED
      BY <2>2, <2>4, <3>1, <3>3, <3>4, FS_Union
  <2>7. QED
    BY <2>5, <2>6
<1>5. Spendable(transfer[t].inputs) /\ txs' = Append(txs, tx) /\ coins' = coins
  BY DEF Broadcast, Accept
<1>6. tx \in Tx
  BY <1>1, <1>3 DEF Tx, TransferRecord
<1>7. /\ tx.by = t /\ tx.inputs = transfer[t].inputs /\ tx.outputs = Moved(t) /\ tx.state = "pooled"
      /\ tx.pays = 0 /\ tx.fee = transfer[t].fee
  OBVIOUS
<1>8. Value(transfer[t].inputs) = Value(Moved(t)) + 0 + transfer[t].fee
  <2>1. Value(transfer[t].inputs) = transfer[t].amount + transfer[t].fee + transfer[t].rest
    BY DEF Broadcast, TypeInv, FilesAddUp, AddsUp
  <2>2. transfer[t].amount \in Int /\ transfer[t].fee \in Int /\ transfer[t].rest \in Int
    BY <1>1 DEF TransferRecord
  <2>3. QED
    BY <1>4, <2>1, <2>2
<1> HIDE DEF tx
<1>9. Offered(tx)
  BY <1>3, <1>4, <1>5, <1>6, <1>7, <1>8 DEF Offered, Acceptable
<1>10. Purpose(tx)
  <2>1. /\ transfer[t].amount \in MovedAmount /\ transfer[t].fee > 0
        /\ \A x \in transfer[t].inputs : x.wallet = "cold"
    BY DEF Broadcast, TypeInv, FilesAddUp, AddsUp
  <2>2. \E x \in Moved(t) : /\ x.wallet = "hot" /\ x.zat = transfer[t].amount
                            /\ \A y \in Moved(t) \ {x} : y.wallet = "cold"
    <3> DEFINE first == [wallet |-> "hot", scope |-> "internal", tx |-> NextTx,
                         out |-> transfer[t].to, zat |-> transfer[t].amount]
    <3>1. first.wallet = "hot" /\ first.zat = transfer[t].amount
      OBVIOUS
    <3>2. first \in Moved(t) /\ \A y \in Moved(t) \ {first} : y.wallet = "cold"
      BY DEF Moved
    <3>3. QED
      BY <3>1, <3>2
  <2>3. QED
    BY <1>7, <2>1, <2>2, Senders DEF Purpose
<1>11. QED
  BY <1>7, <1>9, <1>10

-----------------------------------------------------------------------------
(* Sweeps and transfers are others to the withdrawals.                     *)
LEMMA OfferedIsOthers ==
  ASSUME TypeInv, NEW tx, Offered(tx), tx.by \notin Cmd,
         UNCHANGED <<ledgerVars, withdrawalVars, nextInternal>>
  PROVE  OthersAct
<1>1. NodeTypeOK /\ WalletsTypeOK
  BY DEF TypeInv, IInv, WithdrawalTypeOK
<1>2. tx \in Tx /\ IsFiniteSet(tx.outputs) /\ Acceptable(tx) /\ txs' = Append(txs, tx) /\ coins' = coins
  BY DEF Offered, Acceptable
<1>3. NextTx \in DOMAIN txs' /\ txs'[NextTx] = tx
  BY <1>1, <1>2, AppendTx
<1>4. nextInternal' \in [Wallet -> Nat]
  BY <1>1 DEF WalletsTypeOK
<1>5. Acceptable(txs'[NextTx]) /\ txs'[NextTx].by \notin Cmd /\ txs' = Append(txs, txs'[NextTx])
  BY <1>2, <1>3
<1>6. QED
  BY <1>2, <1>3, <1>4, <1>5 DEF OthersAct

LEMMA AddressIsOthers ==
  ASSUME TypeInv, NEW w \in Wallet, NextInternalAddress(w),
         UNCHANGED <<ledgerVars, withdrawalVars, nodeVars>>
  PROVE  OthersAct
<1>1. nextInternal \in [Wallet -> Nat]
  BY DEF TypeInv, IInv, WithdrawalTypeOK, WalletsTypeOK
<1>2. nextInternal' \in [Wallet -> Nat]
  BY <1>1 DEF NextInternalAddress
<1>3. QED
  BY <1>2 DEF OthersAct, nodeVars

LEMMA QuietIsOthers ==
  ASSUME TypeInv, UNCHANGED <<ledgerVars, withdrawalVars, nodeVars, nextInternal>>
  PROVE  OthersAct
BY DEF TypeInv, IInv, WithdrawalTypeOK, WalletsTypeOK, OthersAct, nodeVars

LEMMA OneSweepMoves ==
  ASSUME TypeInv, NEW s \in Sweeper, sweep' \in [Sweeper -> SweepRecord],
         \A r \in Sweeper \ {s} : sweep'[r] = sweep[r], SplitUp(s)'
  PROVE  SweepTypeOK' /\ SweepsSplit'
<1>1. SweepsSplit'
  BY DEF TypeInv, SweepsSplit, SplitUp
<1>2. ASSUME NEW r \in Sweeper PROVE sweep'[r].sent <= Len(sweep'[r].chunks)
  <2>1. sweep'[r] \in SweepRecord /\ SplitUp(r)'
    BY <1>1 DEF SweepsSplit
  <2>2. Len(sweep'[r].chunks) \in Nat /\ sweep'[r].sent \in Nat
    BY <2>1 DEF SweepRecord
  <2>3. QED
    BY <2>1, <2>2 DEF SplitUp, SweepRecord
<1>3. QED
  BY <1>1, <1>2 DEF SweepTypeOK

(* One step of a sweep at a time. *)
LEMMA AimKeeps ==
  ASSUME TypeInv, NEW s \in Sweeper, sweep[s].pc = "new",
         NEW address \in [wallet : Wallet, scope : Scope, out : Nat], Aim(s, address)
  PROVE  SweepTypeOK' /\ SweepsSplit'
<1>1. sweep \in [Sweeper -> SweepRecord] /\ sweep[s] \in SweepRecord /\ SplitUp(s)
  BY DEF TypeInv, SweepTypeOK, SweepsSplit
<1>2. sweep' = [sweep EXCEPT ![s].pc = "addressed", ![s].to = address]
  BY DEF Aim
<1>3. /\ sweep' \in [Sweeper -> SweepRecord] /\ \A r \in Sweeper \ {s} : sweep'[r] = sweep[r]
      /\ sweep'[s].pc = "addressed" /\ sweep'[s].sent = sweep[s].sent
  BY <1>1, <1>2 DEF SweepRecord
<1>4. SplitUp(s)'
  BY <1>1, <1>3 DEF SplitUp
<1>5. QED
  BY <1>3, <1>4, OneSweepMoves

LEMMA FailKeeps ==
  ASSUME TypeInv, NEW s \in Sweeper, FailSweep(s)
  PROVE  SweepTypeOK' /\ SweepsSplit'
<1>1. sweep \in [Sweeper -> SweepRecord]
  BY DEF TypeInv, SweepTypeOK
<1> DEFINE ended == [NewSweep EXCEPT !.pc = "failed"]
<1>2. ended \in SweepRecord /\ ended.pc = "failed" /\ ended.sent = 0
  <2> DEFINE none == <<>>
  <2> DEFINE home == Address("hot", "internal", 0)
  <2>1. ended = [pc |-> "failed", to |-> home, listed |-> {}, chunks |-> none, sent |-> 0]
    BY DEF NewSweep
  <2>2. none \in Seq(SUBSET Coin) /\ home \in [wallet : Wallet, scope : Scope, out : Nat]
    BY DEF Address, Wallet, Scope
  <2> HIDE DEF none, home, ended
  <2>3. QED
    BY <2>1, <2>2 DEF SweepRecord
<1>3. sweep' = [sweep EXCEPT ![s] = ended]
  BY DEF FailSweep
<1> HIDE DEF ended
<1>4. /\ sweep' \in [Sweeper -> SweepRecord] /\ \A r \in Sweeper \ {s} : sweep'[r] = sweep[r]
      /\ sweep'[s].pc = "failed" /\ sweep'[s].sent = 0
  BY <1>1, <1>2, <1>3
<1>5. SplitUp(s)'
  BY <1>4 DEF SplitUp
<1>6. QED
  BY <1>4, <1>5, OneSweepMoves

LEMMA PlanSweepKeeps ==
  ASSUME TypeInv, NEW s \in Sweeper, PlanSweepMany(s)
  PROVE  /\ SweepTypeOK' /\ SweepsSplit'
         /\ sweep'[s].pc = "planned" /\ sweep'[s].sent = 0 /\ sweep'[s].to = sweep[s].to
         /\ sweep'[s].listed \subseteq coins
         /\ \A r \in Sweeper \ {s} : sweep'[r] = sweep[r]
<1>1. sweep \in [Sweeper -> SweepRecord] /\ sweep[s] \in SweepRecord /\ SplitUp(s)
  BY DEF TypeInv, SweepTypeOK, SweepsSplit
<1>2. PICK listed \in Listings("hot") \ {{}} : \E chunks \in Splits(listed, MaxSpends) :
        /\ \A c \in DOMAIN chunks : Yield(chunks[c]) \in 1..Supply
        /\ sweep' = [sweep EXCEPT ![s].pc = "planned", ![s].listed = listed, ![s].chunks = chunks]
  BY DEF PlanSweepMany
<1>3. PICK chunks \in Splits(listed, MaxSpends) :
        /\ \A c \in DOMAIN chunks : Yield(chunks[c]) \in 1..Supply
        /\ sweep' = [sweep EXCEPT ![s].pc = "planned", ![s].listed = listed, ![s].chunks = chunks]
  BY <1>2
<1>4. /\ listed \subseteq coins /\ listed # {} /\ coins \subseteq Coin /\ IsFiniteSet(listed)
      /\ \A x \in listed : x.wallet = "hot"
  BY <1>2, FS_Subset DEF Listings, TypeInv, IInv, WithdrawalTypeOK, NodeTypeOK
<1>5. /\ chunks \in Seq(SUBSET listed) /\ chunks # <<>>
      /\ \A x \in listed : \E c \in DOMAIN chunks : x \in chunks[c]
      /\ \A c \in DOMAIN chunks : IsFiniteSet(chunks[c]) /\ Cardinality(chunks[c]) \in 1..MaxSpends
      /\ \A c, d \in DOMAIN chunks : c # d => chunks[c] \cap chunks[d] = {}
      /\ NothingToBorrow(chunks)
  <2>1. MaxSpends \in Nat /\ MaxSpends > 0
    BY SweepAssumption DEF SweepAssumption
  <2>2. QED
    BY <1>3, <1>4, <2>1, SplitSharesOut
<1>6. chunks \in Seq(SUBSET Coin)
  BY <1>4, <1>5
<1>7. /\ sweep' \in [Sweeper -> SweepRecord] /\ \A r \in Sweeper \ {s} : sweep'[r] = sweep[r]
      /\ sweep'[s].pc = "planned" /\ sweep'[s].listed = listed /\ sweep'[s].chunks = chunks
      /\ sweep'[s].sent = sweep[s].sent /\ sweep'[s].to = sweep[s].to
  BY <1>1, <1>3, <1>4, <1>6 DEF SweepRecord
<1>8. sweep'[s].sent = 0 /\ 0 < Len(chunks)
  <2>1. sweep[s].pc = "addressed"
    BY DEF PlanSweepMany
  <2>2. QED
    BY <1>1, <1>5, <1>7, <2>1 DEF SplitUp
<1>9. SplitUp(s)'
  BY <1>3, <1>4, <1>5, <1>7, <1>8 DEF SplitUp
<1>10. QED
  BY <1>4, <1>7, <1>8, <1>9, OneSweepMoves

LEMMA SubmitChunkKeeps ==
  ASSUME TypeInv, NEW s \in Sweeper, SubmitChunk(s)
  PROVE  /\ SweepTypeOK' /\ SweepsSplit'
         /\ sweep'[s].pc \in {"planned", "done"} /\ sweep'[s].sent = sweep[s].sent + 1
         /\ sweep'[s].chunks = sweep[s].chunks /\ sweep'[s].listed = sweep[s].listed
         /\ sweep'[s].to = sweep[s].to
         /\ \A r \in Sweeper \ {s} : sweep'[r] = sweep[r]
<1>1. /\ sweep \in [Sweeper -> SweepRecord] /\ sweep[s] \in SweepRecord /\ SplitUp(s)
      /\ sweep[s].pc = "planned"
  BY DEF TypeInv, SweepTypeOK, SweepsSplit, SubmitChunk
<1> DEFINE next == IF sweep[s].sent + 1 < Len(sweep[s].chunks) THEN "planned" ELSE "done"
<1>2. sweep' = [sweep EXCEPT ![s].sent = @ + 1, ![s].pc = next]
  BY DEF SubmitChunk
<1>3. next \in {"planned", "done"}
  OBVIOUS
<1>4. sweep[s].sent \in Nat /\ Len(sweep[s].chunks) \in Nat /\ sweep[s].sent < Len(sweep[s].chunks)
  BY <1>1 DEF SweepRecord, SplitUp
<1>5. /\ next = "planned" => sweep[s].sent + 1 < Len(sweep[s].chunks)
      /\ next = "done" => sweep[s].sent + 1 = Len(sweep[s].chunks)
  BY <1>4
<1> HIDE DEF next
<1> DEFINE new == [sweep[s] EXCEPT !.sent = @ + 1, !.pc = next]
<1>11. new = [pc |-> next, to |-> sweep[s].to, listed |-> sweep[s].listed,
              chunks |-> sweep[s].chunks, sent |-> sweep[s].sent + 1]
  <2> DEFINE old == sweep[s]
  <2> DEFINE n == sweep[s].sent + 1
  <2> DEFINE Batches == Seq(SUBSET Coin)
  <2>1. old \in [pc : {"new", "addressed", "planned", "failed", "done"},
                 to : [wallet : Wallet, scope : Scope, out : Nat],
                 listed : SUBSET Coin, chunks : Batches, sent : Nat]
    BY <1>1 DEF SweepRecord
  <2>2. new = [old EXCEPT !.sent = n, !.pc = next]
    OBVIOUS
  <2> HIDE DEF old, n, new, Batches
  <2>3. new = [pc |-> next, to |-> old.to, listed |-> old.listed, chunks |-> old.chunks, sent |-> n]
    BY <2>1, <2>2
  <2>4. QED
    BY <2>3 DEF old, n
<1>12. sweep[s].sent + 1 \in Nat /\ next \in {"planned", "done"}
  BY <1>3, <1>4
<1> HIDE DEF new
<1>9. /\ new \in SweepRecord /\ new.pc = next /\ new.listed = sweep[s].listed
      /\ new.chunks = sweep[s].chunks /\ new.to = sweep[s].to /\ new.sent = sweep[s].sent + 1
  BY <1>1, <1>11, <1>12 DEF SweepRecord
<1>10. sweep' = [sweep EXCEPT ![s] = new]
  BY <1>1, <1>2 DEF new
<1>6. /\ sweep' \in [Sweeper -> SweepRecord] /\ \A r \in Sweeper \ {s} : sweep'[r] = sweep[r]
      /\ sweep'[s].pc = next /\ sweep'[s].listed = sweep[s].listed
      /\ sweep'[s].chunks = sweep[s].chunks /\ sweep'[s].to = sweep[s].to
      /\ sweep'[s].sent = sweep[s].sent + 1
  BY <1>1, <1>9, <1>10
<1>7. SplitUp(s)'
  BY <1>1, <1>3, <1>5, <1>6 DEF SplitUp
<1>8. QED
  BY <1>3, <1>6, <1>7, OneSweepMoves

LEMMA SweepStepKeeps ==
  ASSUME TypeInv, NEW s \in Sweeper, SweepStep(s), UNCHANGED <<ledgerVars, withdrawalVars>>
  PROVE  OthersAct /\ SweepTypeOK' /\ SweepsSplit'
<1>1. CASE Consolidate(s)
  <2>1. nextInternal["hot"] \in Nat
    BY DEF TypeInv, IInv, WithdrawalTypeOK, WalletsTypeOK, Wallet
  <2>2. SweepTypeOK' /\ SweepsSplit'
    BY <1>1, <2>1, AimKeeps DEF Consolidate, Address, Wallet, Scope
  <2>3. QED
    BY <1>1, <2>2, AddressIsOthers DEF Consolidate, Wallet
<1>2. CASE ToCold(s)
  <2>1. SweepTypeOK' /\ SweepsSplit'
    BY <1>2, AimKeeps DEF ToCold, Address, Wallet, Scope
  <2>2. QED
    BY <1>2, <2>1, QuietIsOthers DEF ToCold
<1>3. CASE PlanSweepMany(s)
  BY <1>3, PlanSweepKeeps, QuietIsOthers DEF PlanSweepMany
<1>4. CASE SweepFails(s) \/ ChunkRejected(s)
  BY <1>4, FailKeeps, QuietIsOthers DEF SweepFails, ChunkRejected
<1>5. CASE SubmitChunk(s) \/ ChunkUnanswered(s)
  <2>1. sweep[s].pc = "planned" /\ OfferChunk(s) /\ UNCHANGED nextInternal
    BY <1>5 DEF SubmitChunk, ChunkUnanswered
  <2>2. PICK tx : Offered(tx) /\ tx.by = s
    BY <2>1, ChunkOffered
  <2>3. OthersAct
    BY <2>1, <2>2, OfferedIsOthers, Senders
  <2>4. SweepTypeOK' /\ SweepsSplit'
    BY <1>5, SubmitChunkKeeps, FailKeeps DEF ChunkUnanswered
  <2>5. QED
    BY <2>3, <2>4
<1>6. QED
  BY <1>1, <1>2, <1>3, <1>4, <1>5 DEF SweepStep

LEMMA TransferMoves ==
  ASSUME TypeInv, NEW t \in Transfer, TransferStep(t), ~Broadcast(t)
  PROVE  /\ ColdToHotTypeOK' /\ AddsUp(t)'
         /\ \A r \in Transfer \ {t} : transfer'[r] = transfer[r]
<1>1. /\ AddsUp(t)
      /\ transfer \in [Transfer -> TransferRecord] /\ transfer[t] \in TransferRecord
      /\ nextInternal["hot"] \in Nat /\ nextInternal["cold"] \in Nat
  BY DEF TypeInv, ColdToHotTypeOK, FilesAddUp, IInv, WithdrawalTypeOK, WalletsTypeOK, Wallet
<1>2. ASSUME NEW amount \in MovedAmount, TakeHotAddress(t, amount)
      PROVE  /\ transfer' \in [Transfer -> TransferRecord] /\ AddsUp(t)'
             /\ \A r \in Transfer \ {t} : transfer'[r] = transfer[r]
  <2>1. transfer' = [transfer EXCEPT ![t].pc = "hot_addressed", ![t].amount = amount,
                                     ![t].to = nextInternal["hot"]]
    BY <1>2 DEF TakeHotAddress
  <2>2. amount \in 0..Supply
    BY ColdToHotAssumption DEF ColdToHotAssumption
  <2>3. /\ transfer' \in [Transfer -> TransferRecord] /\ \A r \in Transfer \ {t} : transfer'[r] = transfer[r]
        /\ transfer'[t].pc = "hot_addressed" /\ transfer'[t].amount = amount
    BY <1>1, <2>1, <2>2 DEF TransferRecord
  <2>4. QED
    BY <2>3 DEF AddsUp
<1>3. CASE TakeColdAddress(t)
  <2>1. transfer' = [transfer EXCEPT ![t].pc = "addressed", ![t].change = nextInternal["cold"]]
    BY <1>3 DEF TakeColdAddress
  <2>2. /\ transfer' \in [Transfer -> TransferRecord] /\ \A r \in Transfer \ {t} : transfer'[r] = transfer[r]
        /\ transfer'[t].pc = "addressed" /\ transfer'[t].amount = transfer[t].amount
    BY <1>1, <2>1 DEF TransferRecord
  <2>3. QED
    BY <1>1, <1>3, <2>2 DEF TakeColdAddress, ColdToHotTypeOK, AddsUp
<1>4. CASE PlanRebalance(t)
  <2>1. PICK listed \in Listings("cold") : \E notes \in Selections(listed, transfer[t].amount, 1) :
          \E rest \in 0..Supply :
            /\ Value(notes) = transfer[t].amount + RequiredFeeSend(Cardinality(notes), 2) + rest
            /\ transfer' = [transfer EXCEPT ![t].pc = "planned", ![t].inputs = notes, ![t].rest = rest,
                                            ![t].fee = RequiredFeeSend(Cardinality(notes), 2)]
    BY <1>4 DEF PlanRebalance
  <2>2. PICK notes \in Selections(listed, transfer[t].amount, 1), rest \in 0..Supply :
            /\ Value(notes) = transfer[t].amount + RequiredFeeSend(Cardinality(notes), 2) + rest
            /\ transfer' = [transfer EXCEPT ![t].pc = "planned", ![t].inputs = notes, ![t].rest = rest,
                                            ![t].fee = RequiredFeeSend(Cardinality(notes), 2)]
    BY <2>1
  <2>3. /\ notes \subseteq coins /\ coins \subseteq Coin /\ IsFiniteSet(coins)
        /\ \A x \in notes : x.wallet = "cold"
    BY <2>1, <2>2 DEF Selections, Listings, TypeInv, IInv, WithdrawalTypeOK, NodeTypeOK
  <2> DEFINE fee == RequiredFeeSend(Cardinality(notes), 2)
  <2>4. fee \in Nat /\ fee > 0
    <3>1. Cardinality(notes) \in Nat
      BY <2>3, FS_Subset, FS_CardinalityType
    <3>2. fee \in Nat \ {0}
      BY <3>1, FeeIsPositive
    <3>3. QED
      BY <3>2
  <2>5. transfer' = [transfer EXCEPT ![t].pc = "planned", ![t].inputs = notes, ![t].rest = rest,
                                     ![t].fee = fee]
        /\ Value(notes) = transfer[t].amount + fee + rest
    BY <2>2
  <2> HIDE DEF fee
  <2>6. notes \subseteq Coin
    BY <2>3
  <2>7. /\ transfer' \in [Transfer -> TransferRecord] /\ \A r \in Transfer \ {t} : transfer'[r] = transfer[r]
        /\ transfer'[t].inputs = notes /\ transfer'[t].rest = rest /\ transfer'[t].fee = fee
        /\ transfer'[t].amount = transfer[t].amount
    BY <1>1, <2>4, <2>5, <2>6 DEF TransferRecord
  <2>8. transfer[t].pc = "addressed"
    BY <1>4 DEF PlanRebalance
  <2>9. QED
    BY <1>1, <2>3, <2>4, <2>5, <2>7, <2>8 DEF ColdToHotTypeOK, AddsUp
<1>5. CASE RefusePlan(t)
  <2>1. [NewTransfer EXCEPT !.pc = "refused"] \in TransferRecord
    BY NodeAssumption DEF NodeAssumption, NewTransfer, TransferRecord
  <2>2. [NewTransfer EXCEPT !.pc = "refused"].pc = "refused"
    BY DEF NewTransfer
  <2>3. QED
    BY <1>1, <1>5, <2>1, <2>2 DEF RefusePlan, ColdToHotTypeOK, AddsUp
<1>6. CASE Sign(t)
  <2>1. transfer' = [transfer EXCEPT ![t].pc = "signed"]
    BY <1>6 DEF Sign
  <2>2. /\ transfer' \in [Transfer -> TransferRecord] /\ \A r \in Transfer \ {t} : transfer'[r] = transfer[r]
        /\ transfer'[t].inputs = transfer[t].inputs /\ transfer'[t].rest = transfer[t].rest
        /\ transfer'[t].fee = transfer[t].fee /\ transfer'[t].amount = transfer[t].amount
    BY <1>1, <2>1 DEF TransferRecord
  <2>3. transfer[t].pc = "planned"
    BY <1>6 DEF Sign
  <2>4. QED
    BY <1>1, <2>2, <2>3 DEF ColdToHotTypeOK, AddsUp
<1>7. QED
  BY <1>2, <1>3, <1>4, <1>5, <1>6 DEF TransferStep, ColdToHotTypeOK

LEMMA TransferStepKeeps ==
  ASSUME TypeInv, NEW t \in Transfer, TransferStep(t), UNCHANGED <<ledgerVars, withdrawalVars>>
  PROVE  OthersAct /\ ColdToHotTypeOK' /\ FilesAddUp'
<1>1. CASE Broadcast(t)
  <2>1. PICK tx : Offered(tx) /\ tx.by = t
    BY <1>1, TransferOffered
  <2>2. OthersAct
    BY <1>1, <2>1, OfferedIsOthers, Senders DEF Broadcast
  <2>3. QED
    BY <1>1, <2>2 DEF Broadcast, TypeInv, ColdToHotTypeOK, FilesAddUp, AddsUp
<1>2. CASE ~Broadcast(t)
  <2>1. ColdToHotTypeOK' /\ FilesAddUp'
    BY <1>2, TransferMoves DEF TypeInv, FilesAddUp, AddsUp
  <2>2. OthersAct
    BY <1>2, AddressIsOthers, QuietIsOthers
    DEF TransferStep, TakeHotAddress, TakeColdAddress, PlanRebalance, RefusePlan, Sign, Wallet
  <2>3. QED
    BY <2>1, <2>2
<1>3. QED
  BY <1>1, <1>2

LEMMA TreasuryStepIsOpen ==
  TypeInv /\ [TreasuryNext]_treasuryVars => TypeInv' /\ [Next \/ OthersAct]_vars
<1> SUFFICES ASSUME TypeInv, [TreasuryNext]_treasuryVars PROVE TypeInv' /\ [Next \/ OthersAct]_vars
  OBVIOUS
<1>1. CASE (Next /\ UNCHANGED <<sweep, transfer>>) \/ UNCHANGED treasuryVars
  <2>1. [Next \/ OthersAct]_vars /\ UNCHANGED <<sweep, transfer>>
    BY <1>1 DEF treasuryVars
  <2>2. IInv' /\ PlansAddUp'
    BY <2>1, NextKeeps, PlansStay DEF TypeInv
  <2>3. SweepTypeOK' /\ ColdToHotTypeOK' /\ SweepsSplit' /\ FilesAddUp'
    BY <2>1 DEF TypeInv, SweepTypeOK, ColdToHotTypeOK, SweepsSplit, SplitUp, FilesAddUp, AddsUp
  <2>4. QED
    BY <2>1, <2>2, <2>3 DEF TypeInv
<1>2. ASSUME NEW s \in Sweeper, SweepStep(s), UNCHANGED <<ledgerVars, withdrawalVars, transfer>>
      PROVE  TypeInv' /\ OthersAct
  <2>1. OthersAct /\ SweepTypeOK' /\ SweepsSplit'
    BY <1>2, SweepStepKeeps
  <2>2. IInv' /\ PlansAddUp' /\ ColdToHotTypeOK' /\ FilesAddUp'
    BY <1>2, <2>1, NextKeeps, PlansStay DEF TypeInv, ColdToHotTypeOK, FilesAddUp, AddsUp
  <2>3. QED
    BY <2>1, <2>2 DEF TypeInv
<1>3. ASSUME NEW t \in Transfer, TransferStep(t), UNCHANGED <<ledgerVars, withdrawalVars, sweep>>
      PROVE  TypeInv' /\ OthersAct
  <2>1. OthersAct /\ ColdToHotTypeOK' /\ FilesAddUp'
    BY <1>3, TransferStepKeeps
  <2>2. IInv' /\ PlansAddUp' /\ SweepTypeOK' /\ SweepsSplit'
    BY <1>3, <2>1, NextKeeps, PlansStay DEF TypeInv, SweepTypeOK, SweepsSplit, SplitUp
  <2>3. QED
    BY <2>1, <2>2 DEF TypeInv
<1>4. QED
  BY <1>1, <1>2, <1>3 DEF TreasuryNext

LEMMA InitTypeInv == TreasuryInit => TypeInv
<1> SUFFICES ASSUME TreasuryInit PROVE TypeInv
  OBVIOUS
<1>1. IInv /\ PlansAddUp
  BY InitIInv, InitChain DEF TreasuryInit, ChainInv, NotesInv
<1>2. sweep = [s \in Sweeper |-> NewSweep] /\ transfer = [t \in Transfer |-> NewTransfer]
  BY DEF TreasuryInit, SweepInit, ColdToHotInit
<1>3. NewSweep \in SweepRecord
  <2> DEFINE none == <<>>
  <2> DEFINE home == Address("hot", "internal", 0)
  <2>1. NewSweep = [pc |-> "new", to |-> home, listed |-> {}, chunks |-> none, sent |-> 0]
    BY DEF NewSweep
  <2>2. none \in Seq(SUBSET Coin) /\ home \in [wallet : Wallet, scope : Scope, out : Nat]
    BY DEF Address, Wallet, Scope
  <2> HIDE DEF none, home
  <2>3. QED
    BY <2>1, <2>2 DEF SweepRecord
<1>4. NewTransfer \in TransferRecord
  BY NodeAssumption DEF NodeAssumption, NewTransfer, TransferRecord
<1>5. NewSweep.pc = "new" /\ NewSweep.sent = 0 /\ NewSweep.chunks = <<>>
  BY DEF NewSweep
<1>6. SweepTypeOK /\ ColdToHotTypeOK
  BY <1>2, <1>3, <1>4, <1>5 DEF SweepTypeOK, ColdToHotTypeOK
<1>7. SweepsSplit
  BY <1>2, <1>5 DEF SweepsSplit, SplitUp
<1>8. FilesAddUp
  BY <1>2 DEF FilesAddUp, AddsUp, NewTransfer
<1>9. QED
  BY <1>1, <1>6, <1>7, <1>8 DEF TypeInv

(* Types are kept by everything that spends, at once. *)
THEOREM TreasuryTypeCorrect == TreasurySpec => []TreasuryTypeOK
<1>1. TypeInv => TreasuryTypeOK
  BY DEF TypeInv, IInv, TreasuryTypeOK
<1>2. QED
  BY <1>1, InitTypeInv, TreasuryStepIsOpen, PTL DEF TreasurySpec

(* To withdrawals, sweeps and transfers are others that only take          *)
(* addresses and submit transactions.                                      *)
THEOREM TreasuryIsOpen == TreasurySpec => OpenSpec
<1>1. TreasuryInit => WithdrawalInit
  BY DEF TreasuryInit
<1>2. QED
  BY <1>1, InitTypeInv, TreasuryStepIsOpen, PTL DEF TreasurySpec, OpenSpec

(* So the books balance, and careful operators' withdrawals are debited,   *)
(* while sweeps and transfers compete for the notes.                       *)
THEOREM TreasuryBooksBalance == TreasurySpec => []BooksBalance /\ []RecordedWasBroadcast
BY TreasuryIsOpen, WithdrawalBooksBalance, RecordedIsBroadcast, PTL

(* Among sweeps and transfers too, every payment of a careful operator who *)
(* meets no mishap is debited once its command is over.                    *)
THEOREM TreasuryIsDebited ==
  ASSUME Solo, MaxMishaps = 0
  PROVE  TreasurySpec => []PaidIsDebited
BY TreasuryIsOpen, CarefulIsDebited

(* What accounts are owed is covered by the wallets while sweeps and       *)
(* transfers move the notes about and pay fees for it out of the           *)
(* exchange's own.                                                         *)
THEOREM TreasuryCoversLiabilities == TreasurySpec => []LiabilitiesCovered
BY TreasuryIsOpen, LiabilitiesAlwaysCovered, PTL

-----------------------------------------------------------------------------
(* What a step does to the node, and for whom. *)
LEMMA NodeSteps ==
  ASSUME TypeInv, [TreasuryNext]_treasuryVars
  PROVE  \/ UNCHANGED nodeVars
         \/ \E i \in DOMAIN txs : (Mine(i) \/ Expire(i)) /\ UNCHANGED <<cmd, nextInternal, sweep, transfer>>
         \/ \E c \in Cmd : /\ \E tx : /\ Offered(tx) /\ Purpose(tx) /\ tx.by = c
                                      /\ tx.outputs = Change(c)
                           /\ Submit(c) \/ SubmitUnanswered(c)
                           /\ UNCHANGED <<sweep, transfer>>
         \/ \E s \in Sweeper : /\ \E tx : /\ Offered(tx) /\ Purpose(tx) /\ tx.by = s
                                          /\ tx.inputs = NextChunk(s) /\ tx.outputs = Swept(s)
                               /\ SubmitChunk(s) \/ ChunkUnanswered(s)
                               /\ UNCHANGED <<cmd, transfer>>
         \/ \E t \in Transfer : /\ \E tx : /\ Offered(tx) /\ Purpose(tx) /\ tx.by = t
                                           /\ tx.inputs = transfer[t].inputs /\ tx.outputs = Moved(t)
                                /\ Broadcast(t) /\ UNCHANGED <<cmd, sweep>>
<1>1. CASE UNCHANGED treasuryVars
  BY <1>1 DEF treasuryVars, vars
<1>2. CASE Next /\ UNCHANGED <<sweep, transfer>>
  <2>1. ASSUME NEW c \in Cmd, Submit(c) \/ SubmitUnanswered(c)
        PROVE  \E tx : /\ Offered(tx) /\ Purpose(tx) /\ tx.by = c
                       /\ tx.outputs = Change(c)
    <3>1. cmd[c].pc = "planned" /\ Offer(c) /\ IInv /\ PlansAddUp
      BY <2>1 DEF Submit, SubmitUnanswered, TypeInv
    <3>2. PICK tx : /\ Offered(tx) /\ tx.by = c /\ tx.inputs = cmd[c].inputs
                    /\ tx.outputs = Change(c) /\ tx.pays = cmd[c].amount /\ tx.fee = cmd[c].fee
      BY <3>1, CommandOffered
    <3>3. Purpose(tx)
      BY <3>1, <3>2, Senders DEF Purpose, PlansAddUp, IInv, Started, Running, Change
    <3>4. QED
      BY <3>2, <3>3
  <2>2. ASSUME NEW c \in Cmd, Step(c), ~Submit(c), ~SubmitUnanswered(c) PROVE UNCHANGED nodeVars
    BY <2>2 DEF Step, Begin, TakeChangeAddress, Plan, Refuse, SubmitRejected, Debit, DebitRefused, Die
  <2>3. ASSUME NEW a \in Account, AssignAddress(a) PROVE UNCHANGED nodeVars
    BY <2>3 DEF AssignAddress
  <2>4. ASSUME NEW n \in Note, DepositCredited(n) \/ DepositReversed(n) PROVE UNCHANGED nodeVars
    BY <2>4 DEF DepositCredited, DepositReversed, Post
  <2>5. ASSUME NEW i \in DOMAIN txs, TxMined(i) \/ TxExpired(i)
        PROVE  (Mine(i) \/ Expire(i)) /\ UNCHANGED <<cmd, nextInternal>>
    BY <2>5 DEF TxMined, TxExpired, withdrawalVars
  <2>6. CASE \E c \in Cmd : Submit(c) \/ SubmitUnanswered(c)
    BY <1>2, <2>1, <2>6
  <2>7. CASE \E i \in DOMAIN txs : TxMined(i) \/ TxExpired(i)
    BY <1>2, <2>5, <2>7
  <2>8. QED
    BY <1>2, <2>2, <2>3, <2>4, <2>6, <2>7 DEF Next, Step
<1>3. ASSUME NEW s \in Sweeper, SweepStep(s), UNCHANGED <<ledgerVars, withdrawalVars, transfer>>
      PROVE  \/ UNCHANGED nodeVars
             \/ /\ \E tx : /\ Offered(tx) /\ Purpose(tx) /\ tx.by = s
                           /\ tx.inputs = NextChunk(s) /\ tx.outputs = Swept(s)
                /\ SubmitChunk(s) \/ ChunkUnanswered(s)
                /\ UNCHANGED <<cmd, transfer>>
  <2>1. CASE SubmitChunk(s) \/ ChunkUnanswered(s)
    BY <1>3, <2>1, ChunkOffered DEF SubmitChunk, ChunkUnanswered, withdrawalVars
  <2>2. CASE ~SubmitChunk(s) /\ ~ChunkUnanswered(s)
    BY <1>3, <2>2 DEF SweepStep, Consolidate, ToCold, PlanSweepMany, SweepFails, ChunkRejected
  <2>3. QED
    BY <2>1, <2>2
<1>4. ASSUME NEW t \in Transfer, TransferStep(t), UNCHANGED <<ledgerVars, withdrawalVars, sweep>>
      PROVE  \/ UNCHANGED nodeVars
             \/ /\ \E tx : /\ Offered(tx) /\ Purpose(tx) /\ tx.by = t
                           /\ tx.inputs = transfer[t].inputs /\ tx.outputs = Moved(t)
                /\ Broadcast(t) /\ UNCHANGED <<cmd, sweep>>
  <2>1. CASE Broadcast(t)
    BY <1>4, <2>1, TransferOffered DEF withdrawalVars
  <2>2. CASE ~Broadcast(t)
    BY <1>4, <2>2 DEF TransferStep, TakeHotAddress, TakeColdAddress, PlanRebalance, RefusePlan, Sign
  <2>3. QED
    BY <2>1, <2>2
<1>5. CASE \E s \in Sweeper : SweepStep(s) /\ UNCHANGED <<ledgerVars, withdrawalVars, transfer>>
  BY <1>3, <1>5
<1>6. CASE \E t \in Transfer : TransferStep(t) /\ UNCHANGED <<ledgerVars, withdrawalVars, sweep>>
  BY <1>4, <1>6
<1>7. QED
  BY <1>1, <1>2, <1>5, <1>6 DEF TreasuryNext

-----------------------------------------------------------------------------
(* A transfer submits what its file says, whenever it does.                *)
Faithful ==
  \A t \in Transfer :
     /\ transfer[t].pc \in {"planned", "signed"} => transfer[t].inputs # {}
     /\ \A i \in DOMAIN txs : txs[i].by = t =>
          transfer[t].pc = "signed" /\ txs[i].inputs = transfer[t].inputs

(* What a file says is written once. *)
LEMMA FilesStay ==
  ASSUME TypeInv, [TreasuryNext]_treasuryVars, NEW t \in Transfer
  PROVE  /\ transfer[t].pc = "signed" => transfer'[t] = transfer[t]
         /\ transfer'[t].pc \in {"planned", "signed"} =>
              \/ transfer'[t].inputs = transfer[t].inputs /\ transfer[t].pc \in {"planned", "signed"}
              \/ transfer'[t].inputs # {}
<1>1. transfer \in [Transfer -> TransferRecord] /\ transfer[t] \in TransferRecord
  BY DEF TypeInv, ColdToHotTypeOK
<1>2. CASE transfer'[t] = transfer[t]
  BY <1>2
<1>3. CASE TransferStep(t) /\ ~Broadcast(t)
  <2>1. ASSUME NEW amount \in MovedAmount, TakeHotAddress(t, amount)
        PROVE  transfer[t].pc = "new" /\ transfer'[t].pc = "hot_addressed"
    BY <1>1, <2>1 DEF TakeHotAddress, TransferRecord
  <2>2. CASE TakeColdAddress(t)
    BY <1>1, <2>2 DEF TakeColdAddress, TransferRecord
  <2>3. CASE PlanRebalance(t)
    <3>1. PICK listed \in Listings("cold") : \E notes \in Selections(listed, transfer[t].amount, 1) :
            \E rest \in 0..Supply :
              transfer' = [transfer EXCEPT ![t].pc = "planned", ![t].inputs = notes, ![t].rest = rest,
                                           ![t].fee = RequiredFeeSend(Cardinality(notes), 2)]
      BY <2>3 DEF PlanRebalance
    <3>2. PICK notes \in Selections(listed, transfer[t].amount, 1), rest \in 0..Supply :
              transfer' = [transfer EXCEPT ![t].pc = "planned", ![t].inputs = notes, ![t].rest = rest,
                                           ![t].fee = RequiredFeeSend(Cardinality(notes), 2)]
      BY <3>1
    <3>3. notes # {}
      BY <3>2 DEF Selections
    <3>4. transfer'[t].inputs = notes
      BY <1>1, <3>2 DEF TransferRecord
    <3>5. QED
      BY <2>3, <3>3, <3>4 DEF PlanRebalance
  <2>4. CASE RefusePlan(t)
    <3>1. transfer'[t] = [NewTransfer EXCEPT !.pc = "refused"]
      BY <1>1, <2>4 DEF RefusePlan
    <3>2. transfer'[t].pc = "refused"
      BY <3>1 DEF NewTransfer
    <3>3. QED
      BY <2>4, <3>2 DEF RefusePlan
  <2>5. CASE Sign(t)
    BY <1>1, <2>5 DEF Sign, TransferRecord
  <2>6. QED
    BY <1>3, <2>1, <2>2, <2>3, <2>4, <2>5 DEF TransferStep
<1>4. transfer'[t] = transfer[t] \/ (TransferStep(t) /\ ~Broadcast(t))
  <2>1. ASSUME NEW r \in Transfer, TransferStep(r)
        PROVE  transfer'[t] = transfer[t] \/ (TransferStep(t) /\ ~Broadcast(t))
    <3>1. CASE Broadcast(r)
      BY <3>1 DEF Broadcast
    <3>2. CASE ~Broadcast(r)
      BY <2>1, <3>2, TransferMoves
    <3>3. QED
      BY <3>1, <3>2
  <2>2. QED
    BY <2>1 DEF TreasuryNext, treasuryVars
<1>5. QED
  BY <1>2, <1>3, <1>4

LEMMA StepKeepsFaithful ==
  ASSUME TypeInv, Faithful, [TreasuryNext]_treasuryVars
  PROVE  Faithful'
<1>1. NodeTypeOK
  BY DEF TypeInv, IInv, WithdrawalTypeOK
<1>2. SUFFICES ASSUME NEW t \in Transfer
               PROVE  /\ transfer'[t].pc \in {"planned", "signed"} => transfer'[t].inputs # {}
                      /\ \A i \in DOMAIN txs' : txs'[i].by = t =>
                           transfer'[t].pc = "signed" /\ txs'[i].inputs = transfer'[t].inputs
  BY DEF Faithful
<1>3. transfer'[t].pc \in {"planned", "signed"} => transfer'[t].inputs # {}
  BY FilesStay DEF Faithful
<1>4. \A i \in DOMAIN txs : txs[i].by = t =>
        transfer'[t].pc = "signed" /\ txs[i].inputs = transfer'[t].inputs
  BY FilesStay DEF Faithful
<1>5. CASE UNCHANGED nodeVars
  BY <1>3, <1>4, <1>5 DEF nodeVars
<1>6. CASE \E i \in DOMAIN txs : Mine(i) \/ Expire(i)
  BY <1>1, <1>3, <1>4, <1>6, NodeMoves
<1>7. ASSUME NEW tx, Offered(tx),
             tx.by = t => transfer'[t].pc = "signed" /\ tx.inputs = transfer'[t].inputs
      PROVE  \A i \in DOMAIN txs' : txs'[i].by = t =>
               transfer'[t].pc = "signed" /\ txs'[i].inputs = transfer'[t].inputs
  <2>1. tx \in Tx /\ IsFiniteSet(tx.outputs) /\ txs' = Append(txs, tx) /\ coins' = coins
    BY <1>7 DEF Offered, Acceptable
  <2>2. /\ DOMAIN txs' = DOMAIN txs \cup {NextTx}
        /\ \A i \in DOMAIN txs : txs'[i] = txs[i]
        /\ txs'[NextTx] = tx
    BY <1>1, <2>1, AppendTx
  <2>3. QED
    BY <1>4, <1>7, <2>2
<1>8. CASE \E c \in Cmd : \E tx : Offered(tx) /\ tx.by = c
  BY <1>3, <1>7, <1>8, Senders
<1>9. CASE \E s \in Sweeper : \E tx : Offered(tx) /\ tx.by = s
  BY <1>3, <1>7, <1>9, Senders
<1>10. CASE \E r \in Transfer : /\ \E tx : Offered(tx) /\ tx.by = r /\ tx.inputs = transfer[r].inputs
                                /\ Broadcast(r)
  <2>1. PICK r \in Transfer : /\ \E tx : Offered(tx) /\ tx.by = r /\ tx.inputs = transfer[r].inputs
                              /\ Broadcast(r)
    BY <1>10
  <2>2. transfer' = transfer /\ transfer[r].pc = "signed"
    BY <2>1 DEF Broadcast
  <2>3. QED
    BY <1>3, <1>7, <2>1, <2>2
<1>11. QED
  BY <1>5, <1>6, <1>8, <1>9, <1>10, NodeSteps

(* However often the file of a transfer is broadcast, it moves money once, *)
(* whatever else is spent and mined meanwhile.                             *)
THEOREM TransfersMoveOnce == TreasurySpec => []TransferOnce
<1>1. TreasuryInit => Faithful
  BY DEF TreasuryInit, WithdrawalInit, ColdToHotInit, NewTransfer, Faithful
<1>2. SpentOnce /\ Faithful => TransferOnce
  <2> SUFFICES ASSUME SpentOnce, Faithful, NEW t \in Transfer, NEW i \in Live, NEW j \in Live,
                      txs[i].by = t, txs[j].by = t, i # j
               PROVE  FALSE
    BY DEF TransferOnce
  <2>1. /\ txs[i].inputs = transfer[t].inputs /\ txs[j].inputs = transfer[t].inputs
        /\ transfer[t].inputs # {}
    BY DEF Faithful, Live
  <2>2. txs[i].inputs \cap txs[j].inputs = {}
    BY DEF SpentOnce
  <2>3. QED
    BY <2>1, <2>2
<1>3. QED
  BY <1>1, <1>2, InitTypeInv, TreasuryIsOpen, NeverSpentTwice, TreasuryStepIsOpen, StepKeepsFaithful,
     PTL DEF TreasurySpec


-----------------------------------------------------------------------------
(* Internal index i of wallet w is x's: it has taken it to pay to.         *)
Holds(x, w, i) ==
  \/ /\ x \in Cmd /\ cmd[x].pc \in {"addressed", "planned"}
     /\ w = "hot" /\ i = cmd[x].change
  \/ /\ x \in Sweeper /\ sweep[x].pc \in {"addressed", "planned"} /\ sweep[x].to.scope = "internal"
     /\ w = sweep[x].to.wallet /\ i = sweep[x].to.out
  \/ /\ x \in Transfer /\ transfer[x].pc \in {"hot_addressed", "addressed", "planned", "signed"}
     /\ w = "hot" /\ i = transfer[x].to
  \/ /\ x \in Transfer /\ transfer[x].pc \in {"addressed", "planned", "signed"}
     /\ w = "cold" /\ i = transfer[x].change

(* ... or it has paid to it. *)
Pays(j, w, i) == \E c \in txs[j].outputs : c.scope = "internal" /\ c.wallet = w /\ c.out = i

Uses(x, w, i) == Holds(x, w, i) \/ \E j \in DOMAIN txs : txs[j].by = x /\ Pays(j, w, i)

AddressesDiffer ==
  /\ \A x \in Sender, w \in Wallet, i \in Nat : Uses(x, w, i) => i < nextInternal[w]
  /\ \A x, y \in Sender, w \in Wallet, i \in Nat : Uses(x, w, i) /\ Uses(y, w, i) => x = y

(* A withdrawal takes one address, and keeps it until it is sent. *)
LEMMA CommandHolds ==
  ASSUME TypeInv, NEW c \in Cmd, Step(c)
  PROVE  /\ \A d \in Cmd \ {c} : cmd'[d] = cmd[d]
         /\ \/ /\ UNCHANGED nextInternal
               /\ cmd'[c].pc \in {"addressed", "planned"} =>
                    cmd[c].pc \in {"addressed", "planned"} /\ cmd'[c].change = cmd[c].change
            \/ NextInternalAddress("hot") /\ UNCHANGED nodeVars /\ cmd'[c].change = nextInternal["hot"]
<1>1. cmd \in [Cmd -> Command] /\ cmd[c] \in Command
  BY DEF TypeInv, IInv, WithdrawalTypeOK
<1>2. ASSUME NEW a \in Account, NEW amount \in Amount, Begin(c, a, amount)
      PROVE  /\ \A d \in Cmd \ {c} : cmd'[d] = cmd[d]
             /\ UNCHANGED nextInternal /\ cmd'[c].pc \in {"refused", "begun"}
  BY <1>1, <1>2 DEF Begin, Command
<1>3. CASE TakeChangeAddress(c)
  BY <1>1, <1>3 DEF TakeChangeAddress, Command
<1>4. CASE Plan(c)
  <2>1. \E notes, rest, fee : Planned(c, notes, rest, fee)
    BY <1>4 DEF Plan
  <2>2. PICK notes, rest, fee :
          cmd' = [cmd EXCEPT ![c].pc = "planned", ![c].inputs = notes, ![c].rest = rest, ![c].fee = fee]
    BY <2>1 DEF Planned
  <2>3. cmd'[c].change = cmd[c].change /\ \A d \in Cmd \ {c} : cmd'[d] = cmd[d]
    BY <1>1, <2>2 DEF Command
  <2>4. cmd[c].pc = "addressed" /\ UNCHANGED nextInternal
    BY <1>4 DEF Plan
  <2>5. QED
    BY <2>3, <2>4
<1>5. CASE Submit(c)
  BY <1>1, <1>5 DEF Submit, Command
<1>6. CASE Refuse(c) \/ SubmitRejected(c) \/ SubmitUnanswered(c) \/ Debit(c) \/ DebitRefused(c) \/ Die(c)
  <2>1. PICK how \in {"refused", "failed", "killed", "done"} : cmd' = [cmd EXCEPT ![c].pc = how]
    BY <1>6 DEF Refuse, SubmitRejected, SubmitUnanswered, Debit, DebitRefused, Die, Stop
  <2>2. cmd'[c].pc = how /\ \A d \in Cmd \ {c} : cmd'[d] = cmd[d]
    BY <1>1, <2>1 DEF Command
  <2>3. UNCHANGED nextInternal
    BY <1>6 DEF Refuse, SubmitRejected, SubmitUnanswered, Debit, DebitRefused, Die
  <2>4. QED
    BY <2>2, <2>3
<1>7. QED
  BY <1>2, <1>3, <1>4, <1>5, <1>6 DEF Step

(* A sweep takes one, or uses an external one. *)
LEMMA SweepHolds ==
  ASSUME TypeInv, NEW s \in Sweeper, SweepStep(s)
  PROVE  /\ \A r \in Sweeper \ {s} : sweep'[r] = sweep[r]
         /\ \/ /\ UNCHANGED nextInternal
               /\ sweep'[s].pc \in {"addressed", "planned"} /\ sweep'[s].to.scope = "internal" =>
                    sweep[s].pc \in {"addressed", "planned"} /\ sweep'[s].to = sweep[s].to
            \/ /\ NextInternalAddress("hot") /\ UNCHANGED nodeVars
               /\ sweep'[s].to.wallet = "hot" /\ sweep'[s].to.out = nextInternal["hot"]
<1>1. sweep \in [Sweeper -> SweepRecord] /\ sweep[s] \in SweepRecord
  BY DEF TypeInv, SweepTypeOK
<1>2. CASE Consolidate(s)
  <2>1. sweep' = [sweep EXCEPT ![s].pc = "addressed",
                               ![s].to = Address("hot", "internal", nextInternal["hot"])]
    BY <1>2 DEF Consolidate, Aim
  <2>2. /\ sweep'[s].to = Address("hot", "internal", nextInternal["hot"])
        /\ \A r \in Sweeper \ {s} : sweep'[r] = sweep[r]
    BY <1>1, <2>1 DEF SweepRecord
  <2>3. QED
    BY <1>2, <2>2 DEF Consolidate, Address
<1>3. CASE ToCold(s)
  <2>1. sweep' = [sweep EXCEPT ![s].pc = "addressed", ![s].to = Address("cold", "external", 0)]
    BY <1>3 DEF ToCold, Aim
  <2>2. /\ sweep'[s].to = Address("cold", "external", 0)
        /\ \A r \in Sweeper \ {s} : sweep'[r] = sweep[r]
    BY <1>1, <2>1 DEF SweepRecord
  <2>3. QED
    BY <1>3, <2>2 DEF ToCold, Address
<1>4. CASE PlanSweepMany(s)
  <2>1. sweep[s].pc = "addressed" /\ UNCHANGED nextInternal
    BY <1>4 DEF PlanSweepMany
  <2>2. sweep'[s].to = sweep[s].to /\ \A r \in Sweeper \ {s} : sweep'[r] = sweep[r]
    BY <1>4, PlanSweepKeeps
  <2>3. QED
    BY <2>1, <2>2
<1>5. CASE SweepFails(s) \/ ChunkRejected(s) \/ ChunkUnanswered(s)
  <2>1. sweep' = [sweep EXCEPT ![s] = [NewSweep EXCEPT !.pc = "failed"]] /\ UNCHANGED nextInternal
    BY <1>5 DEF SweepFails, ChunkRejected, ChunkUnanswered, FailSweep
  <2>2. sweep'[s].pc = "failed" /\ \A r \in Sweeper \ {s} : sweep'[r] = sweep[r]
    BY <1>1, <2>1 DEF NewSweep
  <2>3. QED
    BY <2>1, <2>2
<1>6. CASE SubmitChunk(s)
  BY <1>6, SubmitChunkKeeps DEF SubmitChunk
<1>7. QED
  BY <1>2, <1>3, <1>4, <1>5, <1>6 DEF SweepStep


(* A transfer takes one in each wallet, and keeps them for good. *)
LEMMA TransferHolds ==
  ASSUME TypeInv, NEW t \in Transfer, TransferStep(t), ~Broadcast(t)
  PROVE  /\ \A r \in Transfer \ {t} : transfer'[r] = transfer[r]
         /\ \/ /\ UNCHANGED nextInternal
               /\ transfer'[t].pc \in {"hot_addressed", "addressed", "planned", "signed"} =>
                    /\ transfer[t].pc \in {"addressed", "planned", "signed"}
                    /\ transfer'[t].to = transfer[t].to /\ transfer'[t].change = transfer[t].change
            \/ /\ NextInternalAddress("hot") /\ UNCHANGED nodeVars
               /\ transfer'[t].pc = "hot_addressed" /\ transfer'[t].to = nextInternal["hot"]
            \/ /\ NextInternalAddress("cold") /\ UNCHANGED nodeVars
               /\ transfer[t].pc = "hot_addressed" /\ transfer'[t].to = transfer[t].to
               /\ transfer'[t].pc = "addressed" /\ transfer'[t].change = nextInternal["cold"]
<1>1. transfer \in [Transfer -> TransferRecord] /\ transfer[t] \in TransferRecord
  BY DEF TypeInv, ColdToHotTypeOK
<1>2. \A r \in Transfer \ {t} : transfer'[r] = transfer[r]
  BY TransferMoves
<1>3. ASSUME NEW amount \in MovedAmount, TakeHotAddress(t, amount)
      PROVE  /\ NextInternalAddress("hot") /\ UNCHANGED nodeVars
             /\ transfer'[t].pc = "hot_addressed" /\ transfer'[t].to = nextInternal["hot"]
  BY <1>1, <1>3 DEF TakeHotAddress, TransferRecord
<1>4. CASE TakeColdAddress(t)
  BY <1>1, <1>2, <1>4 DEF TakeColdAddress, TransferRecord
<1>5. CASE PlanRebalance(t)
  <2>1. PICK listed \in Listings("cold") : \E notes \in Selections(listed, transfer[t].amount, 1) :
          \E rest \in 0..Supply :
            transfer' = [transfer EXCEPT ![t].pc = "planned", ![t].inputs = notes, ![t].rest = rest,
                                         ![t].fee = RequiredFeeSend(Cardinality(notes), 2)]
    BY <1>5 DEF PlanRebalance
  <2>2. transfer'[t].to = transfer[t].to /\ transfer'[t].change = transfer[t].change
    BY <1>1, <2>1 DEF TransferRecord
  <2>3. transfer[t].pc = "addressed" /\ UNCHANGED nextInternal
    BY <1>5 DEF PlanRebalance
  <2>4. QED
    BY <1>2, <2>2, <2>3
<1>6. CASE RefusePlan(t)
  <2>1. transfer'[t] = [NewTransfer EXCEPT !.pc = "refused"] /\ UNCHANGED nextInternal
    BY <1>1, <1>6 DEF RefusePlan
  <2>2. transfer'[t].pc = "refused"
    BY <2>1 DEF NewTransfer
  <2>3. QED
    BY <1>2, <2>1, <2>2
<1>7. CASE Sign(t)
  BY <1>1, <1>2, <1>7 DEF Sign, TransferRecord
<1>8. QED
  BY <1>2, <1>3, <1>4, <1>5, <1>6, <1>7 DEF TransferStep

(* At most one address is taken at a time, and it is the wallet's next. *)
Fresh(x, w, i, by, wallet) == x = by /\ w = wallet /\ i = nextInternal[wallet]

LEMMA OneAddressTaken ==
  ASSUME TypeInv, [TreasuryNext]_treasuryVars
  PROVE  \/ /\ UNCHANGED nextInternal
            /\ \A x \in Sender, w \in Wallet, i \in Nat : Holds(x, w, i)' => Holds(x, w, i)
         \/ \E by \in Sender, wallet \in Wallet :
              /\ NextInternalAddress(wallet) /\ UNCHANGED nodeVars
              /\ \A x \in Sender, w \in Wallet, i \in Nat :
                   Holds(x, w, i)' => Holds(x, w, i) \/ Fresh(x, w, i, by, wallet)
<1>1. "hot" \in Wallet /\ "cold" \in Wallet
  BY DEF Wallet
<1>2. CASE UNCHANGED <<cmd, sweep, transfer, nextInternal>>
  BY <1>2 DEF Holds
<1>3. ASSUME NEW c \in Cmd, Step(c), UNCHANGED <<sweep, transfer>>
      PROVE  \/ /\ UNCHANGED nextInternal
                /\ \A x \in Sender, w \in Wallet, i \in Nat : Holds(x, w, i)' => Holds(x, w, i)
             \/ /\ NextInternalAddress("hot") /\ UNCHANGED nodeVars
                /\ \A x \in Sender, w \in Wallet, i \in Nat :
                     Holds(x, w, i)' => Holds(x, w, i) \/ Fresh(x, w, i, c, "hot")
  BY <1>3, CommandHolds DEF Holds, Fresh
<1>4. ASSUME NEW s \in Sweeper, SweepStep(s), UNCHANGED <<cmd, transfer>>
      PROVE  \/ /\ UNCHANGED nextInternal
                /\ \A x \in Sender, w \in Wallet, i \in Nat : Holds(x, w, i)' => Holds(x, w, i)
             \/ /\ NextInternalAddress("hot") /\ UNCHANGED nodeVars
                /\ \A x \in Sender, w \in Wallet, i \in Nat :
                     Holds(x, w, i)' => Holds(x, w, i) \/ Fresh(x, w, i, s, "hot")
  BY <1>4, SweepHolds DEF Holds, Fresh
<1>5. ASSUME NEW t \in Transfer, TransferStep(t), UNCHANGED <<cmd, sweep>>
      PROVE  \/ /\ UNCHANGED nextInternal
                /\ \A x \in Sender, w \in Wallet, i \in Nat : Holds(x, w, i)' => Holds(x, w, i)
             \/ \E wallet \in Wallet :
                  /\ NextInternalAddress(wallet) /\ UNCHANGED nodeVars
                  /\ \A x \in Sender, w \in Wallet, i \in Nat :
                       Holds(x, w, i)' => Holds(x, w, i) \/ Fresh(x, w, i, t, wallet)
  <2>1. CASE Broadcast(t)
    BY <1>5, <2>1 DEF Broadcast, Holds
  <2>2. CASE ~Broadcast(t)
    BY <1>1, <1>5, <2>2, TransferHolds DEF Holds, Fresh
  <2>3. QED
    BY <2>1, <2>2
<1>6. UNCHANGED <<cmd, sweep, transfer, nextInternal>>
      \/ (\E c \in Cmd : Step(c) /\ UNCHANGED <<sweep, transfer>>)
      \/ (\E s \in Sweeper : SweepStep(s) /\ UNCHANGED <<cmd, transfer>>)
      \/ (\E t \in Transfer : TransferStep(t) /\ UNCHANGED <<cmd, sweep>>)
  BY DEF TreasuryNext, treasuryVars, vars, withdrawalVars, Next, AssignAddress, DepositCredited,
         DepositReversed, Post, TxMined, TxExpired
<1>7. \A x \in Cmd \cup Sweeper \cup Transfer : x \in Sender
  BY Senders
<1>8. QED
  BY <1>1, <1>2, <1>3, <1>4, <1>5, <1>6, <1>7


(* A transaction pays to addresses its sender holds. *)
LEMMA HeldBeforePaid ==
  ASSUME TypeInv, [TreasuryNext]_treasuryVars
  PROVE  \/ UNCHANGED nodeVars
         \/ \E i \in DOMAIN txs : (Mine(i) \/ Expire(i)) /\ UNCHANGED nextInternal
         \/ \E tx : /\ Offered(tx) /\ UNCHANGED nextInternal
                    /\ \A c \in tx.outputs : c.scope = "internal" => Holds(tx.by, c.wallet, c.out)
<1>1. ASSUME NEW c \in Cmd, Submit(c) \/ SubmitUnanswered(c), NEW tx, Offered(tx),
             tx.by = c, tx.outputs = Change(c)
      PROVE  /\ UNCHANGED nextInternal
             /\ \A x \in tx.outputs : x.scope = "internal" => Holds(tx.by, x.wallet, x.out)
  <2>1. cmd[c].pc = "planned" /\ UNCHANGED nextInternal
    BY <1>1 DEF Submit, SubmitUnanswered
  <2>2. QED
    BY <1>1, <2>1 DEF Change, Holds
<1>2. ASSUME NEW s \in Sweeper, SubmitChunk(s) \/ ChunkUnanswered(s), NEW tx, Offered(tx),
             tx.by = s, tx.outputs = Swept(s)
      PROVE  /\ UNCHANGED nextInternal
             /\ \A x \in tx.outputs : x.scope = "internal" => Holds(tx.by, x.wallet, x.out)
  <2>1. sweep[s].pc = "planned" /\ UNCHANGED nextInternal
    BY <1>2 DEF SubmitChunk, ChunkUnanswered
  <2>2. QED
    BY <1>2, <2>1 DEF Swept, Holds
<1>3. ASSUME NEW t \in Transfer, Broadcast(t), NEW tx, Offered(tx), tx.by = t, tx.outputs = Moved(t)
      PROVE  /\ UNCHANGED nextInternal
             /\ \A x \in tx.outputs : x.scope = "internal" => Holds(tx.by, x.wallet, x.out)
  <2>1. transfer[t].pc = "signed" /\ UNCHANGED nextInternal
    BY <1>3 DEF Broadcast
  <2>2. QED
    BY <1>3, <2>1 DEF Moved, Holds
<1>4. QED
  BY <1>1, <1>2, <1>3, NodeSteps

LEMMA OneAddressUsed ==
  ASSUME TypeInv, [TreasuryNext]_treasuryVars
  PROVE  \/ /\ UNCHANGED nextInternal
            /\ \A x \in Sender, w \in Wallet, i \in Nat : Uses(x, w, i)' => Uses(x, w, i)
         \/ \E by \in Sender, wallet \in Wallet :
              /\ NextInternalAddress(wallet)
              /\ \A x \in Sender, w \in Wallet, i \in Nat :
                   Uses(x, w, i)' => Uses(x, w, i) \/ Fresh(x, w, i, by, wallet)
<1>1. NodeTypeOK /\ nextInternal \in [Wallet -> Nat]
  BY DEF TypeInv, IInv, WithdrawalTypeOK, WalletsTypeOK
<1>2. CASE UNCHANGED nodeVars
  <2>1. \A x, w, i : (\E j \in DOMAIN txs' : txs'[j].by = x /\ Pays(j, w, i)')
                       => \E j \in DOMAIN txs : txs[j].by = x /\ Pays(j, w, i)
    BY <1>2 DEF nodeVars, Pays
  <2>2. QED
    BY <2>1, OneAddressTaken DEF Uses
<1>3. ASSUME UNCHANGED nextInternal, ~UNCHANGED nodeVars,
             \A x \in Sender, w \in Wallet, i \in Nat :
               (\E j \in DOMAIN txs' : txs'[j].by = x /\ Pays(j, w, i)') => Uses(x, w, i)
      PROVE  \A x \in Sender, w \in Wallet, i \in Nat : Uses(x, w, i)' => Uses(x, w, i)
  <2>1. \A x \in Sender, w \in Wallet, i \in Nat : Holds(x, w, i)' => Holds(x, w, i)
    BY <1>3, OneAddressTaken
  <2>2. QED
    BY <1>3, <2>1 DEF Uses
<1>4. CASE \E i \in DOMAIN txs : (Mine(i) \/ Expire(i)) /\ UNCHANGED nextInternal
  <2>1. PICK k \in DOMAIN txs : (Mine(k) \/ Expire(k)) /\ UNCHANGED nextInternal
    BY <1>4
  <2>2. /\ DOMAIN txs' = DOMAIN txs
        /\ \A j \in DOMAIN txs : txs'[j].by = txs[j].by /\ txs'[j].outputs = txs[j].outputs
    BY <1>1, <2>1, NodeMoves
  <2>3. \A x \in Sender, w \in Wallet, i \in Nat :
          (\E j \in DOMAIN txs' : txs'[j].by = x /\ Pays(j, w, i)') => Uses(x, w, i)
    BY <2>2 DEF Pays, Uses
  <2>4. QED
    BY <1>2, <1>3, <2>1, <2>3
<1>5. ASSUME NEW tx, Offered(tx), UNCHANGED nextInternal,
             \A c \in tx.outputs : c.scope = "internal" => Holds(tx.by, c.wallet, c.out)
      PROVE  \A x \in Sender, w \in Wallet, i \in Nat :
               (\E j \in DOMAIN txs' : txs'[j].by = x /\ Pays(j, w, i)') => Uses(x, w, i)
  <2>1. tx \in Tx /\ IsFiniteSet(tx.outputs) /\ txs' = Append(txs, tx) /\ coins' = coins
    BY <1>5 DEF Offered, Acceptable
  <2>2. /\ DOMAIN txs' = DOMAIN txs \cup {NextTx}
        /\ \A i \in DOMAIN txs : txs'[i] = txs[i]
        /\ txs'[NextTx] = tx
    BY <1>1, <2>1, AppendTx
  <2>3. ASSUME NEW x \in Sender, NEW w \in Wallet, NEW i \in Nat, NEW j \in DOMAIN txs',
               txs'[j].by = x, Pays(j, w, i)'
        PROVE  Uses(x, w, i)
    <3>1. PICK c \in txs'[j].outputs : c.scope = "internal" /\ c.wallet = w /\ c.out = i
      BY <2>3 DEF Pays
    <3>2. CASE j = NextTx
      BY <1>5, <2>2, <2>3, <3>1, <3>2 DEF Uses
    <3>3. CASE j \in DOMAIN txs
      BY <2>2, <2>3, <3>1, <3>3 DEF Uses, Pays
    <3>4. QED
      BY <2>2, <3>2, <3>3
  <2>4. QED
    BY <2>3
<1>6. QED
  BY <1>2, <1>3, <1>4, <1>5, HeldBeforePaid

LEMMA StepKeepsAddresses ==
  ASSUME TypeInv, AddressesDiffer, [TreasuryNext]_treasuryVars
  PROVE  AddressesDiffer'
<1>1. nextInternal \in [Wallet -> Nat]
  BY DEF TypeInv, IInv, WithdrawalTypeOK, WalletsTypeOK
<1>2. CASE UNCHANGED nextInternal /\ \A x \in Sender, w \in Wallet, i \in Nat : Uses(x, w, i)' => Uses(x, w, i)
  BY <1>2 DEF AddressesDiffer
<1>3. ASSUME NEW by \in Sender, NEW wallet \in Wallet, NextInternalAddress(wallet),
             \A x \in Sender, w \in Wallet, i \in Nat :
               Uses(x, w, i)' => Uses(x, w, i) \/ Fresh(x, w, i, by, wallet)
      PROVE  AddressesDiffer'
  <2>1. /\ \A w \in Wallet : nextInternal'[w] \in Nat /\ nextInternal[w] <= nextInternal'[w]
        /\ nextInternal[wallet] < nextInternal'[wallet]
    BY <1>1, <1>3 DEF NextInternalAddress
  <2>2. ASSUME NEW x \in Sender, NEW w \in Wallet, NEW i \in Nat, Uses(x, w, i)'
        PROVE  i < nextInternal'[w]
    <3>1. CASE Uses(x, w, i)
      BY <1>1, <2>1, <3>1 DEF AddressesDiffer
    <3>2. CASE Fresh(x, w, i, by, wallet)
      BY <2>1, <3>2 DEF Fresh
    <3>3. QED
      BY <1>3, <2>2, <3>1, <3>2
  <2>3. ASSUME NEW x \in Sender, NEW y \in Sender, NEW w \in Wallet, NEW i \in Nat,
               Uses(x, w, i)', Uses(y, w, i)'
        PROVE  x = y
    <3>1. Uses(x, w, i) \/ Fresh(x, w, i, by, wallet)
      BY <1>3, <2>3
    <3>2. Uses(y, w, i) \/ Fresh(y, w, i, by, wallet)
      BY <1>3, <2>3
    <3>3. \A z \in Sender : Uses(z, w, i) => i # nextInternal[w]
      BY <1>1 DEF AddressesDiffer
    <3>4. QED
      BY <3>1, <3>2, <3>3 DEF AddressesDiffer, Fresh
  <2>4. QED
    BY <2>2, <2>3 DEF AddressesDiffer
<1>4. QED
  BY <1>2, <1>3, OneAddressUsed

(* No two commands ever pay to the same internal address: not a command    *)
(* that runs beside another, not one that failed after it took its index,  *)
(* and not a file that is broadcast late.                                  *)
THEOREM AddressesNeverShared == TreasurySpec => []ChangeNeverReused
<1>1. TreasuryInit => AddressesDiffer
  <2> SUFFICES ASSUME TreasuryInit PROVE AddressesDiffer
    OBVIOUS
  <2>1. \A x \in Cmd : cmd[x].pc = "new"
    BY DEF TreasuryInit, WithdrawalInit, NewCommand
  <2>2. \A x \in Sweeper : sweep[x].pc = "new"
    BY DEF TreasuryInit, SweepInit, NewSweep
  <2>3. \A x \in Transfer : transfer[x].pc = "new"
    BY DEF TreasuryInit, ColdToHotInit, NewTransfer
  <2>4. DOMAIN txs = {}
    BY DEF TreasuryInit, WithdrawalInit
  <2>5. QED
    BY <2>1, <2>2, <2>3, <2>4 DEF AddressesDiffer, Uses, Holds
<1>2. TypeInv /\ AddressesDiffer => ChangeNeverReused
  <2> SUFFICES ASSUME TypeInv, AddressesDiffer, NEW i \in DOMAIN txs, NEW j \in DOMAIN txs,
                      NEW a \in Internal(i), a \in Internal(j)
               PROVE  txs[i].by = txs[j].by
    BY DEF ChangeNeverReused
  <2>1. \A k \in DOMAIN txs : txs[k] \in Tx
    BY DEF TypeInv, IInv, WithdrawalTypeOK, NodeTypeOK
  <2>2. PICK c \in txs[i].outputs : c.scope = "internal" /\ a = [wallet |-> c.wallet, out |-> c.out]
    BY DEF Internal
  <2>3. PICK d \in txs[j].outputs : d.scope = "internal" /\ a = [wallet |-> d.wallet, out |-> d.out]
    BY DEF Internal
  <2>4. c.wallet = d.wallet /\ c.out = d.out /\ c.wallet \in Wallet /\ c.out \in Nat
    BY <2>1, <2>2, <2>3 DEF Tx, Coin
  <2>5. Uses(txs[i].by, c.wallet, c.out) /\ Uses(txs[j].by, c.wallet, c.out)
    BY <2>2, <2>3, <2>4 DEF Uses, Pays
  <2>6. txs[i].by \in Sender /\ txs[j].by \in Sender
    BY <2>1 DEF Tx
  <2>7. QED
    BY <2>4, <2>5, <2>6 DEF AddressesDiffer
<1>3. QED
  BY <1>1, <1>2, InitTypeInv, TreasuryStepIsOpen, StepKeepsAddresses, PTL DEF TreasurySpec


-----------------------------------------------------------------------------
(* What a sweep has submitted is what it counts. *)
Dispatched(s) ==
  /\ sweep[s].pc \in {"new", "addressed"} => SentBy(s) = {}
  /\ sweep[s].pc \in {"planned", "done"} =>
       /\ \A i \in SentBy(s) : \E c \in 1..sweep[s].sent : txs[i].inputs = sweep[s].chunks[c]
       /\ \A c \in 1..sweep[s].sent : \E i \in SentBy(s) : txs[i].inputs = sweep[s].chunks[c]
       /\ \A i, j \in SentBy(s) : i # j => txs[i].inputs \cap txs[j].inputs = {}

(* What it has listed only a block can have taken. *)
StillThere(s) ==
  sweep[s].pc = "planned" =>
     \A x \in sweep[s].listed :
        x \in coins \/ \E i \in DOMAIN txs : txs[i].state = "mined" /\ x \in txs[i].inputs

SweepInv == \A s \in Sweeper : Dispatched(s) /\ StillThere(s)

(* A sweep that submits nothing. *)
LEMMA QuietSweep ==
  ASSUME TypeInv, NEW s \in Sweeper, [TreasuryNext]_treasuryVars, UNCHANGED nodeVars
  PROVE  \/ sweep'[s] = sweep[s]
         \/ sweep[s].pc = "new" /\ sweep'[s].pc = "addressed"
         \/ sweep'[s].pc = "failed"
         \/ /\ sweep[s].pc = "addressed" /\ sweep'[s].pc = "planned"
            /\ sweep'[s].sent = 0 /\ sweep'[s].listed \subseteq coins
<1>1. sweep \in [Sweeper -> SweepRecord] /\ sweep[s] \in SweepRecord /\ NodeTypeOK
  BY DEF TypeInv, SweepTypeOK, IInv, WithdrawalTypeOK
<1>2. sweep'[s] = sweep[s] \/ SweepStep(s)
  BY SweepHolds DEF TreasuryNext, treasuryVars
<1>3. CASE Consolidate(s) \/ ToCold(s)
  <2>1. PICK address : sweep' = [sweep EXCEPT ![s].pc = "addressed", ![s].to = address]
    BY <1>3 DEF Consolidate, ToCold, Aim
  <2>2. sweep'[s].pc = "addressed"
    BY <1>1, <2>1 DEF SweepRecord
  <2>3. QED
    BY <1>3, <2>2 DEF Consolidate, ToCold
<1>4. CASE PlanSweepMany(s)
  <2>1. sweep[s].pc = "addressed"
    BY <1>4 DEF PlanSweepMany
  <2>2. QED
    BY <1>4, <2>1, PlanSweepKeeps
<1>5. CASE SweepFails(s) \/ ChunkRejected(s)
  <2>1. sweep' = [sweep EXCEPT ![s] = [NewSweep EXCEPT !.pc = "failed"]]
    BY <1>5 DEF SweepFails, ChunkRejected, FailSweep
  <2>2. sweep'[s].pc = "failed"
    BY <1>1, <2>1 DEF NewSweep
  <2>3. QED
    BY <2>2
<1>6. CASE SubmitChunk(s) \/ ChunkUnanswered(s)
  <2>1. PICK tx : Offered(tx)
    BY <1>6, ChunkOffered DEF SubmitChunk, ChunkUnanswered
  <2>2. tx \in Tx /\ IsFiniteSet(tx.outputs) /\ txs' = Append(txs, tx) /\ coins' = coins
    BY <2>1 DEF Offered, Acceptable
  <2>3. DOMAIN txs' = DOMAIN txs \cup {NextTx} /\ NextTx \notin DOMAIN txs
    BY <1>1, <2>2, AppendTx
  <2>4. QED
    BY <2>3 DEF nodeVars
<1>7. QED
  BY <1>2, <1>3, <1>4, <1>5, <1>6 DEF SweepStep

(* A block or an expiry. *)
LEMMA NodeKeepsSweep ==
  ASSUME TypeInv, NEW s \in Sweeper, Dispatched(s), StillThere(s),
         NEW i \in DOMAIN txs, Mine(i) \/ Expire(i), sweep' = sweep
  PROVE  Dispatched(s)' /\ StillThere(s)'
<1>1. NodeTypeOK
  BY DEF TypeInv, IInv, WithdrawalTypeOK
<1>2. /\ DOMAIN txs' = DOMAIN txs /\ txs[i].state = "pooled"
      /\ \A j \in DOMAIN txs : /\ txs'[j].by = txs[j].by /\ txs'[j].inputs = txs[j].inputs
                               /\ j # i => txs'[j].state = txs[j].state
  BY <1>1, NodeMoves
<1>3. SentBy(s)' = SentBy(s)
  BY <1>2 DEF SentBy
<1>4. \A j \in SentBy(s) : txs'[j].inputs = txs[j].inputs
  BY <1>2 DEF SentBy
<1>5. Dispatched(s)'
  BY <1>3, <1>4 DEF Dispatched
<1>6. ASSUME NEW x, x \in coins
      PROVE  x \in coins' \/ \E j \in DOMAIN txs' : txs'[j].state = "mined" /\ x \in txs'[j].inputs
  <2>1. CASE Expire(i)
    BY <1>6, <2>1 DEF Expire
  <2>2. CASE Mine(i)
    <3>1. txs'[i].state = "mined"
      <4>1. \A j \in DOMAIN txs : txs[j] \in Tx
        BY <1>1 DEF NodeTypeOK
      <4>2. QED
        BY <2>2, <4>1 DEF Mine, Tx
    <3>2. coins' = (coins \ txs[i].inputs) \cup txs[i].outputs
      BY <2>2 DEF Mine
    <3>3. QED
      BY <1>2, <1>6, <3>1, <3>2
  <2>3. QED
    BY <2>1, <2>2
<1>7. StillThere(s)'
  BY <1>2, <1>6 DEF StillThere
<1>8. QED
  BY <1>5, <1>7

(* Somebody else's transaction. *)
LEMMA OthersKeepSweep ==
  ASSUME TypeInv, NEW s \in Sweeper, Dispatched(s), StillThere(s),
         NEW tx, Offered(tx), tx.by # s, sweep'[s] = sweep[s]
  PROVE  Dispatched(s)' /\ StillThere(s)'
<1>1. NodeTypeOK
  BY DEF TypeInv, IInv, WithdrawalTypeOK
<1>2. tx \in Tx /\ IsFiniteSet(tx.outputs) /\ txs' = Append(txs, tx) /\ coins' = coins
  BY DEF Offered, Acceptable
<1>3. /\ DOMAIN txs' = DOMAIN txs \cup {NextTx}
      /\ \A j \in DOMAIN txs : txs'[j] = txs[j]
      /\ txs'[NextTx] = tx
  BY <1>1, <1>2, AppendTx
<1>4. SentBy(s)' = SentBy(s)
  BY <1>3 DEF SentBy
<1>5. \A j \in SentBy(s) : txs'[j].inputs = txs[j].inputs
  BY <1>3 DEF SentBy
<1>6. Dispatched(s)'
  BY <1>4, <1>5 DEF Dispatched
<1>7. StillThere(s)'
  BY <1>2, <1>3 DEF StillThere
<1>8. QED
  BY <1>6, <1>7

(* The next of its own. *)
LEMMA SubmitKeepsSweep ==
  ASSUME TypeInv, NEW s \in Sweeper, Dispatched(s), StillThere(s), SubmitChunk(s),
         NEW tx, Offered(tx), tx.by = s, tx.inputs = NextChunk(s)
  PROVE  Dispatched(s)' /\ StillThere(s)'
<1>1. NodeTypeOK /\ SplitUp(s) /\ sweep[s] \in SweepRecord /\ sweep[s].pc = "planned"
  BY DEF TypeInv, IInv, WithdrawalTypeOK, SweepsSplit, SweepTypeOK, SubmitChunk
<1>2. tx \in Tx /\ IsFiniteSet(tx.outputs) /\ txs' = Append(txs, tx) /\ coins' = coins
  BY DEF Offered, Acceptable
<1>3. /\ DOMAIN txs' = DOMAIN txs \cup {NextTx} /\ NextTx \notin DOMAIN txs
      /\ \A j \in DOMAIN txs : txs'[j] = txs[j]
      /\ txs'[NextTx] = tx
  BY <1>1, <1>2, AppendTx
<1>4. /\ SentBy(s)' = SentBy(s) \cup {NextTx} /\ NextTx \notin SentBy(s)
      /\ \A j \in SentBy(s) : txs'[j].inputs = txs[j].inputs
  BY <1>3 DEF SentBy
<1> DEFINE n == sweep[s].sent
<1> DEFINE chunks == sweep[s].chunks
<1>5. /\ sweep'[s].pc \in {"planned", "done"} /\ sweep'[s].sent = n + 1
      /\ sweep'[s].chunks = chunks /\ sweep'[s].listed = sweep[s].listed
  BY SubmitChunkKeeps
<1>6. n \in Nat /\ DOMAIN chunks = 1..Len(chunks) /\ Len(chunks) \in Nat /\ n + 1 \in DOMAIN chunks
  BY <1>1 DEF SweepRecord, SplitUp
<1>7. tx.inputs = chunks[n + 1]
  BY DEF NextChunk
<1>8. \A c \in 1..n : chunks[c] \cap tx.inputs = {}
  <2>1. ASSUME NEW c \in 1..n PROVE c \in DOMAIN chunks /\ c # n + 1
    BY <1>6
  <2>2. \A c, d \in DOMAIN chunks : c # d => chunks[c] \cap chunks[d] = {}
    BY <1>1 DEF SplitUp
  <2>3. QED
    BY <1>6, <1>7, <2>1, <2>2
<1>9. /\ \A i \in SentBy(s) : \E c \in 1..n : txs[i].inputs = chunks[c]
      /\ \A c \in 1..n : \E i \in SentBy(s) : txs[i].inputs = chunks[c]
      /\ \A i, j \in SentBy(s) : i # j => txs[i].inputs \cap txs[j].inputs = {}
  BY <1>1 DEF Dispatched
<1>10. 1..n+1 = (1..n) \cup {n + 1}
  BY <1>6
<1> HIDE DEF n, chunks
<1>11. \A i \in SentBy(s)' : \E c \in 1..n+1 : txs'[i].inputs = chunks[c]
  BY <1>3, <1>4, <1>7, <1>9, <1>10
<1>12. \A c \in 1..n+1 : \E i \in SentBy(s)' : txs'[i].inputs = chunks[c]
  BY <1>3, <1>4, <1>7, <1>9, <1>10
<1>13. \A i \in SentBy(s) : txs[i].inputs \cap tx.inputs = {}
  BY <1>8, <1>9
<1>14. \A i, j \in SentBy(s)' : i # j => txs'[i].inputs \cap txs'[j].inputs = {}
  BY <1>3, <1>4, <1>9, <1>13
<1>15. Dispatched(s)'
  BY <1>5, <1>11, <1>12, <1>14 DEF Dispatched
<1>16. StillThere(s)'
  BY <1>1, <1>2, <1>3, <1>5 DEF StillThere
<1>17. QED
  BY <1>15, <1>16

LEMMA StepKeepsSweeps ==
  ASSUME TypeInv, SweepInv, [TreasuryNext]_treasuryVars
  PROVE  SweepInv'
<1> SUFFICES ASSUME NEW s \in Sweeper PROVE Dispatched(s)' /\ StillThere(s)'
  BY DEF SweepInv
<1>1. Dispatched(s) /\ StillThere(s)
  BY DEF SweepInv
<1>2. CASE UNCHANGED nodeVars
  <2>1. SentBy(s)' = SentBy(s) /\ txs' = txs /\ coins' = coins
    BY <1>2 DEF SentBy, nodeVars
  <2>2. CASE sweep'[s] = sweep[s]
    BY <1>1, <2>1, <2>2 DEF Dispatched, StillThere
  <2>3. CASE sweep[s].pc = "new" /\ sweep'[s].pc = "addressed"
    BY <1>1, <2>1, <2>3 DEF Dispatched, StillThere
  <2>4. CASE sweep'[s].pc = "failed"
    BY <2>4 DEF Dispatched, StillThere
  <2>5. CASE /\ sweep[s].pc = "addressed" /\ sweep'[s].pc = "planned"
             /\ sweep'[s].sent = 0 /\ sweep'[s].listed \subseteq coins
    <3>1. SentBy(s)' = {} /\ 1..sweep'[s].sent = {}
      BY <1>1, <2>1, <2>5 DEF Dispatched
    <3>2. QED
      BY <2>1, <2>5, <3>1 DEF Dispatched, StillThere
  <2>6. QED
    BY <1>2, <2>2, <2>3, <2>4, <2>5, QuietSweep
<1>3. CASE \E i \in DOMAIN txs : (Mine(i) \/ Expire(i)) /\ sweep' = sweep
  BY <1>1, <1>3, NodeKeepsSweep
<1>4. CASE \E tx : Offered(tx) /\ tx.by # s /\ sweep' = sweep
  BY <1>1, <1>4, OthersKeepSweep
<1>5. ASSUME NEW r \in Sweeper, NEW tx, Offered(tx), tx.by = r, tx.inputs = NextChunk(r),
             SubmitChunk(r) \/ ChunkUnanswered(r)
      PROVE  Dispatched(s)' /\ StillThere(s)'
  <2>1. CASE r # s
    <3>1. sweep'[s] = sweep[s]
      BY <1>5, <2>1, SweepHolds DEF SweepStep
    <3>2. QED
      BY <1>1, <1>5, <2>1, <3>1, OthersKeepSweep
  <2>2. CASE r = s /\ SubmitChunk(s)
    BY <1>1, <1>5, <2>2, SubmitKeepsSweep
  <2>3. CASE r = s /\ ChunkUnanswered(s)
    <3>1. sweep' = [sweep EXCEPT ![s] = [NewSweep EXCEPT !.pc = "failed"]]
      BY <2>3 DEF ChunkUnanswered, FailSweep
    <3>2. sweep'[s].pc = "failed"
      BY <3>1 DEF NewSweep, TypeInv, SweepTypeOK
    <3>3. QED
      BY <3>2 DEF Dispatched, StillThere
  <2>4. QED
    BY <1>5, <2>1, <2>2, <2>3
<1>6. CASE \E c \in Cmd : (\E tx : Offered(tx) /\ tx.by = c) /\ UNCHANGED <<sweep, transfer>>
  BY <1>4, <1>6, Senders
<1>7. CASE \E t \in Transfer : (\E tx : Offered(tx) /\ tx.by = t) /\ UNCHANGED <<cmd, sweep>>
  BY <1>4, <1>7, Senders
<1>8. QED
  BY <1>2, <1>3, <1>5, <1>6, <1>7, NodeSteps

LEMMA InitSweepInv == TreasuryInit => SweepInv
<1> SUFFICES ASSUME TreasuryInit, NEW s \in Sweeper PROVE Dispatched(s) /\ StillThere(s)
  BY DEF SweepInv
<1>1. sweep[s].pc = "new" /\ SentBy(s) = {}
  BY DEF TreasuryInit, SweepInit, NewSweep, WithdrawalInit, SentBy
<1>2. QED
  BY <1>1 DEF Dispatched, StillThere

(* A sweep that reports success has spent every note it listed, each in    *)
(* one transaction no larger than the signer takes, for any number of      *)
(* notes.                                                                  *)
THEOREM SweepsAreComplete == TreasurySpec => []SweepsAll
<1>1. TypeInv /\ SweepInv => SweepsAll
  <2> SUFFICES ASSUME TypeInv, NEW s \in Sweeper, Dispatched(s), sweep[s].pc = "done"
               PROVE  /\ UNION {txs[i].inputs : i \in SentBy(s)} = sweep[s].listed
                      /\ \A i \in SentBy(s) : Cardinality(txs[i].inputs) \in 1..MaxSpends
                      /\ \A i, j \in SentBy(s) : i # j => txs[i].inputs \cap txs[j].inputs = {}
                      /\ NothingToBorrow(sweep[s].chunks)
    BY DEF SweepsAll, SweepInv
  <2> DEFINE chunks == sweep[s].chunks
  <2>1. /\ chunks \in Seq(SUBSET sweep[s].listed)
        /\ \A x \in sweep[s].listed : \E c \in DOMAIN chunks : x \in chunks[c]
        /\ \A c \in DOMAIN chunks : Cardinality(chunks[c]) \in 1..MaxSpends
        /\ NothingToBorrow(chunks)
        /\ sweep[s].sent = Len(chunks)
    BY DEF TypeInv, SweepsSplit, SplitUp
  <2>2. DOMAIN chunks = 1..sweep[s].sent /\ \A c \in DOMAIN chunks : chunks[c] \subseteq sweep[s].listed
    BY <2>1
  <2>3. /\ \A i \in SentBy(s) : \E c \in DOMAIN chunks : txs[i].inputs = chunks[c]
        /\ \A c \in DOMAIN chunks : \E i \in SentBy(s) : txs[i].inputs = chunks[c]
        /\ \A i, j \in SentBy(s) : i # j => txs[i].inputs \cap txs[j].inputs = {}
    BY <2>2 DEF Dispatched
  <2> HIDE DEF chunks
  <2>4. UNION {txs[i].inputs : i \in SentBy(s)} = sweep[s].listed
    BY <2>1, <2>2, <2>3
  <2>5. QED
    BY <2>1, <2>3, <2>4 DEF chunks
<1>2. QED
  BY <1>1, InitTypeInv, InitSweepInv, TreasuryStepIsOpen, StepKeepsSweeps, PTL DEF TreasurySpec

(* If the node refuses a transaction of a sweep, another command has spent *)
(* or is spending one of its notes: never another transaction of the same  *)
(* sweep.                                                                  *)
THEOREM SweepsCompeteWithOthers == TreasurySpec => []RejectedForOthers
<1>1. TypeInv /\ SweepInv => RejectedForOthers
  <2> SUFFICES ASSUME TypeInv, NEW s \in Sweeper, Dispatched(s), StillThere(s),
                      sweep[s].pc = "planned", ~Spendable(NextChunk(s))
               PROVE  \E i \in Live : txs[i].by # s /\ txs[i].inputs \cap NextChunk(s) # {}
    BY DEF RejectedForOthers, SweepInv
  <2> DEFINE chunks == sweep[s].chunks
  <2> DEFINE n == sweep[s].sent
  <2>1. /\ chunks \in Seq(SUBSET sweep[s].listed) /\ n \in Nat /\ n < Len(chunks)
        /\ \A c, d \in DOMAIN chunks : c # d => chunks[c] \cap chunks[d] = {}
    BY DEF TypeInv, SweepsSplit, SplitUp, SweepTypeOK, SweepRecord
  <2>2. /\ DOMAIN chunks = 1..Len(chunks) /\ n + 1 \in DOMAIN chunks
        /\ NextChunk(s) = chunks[n + 1] /\ chunks[n + 1] \subseteq sweep[s].listed
    BY <2>1 DEF NextChunk
  <2>3. ASSUME NEW i \in SentBy(s) PROVE txs[i].inputs \cap NextChunk(s) = {}
    <3>1. PICK c \in 1..n : txs[i].inputs = chunks[c]
      BY DEF Dispatched
    <3>2. c \in DOMAIN chunks /\ c # n + 1
      BY <2>1, <2>2
    <3>3. QED
      BY <2>1, <2>2, <3>1, <3>2
  <2>4. PICK i \in Live : txs[i].inputs \cap NextChunk(s) # {}
    <3>1. CASE \E i \in Pooled : NextChunk(s) \cap txs[i].inputs # {}
      BY <3>1 DEF Pooled, Live
    <3>2. CASE ~(NextChunk(s) \subseteq coins)
      <4>1. PICK x \in NextChunk(s) : x \notin coins
        BY <3>2
      <4>2. \E i \in DOMAIN txs : txs[i].state = "mined" /\ x \in txs[i].inputs
        BY <2>2, <4>1 DEF StillThere
      <4>3. QED
        BY <4>1, <4>2 DEF Live
    <3>3. QED
      BY <3>1, <3>2 DEF Spendable
  <2>5. i \notin SentBy(s) /\ i \in DOMAIN txs
    BY <2>3, <2>4 DEF Live
  <2>6. QED
    BY <2>4, <2>5 DEF SentBy
<1>2. QED
  BY <1>1, InitTypeInv, InitSweepInv, TreasuryStepIsOpen, StepKeepsSweeps, PTL DEF TreasurySpec

-----------------------------------------------------------------------------
(* The refinement of Vault.  First, every transaction has one purpose, and *)
(* a withdrawal has one transaction.                                       *)
Purposes == \A i \in DOMAIN txs : Purpose(txs[i])

NotSentYet(c) == cmd[c].pc \in {"new", "begun", "addressed", "planned"}

OncePerCommand ==
  \A c \in Cmd :
     /\ NotSentYet(c) => SentBy(c) = {}
     /\ \A i, j \in SentBy(c) : i = j

(* Commands do not go back. *)
LEMMA CommandsGoOn ==
  ASSUME TypeInv, [TreasuryNext]_treasuryVars, NEW c \in Cmd
  PROVE  /\ NotSentYet(c)' => NotSentYet(c)
         /\ Submit(c) \/ SubmitUnanswered(c) => NotSentYet(c) /\ ~NotSentYet(c)'
<1>1. cmd \in [Cmd -> Command]
  BY DEF TypeInv, IInv, WithdrawalTypeOK
<1>2. \/ cmd' = cmd
      \/ \E d \in Cmd : Step(d)
  BY DEF TreasuryNext, treasuryVars, vars, withdrawalVars, Next, AssignAddress, DepositCredited,
         DepositReversed, Post, TxMined, TxExpired
<1>3. ASSUME NEW d \in Cmd, Step(d) PROVE cmd'[c] = cmd[c] \/ d = c
  BY <1>3, CommandHolds
<1>4. ASSUME Step(c) PROVE NotSentYet(c)' => NotSentYet(c)
  <2>1. ASSUME NEW a \in Account, NEW amount \in Amount, Begin(c, a, amount) PROVE NotSentYet(c)
    BY <2>1 DEF Begin, NotSentYet
  <2>2. CASE TakeChangeAddress(c) \/ Plan(c) \/ Refuse(c) \/ Submit(c) \/ SubmitRejected(c) \/ SubmitUnanswered(c)
    BY <2>2 DEF TakeChangeAddress, Plan, Refuse, Submit, SubmitRejected, SubmitUnanswered, NotSentYet
  <2>3. CASE Debit(c) \/ DebitRefused(c) \/ Die(c)
    <3>1. PICK how \in Over : Stop(c, how)
      BY <2>3 DEF Debit, DebitRefused, Die, Over
    <3>2. cmd'[c].pc = how
      BY <1>1, <3>1 DEF Stop, Command
    <3>3. QED
      BY <3>2 DEF Over, NotSentYet
  <2>4. QED
    BY <1>4, <2>1, <2>2, <2>3 DEF Step
<1>5. ASSUME Submit(c) \/ SubmitUnanswered(c) PROVE NotSentYet(c) /\ ~NotSentYet(c)'
  BY <1>1, <1>5 DEF Submit, SubmitUnanswered, Stop, NotSentYet, Command
<1>6. QED
  BY <1>2, <1>3, <1>4, <1>5 DEF NotSentYet

LEMMA StepKeepsPurposes ==
  ASSUME TypeInv, Purposes, OncePerCommand, [TreasuryNext]_treasuryVars
  PROVE  Purposes' /\ OncePerCommand'
<1>1. NodeTypeOK
  BY DEF TypeInv, IInv, WithdrawalTypeOK
<1>2. ASSUME \A c \in Cmd : SentBy(c)' = SentBy(c) PROVE OncePerCommand'
  BY <1>2, CommandsGoOn DEF OncePerCommand
<1>3. CASE UNCHANGED nodeVars
  <2>1. txs' = txs
    BY <1>3 DEF nodeVars
  <2>2. QED
    BY <1>2, <2>1 DEF Purposes, SentBy
<1>4. CASE \E i \in DOMAIN txs : Mine(i) \/ Expire(i)
  <2>1. PICK i \in DOMAIN txs : Mine(i) \/ Expire(i)
    BY <1>4
  <2>2. \A j \in DOMAIN txs : txs[j] \in Tx
    BY <1>1 DEF NodeTypeOK
  <2>3. /\ DOMAIN txs' = DOMAIN txs
        /\ \A j \in DOMAIN txs : /\ txs'[j].by = txs[j].by /\ txs'[j].inputs = txs[j].inputs
                                 /\ txs'[j].outputs = txs[j].outputs
                                 /\ txs'[j].pays = txs[j].pays /\ txs'[j].fee = txs[j].fee
    BY <2>1, <2>2 DEF Mine, Expire, Tx
  <2>4. Purposes'
    BY <2>3 DEF Purposes, Purpose
  <2>5. \A c \in Cmd : SentBy(c)' = SentBy(c)
    BY <2>3 DEF SentBy
  <2>6. QED
    BY <1>2, <2>4, <2>5
<1>5. ASSUME NEW tx, Offered(tx), Purpose(tx)
      PROVE  /\ Purposes'
             /\ \A x : SentBy(x)' = IF tx.by = x THEN SentBy(x) \cup {NextTx} ELSE SentBy(x)
  <2>1. tx \in Tx /\ IsFiniteSet(tx.outputs) /\ txs' = Append(txs, tx) /\ coins' = coins
    BY <1>5 DEF Offered, Acceptable
  <2>2. /\ DOMAIN txs' = DOMAIN txs \cup {NextTx} /\ NextTx \notin DOMAIN txs
        /\ \A j \in DOMAIN txs : txs'[j] = txs[j]
        /\ txs'[NextTx] = tx
    BY <1>1, <2>1, AppendTx
  <2>3. Purposes'
    BY <1>5, <2>2 DEF Purposes
  <2>4. \A x : SentBy(x)' = IF tx.by = x THEN SentBy(x) \cup {NextTx} ELSE SentBy(x)
    BY <2>2 DEF SentBy
  <2>5. QED
    BY <2>3, <2>4
<1>6. ASSUME NEW c \in Cmd, NEW tx, Offered(tx), Purpose(tx), tx.by = c, Submit(c) \/ SubmitUnanswered(c)
      PROVE  Purposes' /\ OncePerCommand'
  <2>1. /\ \A d \in Cmd \ {c} : SentBy(d)' = SentBy(d)
        /\ SentBy(c)' = SentBy(c) \cup {NextTx}
    BY <1>5, <1>6
  <2>2. SentBy(c) = {} /\ ~NotSentYet(c)'
    BY <1>6, CommandsGoOn DEF OncePerCommand
  <2>3. SUFFICES ASSUME NEW d \in Cmd
                 PROVE  /\ NotSentYet(d)' => SentBy(d)' = {}
                        /\ \A i, j \in SentBy(d)' : i = j
    BY <1>5, <1>6 DEF OncePerCommand
  <2>4. CASE d = c
    BY <2>1, <2>2, <2>4
  <2>5. CASE d # c
    BY <2>1, <2>5, CommandsGoOn DEF OncePerCommand
  <2>6. QED
    BY <2>4, <2>5
<1>7. ASSUME NEW tx, Offered(tx), Purpose(tx), tx.by \notin Cmd
      PROVE  Purposes' /\ OncePerCommand'
  BY <1>2, <1>5, <1>7
<1>8. QED
  BY <1>3, <1>4, <1>6, <1>7, NodeSteps, Senders

-----------------------------------------------------------------------------
(* What a block moves.                                                     *)
In(notes, w) == {c \in notes : c.wallet = w}

Holdings(w) == Value(In(coins, w))

Mined   == {i \in DOMAIN txs : txs[i].state = "mined"}
FeeOf   == [i \in DOMAIN txs |-> txs[i].fee]
PaysOf  == [i \in DOMAIN txs |-> txs[i].pays]
BringsOf == [i \in DOMAIN txs |-> Value(HotOutputs(i))]

Fees   == Total(FeeOf, Mined)
Paid   == [c \in Cmd |-> Total(PaysOf, MinedOf(c))]
MovedBy == [t \in Transfer |-> Total(BringsOf, MinedOf(t))]

LEMMA VaultIs ==
  /\ Holdings("hot") = Value({c \in coins : c.wallet = "hot"})
  /\ Holdings("cold") = Value({c \in coins : c.wallet = "cold"})
  /\ Fees = Total([i \in DOMAIN txs |-> txs[i].fee], {i \in DOMAIN txs : txs[i].state = "mined"})
  /\ Paid = [c \in Cmd |-> Total([i \in DOMAIN txs |-> txs[i].pays], MinedOf(c))]
  /\ MovedBy = [t \in Transfer |-> Total([i \in DOMAIN txs |-> Value(HotOutputs(i))], MinedOf(t))]
BY DEF Holdings, In, Fees, FeeOf, Mined, Paid, PaysOf, MovedBy, BringsOf

(* The notes of each wallet are moved by themselves. *)
LEMMA MineMoves ==
  ASSUME NodeTypeOK, SpentOnce, AllAddUp, NEW i \in DOMAIN txs, Mine(i), NEW w \in Wallet
  PROVE  /\ Holdings(w)' + Value(In(txs[i].inputs, w)) = Holdings(w) + Value(In(txs[i].outputs, w))
         /\ Holdings(w) \in Nat /\ Holdings(w)' \in Nat
         /\ Value(In(txs[i].inputs, w)) \in Nat /\ Value(In(txs[i].outputs, w)) \in Nat
<1> DEFINE A == In(coins, w)
<1> DEFINE in == In(txs[i].inputs, w)
<1> DEFINE out == In(txs[i].outputs, w)
<1>1. /\ coins' = (coins \ txs[i].inputs) \cup txs[i].outputs /\ txs[i].state = "pooled"
      /\ txs[i].inputs \subseteq coins
  BY NodeMoves DEF Mine, SpentOnce, Pooled
<1>2. \A c \in txs[i].outputs : c \notin coins
  <2>1. i # 0
    BY TxFacts
  <2>2. (\A c \in coins : Real(c)) /\ \A c \in txs[i].outputs : c.tx = i
    BY DEF SpentOnce
  <2>3. QED
    BY <1>1, <2>1, <2>2 DEF Real
<1>3. /\ A \in SUBSET Coin /\ IsFiniteSet(A) /\ in \in SUBSET A
      /\ out \in SUBSET Coin /\ IsFiniteSet(out) /\ out \cap A = {}
  <2>1. coins \subseteq Coin /\ IsFiniteSet(coins) /\ txs[i].outputs \subseteq Coin /\ IsFiniteSet(txs[i].outputs)
    BY TxFacts DEF NodeTypeOK
  <2>2. IsFiniteSet(A) /\ IsFiniteSet(out)
    BY <2>1, FS_Subset DEF In
  <2>3. QED
    BY <1>1, <1>2, <2>1, <2>2 DEF In
<1>4. In(coins', w) = (A \ in) \cup out
  BY <1>1 DEF In
<1>5. Holdings(w)' = Value(In(coins', w))
  BY DEF Holdings, In
<1>6. Holdings(w) = Value(A)
  BY DEF Holdings
<1> HIDE DEF A, in, out
<1>7. /\ IsFiniteSet((A \ in) \cup out) /\ IsFiniteSet(in)
      /\ Value((A \ in) \cup out) + Value(in) = Value(A) + Value(out)
  BY <1>3, ValueMoves
<1>8. (A \ in) \cup out \in SUBSET Coin /\ in \in SUBSET Coin
  BY <1>3
<1>9. Value((A \ in) \cup out) \in Nat /\ Value(in) \in Nat /\ Value(A) \in Nat /\ Value(out) \in Nat
  BY <1>3, <1>7, <1>8, ValueIsNat
<1>10. QED
  BY <1>4, <1>5, <1>6, <1>7, <1>9 DEF in, out

(* No transaction moves more than there is. *)
LEMMA FeeIsAffordable ==
  ASSUME NodeTypeOK, Conserved, NEW i \in Live
  PROVE  txs[i].fee \in 0..Supply
<1>1. Live \in SUBSET DOMAIN txs /\ i \in DOMAIN txs
  BY DEF Live
<1>2. txs[i] \in Tx /\ Outlays[i] = txs[i].pays + txs[i].fee
  BY <1>1, OutlayIsNat DEF NodeTypeOK
<1>3. txs[i].fee \in Nat /\ txs[i].pays \in Nat
  BY <1>2 DEF Tx
<1>4. IsFiniteSet(Live) /\ \A j \in Live : Outlays[j] \in Nat
  BY <1>1, TxsFinite, OutlayIsNat
<1>5. Outlays[i] <= Total(Outlays, Live)
  <2>1. Total(Outlays, {i}) <= Total(Outlays, Live)
    BY <1>4, SumOfSome
  <2>2. Outlays[i] \in Int
    BY <1>4
  <2>3. Total(Outlays, {i}) = Outlays[i]
    BY <2>2, SumSingle
  <2>4. QED
    BY <2>1, <2>3
<1>6. Total(Outlays, Live) \in Nat
  BY <1>4, SumNat
<1>7. Value(Assets) \in Nat /\ Value(Assets) + Total(Outlays, Live) = Issued
  BY AssetsAreCoins, ValueIsNat DEF Conserved, AddUpTo
<1>8. Issued <= Supply
  BY TreasuryAssumption DEF TreasuryAssumption, Issued
<1>9. Supply \in Nat
  BY NodeAssumption DEF NodeAssumption
<1>10. Issued \in Nat
  BY <1>6, <1>7
<1>11. QED
  BY <1>2, <1>3, <1>5, <1>6, <1>7, <1>8, <1>9, <1>10

(* The books of what is mined gain one line. *)
LEMMA MineBooks ==
  ASSUME NodeTypeOK, NEW i \in DOMAIN txs, Mine(i)
  PROVE  /\ FeeOf' = FeeOf /\ PaysOf' = PaysOf /\ BringsOf' = BringsOf
         /\ Mined' = Mined \cup {i} /\ i \notin Mined
         /\ \A x : MinedOf(x)' = IF txs[i].by = x THEN MinedOf(x) \cup {i} ELSE MinedOf(x)
<1>1. \A j \in DOMAIN txs : txs[j] \in Tx
  BY DEF NodeTypeOK
<1>2. /\ DOMAIN txs' = DOMAIN txs /\ txs[i].state = "pooled"
      /\ \A j \in DOMAIN txs :
           /\ txs'[j].by = txs[j].by /\ txs'[j].outputs = txs[j].outputs
           /\ txs'[j].pays = txs[j].pays /\ txs'[j].fee = txs[j].fee
           /\ txs'[j].state = IF j = i THEN "mined" ELSE txs[j].state
  BY <1>1 DEF Mine, Tx, Pooled
<1>3. FeeOf' = FeeOf /\ PaysOf' = PaysOf
  BY <1>2 DEF FeeOf, PaysOf
<1>4. BringsOf' = BringsOf
  <2>1. \A j \in DOMAIN txs : HotOutputs(j)' = HotOutputs(j)
    BY <1>2 DEF HotOutputs
  <2>2. \A j \in DOMAIN txs : Value(HotOutputs(j))' = Value(HotOutputs(j))
    BY <2>1
  <2>3. QED
    BY <1>2, <2>2 DEF BringsOf
<1>5. Mined' = Mined \cup {i} /\ i \notin Mined
  BY <1>2 DEF Mined
<1>6. \A x : MinedOf(x)' = IF txs[i].by = x THEN MinedOf(x) \cup {i} ELSE MinedOf(x)
  BY <1>2 DEF MinedOf
<1>7. QED
  BY <1>3, <1>4, <1>5, <1>6

(* A sum over what is mined gains one term. *)
LEMMA BooksAreNat ==
  ASSUME NodeTypeOK
  PROVE  /\ \A i \in DOMAIN txs : /\ FeeOf[i] = txs[i].fee /\ FeeOf[i] \in Nat
                                  /\ PaysOf[i] = txs[i].pays /\ PaysOf[i] \in Nat
                                  /\ BringsOf[i] = Value(HotOutputs(i)) /\ BringsOf[i] \in Nat
         /\ IsFiniteSet(Mined) /\ Mined \subseteq DOMAIN txs
         /\ \A x : IsFiniteSet(MinedOf(x)) /\ MinedOf(x) \subseteq DOMAIN txs
<1>1. \A i \in DOMAIN txs : txs[i] \in Tx
  BY DEF NodeTypeOK
<1>2. ASSUME NEW i \in DOMAIN txs PROVE Value(HotOutputs(i)) \in Nat
  <2>1. IsFiniteSet(HotOutputs(i)) /\ HotOutputs(i) \in SUBSET Coin
    BY TxFacts, FS_Subset DEF HotOutputs
  <2>2. QED
    BY <2>1, ValueIsNat
<1>3. Mined \in SUBSET DOMAIN txs /\ \A x : MinedOf(x) \in SUBSET DOMAIN txs
  BY DEF Mined, MinedOf
<1>4. IsFiniteSet(Mined) /\ \A x : IsFiniteSet(MinedOf(x))
  BY <1>3, TxsFinite
<1>5. QED
  BY <1>1, <1>2, <1>3, <1>4 DEF FeeOf, PaysOf, BringsOf, Tx

LEMMA FeesAdd ==
  ASSUME NodeTypeOK, NEW i \in DOMAIN txs, Mine(i)
  PROVE  Fees' = Fees + txs[i].fee
<1>1. FeeOf' = FeeOf /\ Mined' = Mined \cup {i} /\ i \notin Mined
  BY MineBooks
<1>2. /\ IsFiniteSet(Mined) /\ \A j \in Mined : FeeOf[j] \in Int
      /\ FeeOf[i] \in Int /\ FeeOf[i] = txs[i].fee
  BY BooksAreNat
<1>3. Total(FeeOf, Mined \cup {i}) = FeeOf[i] + Total(FeeOf, Mined)
  BY <1>1, <1>2, SumAdd
<1>4. Fees' = Total(FeeOf, Mined \cup {i})
  BY <1>1 DEF Fees
<1>5. Total(FeeOf, Mined) \in Int
  BY <1>2, SumType
<1>6. QED
  BY <1>2, <1>3, <1>4, <1>5 DEF Fees

(* The first transaction of a sender. *)
LEMMA PaidAdds ==
  ASSUME NodeTypeOK, NEW i \in DOMAIN txs, Mine(i), \A c \in Cmd : txs[i].by = c => MinedOf(c) = {}
  PROVE  /\ txs[i].by \notin Cmd => Paid' = Paid
         /\ txs[i].by \in Cmd => /\ Paid[txs[i].by] = 0
                                 /\ Paid' = [Paid EXCEPT ![txs[i].by] = txs[i].pays]
<1>1. /\ PaysOf' = PaysOf
      /\ \A x : MinedOf(x)' = IF txs[i].by = x THEN MinedOf(x) \cup {i} ELSE MinedOf(x)
  BY MineBooks
<1>2. PaysOf[i] \in Int /\ PaysOf[i] = txs[i].pays
  BY BooksAreNat
<1>3. Paid' = [c \in Cmd |-> Total(PaysOf, MinedOf(c)')]
  BY <1>1 DEF Paid
<1>4. ASSUME NEW c \in Cmd, txs[i].by = c PROVE Total(PaysOf, MinedOf(c)) = 0 /\ Total(PaysOf, MinedOf(c)') = txs[i].pays
  <2>1. MinedOf(c) = {} /\ MinedOf(c)' = {i}
    BY <1>1, <1>4
  <2>2. QED
    BY <1>2, <2>1, SumEmpty, SumSingle
<1>5. \A c \in Cmd : txs[i].by # c => MinedOf(c)' = MinedOf(c)
  BY <1>1
<1>6. QED
  BY <1>3, <1>4, <1>5 DEF Paid

LEMMA MovedAdds ==
  ASSUME NodeTypeOK, NEW i \in DOMAIN txs, Mine(i), \A t \in Transfer : txs[i].by = t => MinedOf(t) = {}
  PROVE  /\ txs[i].by \notin Transfer => MovedBy' = MovedBy
         /\ txs[i].by \in Transfer =>
              /\ MovedBy[txs[i].by] = 0
              /\ MovedBy' = [MovedBy EXCEPT ![txs[i].by] = Value(HotOutputs(i))]
<1>1. /\ BringsOf' = BringsOf
      /\ \A x : MinedOf(x)' = IF txs[i].by = x THEN MinedOf(x) \cup {i} ELSE MinedOf(x)
  BY MineBooks
<1>2. BringsOf[i] \in Int /\ BringsOf[i] = Value(HotOutputs(i))
  BY BooksAreNat
<1>3. MovedBy' = [t \in Transfer |-> Total(BringsOf, MinedOf(t)')]
  BY <1>1 DEF MovedBy
<1>4. ASSUME NEW t \in Transfer, txs[i].by = t
      PROVE  Total(BringsOf, MinedOf(t)) = 0 /\ Total(BringsOf, MinedOf(t)') = Value(HotOutputs(i))
  <2>1. MinedOf(t) = {} /\ MinedOf(t)' = {i}
    BY <1>1, <1>4
  <2>2. QED
    BY <1>2, <2>1, SumEmpty, SumSingle
<1>5. \A t \in Transfer : txs[i].by # t => MinedOf(t)' = MinedOf(t)
  BY <1>1
<1>6. QED
  BY <1>3, <1>4, <1>5 DEF MovedBy

(* Everything that spends, as one block sees it. *)
VaultInv ==
  /\ TypeInv /\ SpentOnce /\ AllAddUp /\ Conserved
  /\ Purposes /\ OncePerCommand /\ Faithful

LEMMA FirstOfSender ==
  ASSUME VaultInv, NEW i \in Pooled, txs[i].by \notin Sweeper
  PROVE  MinedOf(txs[i].by) = {}
<1>1. i \in DOMAIN txs /\ txs[i].state = "pooled" /\ txs[i].by \in Sender
  BY TxFacts DEF Pooled, VaultInv, TypeInv, IInv, WithdrawalTypeOK
<1>2. txs[i].by \in Cmd \/ txs[i].by \in Transfer
  BY <1>1, TreasuryAssumption DEF TreasuryAssumption
<1>3. SUFFICES ASSUME NEW j \in DOMAIN txs, txs[j].state = "mined", txs[j].by = txs[i].by PROVE FALSE
  BY DEF MinedOf
<1>4. i # j /\ i \in Live /\ j \in Live
  BY <1>1, <1>3 DEF Live
<1>5. CASE txs[i].by \in Cmd
  <2>1. i \in SentBy(txs[i].by) /\ j \in SentBy(txs[i].by)
    BY <1>1, <1>3 DEF SentBy
  <2>2. QED
    BY <1>4, <1>5, <2>1 DEF VaultInv, OncePerCommand
<1>6. CASE txs[i].by \in Transfer
  <2> DEFINE t == txs[i].by
  <2>1. /\ txs[i].inputs = transfer[t].inputs /\ txs[j].inputs = transfer[t].inputs
        /\ transfer[t].inputs # {}
    BY <1>1, <1>3, <1>6 DEF VaultInv, Faithful
  <2>2. txs[i].inputs \cap txs[j].inputs = {}
    BY <1>4 DEF VaultInv, SpentOnce
  <2>3. QED
    BY <2>1, <2>2
<1>7. QED
  BY <1>2, <1>5, <1>6

(* What a block takes of each wallet and gives it. *)
LEMMA MineFacts ==
  ASSUME VaultInv, NEW i \in DOMAIN txs, Mine(i)
  PROVE  /\ Purpose(txs[i]) /\ txs[i].by \in Sender
         /\ txs[i].inputs \in SUBSET Coin /\ txs[i].outputs \in SUBSET Coin
         /\ IsFiniteSet(txs[i].inputs) /\ IsFiniteSet(txs[i].outputs)
         /\ txs[i].pays \in Nat /\ txs[i].fee \in 1..Supply
         /\ Value(txs[i].inputs) \in Nat /\ Value(txs[i].outputs) \in Nat
         /\ Value(txs[i].inputs) = Value(txs[i].outputs) + txs[i].pays + txs[i].fee
<1>1. NodeTypeOK /\ i \in Pooled /\ i \in Live
  BY DEF VaultInv, TypeInv, IInv, WithdrawalTypeOK, Mine, Pooled, Live
<1>2. txs[i] \in Tx
  BY <1>1 DEF NodeTypeOK
<1>3. txs[i].by \in Sender /\ txs[i].pays \in Nat /\ txs[i].fee \in Nat
  BY <1>2 DEF Tx
<1>4. /\ Purpose(txs[i]) /\ IsFiniteSet(txs[i].inputs)
      /\ Value(txs[i].inputs) = Value(txs[i].outputs) + (txs[i].pays + txs[i].fee)
  BY DEF VaultInv, Purposes, AllAddUp, Outlay
<1>5. /\ txs[i].inputs \in SUBSET Coin /\ txs[i].outputs \in SUBSET Coin /\ IsFiniteSet(txs[i].outputs)
  BY <1>1, TxFacts
<1>6. Value(txs[i].inputs) \in Nat /\ Value(txs[i].outputs) \in Nat
  BY <1>4, <1>5, ValueIsNat
<1>7. txs[i].fee \in 1..Supply
  <2>1. txs[i].fee \in 0..Supply
    BY <1>1, FeeIsAffordable DEF VaultInv
  <2>2. txs[i].fee > 0
    BY <1>4 DEF Purpose
  <2>3. QED
    BY <2>1, <2>2, <1>3, NodeAssumption DEF NodeAssumption
<1>8. QED
  BY <1>3, <1>4, <1>5, <1>6, <1>7

LEMMA InAll ==
  ASSUME NEW notes, NEW w \in Wallet
  PROVE  /\ (\A c \in notes : c.wallet = w) => In(notes, w) = notes
         /\ (\A c \in notes : c.wallet # w) => In(notes, w) = {}
BY DEF In

(* The block of a withdrawal is a payment. *)
LEMMA MinedIsPay ==
  ASSUME VaultInv, NEW i \in DOMAIN txs, Mine(i), NEW c \in Cmd, txs[i].by = c
  PROVE  AbstractVault!Pay(c)
<1> DEFINE tx == txs[i]
<1>1. NodeTypeOK /\ SpentOnce /\ AllAddUp /\ i \in Pooled /\ c \notin Transfer /\ c \notin Sweeper
  BY Senders DEF VaultInv, TypeInv, IInv, WithdrawalTypeOK, Mine
<1>2. /\ tx.pays \in Amount /\ \A x \in tx.inputs \cup tx.outputs : x.wallet = "hot"
      /\ tx.pays \in Nat /\ tx.fee \in 1..Supply
      /\ Value(tx.inputs) \in Nat /\ Value(tx.outputs) \in Nat
      /\ Value(tx.inputs) = Value(tx.outputs) + tx.pays + tx.fee
  BY MineFacts DEF Purpose
<1>3. "hot" \in Wallet /\ "cold" \in Wallet
  BY DEF Wallet
<1>4. /\ In(tx.inputs, "hot") = tx.inputs /\ In(tx.outputs, "hot") = tx.outputs
      /\ In(tx.inputs, "cold") = {} /\ In(tx.outputs, "cold") = {}
  BY <1>2, <1>3, InAll
<1>5. /\ Holdings("hot")' + Value(tx.inputs) = Holdings("hot") + Value(tx.outputs)
      /\ Holdings("cold")' + 0 = Holdings("cold") + 0
      /\ Holdings("hot") \in Nat /\ Holdings("hot")' \in Nat
      /\ Holdings("cold") \in Nat /\ Holdings("cold")' \in Nat
  BY <1>1, <1>3, <1>4, MineMoves, ValueOfNone
<1>6. Fees' = Fees + tx.fee
  BY <1>1, FeesAdd
<1>7. Paid[c] = 0 /\ Paid' = [Paid EXCEPT ![c] = tx.pays] /\ MovedBy' = MovedBy
  BY <1>1, FirstOfSender, PaidAdds, MovedAdds
<1> HIDE DEF tx
<1>8. /\ Holdings("hot")' = Holdings("hot") - tx.pays - tx.fee
      /\ tx.pays + tx.fee <= Holdings("hot")
      /\ Holdings("cold")' = Holdings("cold")
  BY <1>2, <1>5
<1>9. QED
  BY <1>2, <1>6, <1>7, <1>8 DEF AbstractVault!Pay, Holdings, In, Fees, FeeOf, Mined, Paid, PaysOf, MovedBy, BringsOf

(* The block of a sweep merges hot notes or stores them cold. *)
LEMMA MinedIsMergeOrStore ==
  ASSUME VaultInv, NEW i \in DOMAIN txs, Mine(i), txs[i].by \in Sweeper
  PROVE  AbstractVault!Merge \/ AbstractVault!Store
<1> DEFINE tx == txs[i]
<1>1. NodeTypeOK /\ SpentOnce /\ AllAddUp /\ tx.by \notin Transfer /\ tx.by \notin Cmd
  BY Senders DEF VaultInv, TypeInv, IInv, WithdrawalTypeOK
<1>2. /\ tx.pays = 0 /\ \A x \in tx.inputs : x.wallet = "hot"
      /\ \E x : x.zat > 0 /\ tx.outputs = {x}
      /\ tx.fee \in 1..Supply /\ tx.outputs \in SUBSET Coin
      /\ Value(tx.inputs) \in Nat /\ Value(tx.outputs) \in Nat
      /\ Value(tx.inputs) = Value(tx.outputs) + tx.pays + tx.fee
  BY MineFacts DEF Purpose
<1>3. PICK x \in Coin : x.zat > 0 /\ tx.outputs = {x}
  BY <1>2
<1>4. x.wallet \in Wallet /\ x.zat \in Nat /\ Value(tx.outputs) = x.zat /\ Supply \in Nat
  BY <1>3, ZatIsNat, ValueOfOne, NodeAssumption DEF Coin, NodeAssumption
<1>5. "hot" \in Wallet /\ "cold" \in Wallet
  BY DEF Wallet
<1>6. In(tx.inputs, "hot") = tx.inputs /\ In(tx.inputs, "cold") = {}
  BY <1>2, <1>5, InAll
<1>7. /\ Holdings("hot")' + Value(tx.inputs) = Holdings("hot") + Value(In(tx.outputs, "hot"))
      /\ Holdings("cold")' + 0 = Holdings("cold") + Value(In(tx.outputs, "cold"))
      /\ Holdings("hot") \in Nat /\ Holdings("hot")' \in Nat
      /\ Holdings("cold") \in Nat /\ Holdings("cold")' \in Nat
  BY <1>1, <1>5, <1>6, MineMoves, ValueOfNone
<1>8. Fees' = Fees + tx.fee /\ Paid' = Paid /\ MovedBy' = MovedBy
  BY <1>1, FeesAdd, PaidAdds, MovedAdds
<1>9. CASE x.wallet = "hot"
  <2>1. In(tx.outputs, "hot") = tx.outputs /\ In(tx.outputs, "cold") = {}
    BY <1>3, <1>5, <1>9, InAll
  <2>2. /\ Holdings("hot")' + Value(tx.inputs) = Holdings("hot") + Value(tx.outputs)
        /\ Holdings("cold")' = Holdings("cold")
    BY <1>7, <2>1, ValueOfNone
  <2> HIDE DEF tx
  <2>3. Holdings("hot")' = Holdings("hot") - tx.fee /\ tx.fee \in 1..Holdings("hot")
    BY <1>2, <1>4, <1>7, <2>2
  <2>4. AbstractVault!Merge
    BY <1>8, <2>2, <2>3
    DEF AbstractVault!Merge, Holdings, In, Fees, FeeOf, Mined, Paid, PaysOf, MovedBy, BringsOf
  <2>5. QED
    BY <2>4
<1>10. CASE x.wallet = "cold"
  <2>1. In(tx.outputs, "cold") = tx.outputs /\ In(tx.outputs, "hot") = {}
    BY <1>3, <1>5, <1>10, InAll
  <2>2. /\ Holdings("hot")' + Value(tx.inputs) = Holdings("hot")
        /\ Holdings("cold")' = Holdings("cold") + x.zat
    <3>1. Value(In(tx.outputs, "hot")) = 0 /\ Value(In(tx.outputs, "cold")) = x.zat
      BY <1>4, <2>1, ValueOfNone
    <3> HIDE DEF tx
    <3>2. QED
      BY <1>4, <1>7, <3>1
  <2> HIDE DEF tx
  <2>3. /\ Holdings("hot")' = Holdings("hot") - x.zat - tx.fee /\ x.zat + tx.fee <= Holdings("hot")
        /\ tx.fee \in 1..Holdings("hot") /\ x.zat \in 1..Holdings("hot")
    BY <1>2, <1>3, <1>4, <1>7, <2>2
  <2>4. AbstractVault!Store
    BY <1>8, <2>2, <2>3
    DEF AbstractVault!Store, Holdings, In, Fees, FeeOf, Mined, Paid, PaysOf, MovedBy, BringsOf
  <2>5. QED
    BY <2>4
<1>11. QED
  BY <1>4, <1>9, <1>10 DEF Wallet

(* The block of a transfer tops the hot wallet up. *)
LEMMA MinedIsTopUp ==
  ASSUME VaultInv, NEW i \in DOMAIN txs, Mine(i), NEW t \in Transfer, txs[i].by = t
  PROVE  AbstractVault!TopUp(t)
<1> DEFINE tx == txs[i]
<1>1. NodeTypeOK /\ SpentOnce /\ AllAddUp /\ i \in Pooled /\ t \notin Cmd /\ t \notin Sweeper
  BY Senders DEF VaultInv, TypeInv, IInv, WithdrawalTypeOK, Mine
<1>2. /\ tx.pays = 0 /\ \A x \in tx.inputs : x.wallet = "cold"
      /\ \E x \in tx.outputs : /\ x.wallet = "hot" /\ x.zat \in MovedAmount
                               /\ \A y \in tx.outputs \ {x} : y.wallet = "cold"
      /\ tx.fee \in 1..Supply /\ tx.outputs \in SUBSET Coin /\ IsFiniteSet(tx.outputs)
      /\ Value(tx.inputs) \in Nat /\ Value(tx.outputs) \in Nat
      /\ Value(tx.inputs) = Value(tx.outputs) + tx.pays + tx.fee
  BY MineFacts DEF Purpose
<1>3. PICK x \in tx.outputs : /\ x.wallet = "hot" /\ x.zat \in MovedAmount
                              /\ \A y \in tx.outputs \ {x} : y.wallet = "cold"
  BY <1>2
<1> DEFINE back == tx.outputs \ {x}
<1>4. "hot" \in Wallet /\ "cold" \in Wallet /\ "hot" # "cold"
  BY DEF Wallet
<1>5. /\ In(tx.inputs, "hot") = {} /\ In(tx.inputs, "cold") = tx.inputs
      /\ In(tx.outputs, "hot") = {x} /\ In(tx.outputs, "cold") = back
      /\ HotOutputs(i) = {x}
  BY <1>2, <1>3, <1>4 DEF In, HotOutputs
<1>6. /\ Value({x}) = x.zat /\ x.zat \in Nat /\ Value(back) \in Nat
      /\ Value(tx.outputs) = x.zat + Value(back)
  <2>1. {x} \cup back = tx.outputs /\ {x} \cap back = {} /\ x \in Coin
        /\ {x} \in SUBSET Coin /\ back \in SUBSET Coin
    BY <1>2, <1>3
  <2>2. IsFiniteSet({x}) /\ IsFiniteSet(back)
    BY <1>2, FS_Singleton, FS_Subset
  <2>3. Value({x}) = x.zat /\ x.zat \in Nat /\ Value(back) \in Nat
    BY <2>1, <2>2, ValueOfOne, ZatIsNat, ValueIsNat
  <2> HIDE DEF back
  <2>4. Value({x} \cup back) = Value({x}) + Value(back)
    BY <2>1, <2>2, ValueOfBoth
  <2>5. QED
    BY <2>1, <2>3, <2>4
<1>7. /\ Holdings("hot")' + 0 = Holdings("hot") + x.zat
      /\ Holdings("cold")' + Value(tx.inputs) = Holdings("cold") + Value(back)
      /\ Holdings("hot") \in Nat /\ Holdings("hot")' \in Nat
      /\ Holdings("cold") \in Nat /\ Holdings("cold")' \in Nat
  <2>1. /\ Holdings("hot")' + Value({}) = Holdings("hot") + Value({x})
        /\ Holdings("cold")' + Value(tx.inputs) = Holdings("cold") + Value(back)
        /\ Holdings("hot") \in Nat /\ Holdings("hot")' \in Nat
        /\ Holdings("cold") \in Nat /\ Holdings("cold")' \in Nat
    BY <1>1, <1>4, <1>5, MineMoves
  <2>2. QED
    BY <1>6, <2>1, ValueOfNone
<1>8. Fees' = Fees + tx.fee
  BY <1>1, FeesAdd
<1>9. /\ Paid' = Paid
      /\ MovedBy[t] = 0 /\ MovedBy' = [MovedBy EXCEPT ![t] = x.zat]
  BY <1>1, <1>5, <1>6, FirstOfSender, PaidAdds, MovedAdds
<1> HIDE DEF tx, back
<1>10. /\ Holdings("hot")' = Holdings("hot") + x.zat
       /\ Holdings("cold")' = Holdings("cold") - x.zat - tx.fee
       /\ x.zat + tx.fee <= Holdings("cold")
  BY <1>2, <1>6, <1>7
<1>11. QED
  BY <1>2, <1>3, <1>8, <1>9, <1>10
  DEF AbstractVault!TopUp, Holdings, In, Fees, FeeOf, Mined, Paid, PaysOf, MovedBy, BringsOf

(* So every block is a step of Vault. *)
LEMMA MineIsVaultStep ==
  ASSUME VaultInv, NEW i \in DOMAIN txs, Mine(i)
  PROVE  AbstractVault!VaultNext
<1>1. txs[i].by \in Cmd \/ txs[i].by \in Sweeper \/ txs[i].by \in Transfer
  BY MineFacts, TreasuryAssumption DEF TreasuryAssumption
<1>2. CASE txs[i].by \in Cmd
  BY <1>2, MinedIsPay DEF AbstractVault!VaultNext
<1>3. CASE txs[i].by \in Sweeper
  BY <1>3, MinedIsMergeOrStore DEF AbstractVault!VaultNext
<1>4. CASE txs[i].by \in Transfer
  BY <1>4, MinedIsTopUp DEF AbstractVault!VaultNext
<1>5. QED
  BY <1>1, <1>2, <1>3, <1>4

(* What does not mine changes nothing Vault sees: the transactions that    *)
(* were mined stay the same.                                               *)
LEMMA BooksStay ==
  ASSUME NodeTypeOK, coins' = coins, DOMAIN txs \subseteq DOMAIN txs',
         \A i \in DOMAIN txs : /\ txs'[i].by = txs[i].by /\ txs'[i].outputs = txs[i].outputs
                               /\ txs'[i].pays = txs[i].pays /\ txs'[i].fee = txs[i].fee
                               /\ txs'[i].state = "mined" <=> txs[i].state = "mined",
         \A i \in DOMAIN txs' \ DOMAIN txs : txs'[i].state # "mined"
  PROVE  UNCHANGED AbstractVault!vaultVars
<1>1. Mined' = Mined /\ \A x : MinedOf(x)' = MinedOf(x)
  BY DEF Mined, MinedOf
<1>2. /\ \A i \in DOMAIN txs : FeeOf[i] \in Int /\ PaysOf[i] \in Int /\ BringsOf[i] \in Int
      /\ IsFiniteSet(Mined) /\ Mined \subseteq DOMAIN txs
      /\ \A x : IsFiniteSet(MinedOf(x)) /\ MinedOf(x) \subseteq DOMAIN txs
  BY BooksAreNat
<1>3. \A i \in DOMAIN txs : FeeOf'[i] = FeeOf[i] /\ PaysOf'[i] = PaysOf[i]
  BY DEF FeeOf, PaysOf
<1>4. \A i \in DOMAIN txs : BringsOf'[i] = BringsOf[i]
  <2>1. \A i \in DOMAIN txs : HotOutputs(i)' = HotOutputs(i)
    BY DEF HotOutputs
  <2>2. \A i \in DOMAIN txs : Value(HotOutputs(i))' = Value(HotOutputs(i))
    BY <2>1
  <2>3. QED
    BY <2>2 DEF BringsOf
<1>5. Fees' = Fees
  <2>1. Total(FeeOf', Mined) = Total(FeeOf, Mined)
    BY <1>2, <1>3, SumSame
  <2>2. QED
    BY <1>1, <2>1 DEF Fees
<1>6. Paid' = Paid
  <2>1. ASSUME NEW c \in Cmd PROVE Total(PaysOf', MinedOf(c)) = Total(PaysOf, MinedOf(c))
    BY <1>2, <1>3, SumSame
  <2>2. Paid' = [c \in Cmd |-> Total(PaysOf', MinedOf(c)')]
    BY DEF Paid
  <2>3. QED
    BY <1>1, <2>1, <2>2 DEF Paid
<1>7. MovedBy' = MovedBy
  <2>1. ASSUME NEW t \in Transfer PROVE Total(BringsOf', MinedOf(t)) = Total(BringsOf, MinedOf(t))
    BY <1>2, <1>4, SumSame
  <2>2. MovedBy' = [t \in Transfer |-> Total(BringsOf', MinedOf(t)')]
    BY DEF MovedBy
  <2>3. QED
    BY <1>1, <2>1, <2>2 DEF MovedBy
<1>8. Holdings("hot")' = Holdings("hot") /\ Holdings("cold")' = Holdings("cold")
  BY DEF Holdings, In
<1>9. QED
  BY <1>5, <1>6, <1>7, <1>8
  DEF AbstractVault!vaultVars, Holdings, In, Fees, FeeOf, Mined, Paid, PaysOf, MovedBy, BringsOf

LEMMA StepIsVaultStep ==
  ASSUME VaultInv, [TreasuryNext]_treasuryVars
  PROVE  [AbstractVault!VaultNext]_(AbstractVault!vaultVars)
<1>1. NodeTypeOK
  BY DEF VaultInv, TypeInv, IInv, WithdrawalTypeOK
<1>2. CASE UNCHANGED nodeVars
  <2>1. coins' = coins /\ txs' = txs
    BY <1>2 DEF nodeVars
  <2>2. UNCHANGED AbstractVault!vaultVars
    BY <1>1, <2>1, BooksStay
  <2>3. QED
    BY <2>2
<1>3. CASE \E i \in DOMAIN txs : Mine(i)
  BY <1>3, MineIsVaultStep
<1>4. CASE \E i \in DOMAIN txs : Expire(i)
  <2>1. PICK i \in DOMAIN txs : Expire(i)
    BY <1>4
  <2>2. \A j \in DOMAIN txs : txs[j] \in Tx
    BY <1>1 DEF NodeTypeOK
  <2>3. /\ DOMAIN txs' = DOMAIN txs /\ coins' = coins
        /\ \A j \in DOMAIN txs : /\ txs'[j].by = txs[j].by /\ txs'[j].outputs = txs[j].outputs
                                 /\ txs'[j].pays = txs[j].pays /\ txs'[j].fee = txs[j].fee
                                 /\ txs'[j].state = "mined" <=> txs[j].state = "mined"
    BY <2>1, <2>2 DEF Expire, Tx, Pooled
  <2>4. UNCHANGED AbstractVault!vaultVars
    BY <1>1, <2>3, BooksStay
  <2>5. QED
    BY <2>4
<1>5. CASE \E tx : Offered(tx)
  <2>1. PICK tx : Offered(tx)
    BY <1>5
  <2>2. tx \in Tx /\ IsFiniteSet(tx.outputs) /\ txs' = Append(txs, tx) /\ coins' = coins /\ tx.state = "pooled"
    BY <2>1 DEF Offered, Acceptable
  <2>3. /\ DOMAIN txs' = DOMAIN txs \cup {NextTx}
        /\ \A i \in DOMAIN txs : txs'[i] = txs[i]
        /\ txs'[NextTx] = tx
    BY <1>1, <2>2, AppendTx
  <2>4. \A i \in DOMAIN txs' \ DOMAIN txs : txs'[i].state # "mined"
    BY <2>2, <2>3
  <2>5. UNCHANGED AbstractVault!vaultVars
    BY <1>1, <2>2, <2>3, <2>4, BooksStay
  <2>6. QED
    BY <2>5
<1>6. TypeInv
  BY DEF VaultInv
<1>7. QED
  BY <1>2, <1>3, <1>4, <1>5, <1>6, NodeSteps

LEMMA VaultInvKept ==
  VaultInv /\ [TreasuryNext]_treasuryVars => VaultInv'
<1> SUFFICES ASSUME VaultInv, [TreasuryNext]_treasuryVars PROVE VaultInv'
  OBVIOUS
<1>1. TypeInv /\ IInv /\ ChainInv /\ Purposes /\ OncePerCommand /\ Faithful
  BY DEF VaultInv, TypeInv, ChainInv, NotesInv
<1>2. TypeInv' /\ [Next \/ OthersAct]_vars
  BY <1>1, TreasuryStepIsOpen
<1>3. ChainInv'
  BY <1>1, <1>2, ChainKept
<1>4. Purposes' /\ OncePerCommand' /\ Faithful'
  BY <1>1, StepKeepsPurposes, StepKeepsFaithful
<1>5. QED
  BY <1>2, <1>3, <1>4 DEF VaultInv, ChainInv, NotesInv

LEMMA InitVaultInv == TreasuryInit => VaultInv
<1> SUFFICES ASSUME TreasuryInit PROVE VaultInv
  OBVIOUS
<1>1. TypeInv /\ ChainInv
  BY InitTypeInv, InitChain DEF TreasuryInit
<1>2. txs = <<>> /\ DOMAIN txs = {} /\ transfer = [t \in Transfer |-> NewTransfer]
  BY DEF TreasuryInit, WithdrawalInit, ColdToHotInit
<1>3. Purposes /\ OncePerCommand /\ Faithful
  BY <1>2 DEF Purposes, OncePerCommand, SentBy, Faithful, NewTransfer
<1>4. QED
  BY <1>1, <1>3 DEF VaultInv, ChainInv, NotesInv

LEMMA InitIsVaultInit == TreasuryInit => AbstractVault!VaultInit
<1> SUFFICES ASSUME TreasuryInit PROVE AbstractVault!VaultInit
  OBVIOUS
<1>1. NodeTypeOK
  BY InitVaultInv DEF VaultInv, TypeInv, IInv, WithdrawalTypeOK
<1>2. coins = {DepositCoin(n) : n \in Note} \cup Endowment /\ DOMAIN txs = {}
  BY DEF TreasuryInit, WithdrawalInit
<1>3. Value(coins) \in Nat /\ Value(coins) <= Supply /\ coins \in SUBSET Coin /\ IsFiniteSet(coins)
  BY <1>1, <1>2, ValueIsNat, TreasuryAssumption DEF TreasuryAssumption, NodeTypeOK
<1>4. Holdings("hot") \in 0..Supply /\ Holdings("cold") \in 0..Supply
  <2> DEFINE H == In(coins, "hot")
  <2> DEFINE C == In(coins, "cold")
  <2>1. H \cup C = coins /\ H \cap C = {} /\ H \in SUBSET Coin /\ C \in SUBSET Coin
    BY <1>3 DEF In, Coin, Wallet
  <2>2. IsFiniteSet(H) /\ IsFiniteSet(C)
    BY <1>3, <2>1, FS_Subset
  <2>3. Holdings("hot") = Value(H) /\ Holdings("cold") = Value(C)
    BY DEF Holdings
  <2> HIDE DEF H, C
  <2>4. Value(H) \in Nat /\ Value(C) \in Nat /\ Value(coins) = Value(H) + Value(C)
    BY <2>1, <2>2, ValueIsNat, ValueOfBoth
  <2>5. QED
    BY <1>3, <2>3, <2>4, NodeAssumption DEF NodeAssumption
<1>5. Mined = {} /\ \A x : MinedOf(x) = {}
  BY <1>2 DEF Mined, MinedOf
<1>6. Fees = 0 /\ Paid = [c \in Cmd |-> 0] /\ MovedBy = [t \in Transfer |-> 0]
  BY <1>5, SumEmpty DEF Fees, Paid, MovedBy
<1>7. QED
  BY <1>4, <1>6
  DEF AbstractVault!VaultInit, Holdings, In, Fees, FeeOf, Mined, Paid, PaysOf, MovedBy, BringsOf

(* Seen through the chain, everything that spends is Vault: each block     *)
(* takes money out of the wallets, or from one to the other, only as one   *)
(* payment, sweep or transfer, and no payment or transfer twice.           *)
THEOREM TreasuryIsVault == TreasurySpec => ImplementsVault
<1>1. TreasuryInit => AbstractVault!VaultInit
  BY InitIsVaultInit
<1>2. VaultInv /\ [TreasuryNext]_treasuryVars => [AbstractVault!VaultNext]_(AbstractVault!vaultVars)
  BY StepIsVaultStep
<1>3. QED
  BY <1>1, <1>2, InitVaultInv, VaultInvKept, PTL DEF TreasurySpec, ImplementsVault, AbstractVault!VaultSpec

=============================================================================
