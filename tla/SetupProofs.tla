----------------------------- MODULE SetupProofs -----------------------------
(***************************************************************************)
(* What init promises of a data directory, for any number of inits and     *)
(* chains.                                                                 *)
(*                                                                         *)
(*   1. whatever overlaps: an init has done for each wallet what the steps *)
(*      behind it do (Prepared), so what it marks initialized is complete  *)
(*   2. inits one after the other: the one that runs finds or makes the    *)
(*      seeds the files hold (InHand) and writes one chain everywhere      *)
(*      (OnItsChain), and none runs in an initialized directory (NotReady) *)
(***************************************************************************)
EXTENDS Setup, TLAPS

(* How far an init is with a wallet.                                       *)
HotOnly(i, pc, w) == At(i, pc) /\ init[i].wallet = "cold" /\ w = "hot"

Seeded(i, w)   == init[i].pc \in Running \ {"seed"} \/ HotOnly(i, "seed", w)
Upserted(i, w) == init[i].pc \in Running \ {"seed", "upsert"} \/ HotOnly(i, "upsert", w)
Listed(i, w)   == init[i].pc \in {"ua_hrp", "coin_type", "initialized"} \/ HotOnly(i, "cursor", w)

Prepared(i) ==
  /\ init[i].pc \in Running => init[i].chain # NoChain
  /\ At(i, "new") => init[i].wallet = "hot" /\ \A w \in Wallet : init[i].seeds[w] = NoSeed
  /\ \A w \in Wallet : /\ Seeded(i, w) => init[i].seeds[w] # NoSeed
                       /\ Upserted(i, w) => row[w] # NoRow
                       /\ Listed(i, w) => w \in cursors
  /\ ~lost /\ init[i].pc \in {"coin_type", "initialized"} => meta.ua_hrp # NoChain
  /\ ~lost /\ At(i, "initialized") => meta.coin_type # NoChain

(* Nothing is derived from a seed nobody drew. *)
RealKeys ==
  /\ \A w \in Wallet : row[w] # NoRow => row[w].seed # NoSeed
  /\ \A x \in given : x.key.seed # NoSeed

IInv == /\ SetupTypeOK /\ RealKeys /\ InitializedIsComplete
        /\ \A i \in Inits : Prepared(i)

(* One init at a time. *)
OneRunning == \A i, j \in Inits : init[i].pc \in Running /\ init[j].pc \in Running => i = j

NotReady == \A i \in Inits : init[i].pc \in Running => ~meta.initialized

(* The seeds an init holds are those of the files, or about to be.         *)
Holds(i) ==
  init[i].pc \in Running => \A w \in Wallet :
     /\ Seeded(i, w) => seedFile[w] = init[i].seeds[w]
     /\ ~Seeded(i, w) /\ init[i].seeds[w] # NoSeed => seedFile[w] = NoSeed

InHand == \A i \in Inits : Holds(i)

Wrote(i) ==
  /\ \A w \in Wallet : Upserted(i, w) => row[w].chain = init[i].chain
  /\ ~lost /\ init[i].pc \in {"coin_type", "initialized"} => meta.ua_hrp = init[i].chain
  /\ ~lost /\ At(i, "initialized") => meta.coin_type = init[i].chain

OnItsChain == \A i \in Inits : Wrote(i)

GivenSeeds == \A x \in given : x.key.seed = seedFile["hot"]
GivenLate  == \A x \in given : ~x.early =>
                 meta.initialized /\ (~lost => x.key.chain = meta.coin_type)

Serial == /\ OneRunning /\ NotReady /\ InHand /\ KeysMatchSeeds /\ OnItsChain /\ OneChain
          /\ GivenSeeds /\ GivenLate

SerialInv == IInv /\ (~overlapped => Serial)


LEMMA InitIInv == Init => SerialInv
<1> SUFFICES ASSUME Init PROVE SerialInv
  OBVIOUS
<1>1. SetupTypeOK
  <2>1. nextSeed = 1 /\ NoSeed \in Seed /\ "hot" \in Wallet
    BY DEF Init, Seed, NoSeed, Wallet
  <2>2. seedFile \in [Wallet -> Seed] /\ row \in [Wallet -> Key]
    BY <2>1 DEF Init, Key, NoRow
  <2>3. init \in [Inits -> [pc : {"new"} \cup Running \cup Over, wallet : Wallet,
                          chain : Chain \cup {NoChain}, seeds : [Wallet -> Seed]]]
    BY <2>1 DEF Init
  <2>4. meta \in [ua_hrp : Chain \cup {NoChain}, coin_type : Chain \cup {NoChain},
                 initialized : BOOLEAN]
    BY DEF Init
  <2>5. nextSeed \in Nat \ {NoSeed}
    BY <2>1 DEF NoSeed
  <2>6. cursors \subseteq Wallet /\ given = {} /\ overlapped \in BOOLEAN /\ lost \in BOOLEAN
    BY DEF Init
  <2>7. QED
    BY <2>2, <2>3, <2>4, <2>5, <2>6 DEF SetupTypeOK
<1>2. RealKeys
  BY DEF Init, RealKeys
<1>3. \A i \in Inits : /\ init[i].pc = "new" /\ init[i].wallet = "hot"
                       /\ \A w \in Wallet : init[i].seeds[w] = NoSeed
  BY DEF Init
<1>4. \A i \in Inits : Prepared(i)
  BY <1>3 DEF Prepared, At, Running, Seeded, Upserted, Listed, HotOnly
<1>5. InitializedIsComplete
  BY <1>3 DEF Init, InitializedIsComplete, At
<1>6. OneRunning /\ NotReady /\ InHand /\ OnItsChain
  BY <1>3 DEF OneRunning, NotReady, InHand, Holds, OnItsChain, Wrote, At, Running, Upserted, HotOnly
<1>7. KeysMatchSeeds /\ OneChain /\ GivenSeeds /\ GivenLate
  BY DEF Init, KeysMatchSeeds, OneChain, GivenSeeds, GivenLate
<1>8. QED
  BY <1>1, <1>2, <1>4, <1>5, <1>6, <1>7 DEF SerialInv, IInv, Serial

-----------------------------------------------------------------------------
(* What the steps do, one field at a time.                                 *)

Others(i) == \A j \in Inits \ {i} : init'[j] = init[j]

LEMMA Fields ==
  ASSUME SetupTypeOK, NEW i \in Inits
  PROVE  /\ DOMAIN init = Inits
         /\ init[i].pc \in {"new"} \cup Running \cup Over /\ init[i].wallet \in Wallet
         /\ init[i].chain \in Chain \cup {NoChain} /\ init[i].seeds \in [Wallet -> Seed]
         /\ init[i] \in [pc : {"new"} \cup Running \cup Over, wallet : Wallet,
                         chain : Chain \cup {NoChain}, seeds : [Wallet -> Seed]]
BY DEF SetupTypeOK

(* Typed(r) for a process in the next state. *)
Process(n) == [pc : {"new"} \cup Running \cup Over, wallet : Wallet,
               chain : Chain \cup {NoChain}, seeds : [Wallet -> 0..(n - 1)]]

LEMMA ProceedDoes ==
  ASSUME SetupTypeOK, NEW i \in Inits, init[i].pc \in {"seed", "upsert", "cursor"}, Proceed(i)
  PROVE  /\ Others(i) /\ init' \in [Inits -> Process(nextSeed)]
         /\ init'[i].chain = init[i].chain /\ init'[i].seeds = init[i].seeds
         /\ init[i].wallet = "hot" => init'[i].pc = init[i].pc /\ init'[i].wallet = "cold"
         /\ init[i].wallet = "cold" => init'[i].pc = Following[init[i].pc] /\ init'[i].wallet = "hot"
<1> DEFINE p == IF init[i].wallet = "hot" THEN init[i].pc ELSE Following[init[i].pc]
<1> DEFINE v == IF init[i].wallet = "hot" THEN "cold" ELSE "hot"
<1>1. init' = [init EXCEPT ![i] = [init[i] EXCEPT !.pc = p, !.wallet = v]]
  BY Fields DEF Proceed
<1>2. p \in Running /\ v \in Wallet
  BY DEF Following, Running, Wallet
<1>3. init \in [Inits -> Process(nextSeed)]
  BY DEF SetupTypeOK, Process, Seed
<1> HIDE DEF p, v
<1>4. /\ [init[i] EXCEPT !.pc = p, !.wallet = v] \in Process(nextSeed)
      /\ init'[i].pc = p /\ init'[i].wallet = v
      /\ init'[i].chain = init[i].chain /\ init'[i].seeds = init[i].seeds
  BY <1>1, <1>2, <1>3 DEF Process
<1>5. QED
  BY <1>1, <1>3, <1>4, Fields DEF Others, p, v, Wallet

(* Steps that only move the pc on, or end the process.                     *)
LEMMA MoveDoes ==
  ASSUME SetupTypeOK, NEW i \in Inits, NEW p \in Running \cup Over,
         init' = [init EXCEPT ![i].pc = p]
  PROVE  /\ Others(i) /\ init' \in [Inits -> Process(nextSeed)] /\ init'[i].pc = p
         /\ init'[i].wallet = init[i].wallet
         /\ init'[i].chain = init[i].chain /\ init'[i].seeds = init[i].seeds
<1>1. init \in [Inits -> Process(nextSeed)]
  BY DEF SetupTypeOK, Process, Seed
<1>2. QED
  BY <1>1 DEF Others, Process

LEMMA BeginDoes ==
  ASSUME SetupTypeOK, NEW i \in Inits, Begin(i)
  PROVE  /\ Others(i) /\ init' \in [Inits -> Process(nextSeed)]
         /\ At(i, "new") /\ init'[i].seeds = init[i].seeds /\ init'[i].wallet = init[i].wallet
         /\ \/ init'[i].pc = "seed" /\ ~meta.initialized /\ init'[i].chain # NoChain
            \/ init'[i].pc = "ok" /\ meta.initialized
            \/ init'[i].pc = "refused"
         /\ UNCHANGED <<stored, given, nextSeed, lost>>
         /\ overlapped' = (overlapped \/ \E j \in Inits : init[j].pc \in Running)
<1>1. PICK chain \in Chain \cup {NoChain} :
         init' = [init EXCEPT ![i].pc = Answer(chain), ![i].chain = chain]
  BY DEF Begin
<1>2. /\ Answer(chain) \in {"seed", "refused", "ok"}
      /\ Answer(chain) = "seed" => ~meta.initialized /\ chain # NoChain
      /\ Answer(chain) = "ok" => meta.initialized
  BY DEF Answer
<1> DEFINE p == Answer(chain)
<1> HIDE DEF p
<1>3. init' = [init EXCEPT ![i].pc = p, ![i].chain = chain] /\ p \in Running \cup Over
  BY <1>1, <1>2 DEF p, Running, Over
<1>4. init \in [Inits -> Process(nextSeed)]
  BY DEF SetupTypeOK, Process, Seed
<1>5. /\ Others(i) /\ init' \in [Inits -> Process(nextSeed)]
      /\ init'[i].seeds = init[i].seeds /\ init'[i].wallet = init[i].wallet
      /\ init'[i].pc = p /\ init'[i].chain = chain
  BY <1>3, <1>4 DEF Others, Process
<1>6. QED
  BY <1>2, <1>5 DEF Begin, p

LEMMA DrawSeedDoes ==
  ASSUME SetupTypeOK, NEW i \in Inits, DrawSeed(i)
  PROVE  /\ Others(i) /\ init' \in [Inits -> Process(nextSeed')]
         /\ At(i, "seed") /\ init'[i].pc = "seed"
         /\ init'[i].wallet = init[i].wallet /\ init'[i].chain = init[i].chain
         /\ init'[i].seeds = [init[i].seeds EXCEPT ![init[i].wallet] = nextSeed]
         /\ seedFile[init[i].wallet] = NoSeed
         /\ nextSeed' = nextSeed + 1 /\ nextSeed # NoSeed
         /\ UNCHANGED <<stored, given, overlapped, lost>>
<1>1. init' = [init EXCEPT ![i] = [init[i] EXCEPT !.seeds = [init[i].seeds EXCEPT ![init[i].wallet] = nextSeed]]]
  BY Fields DEF DrawSeed
<1> DEFINE seeds == [init[i].seeds EXCEPT ![init[i].wallet] = nextSeed]
<1>2. nextSeed \in Nat \ {0} /\ nextSeed' = nextSeed + 1
  BY DEF DrawSeed, SetupTypeOK, NoSeed
<1>3. seeds \in [Wallet -> 0..(nextSeed' - 1)]
  <2>1. init[i].seeds \in [Wallet -> 0..(nextSeed' - 1)]
    BY <1>2, Fields DEF Seed
  <2>2. nextSeed \in 0..(nextSeed' - 1)
    BY <1>2
  <2>3. QED
    BY <2>1, <2>2
<1>4. init \in [Inits -> Process(nextSeed')]
  <2>1. 0..(nextSeed - 1) \subseteq 0..(nextSeed' - 1)
    BY <1>2
  <2>2. \A j \in Inits : init[j] \in Process(nextSeed')
    BY <2>1, Fields DEF Process, Seed
  <2>3. QED
    BY <2>2 DEF SetupTypeOK
<1> HIDE DEF seeds
<1>5. /\ init'[i] = [init[i] EXCEPT !.seeds = seeds] /\ Others(i)
      /\ init' = [init EXCEPT ![i] = [init[i] EXCEPT !.seeds = seeds]]
  BY <1>1, <1>4 DEF seeds, Others
<1>6. /\ [init[i] EXCEPT !.seeds = seeds] \in Process(nextSeed')
      /\ init'[i].pc = init[i].pc /\ init'[i].wallet = init[i].wallet
      /\ init'[i].chain = init[i].chain /\ init'[i].seeds = seeds
  BY <1>3, <1>4, <1>5 DEF Process
<1>7. QED
  BY <1>2, <1>4, <1>5, <1>6 DEF DrawSeed, At, seeds, NoSeed

LEMMA ReadSeedDoes ==
  ASSUME SetupTypeOK, NEW i \in Inits, ReadSeed(i)
  PROVE  /\ Others(i) /\ init' \in [Inits -> Process(nextSeed)]
         /\ At(i, "seed") /\ init'[i].chain = init[i].chain
         /\ init'[i].seeds = [init[i].seeds EXCEPT ![init[i].wallet] = seedFile[init[i].wallet]]
         /\ init[i].wallet = "hot" => init'[i].pc = "seed" /\ init'[i].wallet = "cold"
         /\ init[i].wallet = "cold" => init'[i].pc = "upsert" /\ init'[i].wallet = "hot"
         /\ seedFile[init[i].wallet] # NoSeed
         /\ UNCHANGED <<stored, given, nextSeed, overlapped, lost>>
<1> DEFINE seeds == [init[i].seeds EXCEPT ![init[i].wallet] = seedFile[init[i].wallet]]
<1> DEFINE p == IF init[i].wallet = "hot" THEN "seed" ELSE "upsert"
<1> DEFINE v == IF init[i].wallet = "hot" THEN "cold" ELSE "hot"
<1>1. At(i, "seed") /\ seedFile[init[i].wallet] # NoSeed
      /\ UNCHANGED <<stored, given, nextSeed, overlapped, lost>>
  BY DEF ReadSeed
<1>2. init' = [init EXCEPT ![i] = [init[i] EXCEPT !.seeds = seeds, !.pc = p, !.wallet = v]]
  BY <1>1, Fields DEF ReadSeed, Following, At
<1>3. p \in Running /\ v \in Wallet
  BY DEF Running, Wallet
<1>4. seeds \in [Wallet -> 0..(nextSeed - 1)]
  BY Fields DEF SetupTypeOK, Seed
<1>5. init \in [Inits -> Process(nextSeed)]
  BY DEF SetupTypeOK, Process, Seed
<1> HIDE DEF seeds, p, v
<1>6. /\ init'[i].seeds = seeds /\ init'[i].pc = p /\ init'[i].wallet = v
      /\ init'[i].chain = init[i].chain
      /\ [init[i] EXCEPT !.seeds = seeds, !.pc = p, !.wallet = v] \in Process(nextSeed)
  BY <1>2, <1>3, <1>4, <1>5 DEF Process
<1>7. Others(i) /\ init' \in [Inits -> Process(nextSeed)]
  BY <1>2, <1>5, <1>6 DEF Others
<1>8. QED
  BY <1>1, <1>6, <1>7, Fields DEF seeds, p, v, Wallet

-----------------------------------------------------------------------------
(* Inits in any number and order: what is there stays there.               *)

Grows ==
  /\ ~lost' => ~lost
  /\ \A w \in Wallet : row[w] # NoRow => row'[w] # NoRow
  /\ cursors \subseteq cursors'
  /\ meta.ua_hrp # NoChain => meta'.ua_hrp # NoChain
  /\ meta.coin_type # NoChain => meta'.coin_type # NoChain

LEMMA SameStored == SetupTypeOK /\ UNCHANGED <<stored, lost>> => Grows
BY DEF Grows, stored

(* The state of the other processes is theirs, and what they have seen to  *)
(* stays.                                                                  *)
LEMMA GrowsKeeps ==
  ASSUME IInv, NEW i \in Inits, Others(i), Grows, Prepared(i)', RealKeys', SetupTypeOK',
         ~lost' /\ (meta'.initialized \/ At(i, "ok")') =>
            \/ meta.initialized \/ At(i, "ok")
            \/ At(i, "initialized")
  PROVE  IInv'
<1>1. ASSUME NEW j \in Inits \ {i} PROVE Prepared(j)'
  <2>1. Prepared(j) /\ init'[j] = init[j]
    BY DEF IInv, Others
  <2>2. QED
    BY <2>1 DEF Prepared, Seeded, Upserted, Listed, HotOnly, At, Grows
<1>2. InitializedIsComplete'
  <2>1. SUFFICES ASSUME ~lost', meta'.initialized \/ \E j \in Inits : At(j, "ok")'
                 PROVE  /\ cursors' = Wallet /\ \A w \in Wallet : row'[w] # NoRow
                        /\ meta'.ua_hrp # NoChain /\ meta'.coin_type # NoChain
    BY DEF InitializedIsComplete
  <2>2. cursors' \subseteq Wallet
    BY DEF SetupTypeOK
  <2>3. CASE meta.initialized \/ \E j \in Inits : At(j, "ok")
    BY <2>1, <2>2, <2>3 DEF IInv, InitializedIsComplete, Grows
  <2>4. CASE At(i, "initialized")
    <3>1. Prepared(i) /\ \A w \in Wallet : Upserted(i, w) /\ Listed(i, w)
      BY <2>4 DEF IInv, Upserted, Listed, Running, At
    <3>2. QED
      BY <2>1, <2>2, <2>4, <3>1 DEF Prepared, Grows, At
  <2>5. QED
    BY <2>1, <2>3, <2>4 DEF Others, At
<1>3. QED
  BY <1>1, <1>2 DEF IInv

(* Where a step of i takes it, and what it knows of the wallets then.      *)
LEMMA TypesNext ==
  ASSUME SetupTypeOK, nextSeed' \in {nextSeed, nextSeed + 1},
         init' \in [Inits -> Process(nextSeed')],
         row' \in [Wallet -> Key'], seedFile' \in [Wallet -> Seed'],
         cursors' \subseteq Wallet, given' \subseteq [key : Key', early : BOOLEAN],
         meta' \in [ua_hrp : Chain \cup {NoChain}, coin_type : Chain \cup {NoChain},
                    initialized : BOOLEAN],
         overlapped' \in BOOLEAN, lost' \in BOOLEAN
  PROVE  SetupTypeOK'
<1>1. nextSeed' \in Nat \ {NoSeed}
  BY DEF SetupTypeOK, NoSeed
<1>2. init' \in [Inits -> [pc : {"new"} \cup Running \cup Over, wallet : Wallet,
                           chain : Chain \cup {NoChain}, seeds : [Wallet -> Seed']]]
  BY DEF Process, Seed
<1>3. QED
  BY <1>1, <1>2 DEF SetupTypeOK

LEMMA MoreSeeds ==
  ASSUME SetupTypeOK, nextSeed' \in {nextSeed, nextSeed + 1}
  PROVE  /\ Seed \subseteq Seed' /\ Key \subseteq Key'
         /\ seedFile \in [Wallet -> Seed'] /\ row \in [Wallet -> Key']
         /\ given \subseteq [key : Key', early : BOOLEAN]
<1>1. Seed \subseteq Seed'
  <2>1. nextSeed \in Nat
    BY DEF SetupTypeOK
  <2>2. nextSeed' \in Nat /\ nextSeed <= nextSeed'
    BY <2>1
  <2>3. \A m, n \in Nat : m <= n => 0..(m - 1) \subseteq 0..(n - 1)
    OBVIOUS
  <2>4. 0..(nextSeed - 1) \subseteq 0..(nextSeed' - 1)
    BY <2>1, <2>2, <2>3
  <2>5. QED
    BY <2>4 DEF Seed
<1>2. Key \subseteq Key'
  BY <1>1 DEF Key
<1> DEFINE K == Key' S == Seed'
<1> HIDE DEF K, S
<1>3. Seed \subseteq S /\ Key \subseteq K
  BY <1>1, <1>2 DEF K, S
<1>4. seedFile \in [Wallet -> S] /\ row \in [Wallet -> K] /\ given \subseteq [key : K, early : BOOLEAN]
  BY <1>3 DEF SetupTypeOK
<1>5. QED
  BY <1>1, <1>2, <1>4 DEF K, S

(* A step that writes nothing but the state of init i.                     *)
LEMMA WriteNothing ==
  ASSUME IInv, NEW i \in Inits, Others(i), init' \in [Inits -> Process(nextSeed')],
         nextSeed' \in {nextSeed, nextSeed + 1}, UNCHANGED <<stored, given, lost>>,
         overlapped' \in BOOLEAN, Prepared(i)',
         At(i, "ok")' => meta.initialized \/ At(i, "ok") \/ At(i, "initialized")
  PROVE  IInv'
<1>1. SetupTypeOK
  BY DEF IInv
<1>2. SetupTypeOK'
  <2>1. /\ row' \in [Wallet -> Key'] /\ seedFile' \in [Wallet -> Seed']
        /\ cursors' \subseteq Wallet /\ given' \subseteq [key : Key', early : BOOLEAN]
        /\ meta' \in [ua_hrp : Chain \cup {NoChain}, coin_type : Chain \cup {NoChain},
                      initialized : BOOLEAN]
        /\ lost' \in BOOLEAN
    BY <1>1, MoreSeeds DEF stored, SetupTypeOK
  <2>2. QED
    BY <1>1, <2>1, TypesNext
<1>3. RealKeys'
  BY DEF IInv, RealKeys, stored
<1>4. Grows
  BY <1>1, SameStored
<1>5. meta' = meta /\ lost' = lost
  BY DEF stored
<1>6. QED
  BY <1>2, <1>3, <1>4, <1>5, GrowsKeeps

LEMMA BeginKeeps ==
  ASSUME IInv, NEW i \in Inits, Begin(i)
  PROVE  IInv'
<1>1. SetupTypeOK /\ Prepared(i) /\ InitializedIsComplete
  BY DEF IInv
<1>2. Prepared(i)'
  <2>1. init'[i].pc \in {"seed", "ok", "refused"} /\ init'[i].wallet = init[i].wallet
    BY <1>1, BeginDoes
  <2>2. init'[i].pc = "seed" => init'[i].chain # NoChain
    BY <1>1, BeginDoes
  <2>3. \A w \in Wallet : ~Upserted(i, w)' /\ ~Listed(i, w)'
    BY <2>1 DEF Upserted, Listed, HotOnly, At, Running
  <2>4. \A w \in Wallet : ~Seeded(i, w)'
    <3>1. init[i].wallet = "hot"
      BY <1>1, BeginDoes DEF Prepared
    <3>2. QED
      BY <2>1, <3>1 DEF Seeded, HotOnly, At, Running
  <2>5. QED
    BY <2>1, <2>2, <2>3, <2>4 DEF Prepared, At, Running
<1>3. QED
  BY <1>1, <1>2, BeginDoes, WriteNothing DEF At, SetupTypeOK

LEMMA SeedKeeps ==
  ASSUME IInv, NEW i \in Inits, ReadSeed(i) \/ DrawSeed(i)
  PROVE  IInv'
<1>1. SetupTypeOK /\ Prepared(i) /\ init[i].wallet \in Wallet /\ init[i].seeds \in [Wallet -> Seed]
  BY Fields DEF IInv
<1>2. CASE DrawSeed(i)
  <2>1. /\ At(i, "seed") /\ init'[i].pc = "seed"
        /\ init'[i].wallet = init[i].wallet /\ init'[i].chain = init[i].chain
        /\ init'[i].seeds = [init[i].seeds EXCEPT ![init[i].wallet] = nextSeed]
        /\ nextSeed # NoSeed /\ UNCHANGED <<stored, lost>>
    BY <1>1, <1>2, DrawSeedDoes
  <2>2. \A w \in Wallet : init[i].seeds[w] # NoSeed => init'[i].seeds[w] # NoSeed
    BY <1>1, <2>1
  <2>3. Prepared(i)'
    BY <1>1, <2>1, <2>2 DEF Prepared, Seeded, Upserted, Listed, HotOnly, At, Running, stored
  <2>4. ~At(i, "ok")'
    BY <2>1 DEF At
  <2>5. QED
    BY <1>1, <1>2, <2>3, <2>4, DrawSeedDoes, WriteNothing DEF SetupTypeOK
<1>3. CASE ReadSeed(i)
  <2>1. /\ At(i, "seed") /\ init'[i].chain = init[i].chain
        /\ init'[i].seeds = [init[i].seeds EXCEPT ![init[i].wallet] = seedFile[init[i].wallet]]
        /\ init[i].wallet = "hot" => init'[i].pc = "seed" /\ init'[i].wallet = "cold"
        /\ init[i].wallet = "cold" => init'[i].pc = "upsert" /\ init'[i].wallet = "hot"
        /\ seedFile[init[i].wallet] # NoSeed /\ UNCHANGED <<stored, lost>>
    BY <1>1, <1>3, ReadSeedDoes
  <2>2. \A w \in Wallet : init[i].seeds[w] # NoSeed \/ w = init[i].wallet => init'[i].seeds[w] # NoSeed
    BY <1>1, <2>1
  <2>3. init'[i].pc \in {"seed", "upsert"} /\ (init'[i].pc = "upsert" => init'[i].wallet = "hot")
    BY <1>1, <2>1 DEF Wallet
  <2>4. \A w \in Wallet : ~Upserted(i, w)' /\ ~Listed(i, w)'
    BY <2>3 DEF Upserted, Listed, HotOnly, At, Running
  <2>5. ASSUME NEW w \in Wallet, Seeded(i, w)' PROVE init'[i].seeds[w] # NoSeed
    <3>1. w = init[i].wallet \/ Seeded(i, w)
      BY <1>1, <2>1, <2>5 DEF Seeded, HotOnly, At, Running, Wallet
    <3>2. QED
      BY <1>1, <2>2, <3>1 DEF Prepared
  <2>6. Prepared(i)'
    BY <1>1, <2>1, <2>3, <2>4, <2>5 DEF Prepared, At, Running
  <2>7. ~At(i, "ok")'
    BY <2>3 DEF At
  <2>8. QED
    BY <1>1, <1>3, <2>6, <2>7, ReadSeedDoes, WriteNothing DEF SetupTypeOK
<1>4. QED
  BY <1>2, <1>3

(* What Proceed makes of the position.                                     *)
LEMMA ProceedMoves ==
  ASSUME SetupTypeOK, NEW i \in Inits, init[i].pc \in {"seed", "upsert", "cursor"}, Proceed(i)
  PROVE  /\ init'[i].pc \in Running /\ init'[i].pc \in {"seed", "upsert", "cursor", "ua_hrp"}
         /\ \A w \in Wallet :
              /\ Seeded(i, w)' <=> Seeded(i, w) \/ (At(i, "seed") /\ w = init[i].wallet)
              /\ Upserted(i, w)' <=> Upserted(i, w) \/ (At(i, "upsert") /\ w = init[i].wallet)
              /\ Listed(i, w)' <=> Listed(i, w) \/ (At(i, "cursor") /\ w = init[i].wallet)
<1>1. /\ init[i].wallet \in Wallet
      /\ init[i].wallet = "hot" => init'[i].pc = init[i].pc /\ init'[i].wallet = "cold"
      /\ init[i].wallet = "cold" => init'[i].pc = Following[init[i].pc] /\ init'[i].wallet = "hot"
  BY ProceedDoes, Fields
<1>2. /\ Following["seed"] = "upsert" /\ Following["upsert"] = "cursor" /\ Following["cursor"] = "ua_hrp"
  BY DEF Following
<1>3. ASSUME NEW w \in Wallet, NEW p \in {"seed", "upsert", "cursor"}, init[i].pc = p
      PROVE  /\ Seeded(i, w)' <=> Seeded(i, w) \/ (At(i, "seed") /\ w = init[i].wallet)
             /\ Upserted(i, w)' <=> Upserted(i, w) \/ (At(i, "upsert") /\ w = init[i].wallet)
             /\ Listed(i, w)' <=> Listed(i, w) \/ (At(i, "cursor") /\ w = init[i].wallet)
  <2>1. CASE init[i].wallet = "hot"
    BY <1>1, <1>3, <2>1 DEF Seeded, Upserted, Listed, HotOnly, At, Running, Wallet
  <2>2. CASE init[i].wallet = "cold"
    BY <1>1, <1>2, <1>3, <2>2 DEF Seeded, Upserted, Listed, HotOnly, At, Running, Wallet
  <2>3. QED
    BY <1>1, <2>1, <2>2 DEF Wallet
<1>4. init'[i].pc \in Running /\ init'[i].pc \in {"seed", "upsert", "cursor", "ua_hrp"}
  BY <1>1, <1>2 DEF Running, Wallet
<1>5. QED
  BY <1>3, <1>4

LEMMA WriteKeeps ==
  ASSUME IInv, NEW i \in Inits, WriteSeed(i) \/ UpsertWallet(i) \/ EnsureScanCursor(i)
  PROVE  IInv'
<1>1. SetupTypeOK /\ Prepared(i) /\ init[i].pc \in {"seed", "upsert", "cursor"}
  BY DEF IInv, WriteSeed, UpsertWallet, EnsureScanCursor, At
<1>2. Proceed(i) /\ UNCHANGED <<meta, given, nextSeed, overlapped, lost>>
  BY DEF WriteSeed, UpsertWallet, EnsureScanCursor
<1>3. /\ Others(i) /\ init' \in [Inits -> Process(nextSeed')]
      /\ init'[i].chain = init[i].chain /\ init'[i].seeds = init[i].seeds
  BY <1>1, <1>2, ProceedDoes
<1>4. init[i].wallet \in Wallet /\ init[i].seeds \in [Wallet -> Seed] /\ init[i].chain \in Chain \cup {NoChain}
  BY <1>1, Fields
<1>5. /\ seedFile' \in [Wallet -> Seed] /\ row' \in [Wallet -> Key] /\ cursors' \subseteq Wallet
      /\ \A w \in Wallet : row[w] # NoRow => row'[w] # NoRow
      /\ At(i, "upsert") => row'[init[i].wallet] # NoRow
      /\ \A w \in Wallet : row'[w] # NoRow => row'[w].seed # NoSeed
      /\ cursors \subseteq cursors' /\ (At(i, "cursor") => init[i].wallet \in cursors')
  <2>1. CASE WriteSeed(i)
    BY <1>1, <1>4, <2>1 DEF WriteSeed, SetupTypeOK, At, IInv, RealKeys
  <2>2. CASE UpsertWallet(i)
    <3> DEFINE new == [seed |-> init[i].seeds[init[i].wallet], chain |-> init[i].chain]
    <3>1. new \in Key /\ new # NoRow /\ new.seed # NoSeed
      <4>1. Seeded(i, init[i].wallet)
        BY <2>2 DEF UpsertWallet, At, Seeded, Running
      <4>2. init[i].seeds[init[i].wallet] # NoSeed
        BY <1>1, <1>4, <4>1 DEF Prepared
      <4>3. QED
        BY <1>4, <4>2 DEF Key, NoRow
    <3>2. row' = [row EXCEPT ![init[i].wallet] = new] /\ UNCHANGED <<seedFile, cursors>> /\ At(i, "upsert")
      BY <2>2 DEF UpsertWallet
    <3> HIDE DEF new
    <3>3. QED
      BY <1>1, <1>4, <3>1, <3>2 DEF SetupTypeOK, IInv, RealKeys, At
  <2>3. CASE EnsureScanCursor(i)
    BY <1>1, <1>4, <2>3 DEF EnsureScanCursor, SetupTypeOK, At, IInv, RealKeys
  <2>4. QED
    BY <2>1, <2>2, <2>3
<1>6. SetupTypeOK'
  <2>1. Seed' = Seed /\ Key' = Key
    BY <1>2 DEF Seed, Key
  <2>2. QED
    BY <1>1, <1>2, <1>3, <1>5, <2>1, TypesNext DEF SetupTypeOK
<1>7. RealKeys'
  BY <1>2, <1>5 DEF IInv, RealKeys
<1>8. Grows
  BY <1>2, <1>5 DEF Grows
<1>9. Prepared(i)'
  <2>1. init'[i].pc \in Running /\ init'[i].pc \in {"seed", "upsert", "cursor", "ua_hrp"}
    BY <1>1, <1>2, ProceedMoves
  <2>2. init[i].pc \in Running
    BY <1>1 DEF Running
  <2>3. ASSUME NEW w \in Wallet
        PROVE  /\ Seeded(i, w)' => init'[i].seeds[w] # NoSeed
               /\ Upserted(i, w)' => row'[w] # NoRow
               /\ Listed(i, w)' => w \in cursors'
    <3>1. Seeded(i, w)' => init'[i].seeds[w] # NoSeed
      <4>1. At(i, "seed") /\ w = init[i].wallet => init[i].seeds[w] # NoSeed
        BY DEF WriteSeed, UpsertWallet, EnsureScanCursor, At
      <4>2. QED
        BY <1>1, <1>2, <1>3, <4>1, ProceedMoves DEF Prepared
    <3>2. Upserted(i, w)' => row'[w] # NoRow
      BY <1>1, <1>2, <1>5, ProceedMoves DEF Prepared
    <3>3. Listed(i, w)' => w \in cursors'
      BY <1>1, <1>2, <1>5, ProceedMoves DEF Prepared
    <3>4. QED
      BY <3>1, <3>2, <3>3
  <2>4. QED
    BY <1>1, <1>3, <2>1, <2>2, <2>3 DEF Prepared, At
<1>10. ~At(i, "ok")'
  BY <1>1, <1>2, ProceedMoves DEF At
<1>11. QED
  BY <1>2, <1>3, <1>6, <1>7, <1>8, <1>9, <1>10, GrowsKeeps

(* The three keys, in this order.                                          *)
LEMMA SetMetaDoes ==
  ASSUME SetupTypeOK, NEW i \in Inits, SetMetaKeys(i)
  PROVE  /\ UNCHANGED <<seedFile, row, cursors, given, nextSeed, overlapped>>
         /\ Others(i) /\ init' \in [Inits -> Process(nextSeed)]
         /\ init'[i].wallet = init[i].wallet
         /\ init'[i].chain = init[i].chain /\ init'[i].seeds = init[i].seeds
         /\ \/ At(i, "ua_hrp") /\ At(i, "coin_type")'
            \/ At(i, "coin_type") /\ At(i, "initialized")'
            \/ At(i, "initialized") /\ At(i, "ok")'
         /\ \/ lost' /\ meta' = meta
            \/ lost' = lost /\ At(i, "ua_hrp") /\ meta' = [meta EXCEPT !.ua_hrp = init[i].chain]
            \/ lost' = lost /\ At(i, "coin_type") /\ meta' = [meta EXCEPT !.coin_type = init[i].chain]
            \/ lost' = lost /\ At(i, "initialized") /\ meta' = [meta EXCEPT !.initialized = TRUE]
<1>1. PICK next \in {"coin_type", "initialized", "ok"} : init' = [init EXCEPT ![i].pc = next]
  BY DEF SetMetaKeys, SetMeta
<1>2. next \in Running \cup Over
  BY DEF Running, Over
<1>3. /\ Others(i) /\ init' \in [Inits -> Process(nextSeed)] /\ init'[i].pc = next
      /\ init'[i].wallet = init[i].wallet
      /\ init'[i].chain = init[i].chain /\ init'[i].seeds = init[i].seeds
  BY <1>1, <1>2, MoveDoes
<1>4. \/ At(i, "ua_hrp") /\ At(i, "coin_type")'
      \/ At(i, "coin_type") /\ At(i, "initialized")'
      \/ At(i, "initialized") /\ At(i, "ok")'
  BY MoveDoes DEF SetMetaKeys, SetMeta, At, Running, Over
<1>5. \/ lost' /\ meta' = meta
      \/ lost' = lost /\ At(i, "ua_hrp") /\ meta' = [meta EXCEPT !.ua_hrp = init[i].chain]
      \/ lost' = lost /\ At(i, "coin_type") /\ meta' = [meta EXCEPT !.coin_type = init[i].chain]
      \/ lost' = lost /\ At(i, "initialized") /\ meta' = [meta EXCEPT !.initialized = TRUE]
  <2>1. meta \in [ua_hrp : Chain \cup {NoChain}, coin_type : Chain \cup {NoChain},
                  initialized : BOOLEAN]
    BY DEF SetupTypeOK
  <2>2. QED
    BY <2>1 DEF SetMetaKeys, SetMeta
<1>6. UNCHANGED <<seedFile, row, cursors, given, nextSeed, overlapped>>
  BY DEF SetMetaKeys, SetMeta
<1>7. QED
  BY <1>3, <1>4, <1>5, <1>6

LEMMA SetMetaKeeps ==
  ASSUME IInv, NEW i \in Inits, SetMetaKeys(i)
  PROVE  IInv'
<1>1. SetupTypeOK /\ Prepared(i) /\ init[i].chain \in Chain \cup {NoChain}
  BY Fields DEF IInv
<1>2. /\ UNCHANGED <<seedFile, row, cursors, given, nextSeed, overlapped>>
      /\ Others(i) /\ init' \in [Inits -> Process(nextSeed)]
      /\ init'[i].wallet = init[i].wallet
      /\ init'[i].chain = init[i].chain /\ init'[i].seeds = init[i].seeds
  BY <1>1, SetMetaDoes
<1>3. \/ At(i, "ua_hrp") /\ At(i, "coin_type")'
      \/ At(i, "coin_type") /\ At(i, "initialized")'
      \/ At(i, "initialized") /\ At(i, "ok")'
  BY <1>1, SetMetaDoes
<1>4. init[i].chain # NoChain
  BY <1>1, <1>3 DEF Prepared, At, Running
<1>5. meta \in [ua_hrp : Chain \cup {NoChain}, coin_type : Chain \cup {NoChain}, initialized : BOOLEAN]
  BY <1>1 DEF SetupTypeOK
<1>6. /\ meta' \in [ua_hrp : Chain \cup {NoChain}, coin_type : Chain \cup {NoChain},
                    initialized : BOOLEAN]
      /\ lost' \in BOOLEAN /\ (~lost' => ~lost)
      /\ meta.ua_hrp # NoChain => meta'.ua_hrp # NoChain
      /\ meta.coin_type # NoChain => meta'.coin_type # NoChain
      /\ ~lost' /\ At(i, "ua_hrp") => meta'.ua_hrp # NoChain
      /\ ~lost' /\ At(i, "coin_type") => meta'.coin_type # NoChain
      /\ ~At(i, "initialized") => meta'.initialized = meta.initialized
  <2>1. \/ lost' /\ meta' = meta
        \/ lost' = lost /\ At(i, "ua_hrp") /\ meta' = [meta EXCEPT !.ua_hrp = init[i].chain]
        \/ lost' = lost /\ At(i, "coin_type") /\ meta' = [meta EXCEPT !.coin_type = init[i].chain]
        \/ lost' = lost /\ At(i, "initialized") /\ meta' = [meta EXCEPT !.initialized = TRUE]
    BY <1>1, SetMetaDoes
  <2>2. lost \in BOOLEAN /\ lost' \in BOOLEAN
    BY <1>1, <2>1 DEF SetupTypeOK, SetMetaKeys, SetMeta
  <2>3. CASE lost' /\ meta' = meta
    BY <1>5, <2>2, <2>3
  <2>4. CASE lost' = lost /\ At(i, "ua_hrp") /\ meta' = [meta EXCEPT !.ua_hrp = init[i].chain]
    BY <1>1, <1>4, <1>5, <2>2, <2>4 DEF At
  <2>5. CASE lost' = lost /\ At(i, "coin_type") /\ meta' = [meta EXCEPT !.coin_type = init[i].chain]
    BY <1>1, <1>4, <1>5, <2>2, <2>5 DEF At
  <2>6. CASE lost' = lost /\ At(i, "initialized") /\ meta' = [meta EXCEPT !.initialized = TRUE]
    BY <1>5, <2>2, <2>6 DEF At
  <2>7. QED
    BY <2>1, <2>3, <2>4, <2>5, <2>6
<1>7. SetupTypeOK'
  <2>1. Seed' = Seed /\ Key' = Key
    BY <1>2 DEF Seed, Key
  <2>2. /\ row' \in [Wallet -> Key'] /\ seedFile' \in [Wallet -> Seed'] /\ cursors' \subseteq Wallet
        /\ given' \subseteq [key : Key', early : BOOLEAN] /\ overlapped' \in BOOLEAN
    BY <1>1, <1>2, <2>1 DEF SetupTypeOK
  <2>3. QED
    BY <1>1, <1>2, <1>6, <2>2, TypesNext
<1>8. RealKeys' /\ Grows
  BY <1>2, <1>6 DEF IInv, RealKeys, Grows
<1>9. Prepared(i)'
  <2>1. \A w \in Wallet : Seeded(i, w) /\ Upserted(i, w) /\ Listed(i, w)
    BY <1>3 DEF Seeded, Upserted, Listed, At, Running
  <2>2. \A w \in Wallet : init'[i].seeds[w] # NoSeed /\ row'[w] # NoRow /\ w \in cursors'
    BY <1>1, <1>2, <2>1 DEF Prepared
  <2>3. /\ ~lost' /\ init'[i].pc \in {"coin_type", "initialized"} => meta'.ua_hrp # NoChain
        /\ ~lost' /\ At(i, "initialized")' => meta'.coin_type # NoChain
    BY <1>1, <1>3, <1>6 DEF Prepared, At
  <2>4. ~At(i, "new")'
    BY <1>3 DEF At
  <2>5. QED
    BY <1>2, <1>4, <2>2, <2>3, <2>4 DEF Prepared
<1>10. ~lost' /\ (meta'.initialized \/ At(i, "ok")') => meta.initialized \/ At(i, "initialized")
  BY <1>3, <1>6 DEF At
<1>11. QED
  BY <1>2, <1>7, <1>8, <1>9, <1>10, GrowsKeeps

LEMMA FailKeeps ==
  ASSUME IInv, NEW i \in Inits, Fail(i)
  PROVE  IInv'
<1>1. SetupTypeOK /\ Prepared(i) /\ "failed" \in Running \cup Over
  BY DEF IInv, Over
<1>2. /\ Others(i) /\ init' \in [Inits -> Process(nextSeed)] /\ init'[i].pc = "failed"
      /\ UNCHANGED <<stored, given, nextSeed, overlapped, lost>>
  BY <1>1, MoveDoes DEF Fail
<1>3. Prepared(i)'
  BY <1>2 DEF Prepared, Seeded, Upserted, Listed, HotOnly, At, Running
<1>4. QED
  BY <1>1, <1>2, <1>3, WriteNothing DEF At, SetupTypeOK

LEMMA HandOutKeeps ==
  ASSUME IInv, HandOutAddress
  PROVE  IInv'
<1>1. /\ UNCHANGED <<stored, init, nextSeed, overlapped, lost>>
      /\ given' = given \cup {[key |-> row["hot"], early |-> ~meta.initialized]}
      /\ row["hot"] # NoRow
  BY DEF HandOutAddress
<1>2. SetupTypeOK'
  <2>1. row["hot"] \in Key /\ (~meta.initialized) \in BOOLEAN
    BY DEF IInv, SetupTypeOK, Wallet
  <2>2. given' \subseteq [key : Key, early : BOOLEAN]
    <3>1. given \subseteq [key : Key, early : BOOLEAN]
      BY DEF IInv, SetupTypeOK
    <3>2. [key |-> row["hot"], early |-> ~meta.initialized] \in [key : Key, early : BOOLEAN]
      BY <2>1
    <3>3. QED
      BY <1>1, <3>1, <3>2
  <2>3. Key' = Key /\ Seed' = Seed
    BY <1>1 DEF Key, Seed
  <2>4. QED
    BY <1>1, <2>2, <2>3 DEF IInv, SetupTypeOK, stored
<1>3. RealKeys'
  BY <1>1 DEF IInv, RealKeys, stored, Wallet
<1>4. InitializedIsComplete'
  BY <1>1 DEF IInv, InitializedIsComplete, stored, At
<1>5. \A i \in Inits : Prepared(i)'
  BY <1>1 DEF IInv, Prepared, Seeded, Upserted, Listed, HotOnly, At, stored
<1>6. QED
  BY <1>2, <1>3, <1>4, <1>5 DEF IInv

LEMMA NextKeeps == IInv /\ [Next]_vars => IInv'
<1> SUFFICES ASSUME IInv, [Next]_vars PROVE IInv'
  OBVIOUS
<1>1. ASSUME NEW i \in Inits, Step(i) PROVE IInv'
  BY <1>1, BeginKeeps, SeedKeeps, WriteKeeps, SetMetaKeeps, FailKeeps DEF Step
<1>2. CASE UNCHANGED vars
  <2>1. Seed' = Seed /\ Key' = Key
    BY <1>2 DEF Seed, Key, vars
  <2>2. SetupTypeOK'
    BY <1>2, <2>1 DEF IInv, SetupTypeOK, vars, stored
  <2>3. QED
    BY <1>2, <2>2 DEF IInv, RealKeys, InitializedIsComplete, Prepared,
                      Seeded, Upserted, Listed, HotOnly, At, vars, stored
<1>3. QED
  BY <1>1, <1>2, HandOutKeeps DEF Next

(* Every file, row and key keeps its type, and so does what each init has  *)
(* in hand.                                                                *)
THEOREM SetupTypeCorrect == Spec => []SetupTypeOK
<1>1. SerialInv => IInv
  BY DEF SerialInv
<1>2. IInv => SetupTypeOK
  BY DEF IInv
<1>3. QED
  BY <1>1, <1>2, InitIInv, NextKeeps, PTL DEF Spec

(* A directory marked initialized, or one for which an init said ok, is    *)
(* complete unless a SetMeta failed, however many inits were killed in it  *)
(* or ran in it at once.                                                   *)
THEOREM InitializedAlwaysComplete == Spec => []InitializedIsComplete
<1>1. SerialInv => IInv
  BY DEF SerialInv
<1>2. IInv => InitializedIsComplete
  BY DEF IInv
<1>3. QED
  BY <1>1, <1>2, InitIInv, NextKeeps, PTL DEF Spec

-----------------------------------------------------------------------------
(* One init at a time.                                                     *)

(* An init that is at nothing holds and wrote nothing.                     *)
LEMMA IdleWrote ==
  ASSUME NEW i \in Inits, init[i].pc \notin Running
  PROVE  Holds(i) /\ Wrote(i) /\ \A w \in Wallet : ~Upserted(i, w)
BY DEF Holds, Wrote, Upserted, HotOnly, At, Running

(* So a step of the one that runs is judged by what that one holds, wrote. *)
LEMMA OneSteps ==
  ASSUME SetupTypeOK, Serial, NEW i \in Inits, init[i].pc \in Running, Others(i),
         init'[i].pc \in Running => ~meta'.initialized, Holds(i)', Wrote(i)'
  PROVE  OneRunning' /\ NotReady' /\ InHand' /\ OnItsChain'
<1>1. ASSUME NEW j \in Inits \ {i}
      PROVE  init'[j].pc \notin Running /\ Holds(j)' /\ Wrote(j)'
  <2>1. init'[j].pc \notin Running
    BY DEF Serial, OneRunning, Others
  <2>2. QED
    BY <2>1 DEF Holds, Wrote, Upserted, HotOnly, At, Running
<1>2. QED
  BY <1>1 DEF OneRunning, NotReady, InHand, OnItsChain

LEMMA BeginSerial ==
  ASSUME IInv, Serial, NEW i \in Inits, Begin(i), ~overlapped'
  PROVE  Serial'
<1>1. SetupTypeOK /\ Prepared(i)
  BY DEF IInv
<1>2. \A j \in Inits : init[j].pc \notin Running
  BY <1>1, BeginDoes
<1>3. /\ Others(i) /\ UNCHANGED <<stored, given, lost>>
      /\ init'[i].seeds = init[i].seeds /\ init'[i].wallet = init[i].wallet
      /\ init'[i].pc \in {"seed", "ok", "refused"}
      /\ init'[i].pc = "seed" => ~meta.initialized
  BY <1>1, BeginDoes
<1>4. init[i].wallet = "hot" /\ \A w \in Wallet : init[i].seeds[w] = NoSeed
  BY <1>1, BeginDoes DEF Prepared
<1>5. \A j \in Inits \ {i} : init'[j].pc \notin Running
  BY <1>2, <1>3 DEF Others
<1>6. OneRunning' /\ NotReady'
  BY <1>3, <1>5 DEF OneRunning, NotReady, stored, Running
<1>7. Holds(i)' /\ Wrote(i)'
  BY <1>3, <1>4 DEF Holds, Wrote, Seeded, Upserted, HotOnly, At, Running
<1>8. \A j \in Inits \ {i} : Holds(j)' /\ Wrote(j)'
  BY <1>5 DEF Holds, Wrote, Upserted, HotOnly, At, Running
<1>9. InHand' /\ OnItsChain'
  BY <1>7, <1>8 DEF InHand, OnItsChain
<1>10. KeysMatchSeeds' /\ OneChain' /\ GivenSeeds' /\ GivenLate'
  <2>1. overlapped' = FALSE => ~overlapped
    BY <1>1, BeginDoes DEF SetupTypeOK
  <2>2. QED
    BY <1>3, <2>1, BeginDoes, <1>1
       DEF Serial, stored, KeysMatchSeeds, OneChain, GivenSeeds, GivenLate
<1>11. QED
  BY <1>6, <1>9, <1>10 DEF Serial

LEMMA SeedSerial ==
  ASSUME IInv, Serial, NEW i \in Inits, ReadSeed(i) \/ DrawSeed(i)
  PROVE  Serial'
<1>1. SetupTypeOK /\ Holds(i) /\ NotReady /\ init[i].wallet \in Wallet
      /\ init[i].seeds \in [Wallet -> Seed]
  BY Fields DEF IInv, Serial, InHand
<1>2. Others(i) /\ UNCHANGED <<stored, given, overlapped, lost>> /\ At(i, "seed")
  BY <1>1, DrawSeedDoes, ReadSeedDoes
<1>3. init[i].pc \in Running
  BY <1>2 DEF At, Running
<1>4. init[i].seeds[init[i].wallet] = NoSeed
  BY DEF ReadSeed, DrawSeed
<1>5. Holds(i)' /\ Wrote(i)'
  <2>1. CASE DrawSeed(i)
    <3>1. /\ init'[i].pc = "seed" /\ init'[i].wallet = init[i].wallet
          /\ init'[i].seeds = [init[i].seeds EXCEPT ![init[i].wallet] = nextSeed]
          /\ seedFile[init[i].wallet] = NoSeed
      BY <1>1, <2>1, DrawSeedDoes
    <3>2. \A w \in Wallet : Seeded(i, w)' <=> Seeded(i, w) /\ w # init[i].wallet
      BY <1>2, <3>1 DEF Seeded, HotOnly, At, Running
    <3>3. Holds(i)'
      BY <1>1, <1>2, <1>3, <3>1, <3>2 DEF Holds, stored
    <3>4. Wrote(i)'
      BY <3>1 DEF Wrote, Upserted, HotOnly, At, Running
    <3>5. QED
      BY <3>3, <3>4
  <2>2. CASE ReadSeed(i)
    <3>1. /\ init'[i].seeds = [init[i].seeds EXCEPT ![init[i].wallet] = seedFile[init[i].wallet]]
          /\ init[i].wallet = "hot" => init'[i].pc = "seed" /\ init'[i].wallet = "cold"
          /\ init[i].wallet = "cold" => init'[i].pc = "upsert" /\ init'[i].wallet = "hot"
      BY <1>1, <2>2, ReadSeedDoes
    <3>2. init'[i].pc \in {"seed", "upsert"} /\ (init'[i].pc = "upsert" => init'[i].wallet = "hot")
      BY <1>1, <3>1 DEF Wallet
    <3>3. \A w \in Wallet : Seeded(i, w)' <=> Seeded(i, w) \/ w = init[i].wallet
      BY <1>1, <1>2, <3>1 DEF Seeded, HotOnly, At, Running, Wallet
    <3>4. Holds(i)'
      BY <1>1, <1>2, <1>3, <3>1, <3>3 DEF Holds, stored
    <3>5. Wrote(i)'
      BY <3>2 DEF Wrote, Upserted, HotOnly, At, Running
    <3>6. QED
      BY <3>4, <3>5
  <2>3. QED
    BY <2>1, <2>2
<1>6. ~meta'.initialized
  BY <1>1, <1>2, <1>3 DEF NotReady, stored
<1>7. OneRunning' /\ NotReady' /\ InHand' /\ OnItsChain'
  BY <1>1, <1>2, <1>3, <1>5, <1>6, OneSteps
<1>8. KeysMatchSeeds' /\ OneChain' /\ GivenSeeds' /\ GivenLate'
  BY <1>2 DEF Serial, stored, KeysMatchSeeds, OneChain, GivenSeeds, GivenLate
<1>9. QED
  BY <1>7, <1>8 DEF Serial

LEMMA WriteSerial ==
  ASSUME IInv, Serial, NEW i \in Inits, WriteSeed(i) \/ UpsertWallet(i) \/ EnsureScanCursor(i)
  PROVE  Serial'
<1>1. /\ SetupTypeOK /\ Prepared(i) /\ Holds(i) /\ Wrote(i) /\ NotReady /\ RealKeys
      /\ KeysMatchSeeds /\ OneChain /\ GivenSeeds /\ GivenLate
      /\ init[i].wallet \in Wallet /\ init[i].seeds \in [Wallet -> Seed]
  BY Fields DEF IInv, Serial, InHand, OnItsChain
<1>2. init[i].pc \in {"seed", "upsert", "cursor"} /\ init[i].pc \in Running
  BY DEF WriteSeed, UpsertWallet, EnsureScanCursor, At, Running
<1>3. Proceed(i) /\ UNCHANGED <<meta, given, overlapped, lost>>
  BY DEF WriteSeed, UpsertWallet, EnsureScanCursor
<1>4. Others(i) /\ init'[i].chain = init[i].chain /\ init'[i].seeds = init[i].seeds
  BY <1>1, <1>2, <1>3, ProceedDoes
<1>5. ~meta.initialized /\ ~meta'.initialized
  BY <1>1, <1>2, <1>3 DEF NotReady
<1>6. init'[i].pc \notin {"coin_type", "initialized"}
  BY <1>1, <1>2, <1>3, ProceedMoves
<1>7. /\ seedFile \in [Wallet -> Seed] /\ row \in [Wallet -> Key]
  BY <1>1 DEF SetupTypeOK
<1>8. ASSUME WriteSeed(i) PROVE Holds(i)' /\ Wrote(i)' /\ KeysMatchSeeds' /\ GivenSeeds'
  <2>1. /\ At(i, "seed") /\ init[i].seeds[init[i].wallet] # NoSeed /\ UNCHANGED row
        /\ seedFile' = [seedFile EXCEPT ![init[i].wallet] = init[i].seeds[init[i].wallet]]
    BY <1>8 DEF WriteSeed
  <2>2. ~Seeded(i, init[i].wallet)
    BY <2>1 DEF Seeded, HotOnly, At, Running
  <2>3. seedFile[init[i].wallet] = NoSeed
    BY <1>1, <1>2, <2>1, <2>2 DEF Holds
  <2>4. KeysMatchSeeds'
    BY <1>1, <1>3, <1>7, <2>1, <2>3 DEF KeysMatchSeeds, RealKeys
  <2>5. GivenSeeds'
    BY <1>1, <1>3, <1>7, <2>1, <2>3 DEF GivenSeeds, RealKeys, Wallet
  <2>6. Holds(i)'
    BY <1>1, <1>2, <1>3, <1>4, <1>7, <2>1, ProceedMoves DEF Holds
  <2>7. Wrote(i)'
    BY <1>1, <1>2, <1>3, <1>4, <1>6, <2>1, ProceedMoves DEF Wrote, At
  <2>8. QED
    BY <2>4, <2>5, <2>6, <2>7
<1>9. ASSUME UpsertWallet(i) PROVE Holds(i)' /\ Wrote(i)' /\ KeysMatchSeeds' /\ GivenSeeds'
  <2> DEFINE new == [seed |-> init[i].seeds[init[i].wallet], chain |-> init[i].chain]
  <2>1. At(i, "upsert") /\ UNCHANGED seedFile /\ row' = [row EXCEPT ![init[i].wallet] = new]
    BY <1>9 DEF UpsertWallet
  <2>2. Seeded(i, init[i].wallet)
    BY <2>1 DEF Seeded, At, Running
  <2>3. new.seed = seedFile[init[i].wallet] /\ new.chain = init[i].chain
    BY <1>1, <1>2, <2>2 DEF Holds
  <2> HIDE DEF new
  <2>4. KeysMatchSeeds'
    BY <1>1, <1>3, <1>7, <2>1, <2>3 DEF KeysMatchSeeds
  <2>5. GivenSeeds'
    BY <1>1, <1>3, <2>1 DEF GivenSeeds
  <2>6. Holds(i)'
    BY <1>1, <1>2, <1>3, <1>4, <2>1, ProceedMoves DEF Holds, At
  <2>7. Wrote(i)'
    BY <1>1, <1>2, <1>3, <1>4, <1>6, <1>7, <2>1, <2>3, ProceedMoves DEF Wrote, At
  <2>8. QED
    BY <2>4, <2>5, <2>6, <2>7
<1>10. ASSUME EnsureScanCursor(i) PROVE Holds(i)' /\ Wrote(i)' /\ KeysMatchSeeds' /\ GivenSeeds'
  <2>1. At(i, "cursor") /\ UNCHANGED <<seedFile, row>>
    BY <1>10 DEF EnsureScanCursor
  <2>2. KeysMatchSeeds' /\ GivenSeeds'
    BY <1>1, <1>3, <2>1 DEF KeysMatchSeeds, GivenSeeds
  <2>3. Holds(i)'
    BY <1>1, <1>2, <1>3, <1>4, <2>1, ProceedMoves DEF Holds, At
  <2>4. Wrote(i)'
    BY <1>1, <1>2, <1>3, <1>4, <1>6, <2>1, ProceedMoves DEF Wrote, At
  <2>5. QED
    BY <2>2, <2>3, <2>4
<1>11. Holds(i)' /\ Wrote(i)' /\ KeysMatchSeeds' /\ GivenSeeds'
  BY <1>8, <1>9, <1>10
<1>12. OneChain' /\ GivenLate'
  BY <1>1, <1>3, <1>5 DEF OneChain, GivenLate
<1>13. OneRunning' /\ NotReady' /\ InHand' /\ OnItsChain'
  BY <1>1, <1>2, <1>4, <1>5, <1>11, OneSteps
<1>14. QED
  BY <1>11, <1>12, <1>13 DEF Serial

LEMMA SetMetaSerial ==
  ASSUME IInv, Serial, ~overlapped, NEW i \in Inits, SetMetaKeys(i)
  PROVE  Serial'
<1>1. /\ SetupTypeOK /\ Prepared(i) /\ Holds(i) /\ Wrote(i) /\ NotReady
      /\ KeysMatchSeeds /\ GivenSeeds /\ GivenLate
      /\ init[i].chain \in Chain \cup {NoChain}
  BY Fields DEF IInv, Serial, InHand, OnItsChain
<1>2. /\ UNCHANGED <<seedFile, row, given, overlapped>> /\ Others(i)
      /\ init'[i].chain = init[i].chain /\ init'[i].seeds = init[i].seeds
  BY <1>1, SetMetaDoes
<1>3. \/ At(i, "ua_hrp") /\ At(i, "coin_type")'
      \/ At(i, "coin_type") /\ At(i, "initialized")'
      \/ At(i, "initialized") /\ At(i, "ok")'
  BY <1>1, SetMetaDoes
<1>4. meta \in [ua_hrp : Chain \cup {NoChain}, coin_type : Chain \cup {NoChain}, initialized : BOOLEAN]
  BY <1>1 DEF SetupTypeOK
<1>5. init[i].pc \in Running /\ \A w \in Wallet : Seeded(i, w) /\ Upserted(i, w)
  BY <1>3 DEF At, Running, Seeded, Upserted
<1>6. ~meta.initialized /\ init[i].chain \in Chain
  BY <1>1, <1>5 DEF NotReady, Prepared
<1>7. /\ ~lost' => ~lost
      /\ ~At(i, "initialized") => ~meta'.initialized
      /\ ~lost' /\ At(i, "ua_hrp") => meta'.ua_hrp = init[i].chain
      /\ ~lost' /\ At(i, "coin_type") => meta'.coin_type = init[i].chain /\ meta'.ua_hrp = meta.ua_hrp
      /\ ~lost' /\ At(i, "initialized") => meta'.coin_type = meta.coin_type /\ meta'.ua_hrp = meta.ua_hrp
  <2>1. \/ lost' /\ meta' = meta
        \/ lost' = lost /\ At(i, "ua_hrp") /\ meta' = [meta EXCEPT !.ua_hrp = init[i].chain]
        \/ lost' = lost /\ At(i, "coin_type") /\ meta' = [meta EXCEPT !.coin_type = init[i].chain]
        \/ lost' = lost /\ At(i, "initialized") /\ meta' = [meta EXCEPT !.initialized = TRUE]
    BY <1>1, SetMetaDoes
  <2>2. CASE lost' /\ meta' = meta
    BY <1>6, <2>2
  <2>3. CASE lost' = lost /\ At(i, "ua_hrp") /\ meta' = [meta EXCEPT !.ua_hrp = init[i].chain]
    BY <1>4, <1>6, <2>3 DEF At
  <2>4. CASE lost' = lost /\ At(i, "coin_type") /\ meta' = [meta EXCEPT !.coin_type = init[i].chain]
    BY <1>4, <1>6, <2>4 DEF At
  <2>5. CASE lost' = lost /\ At(i, "initialized") /\ meta' = [meta EXCEPT !.initialized = TRUE]
    BY <1>4, <1>6, <2>5 DEF At
  <2>6. QED
    BY <2>1, <2>2, <2>3, <2>4, <2>5
<1>8. Holds(i)'
  <2>1. init'[i].pc \in Running => \A w \in Wallet : Seeded(i, w)'
    BY <1>3 DEF At, Running, Seeded
  <2>2. QED
    BY <1>1, <1>2, <1>5, <2>1 DEF Holds
<1>9. \A w \in Wallet : row[w].chain = init[i].chain
  BY <1>1, <1>5 DEF Wrote
<1>10. Wrote(i)'
  BY <1>1, <1>2, <1>3, <1>7, <1>9 DEF Wrote, At
<1>11. init'[i].pc \in Running => ~meta'.initialized
  BY <1>3, <1>7 DEF At, Running
<1>12. OneRunning' /\ NotReady' /\ InHand' /\ OnItsChain'
  BY <1>1, <1>2, <1>5, <1>8, <1>10, <1>11, OneSteps
<1>13. OneChain'
  <2>1. SUFFICES ASSUME ~lost', meta'.initialized
                 PROVE  /\ meta'.ua_hrp = init[i].chain /\ meta'.coin_type = init[i].chain
                        /\ \A w \in Wallet : row'[w].chain = init[i].chain
    BY <1>6 DEF OneChain
  <2>2. QED
    BY <1>1, <1>2, <1>7, <1>9, <2>1 DEF Wrote, At
<1>14. KeysMatchSeeds' /\ GivenSeeds' /\ GivenLate'
  BY <1>1, <1>2, <1>6 DEF KeysMatchSeeds, GivenSeeds, GivenLate
<1>15. QED
  BY <1>12, <1>13, <1>14 DEF Serial

LEMMA FailSerial ==
  ASSUME IInv, Serial, NEW i \in Inits, Fail(i)
  PROVE  Serial'
<1>1. SetupTypeOK /\ "failed" \in Running \cup Over
  BY DEF IInv, Over
<1>2. Others(i) /\ init'[i].pc = "failed" /\ UNCHANGED <<stored, given, overlapped, lost>>
  BY <1>1, MoveDoes DEF Fail
<1>3. Holds(i)' /\ Wrote(i)' /\ init'[i].pc \notin Running
  BY <1>2 DEF Holds, Wrote, Upserted, HotOnly, At, Running
<1>4. OneRunning' /\ NotReady' /\ InHand' /\ OnItsChain'
  BY <1>1, <1>2, <1>3, OneSteps DEF Fail
<1>5. KeysMatchSeeds' /\ OneChain' /\ GivenSeeds' /\ GivenLate'
  BY <1>2 DEF Serial, stored, KeysMatchSeeds, OneChain, GivenSeeds, GivenLate
<1>6. QED
  BY <1>4, <1>5 DEF Serial

LEMMA HandOutSerial ==
  ASSUME IInv, Serial, ~overlapped, HandOutAddress
  PROVE  Serial'
<1>1. /\ UNCHANGED <<stored, init, nextSeed, overlapped, lost>> /\ row["hot"] # NoRow
      /\ given' = given \cup {[key |-> row["hot"], early |-> ~meta.initialized]}
      /\ meta.initialized \in BOOLEAN /\ lost \in BOOLEAN
  BY DEF HandOutAddress, IInv, SetupTypeOK
<1>2. OneRunning' /\ NotReady' /\ InHand' /\ OnItsChain'
  BY <1>1 DEF Serial, OneRunning, NotReady, InHand, Holds, OnItsChain, Wrote,
              Seeded, Upserted, HotOnly, At, stored
<1>3. KeysMatchSeeds' /\ OneChain'
  BY <1>1 DEF Serial, stored, KeysMatchSeeds, OneChain
<1>4. GivenSeeds'
  BY <1>1 DEF Serial, KeysMatchSeeds, GivenSeeds, stored, Wallet
<1>5. GivenLate'
  <2>1. meta.initialized /\ ~lost => row["hot"].chain = meta.coin_type
    BY DEF Serial, OneChain, Wallet
  <2>2. ASSUME NEW x \in given, ~x.early
        PROVE  meta.initialized /\ (~lost => x.key.chain = meta.coin_type)
    BY <2>2 DEF Serial, GivenLate
  <2>3. ASSUME NEW x \in given' \ given, ~x.early
        PROVE  meta.initialized /\ (~lost => x.key.chain = meta.coin_type)
    <3>1. x = [key |-> row["hot"], early |-> ~meta.initialized]
      BY <1>1
    <3>2. x.key = row["hot"] /\ x.early = ~meta.initialized
      BY <3>1
    <3>3. QED
      BY <1>1, <2>1, <2>3, <3>2
  <2>4. meta' = meta /\ lost' = lost
    BY <1>1 DEF stored
  <2>5. QED
    BY <2>2, <2>3, <2>4 DEF GivenLate
<1>6. QED
  BY <1>2, <1>3, <1>4, <1>5 DEF Serial

LEMMA SerialNext == SerialInv /\ [Next]_vars => SerialInv'
<1> SUFFICES ASSUME SerialInv, [Next]_vars, ~overlapped' PROVE Serial'
  BY NextKeeps DEF SerialInv
<1>1. IInv /\ SetupTypeOK
  BY DEF SerialInv, IInv
<1>2. ~overlapped
  BY <1>1, BeginDoes DEF SetupTypeOK, Next, Step, vars, HandOutAddress, ReadSeed, DrawSeed, WriteSeed,
       UpsertWallet, EnsureScanCursor, SetMetaKeys, SetMeta, Fail
<1>3. Serial
  BY <1>2 DEF SerialInv
<1>4. ASSUME NEW i \in Inits, Step(i) PROVE Serial'
  BY <1>1, <1>2, <1>3, <1>4, BeginSerial, SeedSerial, WriteSerial, SetMetaSerial, FailSerial DEF Step
<1>5. CASE UNCHANGED vars
  BY <1>3, <1>5 DEF Serial, OneRunning, NotReady, InHand, Holds, OnItsChain, Wrote, KeysMatchSeeds,
       OneChain, GivenSeeds, GivenLate, Seeded, Upserted, HotOnly, At, vars
<1>6. QED
  BY <1>1, <1>2, <1>3, <1>4, <1>5, HandOutSerial DEF Next

(* Killed and run again any number of times, init leaves a viewing key of  *)
(* the seed in the wallet's file, as long as no two inits ran at once.     *)
THEOREM KeysAlwaysMatch == Spec => []KeysMatchSeeds
<1>1. SerialInv => KeysMatchSeeds
  BY DEF SerialInv, Serial, KeysMatchSeeds
<1>2. QED
  BY <1>1, InitIInv, SerialNext, PTL DEF Spec

(* Inits against different nodes, one after the other, never mix their     *)
(* chains in a directory marked initialized.                               *)
THEOREM AlwaysOneChain == Spec => []OneChain
<1>1. SerialInv => OneChain
  BY DEF SerialInv, Serial, OneChain
<1>2. QED
  BY <1>1, InitIInv, SerialNext, PTL DEF Spec

(* The seed of every deposit address handed out, also of one handed out    *)
(* between two inits, is the one on disk, and the addresses of an          *)
(* initialized directory are of its coin type.                             *)
THEOREM GivenStaysSpendable == Spec => []AddressesSpendable
<1>1. SerialInv => AddressesSpendable
  BY DEF SerialInv, Serial, GivenSeeds, GivenLate, AddressesSpendable, IInv, SetupTypeOK
<1>2. QED
  BY <1>1, InitIInv, SerialNext, PTL DEF Spec

(* No step of an init, begun before or after, writes a seed file or a      *)
(* wallets row of a directory that is marked initialized.                  *)
THEOREM InitializedStaysFinal == Spec => InitializedIsFinal
<1>1. ASSUME SerialInv, [Next]_vars, meta.initialized, ~overlapped
      PROVE  UNCHANGED <<seedFile, row>>
  <2>1. \A i \in Inits : init[i].pc \notin Running
    BY <1>1 DEF SerialInv, Serial, NotReady
  <2>2. \A i \in Inits : ~WriteSeed(i) /\ ~UpsertWallet(i)
    BY <2>1 DEF WriteSeed, UpsertWallet, At, Running
  <2>3. CASE UNCHANGED vars
    BY <2>3 DEF vars
  <2>4. ASSUME NEW i \in Inits, Step(i) PROVE UNCHANGED <<seedFile, row>>
    BY <2>2, <2>4 DEF Step, Begin, ReadSeed, DrawSeed, EnsureScanCursor, SetMetaKeys, SetMeta, Fail, stored
  <2>5. QED
    BY <1>1, <2>3, <2>4 DEF Next, HandOutAddress, stored
<1>2. SerialInv /\ [Next]_vars => [meta.initialized /\ ~overlapped => UNCHANGED <<seedFile, row>>]_vars
  BY <1>1
<1>3. QED
  BY <1>2, InitIInv, SerialNext, PTL DEF Spec, InitializedIsFinal

=============================================================================
