------------------------------- MODULE Setup --------------------------------
(***************************************************************************)
(* `juno-exchange-kit init`: two seed files, two wallets rows, two scan    *)
(* cursors and the meta keys that say the data directory is ready.  Every  *)
(* one is a write of its own, so an init can be killed after any of them   *)
(* and run again, against the same node or another one, or at the same     *)
(* time as another init.  Deposit addresses may be handed out meanwhile.   *)
(*                                                                         *)
(* A viewing key is the pair of the seed and the chain whose coin type it  *)
(* was derived for.  A half-written seed file is not modelled: the write   *)
(* of its 89 bytes either leaves it empty or complete.                     *)
(***************************************************************************)
EXTENDS Integers

CONSTANTS
  Inits,     \* invocations of init
  Chain,     \* chains a node may serve
  NoChain    \* no RPC configured, or nothing stored

ASSUME SetupAssumption == NoChain \notin Chain

Wallet == {"hot", "cold"}
NoSeed == 0
NoRow  == [seed |-> NoSeed, chain |-> NoChain]

VARIABLES
  seedFile,    \* Wallet -> the seed in keys/<wallet>.seed
  row,         \* Wallet -> what its ufvk was derived from
  cursors,     \* wallets with a scan_cursors row
  meta,        \* ua_hrp, coin_type and initialized
  init,        \* Inits -> what the process does and knows
  given,       \* deposit addresses handed out
  nextSeed,    \* the next seed rand.Read returns
  overlapped,  \* history: an init began while another was running
  lost         \* history: a SetMeta failed, which init ignores

vars == <<seedFile, row, cursors, meta, init, given, nextSeed, overlapped, lost>>
stored == <<seedFile, row, cursors, meta>>

Running == {"seed", "upsert", "cursor", "ua_hrp", "coin_type", "initialized"}
Over    == {"ok", "refused", "failed"}

Seed == 0..(nextSeed - 1)
Key  == [seed : Seed, chain : Chain \cup {NoChain}]

SetupTypeOK ==
  /\ nextSeed \in Nat \ {NoSeed}
  /\ seedFile \in [Wallet -> Seed]
  /\ row \in [Wallet -> Key]
  /\ cursors \subseteq Wallet
  /\ meta \in [ua_hrp : Chain \cup {NoChain}, coin_type : Chain \cup {NoChain},
               initialized : BOOLEAN]
  /\ init \in [Inits -> [pc : {"new"} \cup Running \cup Over, wallet : Wallet,
                         chain : Chain \cup {NoChain}, seeds : [Wallet -> Seed]]]
  /\ given \subseteq [key : Key, early : BOOLEAN]
  /\ overlapped \in BOOLEAN /\ lost \in BOOLEAN

Init ==
  /\ nextSeed = 1
  /\ seedFile = [w \in Wallet |-> NoSeed]
  /\ row = [w \in Wallet |-> NoRow]
  /\ cursors = {}
  /\ meta = [ua_hrp |-> NoChain, coin_type |-> NoChain, initialized |-> FALSE]
  /\ init = [i \in Inits |-> [pc |-> "new", wallet |-> "hot", chain |-> NoChain,
                              seeds |-> [w \in Wallet |-> NoSeed]]]
  /\ given = {}
  /\ overlapped = FALSE /\ lost = FALSE

-----------------------------------------------------------------------------
(* Everything is done for the hot wallet and then for the cold one.        *)
Following == [seed |-> "upsert", upsert |-> "cursor", cursor |-> "ua_hrp"]

Proceed(i) ==
  init' = [init EXCEPT
    ![i].pc     = IF init[i].wallet = "hot" THEN @ ELSE Following[@],
    ![i].wallet = IF @ = "hot" THEN "cold" ELSE "hot"]

At(i, pc) == init[i].pc = pc

Answer_IgnoresFlag(chain) == IF chain = NoChain THEN "refused" ELSE "seed"

(* An initialized directory is left alone; init only compares it with the  *)
(* chain of the node, if there is one.                                     *)
Answer(chain) ==
  IF meta.initialized
  THEN IF chain # NoChain /\ \E stays \in {meta.ua_hrp, meta.coin_type} \ {NoChain} : stays # chain
       THEN "refused" ELSE "ok"
  ELSE IF chain = NoChain THEN "refused" ELSE "seed"

Begin(i) ==
  /\ At(i, "new")
  /\ \E chain \in Chain \cup {NoChain} :
       init' = [init EXCEPT ![i].pc = Answer(chain), ![i].chain = chain]
  /\ overlapped' = (overlapped \/ \E j \in Inits : init[j].pc \in Running)
  /\ UNCHANGED <<stored, given, nextSeed, lost>>

(* ensureSeedFile: a seed that is there is used. *)
ReadSeed(i) ==
  LET w == init[i].wallet
  IN  /\ At(i, "seed") /\ init[i].seeds[w] = NoSeed /\ seedFile[w] # NoSeed
      /\ init' = [init EXCEPT
           ![i].seeds[w] = seedFile[w],
           ![i].pc       = IF w = "hot" THEN @ ELSE Following[@],
           ![i].wallet   = IF @ = "hot" THEN "cold" ELSE "hot"]
      /\ UNCHANGED <<stored, given, nextSeed, overlapped, lost>>

DrawSeed_Always(i) ==
  LET w == init[i].wallet
  IN  /\ At(i, "seed") /\ init[i].seeds[w] = NoSeed
      /\ init' = [init EXCEPT ![i].seeds[w] = nextSeed]
      /\ nextSeed' = nextSeed + 1
      /\ UNCHANGED <<stored, given, overlapped, lost>>

(* Otherwise a new one is drawn, and written in a step of its own. *)
DrawSeed(i) ==
  LET w == init[i].wallet
  IN  /\ At(i, "seed") /\ init[i].seeds[w] = NoSeed /\ seedFile[w] = NoSeed
      /\ init' = [init EXCEPT ![i].seeds[w] = nextSeed]
      /\ nextSeed' = nextSeed + 1
      /\ UNCHANGED <<stored, given, overlapped, lost>>

WriteSeed(i) ==
  LET w == init[i].wallet
  IN  /\ At(i, "seed") /\ init[i].seeds[w] # NoSeed
      /\ seedFile' = [seedFile EXCEPT ![w] = init[i].seeds[w]]
      /\ Proceed(i)
      /\ UNCHANGED <<row, cursors, meta, given, nextSeed, overlapped, lost>>

UpsertWallet_KeepsRow(i) ==
  LET w == init[i].wallet
  IN  /\ At(i, "upsert")
      /\ row' = IF row[w] # NoRow THEN row
                ELSE [row EXCEPT ![w] = [seed |-> init[i].seeds[w], chain |-> init[i].chain]]
      /\ Proceed(i)
      /\ UNCHANGED <<seedFile, cursors, meta, given, nextSeed, overlapped, lost>>

UpsertWallet(i) ==
  LET w == init[i].wallet
  IN  /\ At(i, "upsert")
      /\ row' = [row EXCEPT ![w] = [seed |-> init[i].seeds[w], chain |-> init[i].chain]]
      /\ Proceed(i)
      /\ UNCHANGED <<seedFile, cursors, meta, given, nextSeed, overlapped, lost>>

EnsureScanCursor(i) ==
  /\ At(i, "cursor")
  /\ cursors' = cursors \cup {init[i].wallet}
  /\ Proceed(i)
  /\ UNCHANGED <<seedFile, row, meta, given, nextSeed, overlapped, lost>>

-----------------------------------------------------------------------------
(* SetMeta, whose error init does not look at: the key may be left as it   *)
(* was.  The keys no command reads (account, chain) are left out.          *)

SetMeta(i, key, value, next) ==
  /\ At(i, key)
  /\ \/ meta' = [meta EXCEPT ![key] = value] /\ UNCHANGED lost
     \/ UNCHANGED meta /\ lost' = TRUE
  /\ init' = [init EXCEPT ![i].pc = next]
  /\ UNCHANGED <<seedFile, row, cursors, given, nextSeed, overlapped>>

SetMetaKeys_ChainAsFlag(i) ==
  \/ SetMeta(i, "ua_hrp", init[i].chain, "coin_type")
  \/ SetMeta(i, "coin_type", init[i].chain, "initialized")
  \/ SetMeta(i, "initialized", init[i].chain, "ok")

SetMetaKeys_ReadyFirst(i) ==
  \/ SetMeta(i, "ua_hrp", init[i].chain, "initialized")
  \/ SetMeta(i, "initialized", TRUE, "coin_type")
  \/ SetMeta(i, "coin_type", init[i].chain, "ok")

SetMetaKeys(i) ==
  \/ SetMeta(i, "ua_hrp", init[i].chain, "coin_type")
  \/ SetMeta(i, "coin_type", init[i].chain, "initialized")
  \/ SetMeta(i, "initialized", TRUE, "ok")

(* Killed, out of its minute, or one of the writes it does look at failed. *)
Fail(i) ==
  /\ init[i].pc \in Running
  /\ init' = [init EXCEPT ![i].pc = "failed"]
  /\ UNCHANGED <<stored, given, nextSeed, overlapped, lost>>

(* `account deposit-address`, which asks for ua_hrp and the hot wallet but *)
(* not for initialized.                                                    *)
HandOutAddress ==
  /\ meta.ua_hrp # NoChain /\ row["hot"] # NoRow
  /\ given' = given \cup {[key |-> row["hot"], early |-> ~meta.initialized]}
  /\ UNCHANGED <<stored, init, nextSeed, overlapped, lost>>

Step(i) ==
  \/ Begin(i) \/ ReadSeed(i) \/ DrawSeed(i) \/ WriteSeed(i)
  \/ UpsertWallet(i) \/ EnsureScanCursor(i) \/ SetMetaKeys(i)
  \/ Fail(i)

Next == (\E i \in Inits : Step(i)) \/ HandOutAddress

Spec == Init /\ [][Next]_vars

-----------------------------------------------------------------------------
(* A directory marked initialized, and one for which an init answered ok,  *)
(* has both wallets, both cursors and both meta keys every other command   *)
(* asks for, whatever inits overlapped or were killed; but not when        *)
(* SetMeta failed, which init ignores (init.go).                           *)
InitializedIsComplete ==
  ~lost /\ (meta.initialized \/ \E i \in Inits : At(i, "ok")) =>
    /\ cursors = Wallet
    /\ \A w \in Wallet : row[w] # NoRow
    /\ meta.ua_hrp # NoChain /\ meta.coin_type # NoChain

(* However often init is killed and run again, if never twice at once, a   *)
(* wallet's viewing key belongs to the seed in its file, with which        *)
(* withdrawals are signed.                                                 *)
KeysMatchSeeds ==
  ~overlapped => \A w \in Wallet : row[w] # NoRow => row[w].seed = seedFile[w]

(* Inits against different nodes do not mix: what is marked initialized    *)
(* has one chain in both wallets and both keys.                            *)
OneChain ==
  ~overlapped /\ ~lost /\ meta.initialized =>
    \E chain \in Chain : /\ meta.ua_hrp = chain /\ meta.coin_type = chain
                         /\ \A w \in Wallet : row[w].chain = chain

(* An address a user was given can be spent from with the seed on disk,    *)
(* and, if it was given after init was complete, under the stored coin     *)
(* type.  One given before, while ua_hrp was stored and initialized was    *)
(* not, may belong to a chain the next init replaces.                      *)
AddressesSpendable ==
  ~overlapped /\ ~lost => \A x \in given :
    /\ x.key.seed = seedFile["hot"]
    /\ x.early \/ x.key.chain = meta.coin_type

(* Init never touches the keys of an initialized directory. *)
InitializedIsFinal ==
  [][meta.initialized /\ ~overlapped => UNCHANGED <<seedFile, row>>]_vars

=============================================================================
