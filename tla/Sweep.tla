-------------------------------- MODULE Sweep --------------------------------
(***************************************************************************)
(* `sweep consolidate` and `sweep to-cold`: every note the scanner lists   *)
(* for the hot wallet goes to one internal hot address, or to the first    *)
(* address of the cold wallet, in several transactions that are planned    *)
(* and signed together and then submitted one by one.  A sweep writes      *)
(* nothing to the ledger.                                                  *)
(***************************************************************************)
EXTENDS Wallets, Splitting

CONSTANTS
  Sweeper,    \* sweep commands
  MaxSpends   \* notes in one transaction (200 in the code)

ASSUME SweepAssumption ==
  /\ Sweeper \subseteq Sender
  /\ MaxSpends \in Nat /\ MaxSpends >= 2

VARIABLE sweep   \* Sweeper -> what the process knows

SweepRecord ==
  [pc     : {"new", "addressed", "planned", "failed", "done"},
   to     : [wallet : Wallet, scope : Scope, out : Nat],
   listed : SUBSET Coin,           \* the notes listed when it planned (history)
   chunks : Seq(SUBSET Coin),      \* the notes of each transaction
   sent   : Nat]                   \* how many of them were submitted

Address(wallet, scope, index) == [wallet |-> wallet, scope |-> scope, out |-> index]

NewSweep == [pc |-> "new", to |-> Address("hot", "internal", 0),
             listed |-> {}, chunks |-> <<>>, sent |-> 0]

SweepTypeOK ==
  /\ sweep \in [Sweeper -> SweepRecord]
  /\ \A s \in Sweeper : sweep[s].sent <= Len(sweep[s].chunks)

SweepInit == sweep = [s \in Sweeper |-> NewSweep]

-----------------------------------------------------------------------------
Aim(s, address) == sweep' = [sweep EXCEPT ![s].pc = "addressed", ![s].to = address]

(* One fresh address for all the transactions of the command. *)
Consolidate(s) ==
  /\ sweep[s].pc = "new"
  /\ Aim(s, Address("hot", "internal", nextInternal["hot"]))
  /\ NextInternalAddress("hot")
  /\ UNCHANGED nodeVars

(* Always external index 0, which is derived and not taken. *)
ToCold(s) ==
  /\ sweep[s].pc = "new"
  /\ Aim(s, Address("cold", "external", 0))
  /\ UNCHANGED <<nodeVars, nextInternal>>

PlanSweepMany_AnyWorth(s) ==
  /\ sweep[s].pc = "addressed"
  /\ \E listed \in Listings("hot") \ {{}} : \E chunks \in Splits(listed, MaxSpends) :
        sweep' = [sweep EXCEPT ![s].pc = "planned", ![s].listed = listed, ![s].chunks = chunks]
  /\ UNCHANGED <<nodeVars, nextInternal>>

(* One listing for all transactions; one that is not worth its fee fails   *)
(* the command.                                                            *)
PlanSweepMany(s) ==
  /\ sweep[s].pc = "addressed"
  /\ \E listed \in Listings("hot") \ {{}} : \E chunks \in Splits(listed, MaxSpends) :
        /\ \A c \in DOMAIN chunks : Yield(chunks[c]) \in 1..Supply
        /\ sweep' = [sweep EXCEPT ![s].pc = "planned", ![s].listed = listed, ![s].chunks = chunks]
  /\ UNCHANGED <<nodeVars, nextInternal>>

(* The command ends, and what it knew is lost. *)
FailSweep(s) == sweep' = [sweep EXCEPT ![s] = [NewSweep EXCEPT !.pc = "failed"]]

(* Nothing to sweep, no scanner, no signer, killed, out of its seven       *)
(* minutes: what was submitted before stays submitted.                     *)
SweepFails(s) ==
  /\ sweep[s].pc \in {"addressed", "planned"}
  /\ FailSweep(s)
  /\ UNCHANGED <<nodeVars, nextInternal>>

NextChunk(s) == sweep[s].chunks[sweep[s].sent + 1]

(* The only output: all the notes are worth but the fee. *)
Swept(s) ==
  {[wallet |-> sweep[s].to.wallet, scope |-> sweep[s].to.scope, tx |-> NextTx,
    out |-> sweep[s].to.out, zat |-> Yield(NextChunk(s))]}

OfferChunk(s) == Accept(s, NextChunk(s), Swept(s), 0, SweepFee(NextChunk(s)))

SubmitChunk(s) ==
  /\ sweep[s].pc = "planned"
  /\ OfferChunk(s)
  /\ sweep' = [sweep EXCEPT ![s].sent = @ + 1,
                            ![s].pc = IF sweep[s].sent + 1 < Len(sweep[s].chunks) THEN "planned" ELSE "done"]
  /\ UNCHANGED nextInternal

(* "broadcast_failed": what comes after is not tried. *)
ChunkRejected(s) ==
  /\ sweep[s].pc = "planned"
  /\ ~Spendable(NextChunk(s))
  /\ FailSweep(s)
  /\ UNCHANGED <<nodeVars, nextInternal>>

ChunkUnanswered_TriesAgain(s) ==
  /\ sweep[s].pc = "planned"
  /\ OfferChunk(s)
  /\ UNCHANGED <<nextInternal, sweep>>

(* The node has it, the answer was lost. *)
ChunkUnanswered(s) ==
  /\ sweep[s].pc = "planned"
  /\ OfferChunk(s)
  /\ FailSweep(s)
  /\ UNCHANGED nextInternal

SweepStep(s) ==
  \/ Consolidate(s)
  \/ ToCold(s)
  \/ PlanSweepMany(s)
  \/ SweepFails(s)
  \/ SubmitChunk(s)
  \/ ChunkRejected(s)
  \/ ChunkUnanswered(s)

-----------------------------------------------------------------------------
SentBy(s) == {i \in DOMAIN txs : txs[i].by = s}

(* A sweep that reports success has spent every note it listed, each in    *)
(* exactly one transaction of a size the signer accepts; none is lost      *)
(* between two transactions or left over at the end.                       *)
SweepsAll ==
  \A s \in Sweeper : sweep[s].pc = "done" =>
     /\ UNION {txs[i].inputs : i \in SentBy(s)} = sweep[s].listed
     /\ \A i \in SentBy(s) : Cardinality(txs[i].inputs) \in 1..MaxSpends
     /\ \A i, j \in SentBy(s) : i # j => txs[i].inputs \cap txs[j].inputs = {}
     /\ NothingToBorrow(sweep[s].chunks)

(* The transactions of a sweep do not stand in each other's way: one that  *)
(* would be rejected competes with another command's.                      *)
RejectedForOthers ==
  \A s \in Sweeper :
     sweep[s].pc = "planned" /\ ~Spendable(NextChunk(s)) =>
        \E i \in Live : txs[i].by # s /\ txs[i].inputs \cap NextChunk(s) # {}

=============================================================================
