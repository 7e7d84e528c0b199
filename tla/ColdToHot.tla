------------------------------ MODULE ColdToHot ------------------------------
(***************************************************************************)
(* `cold-to-hot plan`, `sign` and `broadcast`: a transfer is a plan file,  *)
(* then a file with a signed transaction, which an operator carries from   *)
(* one machine to the other and may broadcast late, twice or never.        *)
(* Nothing but the files remembers a transfer.                             *)
(***************************************************************************)
EXTENDS Wallets, Spending

CONSTANTS
  Transfer,      \* transfers, each one plan
  MovedAmount    \* amounts asked for

ASSUME ColdToHotAssumption ==
  /\ Transfer \subseteq Sender
  /\ MovedAmount \subseteq 1..Supply

VARIABLE transfer   \* Transfer -> the plan command, then its files

TransferRecord ==
  [pc     : {"new", "hot_addressed", "addressed", "refused", "planned", "signed"},
   amount : 0..Supply,
   to     : Nat,                 \* internal index of the hot wallet
   change : Nat,                 \* internal index of the cold wallet
   inputs : SUBSET Coin,
   rest   : 0..Supply,
   fee    : Nat]

NewTransfer == [pc |-> "new", amount |-> 0, to |-> 0, change |-> 0,
                inputs |-> {}, rest |-> 0, fee |-> 0]

ColdToHotTypeOK == transfer \in [Transfer -> TransferRecord]

ColdToHotInit == transfer = [t \in Transfer |-> NewTransfer]

-----------------------------------------------------------------------------
(* plan: both addresses are taken before anything is planned. *)
TakeHotAddress(t, amount) ==
  /\ transfer[t].pc = "new"
  /\ transfer' = [transfer EXCEPT ![t].pc = "hot_addressed", ![t].amount = amount,
                                  ![t].to = nextInternal["hot"]]
  /\ NextInternalAddress("hot")
  /\ UNCHANGED nodeVars

TakeColdAddress(t) ==
  /\ transfer[t].pc = "hot_addressed"
  /\ transfer' = [transfer EXCEPT ![t].pc = "addressed", ![t].change = nextInternal["cold"]]
  /\ NextInternalAddress("cold")
  /\ UNCHANGED nodeVars

(* planSend over the notes of the cold wallet, and the plan file. *)
PlanRebalance(t) ==
  /\ transfer[t].pc = "addressed"
  /\ \E listed \in Listings("cold") : \E notes \in Selections(listed, transfer[t].amount, 1) :
        LET fee == RequiredFeeSend(Cardinality(notes), 2)
        IN  \E rest \in 0..Supply :
              /\ Value(notes) = transfer[t].amount + fee + rest
              /\ transfer' = [transfer EXCEPT ![t].pc = "planned", ![t].inputs = notes,
                                              ![t].rest = rest, ![t].fee = fee]
  /\ UNCHANGED <<nodeVars, nextInternal>>

(* No liquidity in cold, no scanner, killed: no file, but the indices are  *)
(* gone.                                                                   *)
RefusePlan(t) ==
  /\ transfer[t].pc \in {"hot_addressed", "addressed"}
  /\ transfer' = [transfer EXCEPT ![t] = [NewTransfer EXCEPT !.pc = "refused"]]
  /\ UNCHANGED <<nodeVars, nextInternal>>

(* sign: from the plan file to the transaction file, with the seed and     *)
(* without the network.  Signing again gives the same spends and outputs.  *)
Sign(t) ==
  /\ transfer[t].pc = "planned"
  /\ transfer' = [transfer EXCEPT ![t].pc = "signed"]
  /\ UNCHANGED <<nodeVars, nextInternal>>

Moved_WithoutChange(t) ==
  {[wallet |-> "hot", scope |-> "internal", tx |-> NextTx,
    out |-> transfer[t].to, zat |-> transfer[t].amount]}

Moved_ChangeToHot(t) ==
  {[wallet |-> "hot", scope |-> "internal", tx |-> NextTx,
    out |-> transfer[t].to, zat |-> transfer[t].amount]} \cup
  IF transfer[t].rest = 0 THEN {}
  ELSE {[wallet |-> "hot", scope |-> "internal", tx |-> NextTx,
         out |-> transfer[t].change, zat |-> transfer[t].rest]}

Moved(t) ==
  {[wallet |-> "hot", scope |-> "internal", tx |-> NextTx,
    out |-> transfer[t].to, zat |-> transfer[t].amount]} \cup
  IF transfer[t].rest = 0 THEN {}
  ELSE {[wallet |-> "cold", scope |-> "internal", tx |-> NextTx,
         out |-> transfer[t].change, zat |-> transfer[t].rest]}

(* The plan's expiry height lies in the past. *)
TransferExpired(t) == \E i \in DOMAIN txs : txs[i].by = t /\ txs[i].state = "expired"

(* broadcast, as often as somebody has the file.  One that is refused, or  *)
(* whose answer is lost, leaves nothing behind in this program.            *)
Broadcast_PlansAgain(t) ==
  /\ transfer[t].pc = "signed"
  /\ \E notes \in Selections(coins, transfer[t].amount, 1) :
        Accept(t, notes, Moved(t), 0, transfer[t].fee)
  /\ UNCHANGED <<nextInternal, transfer>>

Broadcast(t) ==
  /\ transfer[t].pc = "signed"
  /\ ~TransferExpired(t)
  /\ Accept(t, transfer[t].inputs, Moved(t), 0, transfer[t].fee)
  /\ UNCHANGED <<nextInternal, transfer>>

TransferStep(t) ==
  \/ \E amount \in MovedAmount : TakeHotAddress(t, amount)
  \/ TakeColdAddress(t)
  \/ PlanRebalance(t)
  \/ RefusePlan(t)
  \/ Sign(t)
  \/ Broadcast(t)

-----------------------------------------------------------------------------
(* However often its file is broadcast, a transfer moves money once: while *)
(* one of its transactions is on its way or mined no other is accepted.    *)
TransferOnce ==
  \A t \in Transfer : \A i, j \in Live : txs[i].by = t /\ txs[j].by = t => i = j

=============================================================================
