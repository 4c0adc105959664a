----------------------------- MODULE Redemptions -----------------------------
(***************************************************************************)
(* The reward shop: redeem, verify (markUsedByCode) and cancelAndRefund as *)
(* concurrent requests against the rewards, redemptions and points tables, *)
(* while admins edit rewards, codes expire and points are earned.          *)
(*                                                                         *)
(* A redemption is named by the idempotency key of its debit: the column   *)
(* point_txn_id is unique, so a key has one redemption at most.  A request *)
(* without a client key is one with a key nobody else uses.  Reads between *)
(* two writes are steps of their own, because the code makes them outside  *)
(* the transaction that uses them.                                         *)
(***************************************************************************)
EXTENDS PointsTables, FiniteSets

CONSTANTS
  Rewards,
  ClientKeys,    \* idempotency keys of redeem requests
  Costs,         \* reward.costPoints
  Capacities,    \* reward.capacity, NoLimit when there is none
  NoLimit,
  Edits,         \* what an admin may make of a reward: [open, cost, capacity]
  Calls,         \* slots for requests in flight
  Purchases,     \* redeem requests: [user, reward, key]
  NoRow,
  Grant,         \* points of one award
  Correction,    \* points an admin takes back
  MaxInFlight    \* bound on concurrent requests

Key(kind, id) == [kind |-> kind, id |-> id]

LedgerKeys ==
  [kind : {"award", "adjust"}, id : Users] \cup [kind : {"redeem", "refund"}, id : ClientKeys]

ASSUME RedemptionConstants ==
  /\ Costs \subseteq Nat \ {0}
  /\ Capacities \subseteq Nat \cup {NoLimit}
  /\ NoLimit \notin Nat
  /\ Edits \subseteq [open : BOOLEAN, cost : Costs, capacity : Capacities]
  /\ IsFiniteSet(ClientKeys)
  /\ Purchases \subseteq [user : Users, reward : Rewards, key : ClientKeys]
  /\ Purchases # {}
  /\ Keys = LedgerKeys
  /\ Amounts = Costs \cup {-x : x \in Costs} \cup {Grant, -Correction}
  /\ Grant \in Nat /\ Correction \in Nat
  /\ NoRow \notin [user : Users, reward : Rewards, cost : Costs,
                   status : {"active", "used", "cancelled"}, expired : BOOLEAN]
  /\ MaxInFlight \in Nat

VARIABLES
  reward,       \* rewards: [open, cost, capacity, sold]
  redemption,   \* redemptions, by the key of their debit
  pc,           \* where each request stands
  req,          \* what it asks: a purchase, or the key of a redemption
  price         \* reward.costPoints as the request read it

vars == <<balance, ledger, reward, redemption, pc, req, price>>

Row == [user : Users, reward : Rewards, cost : Costs,
        status : {"active", "used", "cancelled"}, expired : BOOLEAN]

RewardRow == [open : BOOLEAN, cost : Costs, capacity : Capacities, sold : Int]

Steps == {"idle",
          "redeem", "listed", "unclaimed", "affordable",
          "verify", "verified",
          "cancel", "cancellable", "refund_new", "refund_known"}

ShopTypeOK ==
  /\ TablesTypeOK
  /\ reward \in [Rewards -> RewardRow]
  /\ redemption \in [ClientKeys -> Row \cup {NoRow}]
  /\ pc \in [Calls -> Steps]
  /\ req \in [Calls -> Purchases]
  /\ price \in [Calls -> Costs \cup {0}]

Stocked(e, n) == [open |-> e.open, cost |-> e.cost, capacity |-> e.capacity, sold |-> n]

(* What req holds of an idle slot; nobody reads it.                        *)
NoRequest == CHOOSE p \in Purchases : TRUE

Init ==
  /\ TablesInit
  /\ reward \in [Rewards -> {Stocked(e, 0) : e \in Edits}]
  /\ redemption = [k \in ClientKeys |-> NoRow]
  /\ pc = [c \in Calls |-> "idle"]
  /\ req = [c \in Calls |-> NoRequest]
  /\ price = [c \in Calls |-> 0]

-----------------------------------------------------------------------------
Exists(k) == redemption[k] # NoRow

Claimed(p) ==
  /\ Exists(p.key)
  /\ redemption[p.key].user = p.user
  /\ redemption[p.key].reward = p.reward

(* Off by one: the last sale goes through twice.                           *)
MutantHasStock(row) == row.capacity # NoLimit => row.sold <= row.capacity

HasStock(row) == row.capacity # NoLimit => row.sold < row.capacity

(* expires_at is only ever looked at while the status is active.           *)
Closed(row, status) == [row EXCEPT !.status = status, !.expired = FALSE]

InFlight == {c \in Calls : pc[c] # "idle"}

(* Request c moves on to step s, or is answered: served, refused by a      *)
(* check, or failed.                                                       *)
Goto(c, s) == pc' = [pc EXCEPT ![c] = s] /\ UNCHANGED <<req, price>>

Answer(c) ==
  /\ pc' = [pc EXCEPT ![c] = "idle"]
  /\ req' = [req EXCEPT ![c] = NoRequest]
  /\ price' = [price EXCEPT ![c] = 0]

(* A redeem request comes from anyone; verify and cancel name a redemption *)
(* that exists (its code, its id: rows are never deleted).                 *)
Request(c) ==
  /\ pc[c] = "idle"
  /\ Cardinality(InFlight) < MaxInFlight
  /\ \E p \in Purchases, s \in {"redeem", "verify", "cancel"} :
       /\ s # "redeem" => Claimed(p)
       /\ req' = [req EXCEPT ![c] = p]
       /\ pc' = [pc EXCEPT ![c] = s]
  /\ UNCHANGED <<tables, reward, redemption, price>>

-----------------------------------------------------------------------------
(* The price is never noted.                                               *)
MutantReadReward(c) ==
  /\ pc[c] = "redeem"
  /\ IF reward[req[c].reward].open THEN Goto(c, "listed") ELSE Answer(c)
  /\ UNCHANGED <<tables, reward, redemption>>

(* redeem: the reward row, read once, decides availability and stock, and  *)
(* its cost is the one that is charged.                                    *)
ReadReward(c) ==
  LET row == reward[req[c].reward] IN
  /\ pc[c] = "redeem"
  /\ IF row.open /\ HasStock(row)
       THEN /\ pc' = [pc EXCEPT ![c] = "listed"]
            /\ price' = [price EXCEPT ![c] = row.cost]
            /\ UNCHANGED req
       ELSE Answer(c)
  /\ UNCHANGED <<tables, reward, redemption>>

(* redeem: a redemption made under this key before is the answer.          *)
FindExisting(c) ==
  /\ pc[c] = "listed"
  /\ IF Claimed(req[c]) THEN Answer(c) ELSE Goto(c, "unclaimed")
  /\ UNCHANGED <<tables, reward, redemption>>

(* Any points at all are enough.                                           *)
MutantCheckBalance(c) ==
  /\ pc[c] = "unclaimed"
  /\ IF balance[req[c].user] <= 0 THEN Answer(c) ELSE Goto(c, "affordable")
  /\ UNCHANGED <<tables, reward, redemption>>

CheckBalance(c) ==
  /\ pc[c] = "unclaimed"
  /\ IF balance[req[c].user] < price[c]
       THEN Answer(c)
       ELSE Goto(c, "affordable")
  /\ UNCHANGED <<tables, reward, redemption>>

(* A key already posted has its redemption written again, as an upsert.    *)
MutantRedeemUpserts(c) ==
  LET p == req[c] IN
  /\ pc[c] = "affordable"
  /\ IF KeyUsed(Key("redeem", p.key))
       THEN UNCHANGED tables
       ELSE PostEntry(p.user, Key("redeem", p.key), -price[c])
  /\ redemption' = [redemption EXCEPT ![p.key] =
       [user |-> p.user, reward |-> p.reward, cost |-> price[c], status |-> "active", expired |-> FALSE]]
  /\ reward' = [reward EXCEPT ![p.reward].sold = @ + 1]
  /\ Answer(c)

(* The current price is charged while the row keeps the one first read.    *)
MutantRedeemChargesNewPrice(c) ==
  LET p == req[c] IN
  /\ pc[c] = "affordable"
  /\ p.user \notin Blocked /\ ~KeyUsed(Key("redeem", p.key))
  /\ PostEntry(p.user, Key("redeem", p.key), -reward[p.reward].cost)
  /\ redemption' = [redemption EXCEPT ![p.key] =
       [user |-> p.user, reward |-> p.reward, cost |-> price[c], status |-> "active", expired |-> FALSE]]
  /\ reward' = [reward EXCEPT ![p.reward].sold = @ + 1]
  /\ Answer(c)

(* redeem's transaction: debit, insert the redemption, count the sale, all *)
(* or nothing.  A key that is already posted answers the lookup in post    *)
(* with a debit that has its redemption, so the insert violates            *)
(* point_txn_id; a colliding code ends the transaction in the same way.    *)
RedeemCommit(c) ==
  LET p == req[c] IN
  /\ pc[c] = "affordable"
  /\ IF p.user \in Blocked \/ KeyUsed(Key("redeem", p.key))
       THEN Answer(c) /\ UNCHANGED <<tables, reward, redemption>>
       ELSE /\ PostEntry(p.user, Key("redeem", p.key), -price[c])
            /\ redemption' = [redemption EXCEPT ![p.key] =
                 [user |-> p.user, reward |-> p.reward, cost |-> price[c],
                  status |-> "active", expired |-> FALSE]]
            /\ reward' = [reward EXCEPT ![p.reward].sold = @ + 1]
            /\ Answer(c)

-----------------------------------------------------------------------------
(* markUsedByCode: the row is checked, then updated by id unconditionally. *)
MutantVerifyRead(c) ==
  /\ pc[c] = "verify"
  /\ IF ~redemption[req[c].key].expired
       THEN Goto(c, "verified")
       ELSE Answer(c)
  /\ UNCHANGED <<tables, reward, redemption>>

VerifyRead(c) ==
  LET k == req[c].key IN
  /\ pc[c] = "verify"
  /\ IF redemption[k].status = "active" /\ ~redemption[k].expired
       THEN Goto(c, "verified")
       ELSE Answer(c)
  /\ UNCHANGED <<tables, reward, redemption>>

VerifyWrite(c) ==
  /\ pc[c] = "verified"
  /\ redemption' = [redemption EXCEPT ![req[c].key] = Closed(@, "used")]
  /\ Answer(c)
  /\ UNCHANGED <<tables, reward>>

-----------------------------------------------------------------------------
(* cancelAndRefund: the status is checked before the transaction begins.   *)
CancelRead(c) ==
  LET k == req[c].key IN
  /\ pc[c] = "cancel"
  /\ IF redemption[k].status = "active"
       THEN Goto(c, "cancellable")
       ELSE Answer(c)
  /\ UNCHANGED <<tables, reward, redemption>>

(* The refund's lookup by key, the first statement of the transaction.     *)
RefundLookup(c) ==
  LET k == req[c].key IN
  /\ pc[c] = "cancellable"
  /\ IF KeyUsed(Key("refund", k))
       THEN Goto(c, "refund_known")
       ELSE IF redemption[k].user \in Blocked
              THEN Answer(c)
              ELSE Goto(c, "refund_new")
  /\ UNCHANGED <<tables, reward, redemption>>

(* The refund is what the reward costs now, not what was paid.             *)
MutantRefundAmount(k) == reward[redemption[k].reward].cost

RefundAmount(k) == redemption[k].cost

(* The cancelled sale is not taken off the count.                          *)
MutantCancelled(c) ==
  /\ redemption' = [redemption EXCEPT ![req[c].key] = Closed(@, "cancelled")]
  /\ Answer(c)
  /\ UNCHANGED reward

Cancelled(c) ==
  LET k == req[c].key IN
  /\ redemption' = [redemption EXCEPT ![k] = Closed(@, "cancelled")]
  /\ reward' = [reward EXCEPT ![redemption[k].reward].sold = @ - 1]
  /\ Answer(c)

(* The transaction's commit.  A refund that another cancellation posted    *)
(* after the lookup fails the insert and with it this transaction; one     *)
(* that the lookup found is not posted again, but the rest is done again.  *)
CancelCommit(c) ==
  LET k == req[c].key IN
  \/ /\ pc[c] = "refund_new"
     /\ IF KeyUsed(Key("refund", k))
          THEN Answer(c) /\ UNCHANGED <<tables, reward, redemption>>
          ELSE /\ PostEntry(redemption[k].user, Key("refund", k), RefundAmount(k))
               /\ Cancelled(c)
  \/ /\ pc[c] = "refund_known"
     /\ Cancelled(c)
     /\ UNCHANGED tables

-----------------------------------------------------------------------------
(* The process stops or the database refuses before the commit.            *)
Fail(c) ==
  /\ pc[c] # "idle"
  /\ Answer(c)
  /\ UNCHANGED <<tables, reward, redemption>>

(* An admin edits a reward: any of cost, capacity and availability, with   *)
(* no regard to what is sold.  open also stands for the partner's status   *)
(* and the validity window.                                                *)
EditReward(r) ==
  /\ Cardinality(InFlight) < MaxInFlight
  /\ \E e \in Edits : reward' = [reward EXCEPT ![r] = Stocked(e, @.sold)]
  /\ UNCHANGED <<tables, redemption, pc, req, price>>

(* Fourteen days pass for a code that is still active: expiry is computed  *)
(* from the clock, the status column stays.                                *)
Expire(k) ==
  /\ Exists(k) /\ redemption[k].status = "active"
  /\ redemption' = [redemption EXCEPT ![k].expired = TRUE]
  /\ UNCHANGED <<tables, reward, pc, req, price>>

(* A user earns points (one award each bounds the run).                    *)
Award(u) ==
  /\ u \notin Blocked
  /\ ~KeyUsed(Key("award", u))
  /\ PostEntry(u, Key("award", u), Grant)
  /\ UNCHANGED <<reward, redemption, pc, req, price>>

(* An admin's adjustment may take a balance below zero (one each).         *)
Adjust(u) ==
  /\ Cardinality(InFlight) < MaxInFlight
  /\ Correction # 0
  /\ u \notin Blocked
  /\ ~KeyUsed(Key("adjust", u))
  /\ PostEntry(u, Key("adjust", u), -Correction)
  /\ UNCHANGED <<reward, redemption, pc, req, price>>

Serve(c) ==
  \/ ReadReward(c)
  \/ FindExisting(c)
  \/ CheckBalance(c)
  \/ RedeemCommit(c)
  \/ VerifyRead(c)
  \/ VerifyWrite(c)
  \/ CancelRead(c)
  \/ RefundLookup(c)
  \/ CancelCommit(c)

Next ==
  \/ \E c \in Calls : Request(c) \/ Serve(c) \/ Fail(c)
  \/ \E r \in Rewards : EditReward(r)
  \/ \E k \in ClientKeys : Expire(k)
  \/ \E u \in Users : Award(u) \/ Adjust(u)

Spec == Init /\ [][Next]_vars

-----------------------------------------------------------------------------
(* What holds however requests overlap.                                    *)

(* Points leave an account for a redemption exactly when the redemption    *)
(* exists, from its owner and for its recorded cost.                       *)
DebitIffRedemption ==
  /\ \A k \in ClientKeys : Exists(k) => KeyUsed(Key("redeem", k))
  /\ \A u \in Users : \A i \in DOMAIN ledger[u] :
       LET e == ledger[u][i] IN
       e.key.kind = "redeem" =>
         /\ Exists(e.key.id)
         /\ redemption[e.key.id].user = u
         /\ e.delta = -redemption[e.key.id].cost

(* What is given back is what was paid, to who paid it, and a cancelled    *)
(* redemption has been given back.                                         *)
RefundIsThePayment ==
  /\ \A u \in Users : \A i \in DOMAIN ledger[u] :
       LET e == ledger[u][i] IN
       e.key.kind = "refund" =>
         /\ Exists(e.key.id)
         /\ redemption[e.key.id].user = u
         /\ e.delta = redemption[e.key.id].cost
  /\ \A k \in ClientKeys :
       Exists(k) /\ redemption[k].status = "cancelled" => KeyUsed(Key("refund", k))

SoldOf(r) ==
  {k \in ClientKeys : Exists(k) /\ redemption[k].reward = r /\ redemption[k].status # "cancelled"}

(* No phantom sold-out: the counter that closes a reward never runs ahead  *)
(* of the redemptions that took it.                                        *)
NeverOvercounted == \A r \in Rewards : reward[r].sold <= Cardinality(SoldOf(r))

(* A used or cancelled code is never shown to a barista as active again.   *)
NeverReactivated ==
  [][\A k \in ClientKeys :
       Exists(k) => /\ Exists(k)'
                    /\ redemption[k].status # "active" => redemption'[k].status # "active"]_vars

-----------------------------------------------------------------------------
(* What holds when requests do not overlap.                                *)

(* A sale never takes a reward past its capacity.                          *)
NeverOversold ==
  [][\A r \in Rewards :
       reward'[r].sold > reward[r].sold /\ reward[r].capacity # NoLimit
         => reward'[r].sold <= reward[r].capacity]_vars

(* A redemption never takes a balance below zero.                          *)
RedeemNeverOverdraws ==
  \A u \in Users : \A i \in DOMAIN ledger[u] :
    ledger[u][i].key.kind = "redeem" => ledger[u][i].after >= 0

SoldCountExact == \A r \in Rewards : reward[r].sold = Cardinality(SoldOf(r))

(* Points come back for a redemption exactly when it is cancelled: no code *)
(* is both handed to the barista and refunded.                             *)
RefundIffCancelled ==
  \A k \in ClientKeys :
    KeyUsed(Key("refund", k)) <=> Exists(k) /\ redemption[k].status = "cancelled"

(* A repeated redeem request is never refused by a check: the redemption   *)
(* it made before is its answer.                                           *)
RetryIsNotRefused ==
  [][\A c \in Calls :
       Claimed(req[c]) /\ (ReadReward(c) \/ CheckBalance(c)) => pc'[c] # "idle"]_vars

-----------------------------------------------------------------------------
(* How far requests that overlap can go.                                   *)

(* No admin lowers a capacity, or sets one where there was none.           *)
NeverTightened ==
  [][\A r \in Rewards :
       reward'[r].capacity # NoLimit =>
         reward[r].capacity # NoLimit /\ reward[r].capacity <= reward'[r].capacity]_reward

(* Sales go past a capacity that is never lowered by one less than the     *)
(* requests that may be in flight: all of them may have seen one left.     *)
OversoldAtMost ==
  \A r \in Rewards :
    reward[r].capacity # NoLimit => reward[r].sold <= reward[r].capacity + (MaxInFlight - 1)

(* Redemptions take a balance below zero by one price less than the        *)
(* requests that may be in flight, next to what an admin took back.        *)
TakenBack(u) == IF KeyUsed(Key("adjust", u)) THEN Correction ELSE 0

OverdrawnAtMost(top) ==
  \A u \in Users : balance[u] + TakenBack(u) >= -((MaxInFlight - 1) * top)
=============================================================================
