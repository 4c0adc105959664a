------------------------- MODULE Redemptions_proofs -------------------------
(* The shop, for every set of users, rewards, prices, keys and requests:   *)
(* types, the bond between redemptions, debits and refunds, the sold       *)
(* counter, and the promised ledger.                                       *)
EXTENDS Redemptions, PointsTables_proofs, FiniteSetTheorems

Priced == {"listed", "unclaimed", "affordable"}
Named  == {"verify", "verified", "cancel", "cancellable", "refund_new", "refund_known"}

(* What a request relies on: the price it read, the redemption it was sent *)
(* for, the refund its lookup found.                                       *)
Carries(step, p, x) ==
  /\ step \in Priced => x \in Costs
  /\ step \in Named => Exists(p.key)
  /\ step = "refund_known" => KeyUsed(Key("refund", p.key))

Carried == \A c \in Calls : Carries(pc[c], req[c], price[c])

ShopInv ==
  /\ ShopTypeOK
  /\ Carried
  /\ BalanceMatchesLedger
  /\ DebitIffRedemption
  /\ RefundIsThePayment

-----------------------------------------------------------------------------
(* The kinds of steps.  A request c moves and the others stay.             *)
Moves(c) ==
  /\ pc' \in [Calls -> Steps] /\ req' \in [Calls -> Purchases] /\ price' \in [Calls -> Costs \cup {0}]
  /\ \A d \in Calls \ {c} : pc'[d] = pc[d] /\ req'[d] = req[d] /\ price'[d] = price[d]
  /\ Carries(pc'[c], req'[c], price'[c])

Rows == <<balance, ledger, reward, redemption>>

Thinks(c) == Moves(c) /\ UNCHANGED Rows

Sells(c) ==
  /\ Moves(c)
  /\ price[c] \in Costs /\ ~KeyUsed(Key("redeem", req[c].key))
  /\ PostEntry(req[c].user, Key("redeem", req[c].key), -price[c])
  /\ redemption' = [redemption EXCEPT ![req[c].key] =
       [user |-> req[c].user, reward |-> req[c].reward, cost |-> price[c],
        status |-> "active", expired |-> FALSE]]
  /\ reward' = [reward EXCEPT ![req[c].reward].sold = @ + 1]

Uses(c) ==
  /\ Moves(c)
  /\ Exists(req[c].key)
  /\ redemption' = [redemption EXCEPT ![req[c].key] = Closed(@, "used")]
  /\ UNCHANGED <<balance, ledger, reward>>

Cancels(c) ==
  /\ Moves(c)
  /\ Exists(req[c].key)
  /\ redemption' = [redemption EXCEPT ![req[c].key] = Closed(@, "cancelled")]
  /\ reward' = [reward EXCEPT ![redemption[req[c].key].reward].sold = @ - 1]
  /\ \/ /\ ~KeyUsed(Key("refund", req[c].key))
        /\ PostEntry(redemption[req[c].key].user, Key("refund", req[c].key),
                     redemption[req[c].key].cost)
     \/ KeyUsed(Key("refund", req[c].key)) /\ UNCHANGED <<balance, ledger>>

CallKinds(c) == Thinks(c) \/ Sells(c) \/ Uses(c) \/ Cancels(c)

Around == (\E r \in Rewards : EditReward(r)) \/ (\E k \in ClientKeys : Expire(k))
          \/ (\E u \in Users : Award(u) \/ Adjust(u))

LEMMA Typed ==
  ASSUME ShopTypeOK, NEW c \in Calls
  PROVE  /\ pc \in [Calls -> Steps] /\ req \in [Calls -> Purchases] /\ price \in [Calls -> Costs \cup {0}]
         /\ pc[c] \in Steps /\ price[c] \in Costs \cup {0}
         /\ req[c] \in Purchases
         /\ req[c].user \in Users /\ req[c].reward \in Rewards /\ req[c].key \in ClientKeys
         /\ NoRequest \in Purchases
<1>1. req[c] \in Purchases
  BY DEF ShopTypeOK
<1>2. req[c] \in [user : Users, reward : Rewards, key : ClientKeys]
  BY <1>1, RedemptionConstants
<1>3. NoRequest \in Purchases
  BY RedemptionConstants DEF NoRequest
<1> QED BY <1>1, <1>2, <1>3 DEF ShopTypeOK

LEMMA RowTyped ==
  ASSUME ShopTypeOK, NEW k \in ClientKeys, Exists(k)
  PROVE  /\ redemption[k] \in Row
         /\ redemption[k].user \in Users /\ redemption[k].reward \in Rewards
         /\ redemption[k].cost \in Costs /\ NoRow \notin Row
<1>1. redemption[k] \in Row
  BY DEF ShopTypeOK, Exists
<1> QED BY <1>1, RedemptionConstants DEF Row

LEMMA AnswerMoves ==
  ASSUME ShopTypeOK, NEW c \in Calls, Answer(c)
  PROVE  Moves(c)
BY Typed DEF Answer, Moves, Steps, Carries, Priced, Named

LEMMA GotoMoves ==
  ASSUME ShopTypeOK, NEW c \in Calls, NEW s \in Steps, Goto(c, s), Carries(s, req[c], price[c])
  PROVE  Moves(c)
BY Typed DEF Goto, Moves

(* Every step of a request is of one of the kinds.                         *)
LEMMA StepKinds ==
  ASSUME ShopTypeOK, Carried, NEW c \in Calls, Request(c) \/ Serve(c) \/ Fail(c)
  PROVE  CallKinds(c)
<1>0. /\ Carries(pc[c], req[c], price[c])
      /\ req[c].user \in Users /\ req[c].reward \in Rewards /\ req[c].key \in ClientKeys
  BY Typed DEF Carried
<1>1. ASSUME Answer(c), UNCHANGED <<tables, reward, redemption>> PROVE CallKinds(c)
  BY <1>1, AnswerMoves DEF CallKinds, Thinks, tables, Rows
<1>2. ASSUME NEW s \in Steps, Goto(c, s), Carries(s, req[c], price[c]),
             UNCHANGED <<tables, reward, redemption>>
      PROVE CallKinds(c)
  BY <1>2, GotoMoves DEF CallKinds, Thinks, tables, Rows
<1>3. CASE Request(c)
  <2>1. PICK p \in Purchases, s \in {"redeem", "verify", "cancel"} :
          /\ s # "redeem" => Claimed(p)
          /\ req' = [req EXCEPT ![c] = p] /\ pc' = [pc EXCEPT ![c] = s]
    BY <1>3 DEF Request
  <2>2. Carries(s, p, price[c])
    BY <2>1 DEF Carries, Priced, Named, Claimed
  <2>3. Moves(c)
    BY <1>3, <2>1, <2>2, Typed DEF Request, Moves, Steps
  <2> QED BY <1>3, <2>3 DEF Request, CallKinds, Thinks, tables, Rows
<1>4. CASE ReadReward(c)
  <2> DEFINE row == reward[req[c].reward]
  <2>1. UNCHANGED <<tables, reward, redemption>>
    BY <1>4 DEF ReadReward
  <2>2. CASE Answer(c)
    BY <1>1, <2>1, <2>2
  <2>3. CASE pc' = [pc EXCEPT ![c] = "listed"] /\ price' = [price EXCEPT ![c] = row.cost] /\ UNCHANGED req
    <3>1. row.cost \in Costs
      BY <1>0 DEF ShopTypeOK, RewardRow
    <3>2. Carries("listed", req[c], row.cost)
      BY <3>1 DEF Carries, Named
    <3>3. Moves(c)
      BY <2>3, <3>1, <3>2, Typed DEF Moves, Steps
    <3> QED BY <2>1, <3>3 DEF CallKinds, Thinks, tables, Rows
  <2> QED BY <1>4, <2>2, <2>3 DEF ReadReward
<1>5. CASE FindExisting(c)
  <2>1. UNCHANGED <<tables, reward, redemption>> /\ pc[c] = "listed"
    BY <1>5 DEF FindExisting
  <2>2. Carries("unclaimed", req[c], price[c]) /\ "unclaimed" \in Steps
    BY <1>0, <2>1 DEF Carries, Priced, Named, Steps
  <2> QED BY <1>1, <1>2, <1>5, <2>1, <2>2 DEF FindExisting
<1>6. CASE CheckBalance(c)
  <2>1. UNCHANGED <<tables, reward, redemption>> /\ pc[c] = "unclaimed"
    BY <1>6 DEF CheckBalance
  <2>2. Carries("affordable", req[c], price[c]) /\ "affordable" \in Steps
    BY <1>0, <2>1 DEF Carries, Priced, Named, Steps
  <2> QED BY <1>1, <1>2, <1>6, <2>1, <2>2 DEF CheckBalance
<1>7. CASE RedeemCommit(c)
  <2>1. CASE Answer(c) /\ UNCHANGED <<tables, reward, redemption>>
    BY <1>1, <2>1
  <2>2. CASE ~(req[c].user \in Blocked \/ KeyUsed(Key("redeem", req[c].key)))
    <3>1. price[c] \in Costs
      BY <1>0, <1>7 DEF RedeemCommit, Carries, Priced
    <3>2. Sells(c)
      BY <1>7, <2>2, <3>1, AnswerMoves DEF RedeemCommit, Sells
    <3> QED BY <3>2 DEF CallKinds
  <2> QED BY <1>7, <2>1, <2>2 DEF RedeemCommit
<1>8. CASE VerifyRead(c)
  <2>1. UNCHANGED <<tables, reward, redemption>> /\ pc[c] = "verify"
    BY <1>8 DEF VerifyRead
  <2>2. Carries("verified", req[c], price[c]) /\ "verified" \in Steps
    BY <1>0, <2>1 DEF Carries, Priced, Named, Steps
  <2> QED BY <1>1, <1>2, <1>8, <2>1, <2>2 DEF VerifyRead
<1>9. CASE VerifyWrite(c)
  <2>1. Exists(req[c].key)
    BY <1>0, <1>9 DEF VerifyWrite, Carries, Named
  <2> QED BY <1>9, <2>1, AnswerMoves DEF VerifyWrite, CallKinds, Uses, tables
<1>10. CASE CancelRead(c)
  <2>1. UNCHANGED <<tables, reward, redemption>> /\ pc[c] = "cancel"
    BY <1>10 DEF CancelRead
  <2>2. Carries("cancellable", req[c], price[c]) /\ "cancellable" \in Steps
    BY <1>0, <2>1 DEF Carries, Priced, Named, Steps
  <2> QED BY <1>1, <1>2, <1>10, <2>1, <2>2 DEF CancelRead
<1>11. CASE RefundLookup(c)
  <2>1. UNCHANGED <<tables, reward, redemption>> /\ pc[c] = "cancellable"
    BY <1>11 DEF RefundLookup
  <2>2. Carries("refund_new", req[c], price[c]) /\ "refund_new" \in Steps /\ "refund_known" \in Steps
    BY <1>0, <2>1 DEF Carries, Priced, Named, Steps
  <2>3. KeyUsed(Key("refund", req[c].key)) => Carries("refund_known", req[c], price[c])
    BY <1>0, <2>1 DEF Carries, Priced, Named
  <2>4. \/ KeyUsed(Key("refund", req[c].key)) /\ Goto(c, "refund_known")
        \/ Answer(c) \/ Goto(c, "refund_new")
    BY <1>11 DEF RefundLookup
  <2> QED BY <1>1, <1>2, <2>1, <2>2, <2>3, <2>4
<1>12. CASE CancelCommit(c)
  <2>1. Exists(req[c].key)
    BY <1>0, <1>12 DEF CancelCommit, Carries, Named
  <2>2. CASE Answer(c) /\ UNCHANGED <<tables, reward, redemption>>
    BY <1>1, <2>2
  <2>3. ASSUME Cancelled(c),
               \/ /\ ~KeyUsed(Key("refund", req[c].key))
                  /\ PostEntry(redemption[req[c].key].user, Key("refund", req[c].key),
                               RefundAmount(req[c].key))
               \/ KeyUsed(Key("refund", req[c].key)) /\ UNCHANGED tables
        PROVE CallKinds(c)
    BY <2>1, <2>3, AnswerMoves DEF Cancelled, CallKinds, Cancels, RefundAmount, tables
  <2>4. pc[c] = "refund_known" => KeyUsed(Key("refund", req[c].key))
    BY <1>0 DEF Carries
  <2> QED BY <1>12, <2>2, <2>3, <2>4 DEF CancelCommit
<1>13. CASE Fail(c)
  BY <1>1, <1>13 DEF Fail
<1> QED BY <1>3, <1>4, <1>5, <1>6, <1>7, <1>8, <1>9, <1>10, <1>11, <1>12, <1>13 DEF Serve
-----------------------------------------------------------------------------
(* Keys of postings, and what a posting makes of the tables.               *)
LEMMA KeysTyped ==
  /\ \A u \in Users : Key("award", u) \in Keys /\ Key("adjust", u) \in Keys
  /\ \A k \in ClientKeys : Key("redeem", k) \in Keys /\ Key("refund", k) \in Keys
  /\ \A x \in Costs : x \in Amounts /\ -x \in Amounts /\ x \in Nat
  /\ Grant \in Amounts /\ -Correction \in Amounts
BY RedemptionConstants DEF Key, LedgerKeys

LEMMA KeyFields ==
  \A kind, id : Key(kind, id).kind = kind /\ Key(kind, id).id = id
BY DEF Key

(* Which posting a step makes, if any.                                     *)
Posts(u, k, d) ==
  /\ u \in Users /\ k \in Keys /\ d \in Amounts
  /\ ~KeyUsed(k) /\ PostEntry(u, k, d)

LEMMA SellsPosts ==
  ASSUME ShopTypeOK, NEW c \in Calls, Sells(c)
  PROVE  Posts(req[c].user, Key("redeem", req[c].key), -price[c])
BY Typed, KeysTyped DEF Sells, Posts

LEMMA CancelsPosts ==
  ASSUME ShopTypeOK, NEW c \in Calls, Cancels(c)
  PROVE  \/ Posts(redemption[req[c].key].user, Key("refund", req[c].key), redemption[req[c].key].cost)
         \/ KeyUsed(Key("refund", req[c].key)) /\ UNCHANGED <<balance, ledger>>
<1>1. req[c].key \in ClientKeys
  BY Typed
<1>2. redemption[req[c].key].user \in Users /\ redemption[req[c].key].cost \in Costs
  BY <1>1, RowTyped DEF Cancels
<1> QED BY <1>1, <1>2, KeysTyped DEF Cancels, Posts

LEMMA AroundPosts ==
  ASSUME Around
  PROVE  \/ UNCHANGED <<balance, ledger>>
         \/ \E u \in Users : \/ Posts(u, Key("award", u), Grant)
                             \/ Posts(u, Key("adjust", u), -Correction)
<1>1. CASE (\E r \in Rewards : EditReward(r)) \/ (\E k \in ClientKeys : Expire(k))
  BY <1>1 DEF EditReward, Expire, tables
<1>2. ASSUME NEW u \in Users, Award(u) \/ Adjust(u)
      PROVE  Posts(u, Key("award", u), Grant) \/ Posts(u, Key("adjust", u), -Correction)
  BY <1>2, KeysTyped DEF Award, Adjust, Posts
<1> QED BY <1>1, <1>2 DEF Around

(* Every step posts once under a new key or leaves the tables alone.       *)
LEMMA StepPosts ==
  ASSUME ShopTypeOK, Around \/ \E c \in Calls : CallKinds(c)
  PROVE  UNCHANGED <<balance, ledger>> \/ \E u \in Users, k \in Keys, d \in Amounts : Posts(u, k, d)
<1>1. ASSUME NEW c \in Calls, CallKinds(c)
      PROVE  \/ UNCHANGED <<balance, ledger>>
             \/ \E u \in Users, k \in Keys, d \in Amounts : Posts(u, k, d)
  BY <1>1, SellsPosts, CancelsPosts DEF CallKinds, Thinks, Uses, Rows, Posts
<1>2. CASE Around
  BY <1>2, AroundPosts DEF Posts
<1> QED BY <1>1, <1>2

LEMMA PostsTables ==
  ASSUME TablesTypeOK, BalanceMatchesLedger, NEW u, NEW k, NEW d, Posts(u, k, d)
  PROVE  /\ TablesTypeOK' /\ BalanceMatchesLedger' /\ Abstract!Next
         /\ RowsAfter(u, k, d) /\ KeyUsed(k)' /\ \A x : KeyUsed(x) => KeyUsed(x)'
<1>1. u \in Users /\ k \in Keys /\ d \in Amounts /\ ~KeyUsed(k) /\ PostEntry(u, k, d)
  BY DEF Posts
<1>2. TablesTypeOK'
  BY <1>1, PostEntryType
<1>3. BalanceMatchesLedger'
  BY <1>1, PostEntryBalance
<1>4. Abstract!Next
  BY <1>1, PostEntryRefines
<1>5. RowsAfter(u, k, d)
  BY <1>1, PostEntryRows
<1>6. KeyUsed(k)' /\ \A x : KeyUsed(x) => KeyUsed(x)'
  BY <1>1, PostEntryKeeps
<1> QED BY <1>2, <1>3, <1>4, <1>5, <1>6

LEMMA TablesStep ==
  ASSUME ShopInv, Around \/ \E c \in Calls : CallKinds(c)
  PROVE  /\ TablesTypeOK' /\ BalanceMatchesLedger' /\ [Abstract!Next]_ledger
         /\ \A x : KeyUsed(x) => KeyUsed(x)'
<1>0. ShopTypeOK /\ TablesTypeOK /\ BalanceMatchesLedger
  BY DEF ShopInv, ShopTypeOK
<1>1. CASE UNCHANGED <<balance, ledger>>
  BY <1>0, <1>1 DEF TablesTypeOK, BalanceMatchesLedger, LastAfter, KeyUsed
<1>2. ASSUME NEW u \in Users, NEW k \in Keys, NEW d \in Amounts, Posts(u, k, d)
      PROVE  /\ TablesTypeOK' /\ BalanceMatchesLedger' /\ [Abstract!Next]_ledger
             /\ \A x : KeyUsed(x) => KeyUsed(x)'
  BY <1>0, <1>2, PostsTables
<1> QED BY <1>0, <1>1, <1>2, StepPosts

-----------------------------------------------------------------------------
(* A redemption's owner, reward and cost never change, and no row goes.    *)
RowStays(k) ==
  Exists(k) =>
    /\ Exists(k)'
    /\ redemption'[k].user = redemption[k].user
    /\ redemption'[k].reward = redemption[k].reward
    /\ redemption'[k].cost = redemption[k].cost

LEMMA SellsNew ==
  ASSUME ShopInv, NEW c \in Calls, Sells(c)
  PROVE  ~Exists(req[c].key)
BY Typed DEF ShopInv, DebitIffRedemption, Sells

LEMMA ClosedRow ==
  ASSUME NEW row \in Row, NEW status \in {"active", "used", "cancelled"}
  PROVE  /\ Closed(row, status) \in Row
         /\ Closed(row, status).user = row.user /\ Closed(row, status).reward = row.reward
         /\ Closed(row, status).cost = row.cost /\ Closed(row, status).status = status
BY DEF Closed, Row

LEMMA ExpiredRow ==
  ASSUME NEW row \in Row
  PROVE  /\ [row EXCEPT !.expired = TRUE] \in Row
         /\ [row EXCEPT !.expired = TRUE].user = row.user
         /\ [row EXCEPT !.expired = TRUE].reward = row.reward
         /\ [row EXCEPT !.expired = TRUE].cost = row.cost
         /\ [row EXCEPT !.expired = TRUE].status = row.status
BY DEF Row

(* What a step makes of the redemptions: a new one, a changed one that     *)
(* keeps who and what it is, or none.                                      *)
Inserts(k, row) ==
  k \in ClientKeys /\ row \in Row /\ ~Exists(k) /\ redemption' = [redemption EXCEPT ![k] = row]

Updates(k, row) ==
  /\ k \in ClientKeys /\ row \in Row /\ Exists(k)
  /\ redemption' = [redemption EXCEPT ![k] = row]
  /\ row.user = redemption[k].user /\ row.reward = redemption[k].reward
  /\ row.cost = redemption[k].cost

LEMMA SellsInserts ==
  ASSUME ShopInv, NEW c \in Calls, Sells(c)
  PROVE  Inserts(req[c].key, [user |-> req[c].user, reward |-> req[c].reward, cost |-> price[c],
                              status |-> "active", expired |-> FALSE])
BY SellsNew, Typed DEF Inserts, Sells, Row, ShopInv

LEMMA ClosingUpdates ==
  ASSUME ShopTypeOK, NEW k \in ClientKeys, Exists(k), NEW status \in {"used", "cancelled"},
         redemption' = [redemption EXCEPT ![k] = Closed(@, status)]
  PROVE  Updates(k, Closed(redemption[k], status)) /\ Closed(redemption[k], status).status = status
<1>1. redemption[k] \in Row
  BY RowTyped
<1>2. redemption' = [redemption EXCEPT ![k] = Closed(redemption[k], status)]
  BY DEF ShopTypeOK
<1>3. /\ Closed(redemption[k], status) \in Row
      /\ Closed(redemption[k], status).user = redemption[k].user
      /\ Closed(redemption[k], status).reward = redemption[k].reward
      /\ Closed(redemption[k], status).cost = redemption[k].cost
      /\ Closed(redemption[k], status).status = status
  BY <1>1, ClosedRow
<1> QED BY <1>2, <1>3 DEF Updates

LEMMA UsesUpdates ==
  ASSUME ShopTypeOK, NEW c \in Calls, Uses(c)
  PROVE  \E row : Updates(req[c].key, row) /\ row.status = "used"
BY Typed, ClosingUpdates DEF Uses

LEMMA CancelsUpdates ==
  ASSUME ShopTypeOK, NEW c \in Calls, Cancels(c)
  PROVE  \E row : Updates(req[c].key, row) /\ row.status = "cancelled"
BY Typed, ClosingUpdates DEF Cancels

LEMMA ExpireUpdates ==
  ASSUME ShopTypeOK, NEW k \in ClientKeys, Expire(k)
  PROVE  Updates(k, [redemption[k] EXCEPT !.expired = TRUE])
<1>1. Exists(k) /\ redemption[k] \in Row
  BY RowTyped DEF Expire
<1>2. /\ [redemption[k] EXCEPT !.expired = TRUE] \in Row
      /\ [redemption[k] EXCEPT !.expired = TRUE].user = redemption[k].user
      /\ [redemption[k] EXCEPT !.expired = TRUE].reward = redemption[k].reward
      /\ [redemption[k] EXCEPT !.expired = TRUE].cost = redemption[k].cost
  BY <1>1, ExpiredRow
<1>3. redemption' = [redemption EXCEPT ![k] = [redemption[k] EXCEPT !.expired = TRUE]]
  BY DEF Expire, ShopTypeOK
<1> QED BY <1>1, <1>2, <1>3 DEF Updates

LEMMA StepRows ==
  ASSUME ShopInv, Around \/ \E c \in Calls : CallKinds(c)
  PROVE  \/ UNCHANGED redemption
         \/ \E k, row : Inserts(k, row) \/ Updates(k, row)
<1>0. ShopTypeOK
  BY DEF ShopInv
<1>1. ASSUME NEW c \in Calls, CallKinds(c)
      PROVE  UNCHANGED redemption \/ \E k, row : Inserts(k, row) \/ Updates(k, row)
  <2>1. CASE Thinks(c)
    BY <2>1 DEF Thinks, Rows
  <2>2. CASE Sells(c)
    BY <2>2, SellsInserts
  <2>3. CASE Uses(c) \/ Cancels(c)
    BY <1>0, <2>3, UsesUpdates, CancelsUpdates
  <2> QED BY <1>1, <2>1, <2>2, <2>3 DEF CallKinds
<1>2. CASE Around
  <2>1. CASE \E k \in ClientKeys : Expire(k)
    BY <1>0, <2>1, ExpireUpdates
  <2> QED BY <1>2, <2>1 DEF Around, EditReward, Award, Adjust
<1> QED BY <1>1, <1>2

LEMMA RowsStay ==
  ASSUME ShopInv, Around \/ \E c \in Calls : CallKinds(c)
  PROVE  /\ redemption' \in [ClientKeys -> Row \cup {NoRow}]
         /\ \A k \in ClientKeys : RowStays(k)
<1>0. redemption \in [ClientKeys -> Row \cup {NoRow}] /\ NoRow \notin Row
  BY RedemptionConstants DEF ShopInv, ShopTypeOK, Row
<1>1. CASE UNCHANGED redemption
  BY <1>0, <1>1 DEF RowStays, Exists
<1>2. ASSUME NEW k, NEW row, Inserts(k, row) \/ Updates(k, row)
      PROVE  /\ redemption' \in [ClientKeys -> Row \cup {NoRow}]
             /\ \A i \in ClientKeys : RowStays(i)
  BY <1>0, <1>2 DEF Inserts, Updates, RowStays, Exists
<1> QED BY <1>1, <1>2, StepRows
-----------------------------------------------------------------------------
(* What a posting says of the redemption its key names.                    *)
EntryOK(u, e) ==
  /\ e.key.kind = "redeem" =>
       Exists(e.key.id) /\ redemption[e.key.id].user = u /\ e.delta = -redemption[e.key.id].cost
  /\ e.key.kind = "refund" =>
       Exists(e.key.id) /\ redemption[e.key.id].user = u /\ e.delta = redemption[e.key.id].cost

EntriesOK == \A u \in Users : \A i \in DOMAIN ledger[u] : EntryOK(u, ledger[u][i])

RedeemedIsDebited == \A k \in ClientKeys : Exists(k) => KeyUsed(Key("redeem", k))

CancelledIsRefunded ==
  \A k \in ClientKeys :
    Exists(k) /\ redemption[k].status = "cancelled" => KeyUsed(Key("refund", k))

LEMMA BondParts ==
  DebitIffRedemption /\ RefundIsThePayment <=> EntriesOK /\ RedeemedIsDebited /\ CancelledIsRefunded
BY DEF DebitIffRedemption, RefundIsThePayment, EntriesOK, EntryOK, RedeemedIsDebited, CancelledIsRefunded

LEMMA EntryKey ==
  ASSUME TablesTypeOK, NEW u \in Users, NEW i \in DOMAIN ledger[u]
  PROVE  ledger[u][i].key.kind \in {"redeem", "refund"} => ledger[u][i].key.id \in ClientKeys
<1>1. ledger[u] \in Seq(Entry)
  BY DEF TablesTypeOK
<1>2. ledger[u][i] \in Entry
  BY <1>1
<1>3. ledger[u][i].key \in Keys
  BY <1>2 DEF Entry
<1>4. ledger[u][i].key \in LedgerKeys
  BY <1>3, RedemptionConstants
<1> QED BY <1>4 DEF LedgerKeys

LEMMA OldEntry ==
  ASSUME TablesTypeOK, EntriesOK, \A k \in ClientKeys : RowStays(k),
         NEW u \in Users, NEW i \in DOMAIN ledger[u]
  PROVE  LET e == ledger[u][i] IN
         /\ e.key.kind = "redeem" =>
              /\ redemption'[e.key.id] # NoRow /\ redemption'[e.key.id].user = u
              /\ e.delta = -redemption'[e.key.id].cost
         /\ e.key.kind = "refund" =>
              /\ redemption'[e.key.id] # NoRow /\ redemption'[e.key.id].user = u
              /\ e.delta = redemption'[e.key.id].cost
<1>1. PICK e : e = ledger[u][i]
  OBVIOUS
<1>2. EntryOK(u, e) /\ (e.key.kind \in {"redeem", "refund"} => RowStays(e.key.id))
  BY <1>1, EntryKey DEF EntriesOK
<1> QED BY <1>1, <1>2 DEF EntryOK, RowStays, Exists

(* A new entry is right when it is right of the row its key names.         *)
LEMMA NewEntry ==
  ASSUME TablesTypeOK, EntriesOK, \A k \in ClientKeys : RowStays(k),
         NEW u, NEW k, NEW d, Posts(u, k, d),
         k.kind = "redeem" =>
           redemption'[k.id] # NoRow /\ redemption'[k.id].user = u /\ d = -redemption'[k.id].cost,
         k.kind = "refund" =>
           redemption'[k.id] # NoRow /\ redemption'[k.id].user = u /\ d = redemption'[k.id].cost
  PROVE  EntriesOK'
<1>1. u \in Users /\ k \in Keys /\ d \in Amounts /\ PostEntry(u, k, d)
  BY DEF Posts
<1>2. RowsAfter(u, k, d)
  BY <1>1, PostEntryRows
<1> SUFFICES ASSUME NEW v \in Users, NEW i \in DOMAIN ledger'[v]
             PROVE  EntryOK(v, ledger[v][i])'
  BY DEF EntriesOK
<1>3. CASE i \in DOMAIN ledger[v]
  <2>1. ledger'[v][i] = ledger[v][i]
    BY <1>2, <1>3 DEF RowsAfter
  <2> QED BY <1>3, <2>1, OldEntry DEF EntryOK, Exists
<1>4. CASE i \notin DOMAIN ledger[v]
  <2>1. v = u /\ ledger'[v][i] = [key |-> k, delta |-> d, after |-> balance[u] + d]
    BY <1>2, <1>4 DEF RowsAfter
  <2> QED BY <2>1 DEF EntryOK, Exists
<1> QED BY <1>3, <1>4

LEMMA SameEntries ==
  ASSUME TablesTypeOK, EntriesOK, \A k \in ClientKeys : RowStays(k), UNCHANGED ledger
  PROVE  EntriesOK'
<1>1. \A u \in Users : \A i \in DOMAIN ledger[u] : EntryOK(u, ledger[u][i])'
  BY OldEntry DEF EntryOK, Exists
<1> QED BY <1>1 DEF EntriesOK

LEMMA EntriesStep ==
  ASSUME ShopInv, Around \/ \E c \in Calls : CallKinds(c)
  PROVE  EntriesOK'
<1>0. ShopTypeOK /\ TablesTypeOK /\ EntriesOK /\ \A k \in ClientKeys : RowStays(k)
  BY BondParts, RowsStay DEF ShopInv, ShopTypeOK
<1>1. CASE UNCHANGED <<balance, ledger>>
  BY <1>0, <1>1, SameEntries
<1>2. ASSUME NEW c \in Calls, Sells(c) PROVE EntriesOK'
  <2>1. PICK u, id, k, d : u = req[c].user /\ id = req[c].key /\ k = Key("redeem", id) /\ d = -price[c]
    OBVIOUS
  <2>2. Posts(u, k, d) /\ k.kind = "redeem" /\ k.id = id
    BY <1>0, <1>2, <2>1, SellsPosts, KeyFields
  <2>3. redemption'[id] = [user |-> u, reward |-> req[c].reward, cost |-> price[c],
                           status |-> "active", expired |-> FALSE]
    BY <1>0, <1>2, <2>1, Typed DEF Sells, ShopTypeOK
  <2>4. redemption'[id] \in Row /\ NoRow \notin Row
    BY <1>2, <2>1, <2>3, SellsInserts, RedemptionConstants DEF Inserts, Row
  <2> QED BY <1>0, <2>1, <2>2, <2>3, <2>4, NewEntry
<1>3. ASSUME NEW c \in Calls, Cancels(c) PROVE EntriesOK'
  <2>1. PICK id, u, k, d : /\ id = req[c].key /\ u = redemption[id].user
                           /\ k = Key("refund", id) /\ d = redemption[id].cost
    OBVIOUS
  <2>2. Posts(u, k, d) \/ UNCHANGED <<balance, ledger>>
    BY <1>0, <1>3, <2>1, CancelsPosts
  <2>3. k.kind = "refund" /\ k.id = id
    BY <2>1, KeyFields
  <2>4. RowStays(id) /\ Exists(id)
    BY <1>0, <1>3, <2>1, Typed DEF Cancels
  <2>5. redemption'[id] # NoRow /\ redemption'[id].user = u /\ d = redemption'[id].cost
    BY <2>1, <2>4 DEF RowStays, Exists
  <2> QED BY <1>0, <1>1, <2>2, <2>3, <2>5, NewEntry
<1>4. ASSUME NEW u \in Users,
             Posts(u, Key("award", u), Grant) \/ Posts(u, Key("adjust", u), -Correction)
      PROVE  EntriesOK'
  <2>1. PICK k, d : Posts(u, k, d) /\ k.kind \in {"award", "adjust"}
    BY <1>4, KeyFields
  <2> QED BY <1>0, <2>1, NewEntry
<1> QED BY <1>1, <1>2, <1>3, <1>4, AroundPosts DEF CallKinds, Thinks, Uses, Rows

LEMMA BondsStep ==
  ASSUME ShopInv, Around \/ \E c \in Calls : CallKinds(c)
  PROVE  RedeemedIsDebited' /\ CancelledIsRefunded'
<1>0. /\ ShopTypeOK /\ RedeemedIsDebited /\ CancelledIsRefunded
      /\ redemption \in [ClientKeys -> Row \cup {NoRow}] /\ NoRow \notin Row
      /\ \A x : KeyUsed(x) => KeyUsed(x)'
  BY BondParts, TablesStep, RedemptionConstants DEF ShopInv, ShopTypeOK, Row
<1>1. CASE UNCHANGED redemption
  BY <1>0, <1>1 DEF RedeemedIsDebited, CancelledIsRefunded, Exists
<1>2. ASSUME NEW k, NEW row, Updates(k, row), row.status = "cancelled" => KeyUsed(Key("refund", k))'
      PROVE  RedeemedIsDebited' /\ CancelledIsRefunded'
  <2>1. /\ k \in ClientKeys /\ Exists(k) /\ redemption'[k] = row
        /\ \A i \in ClientKeys \ {k} : redemption'[i] = redemption[i]
    BY <1>0, <1>2 DEF Updates
  <2>2. RedeemedIsDebited'
    BY <1>0, <2>1 DEF RedeemedIsDebited, Exists
  <2>3. CancelledIsRefunded'
    BY <1>0, <1>2, <2>1 DEF CancelledIsRefunded, Exists
  <2> QED BY <2>2, <2>3
<1>3. ASSUME NEW c \in Calls, Sells(c) PROVE RedeemedIsDebited' /\ CancelledIsRefunded'
  <2> DEFINE new == [user |-> req[c].user, reward |-> req[c].reward, cost |-> price[c],
                     status |-> "active", expired |-> FALSE]
  <2>0. Inserts(req[c].key, new) /\ new.status = "active"
    BY <1>3, SellsInserts
  <2> HIDE DEF new
  <2>1. PICK k, row : /\ k = req[c].key /\ Inserts(k, row) /\ row.status = "active"
    BY <2>0
  <2>2. KeyUsed(Key("redeem", k))'
    <3>1. PICK x : x = Key("redeem", k)
      OBVIOUS
    <3>2. \E u, d : Posts(u, x, d)
      BY <1>0, <1>3, <2>1, <3>1, SellsPosts
    <3>3. KeyUsed(x)'
      BY <3>2, PostsTables DEF ShopInv, ShopTypeOK
    <3> QED BY <3>1, <3>3
  <2>3. /\ k \in ClientKeys /\ redemption'[k] = row
        /\ \A i \in ClientKeys \ {k} : redemption'[i] = redemption[i]
    BY <1>0, <2>1 DEF Inserts
  <2>4. RedeemedIsDebited'
    BY <1>0, <2>2, <2>3 DEF RedeemedIsDebited, Exists
  <2>5. CancelledIsRefunded'
    BY <1>0, <2>1, <2>3 DEF CancelledIsRefunded, Exists
  <2> QED BY <2>4, <2>5
<1>4. ASSUME NEW c \in Calls, Uses(c) PROVE RedeemedIsDebited' /\ CancelledIsRefunded'
  BY <1>0, <1>2, <1>4, UsesUpdates
<1>5. ASSUME NEW c \in Calls, Cancels(c) PROVE RedeemedIsDebited' /\ CancelledIsRefunded'
  <2>1. PICK k, row : k = req[c].key /\ Updates(k, row) /\ row.status = "cancelled"
    BY <1>0, <1>5, CancelsUpdates
  <2>2. PICK x : x = Key("refund", k)
    OBVIOUS
  <2>3. KeyUsed(x) \/ \E u, d : Posts(u, x, d)
    BY <1>0, <1>5, <2>1, <2>2, CancelsPosts
  <2>4. KeyUsed(x)'
    BY <1>0, <2>3, PostsTables DEF ShopInv, ShopTypeOK
  <2> QED BY <1>2, <2>1, <2>2, <2>4
<1>6. ASSUME NEW k \in ClientKeys, Expire(k) PROVE RedeemedIsDebited' /\ CancelledIsRefunded'
  <2>1. PICK row : Updates(k, row) /\ row.status = redemption[k].status
    BY <1>0, <1>6, ExpireUpdates, ExpiredRow, RowTyped DEF Expire
  <2>2. row.status = "active"
    BY <1>6, <2>1 DEF Expire
  <2> QED BY <1>2, <2>1, <2>2
<1> QED BY <1>1, <1>3, <1>4, <1>5, <1>6 DEF CallKinds, Thinks, Rows, Around, EditReward, Award, Adjust
-----------------------------------------------------------------------------
LEMMA ShopStart == Init => ShopInv /\ NeverOvercounted
<1> SUFFICES ASSUME Init PROVE ShopInv /\ NeverOvercounted
  OBVIOUS
<1>1. \A e \in Edits : Stocked(e, 0) \in RewardRow /\ Stocked(e, 0).sold = 0
  BY RedemptionConstants DEF Stocked, RewardRow
<1>2. reward \in [Rewards -> RewardRow] /\ \A r \in Rewards : reward[r].sold = 0
  BY <1>1 DEF Init
<1>3. NoRequest \in Purchases
  BY RedemptionConstants DEF NoRequest
<1>4. ShopTypeOK
  BY <1>2, <1>3, TablesStart DEF Init, ShopTypeOK, Steps
<1>5. Carried
  BY DEF Init, Carried, Carries, Priced, Named
<1>7. EntriesOK /\ RedeemedIsDebited /\ CancelledIsRefunded
  BY DEF Init, TablesInit, EntriesOK, RedeemedIsDebited, CancelledIsRefunded, Exists
<1>8. ASSUME NEW r \in Rewards PROVE reward[r].sold <= Cardinality(SoldOf(r))
  <2>1. SoldOf(r) = {}
    BY DEF Init, SoldOf, Exists
  <2>2. Cardinality({}) = 0
    BY FS_EmptySet
  <2> QED BY <1>2, <2>1, <2>2
<1> QED BY <1>4, <1>5, <1>7, <1>8, TablesStart, BondParts DEF Init, ShopInv, NeverOvercounted

LEMMA RewardsTyped ==
  ASSUME ShopInv, Around \/ \E c \in Calls : CallKinds(c)
  PROVE  reward' \in [Rewards -> RewardRow]
<1>0. ShopTypeOK /\ reward \in [Rewards -> RewardRow]
  BY DEF ShopInv, ShopTypeOK
<1>1. \A r \in Rewards : \A n \in Int : [reward[r] EXCEPT !.sold = n] \in RewardRow
  BY <1>0 DEF RewardRow
<1>2. \A r \in Rewards : reward[r].sold \in Int
  BY <1>0 DEF RewardRow
<1>3. ASSUME NEW r \in Rewards, NEW n \in Int, reward' = [reward EXCEPT ![r].sold = n]
      PROVE  reward' \in [Rewards -> RewardRow]
  <2> DEFINE row == [reward[r] EXCEPT !.sold = n]
  <2>1. reward' = [reward EXCEPT ![r] = row] /\ row \in RewardRow
    BY <1>0, <1>1, <1>3
  <2> HIDE DEF row
  <2> QED BY <1>0, <2>1
<1>4. ASSUME NEW c \in Calls, Sells(c) PROVE reward' \in [Rewards -> RewardRow]
  <2>1. req[c].reward \in Rewards
    BY <1>0, Typed
  <2>2. reward[req[c].reward].sold + 1 \in Int
    BY <1>2, <2>1
  <2>3. reward' = [reward EXCEPT ![req[c].reward].sold = reward[req[c].reward].sold + 1]
    BY <1>0, <1>4, <2>1 DEF Sells
  <2> QED BY <1>3, <2>1, <2>2, <2>3
<1>5. ASSUME NEW c \in Calls, Cancels(c) PROVE reward' \in [Rewards -> RewardRow]
  <2>1. redemption[req[c].key].reward \in Rewards
    BY <1>0, <1>5, Typed, RowTyped DEF Cancels
  <2>2. reward[redemption[req[c].key].reward].sold - 1 \in Int
    BY <1>2, <2>1
  <2>3. reward' = [reward EXCEPT ![redemption[req[c].key].reward].sold =
                                   reward[redemption[req[c].key].reward].sold - 1]
    BY <1>0, <1>5, <2>1 DEF Cancels
  <2> QED BY <1>3, <2>1, <2>2, <2>3
<1>6. ASSUME NEW r \in Rewards, EditReward(r) PROVE reward' \in [Rewards -> RewardRow]
  <2>1. PICK e \in Edits : reward' = [reward EXCEPT ![r] = Stocked(e, reward[r].sold)]
    BY <1>0, <1>6 DEF EditReward
  <2>2. Stocked(e, reward[r].sold) \in RewardRow
    BY <1>2, RedemptionConstants DEF Stocked, RewardRow
  <2> QED BY <1>0, <2>1, <2>2
<1>7. CASE UNCHANGED reward
  BY <1>0, <1>7
<1> QED BY <1>4, <1>5, <1>6, <1>7 DEF CallKinds, Thinks, Uses, Rows, Around, Expire, Award, Adjust

LEMMA CallsTyped ==
  ASSUME ShopInv, Around \/ \E c \in Calls : CallKinds(c)
  PROVE  /\ pc' \in [Calls -> Steps] /\ req' \in [Calls -> Purchases]
         /\ price' \in [Calls -> Costs \cup {0}]
         /\ \A d \in Calls : Carries(pc'[d], req'[d], price'[d])
<1>0. ShopTypeOK /\ \A d \in Calls : Carries(pc[d], req[d], price[d])
  BY DEF ShopInv, Carried
<1>1. ASSUME NEW c \in Calls, Moves(c)
      PROVE  /\ pc' \in [Calls -> Steps] /\ req' \in [Calls -> Purchases]
             /\ price' \in [Calls -> Costs \cup {0}]
             /\ \A d \in Calls : Carries(pc'[d], req'[d], price'[d])
  <2>1. ASSUME NEW d \in Calls, d # c PROVE Carries(pc'[d], req'[d], price'[d])
    <3>1. pc'[d] = pc[d] /\ req'[d] = req[d] /\ price'[d] = price[d]
      BY <1>1, <2>1 DEF Moves
    <3> QED BY <1>0, <3>1
  <2> QED BY <1>1, <2>1 DEF Moves
<1>2. CASE Around
  <2>1. UNCHANGED <<pc, req, price>>
    BY <1>2 DEF Around, EditReward, Expire, Award, Adjust
  <2> QED BY <1>0, <2>1 DEF ShopTypeOK
<1> QED BY <1>1, <1>2 DEF CallKinds, Thinks, Sells, Uses, Cancels

(* What a request relies on stays true: rows and postings are not deleted. *)
LEMMA CarriedStep ==
  ASSUME ShopInv, Around \/ \E c \in Calls : CallKinds(c)
  PROVE  Carried'
<1>1. /\ \A k \in ClientKeys : RowStays(k)
      /\ \A x : KeyUsed(x) => KeyUsed(x)'
      /\ req' \in [Calls -> Purchases]
  BY RowsStay, TablesStep, CallsTyped
<1>2. ASSUME NEW d \in Calls PROVE Carries(pc[d], req[d], price[d])'
  <2>1. Carries(pc'[d], req'[d], price'[d])
    BY CallsTyped
  <2>2. PICK k : k = req'[d].key
    OBVIOUS
  <2>3. k \in ClientKeys
    <3>1. req'[d] \in [user : Users, reward : Rewards, key : ClientKeys]
      BY <1>1, RedemptionConstants
    <3> QED BY <2>2, <3>1
  <2>4. (Exists(k) => Exists(k)') /\ (KeyUsed(Key("refund", k)) => KeyUsed(Key("refund", k))')
    <3>1. PICK x : x = Key("refund", k)
      OBVIOUS
    <3> QED BY <1>1, <2>3, <3>1 DEF RowStays
  <2> QED BY <2>1, <2>2, <2>4 DEF Carries, Exists
<1> QED BY <1>2 DEF Carried

LEMMA ShopStep ==
  ASSUME ShopInv, Around \/ \E c \in Calls : CallKinds(c)
  PROVE  ShopInv' /\ [Abstract!Next]_ledger
<1>1. ShopTypeOK'
  BY TablesStep, RowsStay, RewardsTyped, CallsTyped DEF ShopTypeOK
<1>2. DebitIffRedemption' /\ RefundIsThePayment'
  <2>1. EntriesOK' /\ RedeemedIsDebited' /\ CancelledIsRefunded'
    BY EntriesStep, BondsStep
  <2> QED BY <2>1 DEF DebitIffRedemption, RefundIsThePayment, EntriesOK, EntryOK,
                      RedeemedIsDebited, CancelledIsRefunded
<1> QED BY <1>1, <1>2, TablesStep, CarriedStep DEF ShopInv
-----------------------------------------------------------------------------
(* The sold counter.  Every sale adds a redemption to those that are not   *)
(* cancelled; a cancellation takes one off the counter, and at most one    *)
(* off the set.                                                            *)
LEMMA SoldFinite ==
  /\ \A r : IsFiniteSet(SoldOf(r)) /\ Cardinality(SoldOf(r)) \in Nat
  /\ \A S, T : S \subseteq T /\ T \subseteq ClientKeys => Cardinality(S) <= Cardinality(T)
  /\ \A T, k : T \subseteq ClientKeys =>
       /\ k \notin T => Cardinality(T \cup {k}) = Cardinality(T) + 1
       /\ Cardinality(T) - 1 <= Cardinality(T \ {k})
       /\ Cardinality(T) \in Nat /\ Cardinality(T \ {k}) \in Nat
<1>0. IsFiniteSet(ClientKeys)
  BY RedemptionConstants
<1>1. ASSUME NEW T, T \subseteq ClientKeys PROVE IsFiniteSet(T) /\ Cardinality(T) \in Nat
  BY <1>0, <1>1, FS_Subset, FS_CardinalityType
<1>2. ASSUME NEW r PROVE SoldOf(r) \subseteq ClientKeys
  BY DEF SoldOf
<1>3. ASSUME NEW S, NEW T, S \subseteq T, T \subseteq ClientKeys
      PROVE  Cardinality(S) <= Cardinality(T)
  BY <1>1, <1>3, FS_Subset
<1>4. ASSUME NEW T, NEW k, T \subseteq ClientKeys
      PROVE  /\ k \notin T => Cardinality(T \cup {k}) = Cardinality(T) + 1
             /\ Cardinality(T) - 1 <= Cardinality(T \ {k})
             /\ Cardinality(T) \in Nat /\ Cardinality(T \ {k}) \in Nat
  <2>1. IsFiniteSet(T) /\ Cardinality(T) \in Nat /\ Cardinality(T \ {k}) \in Nat
    BY <1>1, <1>4
  <2>2. Cardinality(T \cup {k}) = IF k \in T THEN Cardinality(T) ELSE Cardinality(T) + 1
    BY <2>1, FS_AddElement
  <2>3. Cardinality(T \ {k}) = IF k \in T THEN Cardinality(T) - 1 ELSE Cardinality(T)
    BY <2>1, FS_RemoveElement
  <2> QED BY <2>1, <2>2, <2>3
<1> QED BY <1>1, <1>2, <1>3, <1>4

(* The redemptions of a reward after a step that updates row k.            *)
LEMMA SoldAfterUpdate ==
  ASSUME ShopTypeOK, NEW k, NEW row, Updates(k, row), NEW r
  PROVE  /\ SoldOf(r) \ {k} \subseteq SoldOf(r)' /\ SoldOf(r)' \subseteq ClientKeys
         /\ row.reward # r \/ row.status # "cancelled" => SoldOf(r) \subseteq SoldOf(r)'
<1>1. /\ k \in ClientKeys /\ Exists(k) /\ row # NoRow /\ redemption'[k] = row
      /\ row.reward = redemption[k].reward
      /\ \A i \in ClientKeys \ {k} : redemption'[i] = redemption[i]
  BY RedemptionConstants DEF Updates, ShopTypeOK, Row
<1> QED BY <1>1 DEF SoldOf, Exists

LEMMA CountedStep ==
  ASSUME ShopInv, NeverOvercounted, Around \/ \E c \in Calls : CallKinds(c)
  PROVE  NeverOvercounted'
<1>0. /\ ShopTypeOK /\ reward \in [Rewards -> RewardRow]
      /\ redemption \in [ClientKeys -> Row \cup {NoRow}] /\ NoRow \notin Row
      /\ \A r \in Rewards : reward[r].sold \in Int /\ reward[r].sold <= Cardinality(SoldOf(r))
  BY RedemptionConstants DEF ShopInv, ShopTypeOK, Row, RewardRow, NeverOvercounted
<1>1. ASSUME NEW r \in Rewards, reward'[r].sold = reward[r].sold, SoldOf(r) \subseteq SoldOf(r)'
      PROVE  reward'[r].sold <= Cardinality(SoldOf(r)')
  <2>1. SoldOf(r)' \subseteq ClientKeys
    BY DEF SoldOf
  <2>2. Cardinality(SoldOf(r)) <= Cardinality(SoldOf(r)') /\ Cardinality(SoldOf(r)) \in Nat
        /\ Cardinality(SoldOf(r)') \in Nat
    BY <1>1, <2>1, SoldFinite
  <2> QED BY <1>0, <1>1, <2>2
<1>2. ASSUME NEW k, NEW row, Updates(k, row), row.status # "cancelled",
             \A r \in Rewards : reward'[r].sold = reward[r].sold
      PROVE  NeverOvercounted'
  BY <1>0, <1>1, <1>2, SoldAfterUpdate DEF NeverOvercounted
<1>3. CASE UNCHANGED redemption /\ \A r \in Rewards : reward'[r].sold = reward[r].sold
  <2>1. \A r \in Rewards : SoldOf(r) \subseteq SoldOf(r)'
    BY <1>3 DEF SoldOf, Exists
  <2> QED BY <1>1, <1>3, <2>1 DEF NeverOvercounted
<1>4. ASSUME NEW c \in Calls, Sells(c) PROVE NeverOvercounted'
  <2> DEFINE new == [user |-> req[c].user, reward |-> req[c].reward, cost |-> price[c],
                     status |-> "active", expired |-> FALSE]
  <2>0. Inserts(req[c].key, new) /\ new.status = "active" /\ new.reward = req[c].reward
    BY <1>4, SellsInserts
  <2> HIDE DEF new
  <2>1. PICK k, p, row : /\ k = req[c].key /\ p = req[c].reward
                         /\ Inserts(k, row) /\ row.status = "active" /\ row.reward = p
    BY <2>0
  <2>2. /\ p \in Rewards /\ k \in ClientKeys /\ ~Exists(k) /\ row # NoRow /\ redemption'[k] = row
        /\ \A i \in ClientKeys \ {k} : redemption'[i] = redemption[i]
    BY <1>0, <2>1, Typed DEF Inserts
  <2>3. \A r \in Rewards : reward'[r].sold = IF r = p THEN reward[r].sold + 1 ELSE reward[r].sold
    BY <1>0, <1>4, <2>1, <2>2 DEF Sells, RewardRow
  <2>4. k \notin SoldOf(p) /\ SoldOf(p)' = SoldOf(p) \cup {k} /\ SoldOf(p) \subseteq ClientKeys
    BY <2>1, <2>2 DEF SoldOf, Exists
  <2>5. reward'[p].sold <= Cardinality(SoldOf(p)')
    <3>1. Cardinality(SoldOf(p)') = Cardinality(SoldOf(p)) + 1 /\ Cardinality(SoldOf(p)) \in Nat
      BY <2>4, SoldFinite
    <3> QED BY <1>0, <2>2, <2>3, <3>1
  <2>6. ASSUME NEW r \in Rewards, r # p PROVE reward'[r].sold <= Cardinality(SoldOf(r)')
    <3>1. SoldOf(r) \subseteq SoldOf(r)'
      BY <2>2 DEF SoldOf, Exists
    <3> QED BY <1>1, <2>3, <2>6, <3>1
  <2> QED BY <2>5, <2>6 DEF NeverOvercounted
<1>5. ASSUME NEW c \in Calls, Uses(c) PROVE NeverOvercounted'
  <2>1. PICK k, row : Updates(k, row) /\ row.status = "used"
    BY <1>0, <1>5, UsesUpdates
  <2>2. \A r \in Rewards : reward'[r].sold = reward[r].sold
    BY <1>5 DEF Uses
  <2> QED BY <1>2, <2>1, <2>2
<1>6. ASSUME NEW c \in Calls, Cancels(c) PROVE NeverOvercounted'
  <2>1. PICK k, row : k = req[c].key /\ Updates(k, row) /\ row.status = "cancelled"
    BY <1>0, <1>6, CancelsUpdates
  <2>2. PICK p : p = redemption[k].reward
    OBVIOUS
  <2>3. p \in Rewards /\ row.reward = p
    BY <1>0, <2>1, <2>2, RowTyped DEF Updates
  <2>4. \A r \in Rewards : reward'[r].sold = IF r = p THEN reward[r].sold - 1 ELSE reward[r].sold
    BY <1>0, <1>6, <2>1, <2>2, <2>3 DEF Cancels, RewardRow
  <2>5. reward'[p].sold <= Cardinality(SoldOf(p)')
    <3>1. SoldOf(p) \ {k} \subseteq SoldOf(p)' /\ SoldOf(p)' \subseteq ClientKeys
          /\ SoldOf(p) \subseteq ClientKeys
      BY <1>0, <2>1, SoldAfterUpdate DEF SoldOf
    <3>2. /\ Cardinality(SoldOf(p)) - 1 <= Cardinality(SoldOf(p) \ {k})
          /\ Cardinality(SoldOf(p) \ {k}) <= Cardinality(SoldOf(p)')
          /\ Cardinality(SoldOf(p)) \in Nat /\ Cardinality(SoldOf(p) \ {k}) \in Nat
          /\ Cardinality(SoldOf(p)') \in Nat
      BY <3>1, SoldFinite
    <3> QED BY <1>0, <2>3, <2>4, <3>2
  <2>6. ASSUME NEW r \in Rewards, r # p PROVE reward'[r].sold <= Cardinality(SoldOf(r)')
    <3>1. SoldOf(r) \subseteq SoldOf(r)'
      BY <1>0, <2>1, <2>3, <2>6, SoldAfterUpdate
    <3> QED BY <1>1, <2>4, <2>6, <3>1
  <2> QED BY <2>5, <2>6 DEF NeverOvercounted
<1>7. ASSUME NEW k \in ClientKeys, Expire(k) PROVE NeverOvercounted'
  <2>1. PICK row : Updates(k, row) /\ row.status = redemption[k].status
    BY <1>0, <1>7, ExpireUpdates, ExpiredRow, RowTyped DEF Expire
  <2>2. row.status # "cancelled" /\ \A r \in Rewards : reward'[r].sold = reward[r].sold
    BY <1>7, <2>1 DEF Expire
  <2> QED BY <1>2, <2>1, <2>2
<1>8. ASSUME NEW r \in Rewards, EditReward(r) PROVE NeverOvercounted'
  <2>1. UNCHANGED redemption /\ \A s \in Rewards : reward'[s].sold = reward[s].sold
    BY <1>0, <1>8 DEF EditReward, Stocked
  <2> QED BY <1>3, <2>1
<1> QED BY <1>3, <1>4, <1>5, <1>6, <1>7, <1>8 DEF CallKinds, Thinks, Rows, Around, Award, Adjust

-----------------------------------------------------------------------------
LEMMA NextKinds ==
  ASSUME ShopInv, [Next]_vars
  PROVE  UNCHANGED vars \/ Around \/ \E c \in Calls : CallKinds(c)
BY StepKinds DEF Next, Around, ShopInv

LEMMA StutterShop ==
  ShopInv /\ UNCHANGED vars =>
    /\ ShopInv' /\ UNCHANGED ledger
    /\ NeverOvercounted => NeverOvercounted'
BY DEF ShopInv, vars, ShopTypeOK, TablesTypeOK, Carried, Carries, Exists, KeyUsed, BalanceMatchesLedger,
       LastAfter, DebitIffRedemption, RefundIsThePayment, NeverOvercounted, SoldOf

LEMMA ShopNext == ShopInv /\ [Next]_vars => ShopInv' /\ [Abstract!Next]_ledger
BY NextKinds, StutterShop, ShopStep

LEMMA ShopInvariant == Spec => []ShopInv
<1>1. Init => ShopInv
  BY ShopStart
<1>2. ShopInv /\ [Next]_vars => ShopInv'
  BY ShopNext
<1> QED BY <1>1, <1>2, PTL DEF Spec

(* Every variable of the shop keeps its type, for any users, rewards,      *)
(* prices, keys and number of requests.                                    *)
THEOREM ShopTypeCorrect == Spec => []ShopTypeOK
BY ShopInvariant, PTL DEF ShopInv

(* The account row and the history never disagree, whatever redeem, cancel *)
(* and the environment post.                                               *)
THEOREM ShopBalanceMatches == Spec => []BalanceMatchesLedger
BY ShopInvariant, PTL DEF ShopInv

(* Points leave an account exactly with a redemption, for its cost         *)
(* (redeem's transaction, and point_txn_id being unique).                  *)
THEOREM DebitsAreRedemptions == Spec => []DebitIffRedemption
BY ShopInvariant, PTL DEF ShopInv

(* However many cancellations overlap, what comes back is what was paid,   *)
(* once, and a cancelled redemption is paid back (cancelAndRefund).        *)
THEOREM RefundsArePayments == Spec => []RefundIsThePayment
BY ShopInvariant, PTL DEF ShopInv

(* The sold counter never runs ahead of the redemptions that took it.      *)
THEOREM CounterNeverAhead == Spec => []NeverOvercounted
<1>1. Init => NeverOvercounted
  BY ShopStart
<1>2. ShopInv /\ NeverOvercounted /\ [Next]_vars => NeverOvercounted'
  BY NextKinds, StutterShop, CountedStep
<1> QED BY <1>1, <1>2, ShopInvariant, PTL DEF Spec

(* A code that was used or cancelled is never active again.                *)
THEOREM ClosedCodesStayClosed == Spec => NeverReactivated
<1> DEFINE Stays == \A k \in ClientKeys :
      Exists(k) => /\ Exists(k)'
                   /\ redemption[k].status # "active" => redemption'[k].status # "active"
<1>1. ShopInv /\ [Next]_vars => [Stays]_vars
  <2> SUFFICES ASSUME ShopInv, Around \/ \E c \in Calls : CallKinds(c) PROVE Stays
    BY NextKinds
  <2>0. ShopTypeOK /\ redemption \in [ClientKeys -> Row \cup {NoRow}] /\ NoRow \notin Row
    BY RedemptionConstants DEF ShopInv, ShopTypeOK, Row
  <2>1. ASSUME NEW k, NEW row, Updates(k, row), row.status = redemption[k].status \/ row.status # "active"
        PROVE  Stays
    BY <2>0, <2>1 DEF Updates, Exists
  <2>2. ASSUME NEW c \in Calls, Sells(c) PROVE Stays
    <3>1. PICK k, row : Inserts(k, row)
      BY <2>2, SellsInserts
    <3> QED BY <2>0, <3>1 DEF Inserts, Exists
  <2>3. ASSUME NEW c \in Calls, Uses(c) \/ Cancels(c) PROVE Stays
    <3>1. PICK k, row : Updates(k, row) /\ row.status # "active"
      BY <2>0, <2>3, UsesUpdates, CancelsUpdates
    <3> QED BY <2>1, <3>1
  <2>4. ASSUME NEW k \in ClientKeys, Expire(k) PROVE Stays
    <3>1. PICK row : Updates(k, row) /\ row.status = redemption[k].status
      BY <2>0, <2>4, ExpireUpdates, ExpiredRow, RowTyped DEF Expire
    <3> QED BY <2>1, <3>1
  <2>5. CASE UNCHANGED redemption
    BY <2>5 DEF Exists
  <2> QED BY <2>2, <2>3, <2>4, <2>5 DEF CallKinds, Thinks, Rows, Around, EditReward, Award, Adjust
<1> QED BY <1>1, ShopInvariant, PTL DEF Spec, NeverReactivated

(* The shop implements the promised ledger.                                *)
THEOREM ShopImplementsLedger == Spec => ImplementsLedger
<1>1. Init => Abstract!Init
  BY TablesStart DEF Init
<1>2. ShopInv /\ [Next]_vars => [Abstract!Next]_ledger
  BY ShopNext
<1> QED BY ShopInvariant, <1>1, <1>2, PTL DEF Spec, ImplementsLedger, Abstract!Spec
-----------------------------------------------------------------------------
(* One request at a time.  What a request has read is then still true when *)
(* it writes: stock of the reward, points for the price, an active code.   *)
Alone == \A c, d \in Calls : pc[c] # "idle" /\ pc[d] # "idle" => c = d

Relies(step, p, x) ==
  /\ step \in Priced => HasStock(reward[p.reward])
  /\ step = "affordable" => balance[p.user] >= x
  /\ step \in {"verified", "cancellable", "refund_new"} => redemption[p.key].status = "active"
  /\ step # "refund_known"

Relied == \A c \in Calls : Relies(pc[c], req[c], price[c])

SerialInv ==
  /\ ShopInv
  /\ Alone
  /\ Relied
  /\ SoldCountExact
  /\ RefundIffCancelled
  /\ RedeemNeverOverdraws

(* The kinds again, with what the reads made sure of.                      *)
SellsStock(c) ==
  /\ Sells(c)
  /\ HasStock(reward[req[c].reward])
  /\ balance[req[c].user] >= price[c]

UsesActive(c) == Uses(c) /\ redemption[req[c].key].status = "active"

CancelsActive(c) ==
  /\ Cancels(c)
  /\ redemption[req[c].key].status = "active"
  /\ ~KeyUsed(Key("refund", req[c].key))

Writes(c) == pc'[c] = "idle" /\ (SellsStock(c) \/ UsesActive(c) \/ CancelsActive(c))

SerialKinds(c) ==
  /\ \A d \in Calls \ {c} : pc[d] = "idle"
  /\ \/ Thinks(c) /\ Relies(pc'[c], req'[c], price'[c])
     \/ Writes(c)

SerialAround ==
  \/ (\E r \in Rewards : EditReward(r)) /\ \A c \in Calls : pc[c] = "idle"
  \/ \E k \in ClientKeys : Expire(k)
  \/ \E u \in Users : Award(u)
  \/ (\E u \in Users : Adjust(u)) /\ \A c \in Calls : pc[c] = "idle"

LEMMA NobodyInFlight ==
  ASSUME MaxInFlight = 1, Alone, Cardinality(InFlight) < MaxInFlight
  PROVE  \A c \in Calls : pc[c] = "idle"
<1> SUFFICES ASSUME NEW c \in Calls, pc[c] # "idle" PROVE FALSE
  OBVIOUS
<1>1. InFlight = {c}
  BY DEF InFlight, Alone
<1>2. Cardinality({c}) = 1
  BY FS_Singleton
<1> QED BY <1>1, <1>2

LEMMA IdleRelies ==
  ASSUME NEW step, NEW p, NEW x, step \notin Priced,
         step \notin {"verified", "cancellable", "refund_new", "refund_known"}
  PROVE  Relies(step, p, x)
BY DEF Relies, Priced

LEMMA Answers ==
  ASSUME ShopTypeOK, NEW c \in Calls, Answer(c)
  PROVE  pc'[c] = "idle"
BY Typed DEF Answer

LEMMA Goes ==
  ASSUME ShopTypeOK, NEW c \in Calls, NEW s, Goto(c, s)
  PROVE  pc'[c] = s /\ req'[c] = req[c] /\ price'[c] = price[c]
BY Typed DEF Goto

LEMMA SerialSteps ==
  ASSUME MaxInFlight = 1, SerialInv, NEW c \in Calls, Request(c) \/ Serve(c) \/ Fail(c)
  PROVE  SerialKinds(c)
<1>0. /\ ShopInv /\ ShopTypeOK /\ Carried /\ Alone /\ Relies(pc[c], req[c], price[c])
      /\ Carries(pc[c], req[c], price[c])
      /\ req[c].user \in Users /\ req[c].reward \in Rewards /\ req[c].key \in ClientKeys
  BY Typed DEF SerialInv, ShopInv, Carried, Relied
<1>1. Moves(c)
  BY <1>0, StepKinds DEF CallKinds, Thinks, Sells, Uses, Cancels
<1>2. \A d \in Calls \ {c} : pc[d] = "idle"
  <2>1. CASE Request(c)
    BY <1>0, <2>1, NobodyInFlight DEF Request
  <2>2. CASE Serve(c) \/ Fail(c)
    <3>1. pc[c] # "idle"
      BY <2>2 DEF Serve, Fail, ReadReward, FindExisting, CheckBalance, RedeemCommit, VerifyRead,
                  VerifyWrite, CancelRead, RefundLookup, CancelCommit
    <3> QED BY <1>0, <3>1 DEF Alone
  <2> QED BY <2>1, <2>2
<1>3. ASSUME UNCHANGED <<tables, reward, redemption>>, Relies(pc'[c], req'[c], price'[c])
      PROVE  SerialKinds(c)
  BY <1>1, <1>2, <1>3 DEF SerialKinds, Thinks, tables, Rows
<1>4. ASSUME UNCHANGED <<tables, reward, redemption>>, Answer(c)
      PROVE  SerialKinds(c)
  <2>1. Relies(pc'[c], req'[c], price'[c])
    BY <1>0, <1>4, Answers, IdleRelies DEF Priced
  <2> QED BY <1>3, <1>4, <2>1
<1>5. ASSUME UNCHANGED <<tables, reward, redemption>>, NEW s, Goto(c, s), Relies(s, req[c], price[c])
      PROVE  SerialKinds(c)
  BY <1>0, <1>3, <1>5, Goes
<1>6. ASSUME Answer(c), SellsStock(c) \/ UsesActive(c) \/ CancelsActive(c)
      PROVE  SerialKinds(c)
  BY <1>0, <1>2, <1>6, Answers DEF SerialKinds, Writes
<1>7. CASE Request(c)
  <2>1. PICK s \in {"redeem", "verify", "cancel"} : pc' = [pc EXCEPT ![c] = s]
    BY <1>7 DEF Request
  <2>2. pc'[c] = s
    BY <1>0, <2>1, Typed
  <2>3. Relies(pc'[c], req'[c], price'[c])
    BY <2>1, <2>2, IdleRelies DEF Priced
  <2> QED BY <1>3, <1>7, <2>3 DEF Request
<1>8. CASE ReadReward(c)
  <2>1. UNCHANGED <<tables, reward, redemption>>
    BY <1>8 DEF ReadReward
  <2>2. ASSUME HasStock(reward[req[c].reward]), pc' = [pc EXCEPT ![c] = "listed"], UNCHANGED req
        PROVE  SerialKinds(c)
    <3>1. pc'[c] = "listed" /\ req'[c] = req[c]
      BY <1>0, <2>2, Typed
    <3>2. Relies(pc'[c], req'[c], price'[c])
      BY <2>2, <3>1 DEF Relies
    <3> QED BY <1>3, <2>1, <3>2
  <2> QED BY <1>4, <1>8, <2>1, <2>2 DEF ReadReward
<1>9. CASE FindExisting(c)
  <2>1. UNCHANGED <<tables, reward, redemption>> /\ Relies("unclaimed", req[c], price[c])
    BY <1>0, <1>9 DEF FindExisting, Relies, Priced
  <2> QED BY <1>4, <1>5, <1>9, <2>1 DEF FindExisting
<1>10. CASE CheckBalance(c)
  <2>1. UNCHANGED <<tables, reward, redemption>>
    BY <1>10 DEF CheckBalance
  <2>2. ~(balance[req[c].user] < price[c]) => Relies("affordable", req[c], price[c])
    <3>1. balance[req[c].user] \in Int /\ price[c] \in Int
      <4>1. price[c] \in Costs \cup {0} /\ balance \in [Users -> Int]
        BY <1>0, Typed DEF ShopTypeOK, TablesTypeOK
      <4>2. \A x \in Costs : x \in Int
        BY RedemptionConstants
      <4> QED BY <1>0, <4>1, <4>2
    <3> QED BY <1>0, <1>10, <3>1 DEF CheckBalance, Relies, Priced
  <2> QED BY <1>4, <1>5, <1>10, <2>1, <2>2 DEF CheckBalance
<1>11. CASE RedeemCommit(c)
  <2>1. CASE ~(req[c].user \in Blocked \/ KeyUsed(Key("redeem", req[c].key)))
    <3>1. Answer(c)
      BY <1>11 DEF RedeemCommit
    <3>2. price[c] \in Costs /\ HasStock(reward[req[c].reward]) /\ balance[req[c].user] >= price[c]
      BY <1>0, <1>11 DEF RedeemCommit, Carries, Priced, Relies
    <3>3. Sells(c)
      BY <1>1, <1>11, <2>1, <3>2 DEF RedeemCommit, Sells
    <3> QED BY <1>6, <3>1, <3>2, <3>3 DEF SellsStock
  <2> QED BY <1>4, <1>11, <2>1 DEF RedeemCommit
<1>12. CASE VerifyRead(c)
  <2>1. /\ UNCHANGED <<tables, reward, redemption>>
        /\ redemption[req[c].key].status = "active" => Relies("verified", req[c], price[c])
    BY <1>12 DEF VerifyRead, Relies, Priced
  <2> QED BY <1>4, <1>5, <1>12, <2>1 DEF VerifyRead
<1>13. CASE VerifyWrite(c)
  <2>1. Answer(c) /\ Exists(req[c].key) /\ redemption[req[c].key].status = "active"
    BY <1>0, <1>13 DEF VerifyWrite, Carries, Named, Relies
  <2>2. Uses(c)
    BY <1>1, <1>13, <2>1 DEF VerifyWrite, Uses, tables
  <2> QED BY <1>6, <2>1, <2>2 DEF UsesActive
<1>14. CASE CancelRead(c)
  <2>1. /\ UNCHANGED <<tables, reward, redemption>>
        /\ redemption[req[c].key].status = "active" => Relies("cancellable", req[c], price[c])
    BY <1>14 DEF CancelRead, Relies, Priced
  <2> QED BY <1>4, <1>5, <1>14, <2>1 DEF CancelRead
<1>15. CASE RefundLookup(c)
  <2>1. UNCHANGED <<tables, reward, redemption>> /\ redemption[req[c].key].status = "active"
    BY <1>0, <1>15 DEF RefundLookup, Relies
  <2>2. Relies("refund_new", req[c], price[c])
    BY <2>1 DEF Relies, Priced
  <2>3. ~KeyUsed(Key("refund", req[c].key))
    BY <1>0, <2>1 DEF SerialInv, RefundIffCancelled
  <2> QED BY <1>4, <1>5, <1>15, <2>1, <2>2, <2>3 DEF RefundLookup
<1>16. CASE CancelCommit(c)
  <2>1. /\ Exists(req[c].key) /\ redemption[req[c].key].status = "active"
        /\ pc[c] = "refund_new"
    BY <1>0, <1>16 DEF CancelCommit, Carries, Named, Relies
  <2>2. ~KeyUsed(Key("refund", req[c].key))
    BY <1>0, <2>1 DEF SerialInv, RefundIffCancelled
  <2>3. Answer(c) /\ Cancels(c)
    BY <1>1, <1>16, <2>1, <2>2 DEF CancelCommit, Cancelled, Cancels, RefundAmount
  <2> QED BY <1>6, <2>1, <2>2, <2>3 DEF CancelsActive
<1>17. CASE Fail(c)
  BY <1>4, <1>17 DEF Fail
<1> QED BY <1>7, <1>8, <1>9, <1>10, <1>11, <1>12, <1>13, <1>14, <1>15, <1>16, <1>17 DEF Serve

LEMMA SerialNext ==
  ASSUME MaxInFlight = 1, SerialInv, [Next]_vars
  PROVE  UNCHANGED vars \/ SerialAround \/ \E c \in Calls : SerialKinds(c)
<1>0. Alone
  BY DEF SerialInv
<1>1. ASSUME NEW c \in Calls, Request(c) \/ Serve(c) \/ Fail(c) PROVE SerialKinds(c)
  BY <1>1, SerialSteps
<1>2. ASSUME NEW r \in Rewards, EditReward(r) PROVE SerialAround
  BY <1>0, <1>2, NobodyInFlight DEF EditReward, SerialAround
<1>3. ASSUME NEW u \in Users, Adjust(u) PROVE SerialAround
  BY <1>0, <1>3, NobodyInFlight DEF Adjust, SerialAround
<1> QED BY <1>1, <1>2, <1>3 DEF Next, SerialAround

(* They are among the kinds of before.                                     *)
LEMMA SerialAreKinds ==
  ASSUME SerialAround \/ \E c \in Calls : SerialKinds(c)
  PROVE  Around \/ \E c \in Calls : CallKinds(c)
BY DEF SerialAround, Around, SerialKinds, CallKinds, Writes, SellsStock, UsesActive, CancelsActive

(* The rows before and after a step that writes one of them.               *)
LEMMA UpdatesAt ==
  ASSUME ShopTypeOK, NEW k, NEW row, Updates(k, row)
  PROVE  /\ k \in ClientKeys /\ Exists(k) /\ Exists(k)' /\ redemption'[k] = row
         /\ \A i \in ClientKeys \ {k} : redemption'[i] = redemption[i] /\ (Exists(i)' <=> Exists(i))
         /\ \A i \in ClientKeys : Exists(i)' <=> Exists(i)
BY RedemptionConstants DEF Updates, ShopTypeOK, Row, Exists

LEMMA InsertsAt ==
  ASSUME ShopTypeOK, NEW k, NEW row, Inserts(k, row)
  PROVE  /\ k \in ClientKeys /\ ~Exists(k) /\ Exists(k)' /\ redemption'[k] = row
         /\ \A i \in ClientKeys \ {k} : redemption'[i] = redemption[i] /\ (Exists(i)' <=> Exists(i))
BY RedemptionConstants DEF Inserts, ShopTypeOK, Row, Exists

LEMMA ExactStep ==
  ASSUME SerialInv, SerialAround \/ \E c \in Calls : SerialKinds(c)
  PROVE  SoldCountExact'
<1>0. /\ ShopInv /\ ShopTypeOK /\ reward \in [Rewards -> RewardRow]
      /\ \A r \in Rewards : reward[r].sold \in Int /\ reward[r].sold = Cardinality(SoldOf(r))
      /\ \A r : SoldOf(r) \subseteq ClientKeys /\ IsFiniteSet(SoldOf(r))
      /\ \A r : Cardinality(SoldOf(r)) \in Nat
  BY SoldFinite DEF SerialInv, ShopInv, ShopTypeOK, RewardRow, SoldCountExact, SoldOf
<1>1. ASSUME \A r \in Rewards : reward'[r].sold = reward[r].sold,
             \A r \in Rewards : SoldOf(r)' = SoldOf(r)
      PROVE  SoldCountExact'
  BY <1>0, <1>1 DEF SoldCountExact
<1>2. ASSUME NEW k, NEW row, Updates(k, row), row.status # "cancelled",
             redemption[k].status # "cancelled",
             \A r \in Rewards : reward'[r].sold = reward[r].sold
      PROVE  SoldCountExact'
  <2>1. /\ k \in ClientKeys /\ Exists(k) /\ Exists(k)' /\ redemption'[k] = row
        /\ \A i \in ClientKeys \ {k} : redemption'[i] = redemption[i] /\ (Exists(i)' <=> Exists(i))
        /\ row.reward = redemption[k].reward
    BY <1>0, <1>2, UpdatesAt DEF Updates
  <2>2. ASSUME NEW r \in Rewards PROVE SoldOf(r)' = SoldOf(r)
    BY <1>2, <2>1 DEF SoldOf
  <2> QED BY <1>1, <1>2, <2>2
<1>3. ASSUME UNCHANGED redemption, \A r \in Rewards : reward'[r].sold = reward[r].sold
      PROVE  SoldCountExact'
  <2>1. \A r \in Rewards : SoldOf(r)' = SoldOf(r)
    BY <1>3 DEF SoldOf, Exists
  <2> QED BY <1>1, <1>3, <2>1
<1>4. ASSUME NEW c \in Calls, Sells(c) PROVE SoldCountExact'
  <2> DEFINE new == [user |-> req[c].user, reward |-> req[c].reward, cost |-> price[c],
                     status |-> "active", expired |-> FALSE]
  <2>0. Inserts(req[c].key, new) /\ new.status = "active" /\ new.reward = req[c].reward
    BY <1>0, <1>4, SellsInserts
  <2> HIDE DEF new
  <2>1. PICK k, p, row : /\ k = req[c].key /\ p = req[c].reward
                         /\ Inserts(k, row) /\ row.status = "active" /\ row.reward = p
    BY <2>0
  <2>2. p \in Rewards
    BY <1>0, <2>1, Typed
  <2>3. \A r \in Rewards : reward'[r].sold = IF r = p THEN reward[r].sold + 1 ELSE reward[r].sold
    BY <1>0, <1>4, <2>1, <2>2 DEF Sells, RewardRow
  <2>4. k \notin SoldOf(p) /\ SoldOf(p)' = SoldOf(p) \cup {k}
    BY <1>0, <2>1, InsertsAt DEF SoldOf
  <2>5. Cardinality(SoldOf(p) \cup {k}) = Cardinality(SoldOf(p)) + 1
    BY <1>0, <2>4, SoldFinite
  <2>6. ASSUME NEW r \in Rewards, r # p PROVE SoldOf(r)' = SoldOf(r)
    BY <1>0, <2>1, <2>6, InsertsAt DEF SoldOf
  <2>7. reward'[p].sold = Cardinality(SoldOf(p)')
    BY <1>0, <2>2, <2>3, <2>4, <2>5
  <2>8. ASSUME NEW r \in Rewards, r # p PROVE reward'[r].sold = Cardinality(SoldOf(r)')
    BY <1>0, <2>3, <2>6, <2>8
  <2> QED BY <2>7, <2>8 DEF SoldCountExact
<1>5. ASSUME NEW c \in Calls, UsesActive(c) PROVE SoldCountExact'
  <2>1. PICK k, row : k = req[c].key /\ Updates(k, row) /\ row.status = "used"
    BY <1>0, <1>5, UsesUpdates DEF UsesActive
  <2> QED BY <1>2, <1>5, <2>1 DEF UsesActive, Uses
<1>6. ASSUME NEW c \in Calls, CancelsActive(c) PROVE SoldCountExact'
  <2>1. PICK k, row : k = req[c].key /\ Updates(k, row) /\ row.status = "cancelled"
    BY <1>0, <1>6, CancelsUpdates DEF CancelsActive
  <2>2. PICK p : p = redemption[k].reward
    OBVIOUS
  <2>3. p \in Rewards /\ row.reward = p /\ k \in ClientKeys /\ Exists(k)
    BY <1>0, <2>1, <2>2, RowTyped DEF Updates
  <2>4. \A r \in Rewards : reward'[r].sold = IF r = p THEN reward[r].sold - 1 ELSE reward[r].sold
    BY <1>0, <1>6, <2>1, <2>2, <2>3 DEF CancelsActive, Cancels, RewardRow
  <2>5. k \in SoldOf(p) /\ SoldOf(p)' = SoldOf(p) \ {k}
    BY <1>0, <1>6, <2>1, <2>2, <2>3, UpdatesAt DEF SoldOf, CancelsActive
  <2>6. Cardinality(SoldOf(p) \ {k}) = Cardinality(SoldOf(p)) - 1
    BY <1>0, <2>5, FS_RemoveElement
  <2>7. reward'[p].sold = Cardinality(SoldOf(p)')
    BY <1>0, <2>3, <2>4, <2>5, <2>6
  <2>8. ASSUME NEW r \in Rewards, r # p PROVE reward'[r].sold = Cardinality(SoldOf(r)')
    <3>1. SoldOf(r)' = SoldOf(r)
      BY <1>0, <2>1, <2>2, <2>3, <2>8, UpdatesAt DEF SoldOf
    <3> QED BY <1>0, <2>4, <2>8, <3>1
  <2> QED BY <2>7, <2>8 DEF SoldCountExact
<1>7. ASSUME NEW k \in ClientKeys, Expire(k) PROVE SoldCountExact'
  <2>1. PICK row : Updates(k, row) /\ row.status = redemption[k].status
    BY <1>0, <1>7, ExpireUpdates, ExpiredRow, RowTyped DEF Expire
  <2> QED BY <1>2, <1>7, <2>1 DEF Expire
<1>8. ASSUME NEW r \in Rewards, EditReward(r) PROVE SoldCountExact'
  <2>1. UNCHANGED redemption /\ \A s \in Rewards : reward'[s].sold = reward[s].sold
    BY <1>0, <1>8 DEF EditReward, Stocked
  <2> QED BY <1>3, <2>1
<1> QED BY <1>3, <1>4, <1>5, <1>6, <1>7, <1>8
        DEF SerialKinds, Writes, SellsStock, Thinks, Rows, SerialAround, Award, Adjust

(* Which keys a posting makes used: its own.                               *)
LEMMA PostsKeys ==
  ASSUME TablesTypeOK, NEW u, NEW k, NEW d, Posts(u, k, d), NEW x
  PROVE  KeyUsed(x)' <=> KeyUsed(x) \/ x = k
<1>1. u \in Users /\ k \in Keys /\ d \in Amounts /\ PostEntry(u, k, d)
  BY DEF Posts
<1>2. RowsAfter(u, k, d) /\ (KeyUsed(x) => KeyUsed(x)') /\ KeyUsed(k)'
  BY <1>1, PostEntryRows, PostEntryKeeps DEF RowsAfter
<1>3. ASSUME KeyUsed(x)' PROVE KeyUsed(x) \/ x = k
  <2>1. PICK v \in Users : \E i \in DOMAIN ledger'[v] : ledger'[v][i].key = x
    BY <1>3 DEF KeyUsed
  <2>2. PICK i \in DOMAIN ledger'[v] : ledger'[v][i].key = x
    BY <2>1
  <2>3. CASE i \in DOMAIN ledger[v]
    <3>1. ledger[v][i].key = x
      BY <1>2, <2>2, <2>3 DEF RowsAfter
    <3> QED BY <2>3, <3>1 DEF KeyUsed
  <2>4. CASE i \notin DOMAIN ledger[v]
    <3>1. ledger'[v][i].key = k
      BY <1>2, <2>2, <2>4 DEF RowsAfter
    <3> QED BY <2>2, <3>1
  <2> QED BY <2>3, <2>4
<1> QED BY <1>2, <1>3

(* Points come back in the step that cancels, and in no other.             *)
LEMMA RefundStep ==
  ASSUME SerialInv, SerialAround \/ \E c \in Calls : SerialKinds(c)
  PROVE  RefundIffCancelled'
<1>0. /\ ShopInv /\ ShopTypeOK /\ TablesTypeOK
      /\ \A k \in ClientKeys :
           KeyUsed(Key("refund", k)) <=> Exists(k) /\ redemption[k].status = "cancelled"
  BY DEF SerialInv, ShopInv, ShopTypeOK, RefundIffCancelled
<1>1. ASSUME NEW u, NEW x, NEW d, Posts(u, x, d), x.kind # "refund"
      PROVE  \A k \in ClientKeys : KeyUsed(Key("refund", k))' <=> KeyUsed(Key("refund", k))
  <2>1. ASSUME NEW k \in ClientKeys PROVE KeyUsed(Key("refund", k))' <=> KeyUsed(Key("refund", k))
    <3>1. PICK y : y = Key("refund", k)
      OBVIOUS
    <3>2. y # x
      BY <1>1, <3>1, KeyFields
    <3> QED BY <1>0, <1>1, <3>1, <3>2, PostsKeys
  <2> QED BY <2>1
<1>2. ASSUME UNCHANGED ledger
      PROVE  \A k \in ClientKeys : KeyUsed(Key("refund", k))' <=> KeyUsed(Key("refund", k))
  BY <1>2 DEF KeyUsed
<1>3. ASSUME \A k \in ClientKeys : KeyUsed(Key("refund", k))' <=> KeyUsed(Key("refund", k)),
             \A k \in ClientKeys :
               Exists(k)' /\ redemption'[k].status = "cancelled"
                 <=> Exists(k) /\ redemption[k].status = "cancelled"
      PROVE  RefundIffCancelled'
  BY <1>0, <1>3 DEF RefundIffCancelled
<1>4. ASSUME NEW k, NEW row, Updates(k, row), row.status # "cancelled", redemption[k].status # "cancelled",
             UNCHANGED ledger
      PROVE  RefundIffCancelled'
  BY <1>0, <1>2, <1>3, <1>4, UpdatesAt
<1>5. ASSUME UNCHANGED redemption,
             \A k \in ClientKeys : KeyUsed(Key("refund", k))' <=> KeyUsed(Key("refund", k))
      PROVE  RefundIffCancelled'
  BY <1>3, <1>5 DEF Exists
<1>6. ASSUME NEW c \in Calls, Sells(c) PROVE RefundIffCancelled'
  <2> DEFINE new == [user |-> req[c].user, reward |-> req[c].reward, cost |-> price[c],
                     status |-> "active", expired |-> FALSE]
  <2>0. Inserts(req[c].key, new) /\ new.status = "active"
    BY <1>0, <1>6, SellsInserts
  <2> HIDE DEF new
  <2>1. PICK k, row : Inserts(k, row) /\ row.status = "active"
    BY <2>0
  <2>2. \A i \in ClientKeys : KeyUsed(Key("refund", i))' <=> KeyUsed(Key("refund", i))
    <3>1. PICK x : x = Key("redeem", req[c].key)
      OBVIOUS
    <3>2. x.kind # "refund" /\ \E u, d : Posts(u, x, d)
      BY <1>0, <1>6, <3>1, SellsPosts, KeyFields
    <3> QED BY <1>1, <3>2
  <2> QED BY <1>0, <1>3, <2>1, <2>2, InsertsAt
<1>7. ASSUME NEW c \in Calls, UsesActive(c) PROVE RefundIffCancelled'
  <2>1. PICK k, row : k = req[c].key /\ Updates(k, row) /\ row.status = "used"
    BY <1>0, <1>7, UsesUpdates DEF UsesActive
  <2> QED BY <1>4, <1>7, <2>1 DEF UsesActive, Uses
<1>8. ASSUME NEW c \in Calls, CancelsActive(c) PROVE RefundIffCancelled'
  <2>1. PICK k, row : k = req[c].key /\ Updates(k, row) /\ row.status = "cancelled"
    BY <1>0, <1>8, CancelsUpdates DEF CancelsActive
  <2>2. PICK x : x = Key("refund", k)
    OBVIOUS
  <2>3. PICK u, d : Posts(u, x, d)
    BY <1>0, <1>8, <2>1, <2>2, CancelsPosts DEF CancelsActive
  <2>4. ASSUME NEW i \in ClientKeys
        PROVE  KeyUsed(Key("refund", i))' <=> KeyUsed(Key("refund", i)) \/ i = k
    <3>1. PICK y : y = Key("refund", i)
      OBVIOUS
    <3>2. y = x <=> i = k
      BY <2>2, <3>1, KeyFields
    <3> QED BY <1>0, <2>3, <3>1, <3>2, PostsKeys
  <2>5. ASSUME NEW i \in ClientKeys
        PROVE  Exists(i)' /\ redemption'[i].status = "cancelled"
                 <=> (Exists(i) /\ redemption[i].status = "cancelled") \/ i = k
    BY <1>0, <2>1, UpdatesAt
  <2>6. ASSUME NEW i \in ClientKeys
        PROVE  KeyUsed(Key("refund", i))' <=> Exists(i)' /\ redemption'[i].status = "cancelled"
    BY <1>0, <2>4, <2>5
  <2> QED BY <2>6 DEF RefundIffCancelled
<1>9. ASSUME NEW k \in ClientKeys, Expire(k) PROVE RefundIffCancelled'
  <2>1. PICK row : Updates(k, row) /\ row.status = redemption[k].status
    BY <1>0, <1>9, ExpireUpdates, ExpiredRow, RowTyped DEF Expire
  <2> QED BY <1>4, <1>9, <2>1 DEF Expire, tables
<1>10. ASSUME NEW u \in Users, Award(u) \/ Adjust(u) PROVE RefundIffCancelled'
  <2>1. PICK x, d : Posts(u, x, d) /\ x.kind \in {"award", "adjust"}
    BY <1>10, KeysTyped, KeyFields DEF Award, Adjust, Posts
  <2>2. UNCHANGED redemption
    BY <1>10 DEF Award, Adjust
  <2> QED BY <1>1, <1>5, <2>1, <2>2
<1>11. CASE UNCHANGED <<ledger, redemption>>
  BY <1>2, <1>5, <1>11
<1> QED BY <1>6, <1>7, <1>8, <1>9, <1>10, <1>11
        DEF SerialKinds, Writes, SellsStock, Thinks, Rows, SerialAround, EditReward, tables

(* The only debit of a redemption is a sale's, out of points still there.  *)
LEMMA OverdrawStep ==
  ASSUME SerialInv, SerialAround \/ \E c \in Calls : SerialKinds(c)
  PROVE  RedeemNeverOverdraws'
<1>0. ShopInv /\ ShopTypeOK /\ TablesTypeOK /\ RedeemNeverOverdraws
  BY DEF SerialInv, ShopInv, ShopTypeOK
<1>1. ASSUME NEW u, NEW k, NEW d, Posts(u, k, d), k.kind = "redeem" => balance[u] + d >= 0
      PROVE  RedeemNeverOverdraws'
  <2>1. u \in Users /\ RowsAfter(u, k, d)
    BY <1>0, <1>1, PostEntryRows DEF Posts
  <2>2. ASSUME NEW v \in Users, NEW i \in DOMAIN ledger'[v], ledger'[v][i].key.kind = "redeem"
        PROVE  ledger'[v][i].after >= 0
    <3>1. CASE i \in DOMAIN ledger[v]
      <4>1. ledger'[v][i] = ledger[v][i]
        BY <2>1, <3>1 DEF RowsAfter
      <4> QED BY <1>0, <2>2, <3>1, <4>1 DEF RedeemNeverOverdraws
    <3>2. CASE i \notin DOMAIN ledger[v]
      <4>1. v = u /\ ledger'[v][i] = [key |-> k, delta |-> d, after |-> balance[u] + d]
        BY <2>1, <3>2 DEF RowsAfter
      <4> QED BY <1>1, <2>2, <4>1
    <3> QED BY <3>1, <3>2
  <2> QED BY <2>2 DEF RedeemNeverOverdraws
<1>2. CASE UNCHANGED ledger
  BY <1>0, <1>2 DEF RedeemNeverOverdraws
<1>3. ASSUME NEW c \in Calls, SellsStock(c) PROVE RedeemNeverOverdraws'
  <2>1. PICK u, k, d : u = req[c].user /\ k = Key("redeem", req[c].key) /\ d = -price[c]
    OBVIOUS
  <2>2. Posts(u, k, d)
    BY <1>0, <1>3, <2>1, SellsPosts DEF SellsStock
  <2>3. balance[u] \in Int /\ price[c] \in Int /\ balance[u] >= price[c]
    <3>1. u \in Users /\ balance \in [Users -> Int]
      BY <1>0, <2>2 DEF Posts, TablesTypeOK
    <3>2. price[c] \in Costs /\ \A x \in Costs : x \in Int
      BY <1>3, KeysTyped DEF SellsStock, Sells
    <3> QED BY <1>3, <2>1, <3>1, <3>2 DEF SellsStock
  <2> QED BY <1>1, <2>1, <2>2, <2>3
<1>4. ASSUME NEW c \in Calls, CancelsActive(c) PROVE RedeemNeverOverdraws'
  <2>1. PICK k : k = Key("refund", req[c].key)
    OBVIOUS
  <2>2. k.kind = "refund" /\ \E u, d : Posts(u, k, d)
    BY <1>0, <1>4, <2>1, CancelsPosts, KeyFields DEF CancelsActive
  <2> QED BY <1>1, <2>2
<1>5. ASSUME NEW u \in Users, Award(u) \/ Adjust(u) PROVE RedeemNeverOverdraws'
  <2>1. PICK x, d : Posts(u, x, d) /\ x.kind \in {"award", "adjust"}
    BY <1>5, KeysTyped, KeyFields DEF Award, Adjust, Posts
  <2> QED BY <1>1, <2>1
<1> QED BY <1>2, <1>3, <1>4, <1>5
        DEF SerialKinds, Writes, UsesActive, Uses, Thinks, Rows, SerialAround, EditReward, Expire, tables

(* A request stays alone, and what it relies on is touched by nobody but   *)
(* an award, which only adds points, and an expiry, which leaves the       *)
(* status.                                                                 *)
LEMMA ReliedStep ==
  ASSUME SerialInv, SerialAround \/ \E c \in Calls : SerialKinds(c)
  PROVE  Alone' /\ Relied'
<1>0. ShopInv /\ ShopTypeOK /\ TablesTypeOK /\ Alone /\ Relied
  BY DEF SerialInv, ShopInv, ShopTypeOK
<1>1. ASSUME NEW c \in Calls, SerialKinds(c) PROVE Alone' /\ Relied'
  <2>1. \A d \in Calls \ {c} : pc'[d] = "idle"
    BY <1>1 DEF SerialKinds, Writes, Thinks, SellsStock, UsesActive, CancelsActive,
                Sells, Uses, Cancels, Moves
  <2>2. Relies(pc[c], req[c], price[c])'
    <3>1. CASE pc'[c] = "idle"
      BY <3>1 DEF Relies, Priced
    <3>2. CASE Thinks(c) /\ Relies(pc'[c], req'[c], price'[c])
      BY <3>2 DEF Thinks, Rows, Relies
    <3> QED BY <1>1, <3>1, <3>2 DEF SerialKinds, Writes
  <2>3. ASSUME NEW d \in Calls, d # c PROVE Relies(pc[d], req[d], price[d])'
    BY <2>1, <2>3 DEF Relies, Priced
  <2> QED BY <2>1, <2>2, <2>3 DEF Alone, Relied
<1>2. ASSUME UNCHANGED <<pc, req, price>>, \A c \in Calls : pc[c] = "idle"
      PROVE  Alone' /\ Relied'
  BY <1>2 DEF Alone, Relied, Relies, Priced
<1>3. ASSUME NEW k \in ClientKeys, Expire(k) PROVE Alone' /\ Relied'
  <2>1. PICK row : Updates(k, row) /\ row.status = redemption[k].status
    BY <1>0, <1>3, ExpireUpdates, ExpiredRow, RowTyped DEF Expire
  <2>2. \A i \in ClientKeys : redemption'[i].status = redemption[i].status
    BY <1>0, <2>1, UpdatesAt
  <2>3. UNCHANGED <<pc, req, price, reward, balance>>
    BY <1>3 DEF Expire, tables
  <2>4. ASSUME NEW c \in Calls PROVE Relies(pc[c], req[c], price[c])'
    <3>1. Relies(pc[c], req[c], price[c]) /\ req[c].key \in ClientKeys
      BY <1>0, Typed DEF Relied
    <3> QED BY <2>2, <2>3, <3>1 DEF Relies, HasStock
  <2> QED BY <1>0, <2>3, <2>4 DEF Alone, Relied
<1>4. ASSUME NEW u \in Users, Award(u) PROVE Alone' /\ Relied'
  <2>1. \A v \in Users : balance'[v] \in Int /\ balance[v] \in Int /\ balance'[v] >= balance[v]
    <3>1. Grant \in Nat /\ balance \in [Users -> Int] /\ balance' = [balance EXCEPT ![u] = balance[u] + Grant]
      BY <1>0, <1>4, RedemptionConstants DEF Award, PostEntry, TablesTypeOK
    <3> QED BY <3>1
  <2>2. UNCHANGED <<pc, req, price, reward, redemption>>
    BY <1>4 DEF Award
  <2>3. ASSUME NEW c \in Calls PROVE Relies(pc[c], req[c], price[c])'
    <3>1. Relies(pc[c], req[c], price[c]) /\ req[c].user \in Users /\ price[c] \in Costs \cup {0}
      BY <1>0, Typed DEF Relied
    <3>2. price[c] \in Int
      BY <3>1, KeysTyped
    <3>3. balance[req[c].user] >= price[c] => balance'[req[c].user] >= price[c]
      BY <2>1, <3>1, <3>2
    <3> QED BY <2>2, <3>1, <3>3 DEF Relies, HasStock
  <2> QED BY <1>0, <2>2, <2>3 DEF Alone, Relied
<1> QED BY <1>1, <1>2, <1>3, <1>4 DEF SerialAround, EditReward, Adjust

LEMMA SerialStart == Init => SerialInv
<1> SUFFICES ASSUME Init PROVE SerialInv
  OBVIOUS
<1>1. ShopInv
  BY ShopStart
<1>2. Alone /\ Relied
  BY DEF Init, Alone, Relied, Relies, Priced
<1>3. SoldCountExact
  <2>1. ASSUME NEW r \in Rewards PROVE reward[r].sold = 0 /\ SoldOf(r) = {}
    BY DEF Init, Stocked, SoldOf, Exists
  <2>2. Cardinality({}) = 0
    BY FS_EmptySet
  <2> QED BY <2>1, <2>2 DEF SoldCountExact
<1>4. RefundIffCancelled /\ RedeemNeverOverdraws
  BY DEF Init, TablesInit, RefundIffCancelled, RedeemNeverOverdraws, KeyUsed, Exists
<1> QED BY <1>1, <1>2, <1>3, <1>4 DEF SerialInv

LEMMA SerialStutter == SerialInv /\ UNCHANGED vars => SerialInv'
BY StutterShop DEF SerialInv, vars, Alone, Relied, Relies, HasStock, SoldCountExact, SoldOf, Exists,
                   RefundIffCancelled, KeyUsed, RedeemNeverOverdraws

LEMMA SerialStep == MaxInFlight = 1 /\ SerialInv /\ [Next]_vars => SerialInv'
<1> SUFFICES ASSUME MaxInFlight = 1, SerialInv, SerialAround \/ \E c \in Calls : SerialKinds(c)
             PROVE  SerialInv'
  BY SerialNext, SerialStutter
<1>1. ShopInv'
  BY SerialAreKinds, ShopStep DEF SerialInv
<1> QED BY <1>1, ExactStep, RefundStep, OverdrawStep, ReliedStep DEF SerialInv

LEMMA SerialInvariant == MaxInFlight = 1 => (Spec => []SerialInv)
<1> SUFFICES ASSUME MaxInFlight = 1 PROVE Spec => []SerialInv
  OBVIOUS
<1>1. Init => SerialInv
  BY SerialStart
<1>2. SerialInv /\ [Next]_vars => SerialInv'
  BY SerialStep
<1> QED BY <1>1, <1>2, PTL DEF Spec

(* While requests do not overlap, the counter that closes a reward is the  *)
(* number of its redemptions that were not cancelled (redeem's and         *)
(* cancelAndRefund's updates of sold_count).                               *)
THEOREM SerialCountExact == MaxInFlight = 1 => (Spec => []SoldCountExact)
<1>1. SerialInv => SoldCountExact
  BY DEF SerialInv
<1> QED BY <1>1, SerialInvariant, PTL

(* While requests do not overlap, points come back for a redemption        *)
(* exactly when it is cancelled: no code is both used and refunded.        *)
THEOREM SerialRefunds == MaxInFlight = 1 => (Spec => []RefundIffCancelled)
<1>1. SerialInv => RefundIffCancelled
  BY DEF SerialInv
<1> QED BY <1>1, SerialInvariant, PTL

(* While requests do not overlap, a redemption leaves no balance below     *)
(* zero, although an adjustment may (redeem's check of the balance).       *)
THEOREM SerialNeverOverdraws == MaxInFlight = 1 => (Spec => []RedeemNeverOverdraws)
<1>1. SerialInv => RedeemNeverOverdraws
  BY DEF SerialInv
<1> QED BY <1>1, SerialInvariant, PTL

(* While requests do not overlap, no sale takes a reward past the capacity *)
(* it then has (redeem's check of soldCount, read before the transaction). *)
THEOREM SerialNeverOversold == MaxInFlight = 1 => (Spec => NeverOversold)
<1> DEFINE Within == \A r \in Rewards :
             reward'[r].sold > reward[r].sold /\ reward[r].capacity # NoLimit
               => reward'[r].sold <= reward[r].capacity
<1> SUFFICES ASSUME MaxInFlight = 1 PROVE Spec => NeverOversold
  OBVIOUS
<1>1. ASSUME SerialInv, [Next]_vars PROVE [Within]_vars
  <2> SUFFICES ASSUME SerialAround \/ \E c \in Calls : SerialKinds(c) PROVE Within
    BY <1>1, SerialNext
  <2>0. /\ ShopTypeOK /\ reward \in [Rewards -> RewardRow]
        /\ \A r \in Rewards : reward[r].sold \in Int
    BY <1>1 DEF SerialInv, ShopInv, ShopTypeOK, RewardRow
  <2>1. ASSUME \A r \in Rewards : reward'[r].sold <= reward[r].sold /\ reward'[r].sold \in Int
        PROVE  Within
    BY <2>0, <2>1
  <2>2. ASSUME NEW c \in Calls, SellsStock(c) PROVE Within
    <3>1. PICK p : p = req[c].reward
      OBVIOUS
    <3>2. p \in Rewards /\ HasStock(reward[p])
      BY <2>0, <2>2, <3>1, Typed DEF SellsStock
    <3>3. \A r \in Rewards : reward'[r].sold = IF r = p THEN reward[r].sold + 1 ELSE reward[r].sold
      BY <2>0, <2>2, <3>1, <3>2 DEF SellsStock, Sells, RewardRow
    <3>4. reward[p].capacity # NoLimit => reward[p].capacity \in Nat
      BY <2>0, <3>2, RedemptionConstants DEF RewardRow
    <3>5. reward[p].capacity # NoLimit => reward'[p].sold <= reward[p].capacity
      BY <2>0, <3>2, <3>3, <3>4 DEF HasStock
    <3> QED BY <2>0, <3>2, <3>3, <3>5
  <2>3. ASSUME NEW c \in Calls, CancelsActive(c) PROVE Within
    <3>1. PICK p : p = redemption[req[c].key].reward
      OBVIOUS
    <3>2. p \in Rewards
      BY <2>0, <2>3, <3>1, Typed, RowTyped DEF CancelsActive, Cancels
    <3>3. \A r \in Rewards : reward'[r].sold = IF r = p THEN reward[r].sold - 1 ELSE reward[r].sold
      BY <2>0, <2>3, <3>1, <3>2 DEF CancelsActive, Cancels, RewardRow
    <3> QED BY <2>0, <2>1, <3>3
  <2>4. ASSUME NEW r \in Rewards, EditReward(r) PROVE Within
    <3>1. \A s \in Rewards : reward'[s].sold = reward[s].sold
      BY <2>0, <2>4 DEF EditReward, Stocked
    <3> QED BY <2>0, <2>1, <3>1
  <2>5. CASE UNCHANGED reward
    BY <2>0, <2>1, <2>5
  <2> QED BY <2>2, <2>3, <2>4, <2>5 DEF SerialKinds, Writes, UsesActive, Uses, Thinks, Rows,
                                        SerialAround, Expire, Award, Adjust
<1> QED BY <1>1, SerialInvariant, PTL DEF Spec, NeverOversold
-----------------------------------------------------------------------------
(* Any number of requests at a time.  Nobody is in flight beyond the bound,*)
(* and a check made before a write is only ever overtaken by the others.   *)
FlightBound == IsFiniteSet(InFlight) /\ Cardinality(InFlight) <= MaxInFlight

(* The kinds again, with the check a request has just passed.              *)
Checked(c) ==
  /\ pc'[c] \in Priced =>
       req'[c] = req[c] /\ (pc[c] \in Priced \/ HasStock(reward[req[c].reward]))
  /\ pc'[c] = "affordable" =>
       req'[c] = req[c] /\ price'[c] = price[c] /\ balance[req[c].user] >= price[c]

OverlapKinds(c) ==
  \/ Thinks(c) /\ Checked(c)
  \/ /\ pc'[c] = "idle"
     /\ \/ pc[c] = "affordable" /\ Sells(c)
        \/ pc[c] \notin Priced /\ (Uses(c) \/ Cancels(c))

LEMMA CheckedAnswer ==
  ASSUME ShopTypeOK, NEW c \in Calls, Answer(c)
  PROVE  Checked(c) /\ pc'[c] = "idle"
BY Answers DEF Checked, Priced

LEMMA OverlapSteps ==
  ASSUME ShopTypeOK, Carried, NEW c \in Calls, Request(c) \/ Serve(c) \/ Fail(c)
  PROVE  OverlapKinds(c)
<1>0. Carries(pc[c], req[c], price[c])
  BY DEF Carried
<1>1. Moves(c)
  BY StepKinds DEF CallKinds, Thinks, Sells, Uses, Cancels
<1>2. ASSUME UNCHANGED <<tables, reward, redemption>>, Checked(c) PROVE OverlapKinds(c)
  BY <1>1, <1>2 DEF OverlapKinds, Thinks, tables, Rows
<1>3. ASSUME UNCHANGED <<tables, reward, redemption>>, Answer(c) PROVE OverlapKinds(c)
  BY <1>2, <1>3, CheckedAnswer
<1>4. ASSUME UNCHANGED <<tables, reward, redemption>>, NEW s, Goto(c, s),
             s \notin Priced \/ (s # "affordable" /\ pc[c] \in Priced)
      PROVE  OverlapKinds(c)
  <2>1. pc'[c] = s /\ req'[c] = req[c]
    BY <1>4, Goes
  <2> QED BY <1>2, <1>4, <2>1 DEF Checked, Priced
<1>5. CASE Request(c)
  <2>1. PICK s \in {"redeem", "verify", "cancel"} : pc' = [pc EXCEPT ![c] = s]
    BY <1>5 DEF Request
  <2>2. pc'[c] = s
    BY <2>1, Typed
  <2> QED BY <1>2, <1>5, <2>1, <2>2 DEF Request, Checked, Priced
<1>6. CASE ReadReward(c)
  <2>1. UNCHANGED <<tables, reward, redemption>>
    BY <1>6 DEF ReadReward
  <2>2. ASSUME HasStock(reward[req[c].reward]), pc' = [pc EXCEPT ![c] = "listed"], UNCHANGED req
        PROVE  OverlapKinds(c)
    <3>1. pc'[c] = "listed" /\ req'[c] = req[c]
      BY <2>2, Typed
    <3> QED BY <1>2, <2>1, <2>2, <3>1 DEF Checked
  <2> QED BY <1>3, <1>6, <2>1, <2>2 DEF ReadReward
<1>7. CASE FindExisting(c)
  BY <1>3, <1>4, <1>7 DEF FindExisting, Priced
<1>8. CASE CheckBalance(c)
  <2>1. UNCHANGED <<tables, reward, redemption>> /\ pc[c] = "unclaimed"
    BY <1>8 DEF CheckBalance
  <2>2. ASSUME Goto(c, "affordable"), ~(balance[req[c].user] < price[c]) PROVE OverlapKinds(c)
    <3>1. pc'[c] = "affordable" /\ req'[c] = req[c] /\ price'[c] = price[c]
      BY <2>2, Goes
    <3>2. balance[req[c].user] \in Int /\ price[c] \in Int
      <4>1. price[c] \in Costs \cup {0} /\ balance \in [Users -> Int] /\ req[c].user \in Users
        BY Typed DEF ShopTypeOK, TablesTypeOK
      <4>2. \A x \in Costs : x \in Int
        BY RedemptionConstants
      <4> QED BY <4>1, <4>2
    <3> QED BY <1>2, <2>1, <2>2, <3>1, <3>2 DEF Checked, Priced
  <2> QED BY <1>3, <1>8, <2>1, <2>2 DEF CheckBalance
<1>9. CASE RedeemCommit(c)
  <2>1. CASE ~(req[c].user \in Blocked \/ KeyUsed(Key("redeem", req[c].key)))
    <3>1. Answer(c) /\ price[c] \in Costs /\ pc[c] = "affordable"
      BY <1>0, <1>9 DEF RedeemCommit, Carries, Priced
    <3>2. Sells(c)
      BY <1>1, <1>9, <2>1, <3>1 DEF RedeemCommit, Sells
    <3> QED BY <3>1, <3>2, CheckedAnswer DEF OverlapKinds
  <2> QED BY <1>3, <1>9, <2>1 DEF RedeemCommit
<1>10. CASE VerifyRead(c)
  BY <1>3, <1>4, <1>10 DEF VerifyRead, Priced
<1>11. CASE VerifyWrite(c)
  <2>1. Answer(c) /\ pc[c] \notin Priced /\ Exists(req[c].key)
    BY <1>0, <1>11 DEF VerifyWrite, Carries, Named, Priced
  <2>2. Uses(c)
    BY <1>1, <1>11, <2>1 DEF VerifyWrite, Uses, tables
  <2> QED BY <2>1, <2>2, CheckedAnswer DEF OverlapKinds
<1>12. CASE CancelRead(c)
  BY <1>3, <1>4, <1>12 DEF CancelRead, Priced
<1>13. CASE RefundLookup(c)
  BY <1>3, <1>4, <1>13 DEF RefundLookup, Priced
<1>14. CASE CancelCommit(c)
  <2>1. /\ Exists(req[c].key) /\ pc[c] \notin Priced
        /\ pc[c] = "refund_known" => KeyUsed(Key("refund", req[c].key))
    BY <1>0, <1>14 DEF CancelCommit, Carries, Named, Priced
  <2>2. ASSUME Cancelled(c),
               \/ /\ ~KeyUsed(Key("refund", req[c].key))
                  /\ PostEntry(redemption[req[c].key].user, Key("refund", req[c].key),
                               RefundAmount(req[c].key))
               \/ KeyUsed(Key("refund", req[c].key)) /\ UNCHANGED tables
        PROVE  OverlapKinds(c)
    <3>1. Cancels(c) /\ Answer(c)
      BY <1>1, <2>1, <2>2 DEF Cancelled, Cancels, RefundAmount, tables
    <3> QED BY <2>1, <3>1, CheckedAnswer DEF OverlapKinds
  <2> QED BY <1>3, <1>14, <2>1, <2>2 DEF CancelCommit
<1>15. CASE Fail(c)
  BY <1>3, <1>15 DEF Fail
<1> QED BY <1>5, <1>6, <1>7, <1>8, <1>9, <1>10, <1>11, <1>12, <1>13, <1>14, <1>15 DEF Serve

LEMMA OverlapNext ==
  ASSUME ShopInv, [Next]_vars
  PROVE  UNCHANGED vars \/ Around \/ \E c \in Calls : OverlapKinds(c)
BY OverlapSteps DEF Next, Around, ShopInv

LEMMA OverlapAreKinds ==
  ASSUME Around \/ \E c \in Calls : OverlapKinds(c)
  PROVE  Around \/ \E c \in Calls : CallKinds(c)
BY DEF OverlapKinds, CallKinds

(* A request is let in while fewer than the bound are in flight.           *)
LEMMA FlightStep ==
  ASSUME ShopInv, FlightBound, [Next]_vars
  PROVE  FlightBound'
<1>0. /\ ShopTypeOK /\ Carried /\ pc \in [Calls -> Steps] /\ MaxInFlight \in Nat
      /\ IsFiniteSet(InFlight) /\ Cardinality(InFlight) \in Nat /\ Cardinality(InFlight) <= MaxInFlight
  BY RedemptionConstants, FS_CardinalityType DEF ShopInv, ShopTypeOK, FlightBound
<1>1. ASSUME InFlight' \subseteq InFlight PROVE FlightBound'
  <2>1. IsFiniteSet(InFlight') /\ Cardinality(InFlight') <= Cardinality(InFlight)
    BY <1>0, <1>1, FS_Subset
  <2>2. Cardinality(InFlight') \in Nat
    BY <2>1, FS_CardinalityType
  <2> QED BY <1>0, <2>1, <2>2 DEF FlightBound
<1>2. ASSUME NEW c \in Calls, Request(c) PROVE FlightBound'
  <2>1. InFlight' \subseteq InFlight \cup {c} /\ Cardinality(InFlight) < MaxInFlight
    BY <1>0, <1>2 DEF Request, InFlight
  <2>2. IsFiniteSet(InFlight \cup {c}) /\ Cardinality(InFlight \cup {c}) <= MaxInFlight
    <3>1. /\ IsFiniteSet(InFlight \cup {c})
          /\ Cardinality(InFlight \cup {c}) \in {Cardinality(InFlight), Cardinality(InFlight) + 1}
      BY <1>0, FS_AddElement
    <3> QED BY <1>0, <2>1, <3>1
  <2>3. /\ IsFiniteSet(InFlight') /\ Cardinality(InFlight') <= Cardinality(InFlight \cup {c})
        /\ Cardinality(InFlight') \in Nat /\ Cardinality(InFlight \cup {c}) \in Nat
    BY <2>1, <2>2, FS_Subset, FS_CardinalityType
  <2> QED BY <1>0, <2>2, <2>3 DEF FlightBound
<1>3. ASSUME NEW c \in Calls, Serve(c) \/ Fail(c) PROVE FlightBound'
  <2>1. pc[c] # "idle"
    BY <1>3 DEF Serve, Fail, ReadReward, FindExisting, CheckBalance, RedeemCommit, VerifyRead,
                VerifyWrite, CancelRead, RefundLookup, CancelCommit
  <2>2. \A d \in Calls \ {c} : pc'[d] = pc[d]
    BY <1>0, <1>3, StepKinds DEF CallKinds, Thinks, Sells, Uses, Cancels, Moves
  <2>3. InFlight' \subseteq InFlight
    BY <2>1, <2>2 DEF InFlight
  <2> QED BY <1>1, <2>3
<1>4. CASE UNCHANGED pc
  BY <1>1, <1>4 DEF InFlight
<1> QED BY <1>2, <1>3, <1>4 DEF Next, vars, EditReward, Expire, Award, Adjust

LEMMA FlightStart == Init => FlightBound
<1> SUFFICES ASSUME Init PROVE FlightBound
  OBVIOUS
<1>1. InFlight = {}
  BY DEF Init, InFlight
<1> QED BY <1>1, FS_EmptySet, RedemptionConstants DEF FlightBound

LEMMA FlightSets ==
  ASSUME FlightBound, NEW S, S \subseteq InFlight
  PROVE  IsFiniteSet(S) /\ Cardinality(S) \in Nat /\ Cardinality(S) <= MaxInFlight
<1>1. IsFiniteSet(S) /\ Cardinality(S) <= Cardinality(InFlight)
  BY FS_Subset DEF FlightBound
<1>2. Cardinality(S) \in Nat /\ Cardinality(InFlight) \in Nat
  BY <1>1, FS_CardinalityType DEF FlightBound
<1> QED BY <1>1, <1>2, RedemptionConstants DEF FlightBound
(* Requests that passed the check of the stock and have not sold yet.      *)
Cleared(r) == {c \in Calls : pc[c] \in Priced /\ req[c].reward = r}

Stocks ==
  \A r \in Rewards :
    reward[r].capacity # NoLimit =>
      reward[r].sold + Cardinality(Cleared(r)) <= reward[r].capacity + (MaxInFlight - 1)

StockInv == ShopInv /\ FlightBound /\ Stocks

(* A step that lowers no capacity of r.                                    *)
Roomy(r) ==
  reward'[r].capacity # NoLimit =>
    reward[r].capacity # NoLimit /\ reward[r].capacity <= reward'[r].capacity

LEMMA ClearedInFlight ==
  \A r : Cleared(r) \subseteq InFlight
BY DEF Cleared, InFlight, Priced

(* Nothing sold, nobody new past the check.                                *)
LEMMA StockKept ==
  ASSUME StockInv, FlightBound', NEW r \in Rewards,
         Roomy(r), reward'[r].capacity \in Capacities, reward'[r].sold \in Int,
         reward'[r].sold <= reward[r].sold, Cleared(r)' \subseteq Cleared(r),
         reward'[r].capacity # NoLimit
  PROVE  reward'[r].sold + Cardinality(Cleared(r)') <= reward'[r].capacity + (MaxInFlight - 1)
<1>1. /\ reward[r].sold \in Int /\ reward[r].capacity \in Nat /\ MaxInFlight \in Nat
      /\ reward[r].sold + Cardinality(Cleared(r)) <= reward[r].capacity + (MaxInFlight - 1)
      /\ reward'[r].capacity \in Nat /\ reward[r].capacity <= reward'[r].capacity
  BY RedemptionConstants DEF StockInv, Stocks, ShopInv, ShopTypeOK, RewardRow, Roomy
<1>2. IsFiniteSet(Cleared(r)) /\ Cardinality(Cleared(r)) \in Nat
  BY ClearedInFlight, FlightSets DEF StockInv
<1>3. Cardinality(Cleared(r)') <= Cardinality(Cleared(r)) /\ Cardinality(Cleared(r)') \in Nat
  BY <1>2, FS_Subset, FS_CardinalityType
<1> QED BY <1>1, <1>2, <1>3

(* A request that is cleared now saw one left: there is room for all who   *)
(* are in flight but one.                                                  *)
LEMMA StockSeen ==
  ASSUME StockInv, FlightBound', NEW r \in Rewards, HasStock(reward[r]),
         reward'[r] = reward[r], reward'[r].capacity # NoLimit
  PROVE  reward'[r].sold + Cardinality(Cleared(r)') <= reward'[r].capacity + (MaxInFlight - 1)
<1>1. /\ reward[r].sold \in Int /\ reward[r].capacity \in Nat /\ MaxInFlight \in Nat
      /\ reward[r].sold < reward[r].capacity
  BY RedemptionConstants DEF StockInv, ShopInv, ShopTypeOK, RewardRow, HasStock
<1>2. Cleared(r)' \subseteq InFlight'
  BY DEF Cleared, InFlight, Priced
<1>3. Cardinality(Cleared(r)') \in Nat /\ Cardinality(Cleared(r)') <= MaxInFlight
  <2>1. IsFiniteSet(InFlight') /\ Cardinality(InFlight') <= MaxInFlight
    BY DEF FlightBound
  <2>2. /\ IsFiniteSet(Cleared(r)') /\ Cardinality(Cleared(r)') <= Cardinality(InFlight')
        /\ Cardinality(InFlight') \in Nat
    BY <1>2, <2>1, FS_Subset, FS_CardinalityType
  <2> QED BY <1>1, <2>1, <2>2, FS_CardinalityType
<1> QED BY <1>1, <1>3

(* A cleared request sells: one more sold, one less that may sell.         *)
LEMMA StockSold ==
  ASSUME StockInv, FlightBound', NEW r \in Rewards, NEW c \in Cleared(r),
         reward'[r].capacity = reward[r].capacity, reward'[r].sold = reward[r].sold + 1,
         Cleared(r)' = Cleared(r) \ {c}, reward'[r].capacity # NoLimit
  PROVE  reward'[r].sold + Cardinality(Cleared(r)') <= reward'[r].capacity + (MaxInFlight - 1)
<1>1. /\ reward[r].sold \in Int /\ reward[r].capacity \in Nat /\ MaxInFlight \in Nat
      /\ reward[r].sold + Cardinality(Cleared(r)) <= reward[r].capacity + (MaxInFlight - 1)
  BY RedemptionConstants DEF StockInv, Stocks, ShopInv, ShopTypeOK, RewardRow
<1>2. IsFiniteSet(Cleared(r)) /\ Cardinality(Cleared(r)) \in Nat
  BY ClearedInFlight, FlightSets DEF StockInv
<1>3. Cardinality(Cleared(r)') = Cardinality(Cleared(r)) - 1
  BY <1>2, FS_RemoveElement
<1> QED BY <1>1, <1>2, <1>3

LEMMA StockStep ==
  ASSUME StockInv, FlightBound', \A r \in Rewards : Roomy(r),
         Around \/ \E c \in Calls : OverlapKinds(c)
  PROVE  Stocks'
<1>0. /\ ShopInv /\ ShopTypeOK /\ reward \in [Rewards -> RewardRow]
      /\ \A r \in Rewards : reward[r].sold \in Int
  BY DEF StockInv, ShopInv, ShopTypeOK, RewardRow
<1>1. reward' \in [Rewards -> RewardRow] /\ \A r \in Rewards : reward'[r].capacity \in Capacities
  BY <1>0, OverlapAreKinds, RewardsTyped DEF RewardRow
<1>2. ASSUME \A r \in Rewards : /\ reward'[r].sold \in Int /\ reward'[r].sold <= reward[r].sold
                                /\ Cleared(r)' \subseteq Cleared(r)
      PROVE  Stocks'
  BY <1>1, <1>2, StockKept DEF Stocks
<1>3. ASSUME UNCHANGED <<pc, req>> PROVE \A r : Cleared(r)' = Cleared(r)
  BY <1>3 DEF Cleared
<1>4. ASSUME NEW c \in Calls, Moves(c), pc'[c] = "idle"
      PROVE  \A r : Cleared(r)' = Cleared(r) \ {c}
  BY <1>4 DEF Moves, Cleared, Priced
<1>5. ASSUME NEW c \in Calls, Thinks(c), Checked(c) PROVE Stocks'
  <2>1. UNCHANGED reward /\ \A d \in Calls \ {c} : pc'[d] = pc[d] /\ req'[d] = req[d]
    BY <1>5 DEF Thinks, Rows, Moves
  <2>2. ASSUME NEW r \in Rewards, ~(Cleared(r)' \subseteq Cleared(r)) PROVE HasStock(reward[r])
    BY <1>5, <2>1, <2>2 DEF Cleared, Checked
  <2>3. ASSUME NEW r \in Rewards, reward'[r].capacity # NoLimit
        PROVE  reward'[r].sold + Cardinality(Cleared(r)') <= reward'[r].capacity + (MaxInFlight - 1)
    BY <1>0, <1>1, <2>1, <2>2, <2>3, StockKept, StockSeen
  <2> QED BY <2>3 DEF Stocks
<1>6. ASSUME NEW c \in Calls, pc[c] = "affordable", Sells(c), pc'[c] = "idle"
      PROVE  Stocks'
  <2>1. PICK p : p = req[c].reward
    OBVIOUS
  <2>2. p \in Rewards /\ c \in Cleared(p)
    BY <1>0, <1>6, <2>1, Typed DEF Cleared, Priced
  <2>3. \A r \in Rewards : /\ reward'[r].capacity = reward[r].capacity
                           /\ reward'[r].sold = IF r = p THEN reward[r].sold + 1 ELSE reward[r].sold
    BY <1>0, <1>6, <2>1, <2>2 DEF Sells, RewardRow
  <2>4. \A r : Cleared(r)' = Cleared(r) \ {c}
    BY <1>4, <1>6 DEF Sells
  <2>5. ASSUME NEW r \in Rewards, reward'[r].capacity # NoLimit
        PROVE  reward'[r].sold + Cardinality(Cleared(r)') <= reward'[r].capacity + (MaxInFlight - 1)
    <3>1. CASE r = p
      BY <2>2, <2>3, <2>4, <2>5, <3>1, StockSold
    <3>2. CASE r # p
      BY <1>0, <1>1, <2>3, <2>4, <2>5, <3>2, StockKept
    <3> QED BY <3>1, <3>2
  <2> QED BY <2>5 DEF Stocks
<1>7. ASSUME NEW c \in Calls, Uses(c), pc'[c] = "idle" PROVE Stocks'
  <2>1. UNCHANGED reward /\ \A r : Cleared(r)' = Cleared(r) \ {c}
    BY <1>4, <1>7 DEF Uses
  <2> QED BY <1>0, <1>2, <2>1
<1>8. ASSUME NEW c \in Calls, Cancels(c), pc'[c] = "idle" PROVE Stocks'
  <2>1. PICK p : p = redemption[req[c].key].reward
    OBVIOUS
  <2>2. p \in Rewards
    BY <1>0, <1>8, <2>1, Typed, RowTyped DEF Cancels
  <2>3. \A r \in Rewards : reward'[r].sold = IF r = p THEN reward[r].sold - 1 ELSE reward[r].sold
    BY <1>0, <1>8, <2>1, <2>2 DEF Cancels, RewardRow
  <2>4. \A r : Cleared(r)' = Cleared(r) \ {c}
    BY <1>4, <1>8 DEF Cancels
  <2> QED BY <1>0, <1>2, <2>3, <2>4
<1>9. ASSUME NEW r \in Rewards, EditReward(r) PROVE Stocks'
  <2>1. PICK e \in Edits : reward' = [reward EXCEPT ![r] = Stocked(e, reward[r].sold)]
    BY <1>0, <1>9 DEF EditReward
  <2>2. \A s \in Rewards : reward'[s].sold = reward[s].sold
    BY <1>0, <2>1 DEF Stocked
  <2>3. \A s : Cleared(s)' = Cleared(s)
    BY <1>3, <1>9 DEF EditReward
  <2> QED BY <1>0, <1>2, <2>2, <2>3
<1>10. CASE UNCHANGED <<reward, pc, req>>
  <2>1. \A r : Cleared(r)' = Cleared(r)
    BY <1>3, <1>10
  <2> QED BY <1>0, <1>2, <1>10, <2>1
<1> QED BY <1>5, <1>6, <1>7, <1>8, <1>9, <1>10 DEF OverlapKinds, Around, Expire, Award, Adjust

LEMMA StockStart == MaxInFlight > 0 /\ Init => StockInv
<1> SUFFICES ASSUME MaxInFlight > 0, Init PROVE StockInv
  OBVIOUS
<1>1. \A r \in Rewards : reward[r].sold = 0
  BY DEF Init, Stocked
<1>2. ASSUME NEW r \in Rewards, reward[r].capacity # NoLimit
      PROVE  reward[r].sold + Cardinality(Cleared(r)) <= reward[r].capacity + (MaxInFlight - 1)
  <2>1. Cleared(r) = {}
    BY DEF Init, Cleared, Priced
  <2>2. reward[r].capacity \in Nat /\ MaxInFlight \in Nat
    BY <1>2, ShopStart, RedemptionConstants DEF ShopInv, ShopTypeOK, RewardRow
  <2>3. Cardinality({}) = 0
    BY FS_EmptySet
  <2> QED BY <1>1, <2>1, <2>2, <2>3
<1> QED BY <1>1, <1>2, ShopStart, FlightStart DEF StockInv, Stocks

(* While no admin lowers a capacity, overlapping redeem requests take a    *)
(* reward past it by one less than the number of requests that may be in   *)
(* flight: what the missing lock on soldCount can cost.                    *)
THEOREM OverlapOversells == MaxInFlight > 0 => (Spec /\ NeverTightened => []OversoldAtMost)
<1> DEFINE Kept == \A r \in Rewards :
             reward'[r].capacity # NoLimit =>
               reward[r].capacity # NoLimit /\ reward[r].capacity <= reward'[r].capacity
<1> SUFFICES ASSUME MaxInFlight > 0 PROVE Spec /\ NeverTightened => []OversoldAtMost
  OBVIOUS
<1>1. Init => StockInv
  BY StockStart
<1>2. StockInv /\ [Next]_vars /\ [Kept]_reward => StockInv'
  <2> SUFFICES ASSUME StockInv, [Next]_vars, [Kept]_reward PROVE StockInv'
    OBVIOUS
  <2>1. ShopInv' /\ FlightBound'
    BY ShopNext, FlightStep DEF StockInv
  <2>2. CASE UNCHANGED vars
    BY <2>1, <2>2 DEF StockInv, vars, Stocks, Cleared
  <2>3. CASE Around \/ \E c \in Calls : OverlapKinds(c)
    <3>1. \A r \in Rewards : Roomy(r)
      <4>1. CASE Kept
        BY <4>1 DEF Roomy
      <4>2. CASE UNCHANGED reward
        <5>1. \A r \in Rewards : reward[r].capacity # NoLimit => reward[r].capacity \in Nat
          BY RedemptionConstants DEF StockInv, ShopInv, ShopTypeOK, RewardRow
        <5> QED BY <4>2, <5>1 DEF Roomy
      <4> QED BY <4>1, <4>2
    <3> QED BY <2>1, <2>3, <3>1, StockStep DEF StockInv
  <2> QED BY <2>2, <2>3, OverlapNext DEF StockInv
<1>3. StockInv => OversoldAtMost
  <2> SUFFICES ASSUME StockInv, NEW r \in Rewards, reward[r].capacity # NoLimit
               PROVE  reward[r].sold <= reward[r].capacity + (MaxInFlight - 1)
    BY DEF OversoldAtMost
  <2>1. reward[r].sold \in Int /\ reward[r].capacity \in Nat /\ MaxInFlight \in Nat
    BY RedemptionConstants DEF StockInv, ShopInv, ShopTypeOK, RewardRow
  <2>2. Cardinality(Cleared(r)) \in Nat
    BY ClearedInFlight, FlightSets DEF StockInv
  <2> QED BY <2>1, <2>2 DEF StockInv, Stocks
<1> QED BY <1>1, <1>2, <1>3, PTL DEF Spec, NeverTightened
-----------------------------------------------------------------------------
(* What a user's account can lose to requests that were checked against    *)
(* the same points.  With s points left, the requests of F that passed the *)
(* check, and their prices f: the last one that passed saw its price.      *)
Covered(s, F, f, top) ==
  /\ F = {} => s >= -((MaxInFlight - 1) * top)
  /\ F # {} => \E c \in F : s >= f[c] - (MaxInFlight - Cardinality(F)) * top

Prices(F, f, top) == IsFiniteSet(F) /\ \A c \in F : f[c] \in Nat /\ f[c] <= top

LEMMA CoveredRises ==
  ASSUME NEW F, NEW f, NEW g, NEW s \in Int, NEW t \in Int, NEW top \in Nat,
         Prices(F, f, top), Covered(s, F, f, top), t >= s, \A c \in F : g[c] = f[c]
  PROVE  Covered(t, F, g, top)
<1>1. /\ MaxInFlight \in Nat /\ Cardinality(F) \in Nat
      /\ -((MaxInFlight - 1) * top) \in Int /\ (MaxInFlight - Cardinality(F)) * top \in Int
  BY RedemptionConstants, FS_CardinalityType DEF Prices
<1>2. CASE F = {}
  BY <1>1, <1>2 DEF Covered
<1>3. CASE F # {}
  <2>1. PICK c \in F : s >= f[c] - (MaxInFlight - Cardinality(F)) * top
    BY <1>3 DEF Covered
  <2>2. f[c] \in Nat /\ g[c] = f[c]
    BY DEF Prices
  <2>3. t >= g[c] - (MaxInFlight - Cardinality(F)) * top
    BY <1>1, <2>1, <2>2
  <2> QED BY <1>3, <2>3 DEF Covered
<1> QED BY <1>2, <1>3

(* One more passes the check: its own price is there.                      *)
LEMMA CoveredJoins ==
  ASSUME NEW F, NEW f, NEW c, NEW s \in Int, NEW top \in Nat, IsFiniteSet(F \cup {c}),
         Cardinality(F \cup {c}) <= MaxInFlight, f[c] \in Nat, s >= f[c]
  PROVE  Covered(s, F \cup {c}, f, top)
<1>1. PICK k : k = MaxInFlight - Cardinality(F \cup {c})
  OBVIOUS
<1>2. k \in Nat
  BY <1>1, RedemptionConstants, FS_CardinalityType
<1>3. k * top \in Nat
  BY <1>2
<1>4. s >= f[c] - k * top
  BY <1>3
<1> QED BY <1>1, <1>4 DEF Covered

(* One of them goes, and takes its price at most.                          *)
LEMMA CoveredLeaves ==
  ASSUME NEW F, NEW f, NEW c \in F, NEW s \in Int, NEW t \in Int, NEW top \in Nat,
         Prices(F, f, top), Covered(s, F, f, top), t >= s - f[c]
  PROVE  Covered(t, F \ {c}, f, top)
<1>1. PICK k : k = MaxInFlight - Cardinality(F)
  OBVIOUS
<1>2. /\ MaxInFlight \in Nat /\ Cardinality(F) \in Nat /\ k \in Int /\ k * top \in Int
      /\ Cardinality(F \ {c}) = Cardinality(F) - 1 /\ F # {}
  <2>1. MaxInFlight \in Nat /\ Cardinality(F) \in Nat /\ k \in Int
    BY <1>1, RedemptionConstants, FS_CardinalityType DEF Prices
  <2>2. Cardinality(F \ {c}) = Cardinality(F) - 1
    BY FS_RemoveElement DEF Prices
  <2> QED BY <2>1, <2>2
<1>3. MaxInFlight - Cardinality(F \ {c}) = k + 1 /\ (k + 1) * top = k * top + top
  BY <1>1, <1>2
<1>4. PICK w \in F : s >= f[w] - k * top
  BY <1>1, <1>2 DEF Covered
<1>5. f[c] \in Nat /\ f[c] <= top /\ f[w] \in Nat /\ f[w] <= top
  BY DEF Prices
<1>6. CASE F \ {c} = {}
  <2>1. Cardinality(F \ {c}) = 0 /\ w = c
    BY <1>6, FS_EmptySet
  <2>2. MaxInFlight - 1 = k
    BY <1>1, <1>2, <2>1
  <2>3. t >= -(k * top)
    BY <1>2, <1>4, <1>5, <2>1
  <2> QED BY <1>6, <2>2, <2>3 DEF Covered
<1>7. CASE F \ {c} # {}
  <2>1. \E d \in F \ {c} : t >= f[d] - (k * top + top)
    <3>1. CASE w # c
      <4>1. t >= f[w] - (k * top + top)
        BY <1>2, <1>4, <1>5
      <4> QED BY <3>1, <4>1
    <3>2. CASE w = c
      <4>1. PICK d \in F \ {c} : TRUE
        BY <1>7
      <4>2. f[d] \in Nat /\ f[d] <= top
        BY DEF Prices
      <4>3. t >= f[d] - (k * top + top)
        BY <1>2, <1>4, <1>5, <3>2, <4>2
      <4> QED BY <4>3
    <3> QED BY <3>1, <3>2
  <2> QED BY <1>3, <1>7, <2>1 DEF Covered
<1> QED BY <1>6, <1>7

LEMMA CoveredBound ==
  ASSUME NEW F, NEW f, NEW s \in Int, NEW top \in Nat, Prices(F, f, top), Covered(s, F, f, top)
  PROVE  s >= -((MaxInFlight - 1) * top)
<1>1. CASE F = {}
  BY <1>1 DEF Covered
<1>2. CASE F # {}
  <2>1. PICK c \in F : s >= f[c] - (MaxInFlight - Cardinality(F)) * top
    BY <1>2 DEF Covered
  <2>2. f[c] \in Nat
    BY DEF Prices
  <2>3. Cardinality(F) \in Nat /\ Cardinality(F) # 0 /\ MaxInFlight \in Nat
    BY <1>2, FS_CardinalityType, FS_EmptySet, RedemptionConstants DEF Prices
  <2>4. PICK n \in Nat : Cardinality(F) = n + 1
    <3>1. Cardinality(F) - 1 \in Nat /\ Cardinality(F) = (Cardinality(F) - 1) + 1
      BY <2>3
    <3> QED BY <3>1
  <2>5. (MaxInFlight - (n + 1)) * top = (MaxInFlight - 1) * top - n * top
    BY <2>3
  <2>6. n * top \in Nat /\ (MaxInFlight - 1) * top \in Int
    BY <2>3
  <2> QED BY <2>1, <2>2, <2>4, <2>5, <2>6
<1> QED BY <1>1, <1>2
(* What a user has, with what an admin took back; and the requests that    *)
(* passed the check of the balance and have not paid yet.                  *)
Slack(u) == balance[u] + TakenBack(u)

Funded(u) == {c \in Calls : pc[c] = "affordable" /\ req[c].user = u}

Funds(top) == \A u \in Users : Covered(Slack(u), Funded(u), price, top)

FundInv(top) == ShopInv /\ FlightBound /\ Funds(top)

LEMMA SlackType ==
  ASSUME ShopTypeOK, NEW u \in Users
  PROVE  Slack(u) \in Int /\ balance[u] \in Int /\ TakenBack(u) \in Nat
BY RedemptionConstants DEF ShopTypeOK, TablesTypeOK, Slack, TakenBack

(* An adjustment is taken into account; everything else a posting adds.    *)
LEMMA SlackPosts ==
  ASSUME ShopTypeOK, NEW u, NEW k, NEW d, Posts(u, k, d),
         k.kind # "adjust" \/ (k = Key("adjust", u) /\ d = -Correction), NEW v \in Users
  PROVE  Slack(v)' = Slack(v) + (IF v = u /\ k.kind # "adjust" THEN d ELSE 0)
<1>1. /\ TablesTypeOK /\ u \in Users /\ d \in Int /\ balance[v] \in Int /\ Correction \in Nat
      /\ balance'[v] = IF v = u THEN balance[v] + d ELSE balance[v]
  <2>1. /\ TablesTypeOK /\ u \in Users /\ d \in Amounts /\ balance \in [Users -> Int]
        /\ balance' = [balance EXCEPT ![u] = balance[u] + d]
    BY DEF Posts, PostEntry, ShopTypeOK, TablesTypeOK
  <2>2. Amounts \subseteq Int /\ Correction \in Nat
    BY RedemptionConstants, AmountsAreInts
  <2> QED BY <2>1, <2>2
<1>2. PICK x : x = Key("adjust", v)
  OBVIOUS
<1>3. /\ KeyUsed(x)' <=> KeyUsed(x) \/ x = k
      /\ ~KeyUsed(k) /\ x.kind = "adjust" /\ (x = Key("adjust", u) <=> v = u)
  BY <1>1, <1>2, PostsKeys, KeyFields DEF Posts
<1>4. TakenBack(v) = (IF KeyUsed(x) THEN Correction ELSE 0)
      /\ TakenBack(v)' = (IF KeyUsed(x)' THEN Correction ELSE 0)
  BY <1>2 DEF TakenBack
<1>5. CASE k.kind # "adjust"
  <2>1. TakenBack(v)' = TakenBack(v) /\ TakenBack(v) \in Int
    BY <1>1, <1>3, <1>4, <1>5
  <2> QED BY <1>1, <1>5, <2>1 DEF Slack
<1>6. CASE k.kind = "adjust" /\ v = u
  <2>1. k = x /\ d = -Correction
    BY <1>2, <1>6
  <2>2. TakenBack(v) = 0 /\ TakenBack(v)' = Correction
    BY <1>3, <1>4, <2>1
  <2> QED BY <1>1, <1>6, <2>1, <2>2 DEF Slack
<1>7. CASE k.kind = "adjust" /\ v # u
  <2>1. x # k
    BY <1>3, <1>7
  <2>2. TakenBack(v)' = TakenBack(v) /\ TakenBack(v) \in Int
    BY <1>1, <1>3, <1>4, <2>1
  <2> QED BY <1>1, <1>7, <2>2 DEF Slack
<1> QED BY <1>5, <1>6, <1>7

LEMMA FundedPrices ==
  ASSUME ShopInv, FlightBound, NEW top \in Nat, \A x \in Costs : x <= top, NEW u
  PROVE  Prices(Funded(u), price, top)
<1>1. Funded(u) \subseteq InFlight
  BY DEF Funded, InFlight
<1>2. ASSUME NEW c \in Funded(u) PROVE price[c] \in Nat /\ price[c] <= top
  <2>1. c \in Calls /\ pc[c] \in Priced
    BY DEF Funded, Priced
  <2>2. price[c] \in Costs
    BY <2>1 DEF ShopInv, Carried, Carries
  <2> QED BY <2>2, RedemptionConstants
<1> QED BY <1>1, <1>2, FlightSets DEF Prices

LEMMA FundStep ==
  ASSUME NEW top \in Nat, \A x \in Costs : x <= top, FundInv(top), FlightBound',
         Around \/ \E c \in Calls : OverlapKinds(c)
  PROVE  Funds(top)'
<1>0. /\ ShopInv /\ ShopTypeOK /\ TablesTypeOK /\ FlightBound /\ Carried
      /\ \A u \in Users : /\ Covered(Slack(u), Funded(u), price, top) /\ Prices(Funded(u), price, top)
                          /\ Slack(u) \in Int /\ balance[u] \in Int /\ TakenBack(u) \in Nat
  BY FundedPrices, SlackType DEF FundInv, Funds, ShopInv, ShopTypeOK
<1>1. ShopInv' /\ ShopTypeOK' /\ \A u \in Users : Slack(u)' \in Int
  <2>1. ShopInv'
    BY <1>0, OverlapAreKinds, ShopStep
  <2>2. ShopTypeOK'
    BY <2>1 DEF ShopInv
  <2>3. \A u \in Users : Slack(u)' \in Int
    BY <2>2, RedemptionConstants DEF ShopTypeOK, TablesTypeOK, Slack, TakenBack
  <2> QED BY <2>1, <2>2, <2>3
<1>2. ASSUME \A u \in Users : Covered(Slack(u)', Funded(u)', price', top) PROVE Funds(top)'
  BY <1>2 DEF Funds, Covered
<1>3. ASSUME NEW u \in Users, Slack(u)' >= Slack(u), Funded(u)' = Funded(u),
             \A c \in Funded(u) : price'[c] = price[c]
      PROVE  Covered(Slack(u)', Funded(u)', price', top)
  BY <1>0, <1>1, <1>3, CoveredRises
<1>4. ASSUME NEW u \in Users, NEW c \in Funded(u), Slack(u)' >= Slack(u) - price[c],
             Funded(u)' = Funded(u) \ {c}, \A d \in Calls \ {c} : price'[d] = price[d]
      PROVE  Covered(Slack(u)', Funded(u)', price', top)
  <2>1. Covered(Slack(u)', Funded(u) \ {c}, price, top)
    BY <1>0, <1>1, <1>4, CoveredLeaves
  <2>2. Prices(Funded(u) \ {c}, price, top)
    BY <1>0, FS_RemoveElement DEF Prices
  <2>3. \A d \in Funded(u) \ {c} : price'[d] = price[d]
    BY <1>4 DEF Funded
  <2> QED BY <1>1, <1>4, <2>1, <2>2, <2>3, CoveredRises
<1>5. ASSUME UNCHANGED <<balance, ledger>> PROVE \A u \in Users : Slack(u)' = Slack(u)
  BY <1>5 DEF Slack, TakenBack, KeyUsed
<1>6. ASSUME NEW c \in Calls, Moves(c), pc'[c] # "affordable"
      PROVE  /\ \A d \in Calls \ {c} : price'[d] = price[d]
             /\ \A u : Funded(u)' = Funded(u) \ {c}
  BY <1>6 DEF Moves, Funded
<1>7. ASSUME NEW c \in Calls, Thinks(c), Checked(c) PROVE Funds(top)'
  <2>1. UNCHANGED <<balance, ledger>> /\ Moves(c)
    BY <1>7 DEF Thinks, Rows
  <2>2. ASSUME NEW u \in Users, pc'[c] # "affordable"
        PROVE  Covered(Slack(u)', Funded(u)', price', top)
    <3>1. Slack(u)' = Slack(u) /\ Slack(u) \in Int /\ Slack(u)' >= Slack(u)
      BY <1>0, <1>5, <2>1
    <3>2. CASE c \in Funded(u)
      <4>1. price[c] \in Nat
        BY <1>0, <3>2 DEF Prices
      <4>2. Slack(u)' >= Slack(u) - price[c]
        BY <3>1, <4>1
      <4> QED BY <1>4, <1>6, <2>1, <2>2, <3>2, <4>2
    <3>3. CASE c \notin Funded(u)
      <4>1. Funded(u)' = Funded(u) /\ \A d \in Funded(u) : price'[d] = price[d]
        BY <1>6, <2>1, <2>2, <3>3 DEF Funded
      <4> QED BY <1>3, <3>1, <4>1
    <3> QED BY <3>2, <3>3
  <2>3. ASSUME NEW u \in Users, pc'[c] = "affordable"
        PROVE  Covered(Slack(u)', Funded(u)', price', top)
    <3>1. /\ req'[c] = req[c] /\ price'[c] = price[c] /\ balance[req[c].user] >= price[c]
          /\ \A d \in Calls \ {c} : pc'[d] = pc[d] /\ req'[d] = req[d] /\ price'[d] = price[d]
          /\ Slack(u)' = Slack(u) /\ Slack(u) \in Int /\ Slack(u)' >= Slack(u)
      BY <1>0, <1>5, <1>7, <2>1, <2>3 DEF Checked, Moves
    <3>2. CASE req[c].user = u
      <4>1. Funded(u)' = Funded(u) \cup {c}
        BY <2>3, <3>1, <3>2 DEF Funded
      <4>2. price'[c] \in Nat
        <5>1. price'[c] \in Costs
          BY <1>1, <2>3 DEF ShopInv, Carried, Carries, Priced
        <5> QED BY <5>1, RedemptionConstants
      <4>3. Slack(u)' >= price'[c]
        BY <1>0, <3>1, <3>2, <4>2 DEF Slack
      <4>4. IsFiniteSet(Funded(u) \cup {c}) /\ Cardinality(Funded(u) \cup {c}) <= MaxInFlight
        <5>1. Funded(u)' \subseteq InFlight' /\ IsFiniteSet(InFlight') /\ Cardinality(InFlight') <= MaxInFlight
          BY DEF Funded, InFlight, FlightBound
        <5>2. /\ IsFiniteSet(Funded(u)') /\ Cardinality(Funded(u)') <= Cardinality(InFlight')
              /\ Cardinality(InFlight') \in Nat
          BY <5>1, FS_Subset, FS_CardinalityType
        <5>3. Cardinality(Funded(u)') \in Nat /\ MaxInFlight \in Nat
          BY <5>2, FS_CardinalityType, RedemptionConstants
        <5> QED BY <4>1, <5>1, <5>2, <5>3
      <4>5. PICK s, f : s = Slack(u)' /\ f = price'
        OBVIOUS
      <4>6. s \in Int /\ f[c] \in Nat /\ s >= f[c]
        BY <1>1, <4>2, <4>3, <4>5
      <4>7. Covered(s, Funded(u) \cup {c}, f, top)
        BY <4>4, <4>6, CoveredJoins
      <4> QED BY <4>1, <4>5, <4>7
    <3>3. CASE req[c].user # u
      <4>1. Funded(u)' = Funded(u) /\ \A d \in Funded(u) : price'[d] = price[d]
        BY <3>1, <3>3 DEF Funded
      <4> QED BY <1>3, <3>1, <4>1
    <3> QED BY <3>2, <3>3
  <2> QED BY <1>2, <2>2, <2>3
<1>8. ASSUME NEW c \in Calls, pc[c] = "affordable", Sells(c), pc'[c] = "idle" PROVE Funds(top)'
  <2>1. PICK u, k, d : u = req[c].user /\ k = Key("redeem", req[c].key) /\ d = -price[c]
    OBVIOUS
  <2>2. Posts(u, k, d) /\ k.kind # "adjust" /\ u \in Users
    BY <1>0, <1>8, <2>1, SellsPosts, KeyFields DEF Posts
  <2>3. \A v \in Users : Slack(v)' = Slack(v) + (IF v = u THEN d ELSE 0)
    BY <1>0, <2>2, SlackPosts
  <2>4. ASSUME NEW v \in Users PROVE Covered(Slack(v)', Funded(v)', price', top)
    <3>1. CASE v = u
      <4>1. c \in Funded(u)
        BY <1>8, <2>1 DEF Funded
      <4>2. price[c] \in Nat
        BY <1>0, <2>2, <4>1 DEF Prices
      <4>3. Slack(u)' >= Slack(u) - price[c]
        BY <1>0, <2>1, <2>2, <2>3, <4>2
      <4> QED BY <1>4, <1>6, <1>8, <3>1, <4>1, <4>3 DEF Sells
    <3>2. CASE v # u
      <4>1. Slack(v)' >= Slack(v)
        BY <1>0, <2>3, <3>2
      <4>2. Funded(v)' = Funded(v) /\ \A e \in Funded(v) : price'[e] = price[e]
        BY <1>6, <1>8, <2>1, <3>2 DEF Sells, Funded
      <4> QED BY <1>3, <4>1, <4>2
    <3> QED BY <3>1, <3>2
  <2> QED BY <1>2, <2>4
<1>9. ASSUME NEW c \in Calls, pc[c] \notin Priced, Uses(c) \/ Cancels(c), pc'[c] = "idle"
      PROVE  Funds(top)'
  <2>1. \A u : Funded(u)' = Funded(u) /\ \A d \in Funded(u) : price'[d] = price[d]
    BY <1>6, <1>9 DEF Uses, Cancels, Funded, Priced
  <2>2. ASSUME NEW v \in Users PROVE Slack(v)' >= Slack(v)
    <3>1. CASE UNCHANGED <<balance, ledger>>
      BY <1>0, <1>5, <3>1
    <3>2. CASE Cancels(c) /\ ~UNCHANGED <<balance, ledger>>
      <4>1. PICK u, k, d : /\ k = Key("refund", req[c].key) /\ u = redemption[req[c].key].user
                           /\ d = redemption[req[c].key].cost
        OBVIOUS
      <4>2. Posts(u, k, d) /\ k.kind # "adjust"
        BY <1>0, <3>2, <4>1, CancelsPosts, KeyFields
      <4>3. d \in Nat
        BY <1>0, <3>2, <4>1, Typed, RowTyped, KeysTyped DEF Cancels
      <4>4. Slack(v)' = Slack(v) + (IF v = u THEN d ELSE 0)
        BY <1>0, <4>2, SlackPosts
      <4> QED BY <1>0, <4>3, <4>4
    <3> QED BY <1>9, <3>1, <3>2 DEF Uses
  <2> QED BY <1>2, <1>3, <2>1, <2>2
<1>10. CASE Around
  <2>1. \A u : Funded(u)' = Funded(u) /\ UNCHANGED price
    BY <1>10 DEF Around, EditReward, Expire, Award, Adjust, Funded
  <2>2. ASSUME NEW v \in Users PROVE Slack(v)' >= Slack(v)
    <3>1. CASE UNCHANGED <<balance, ledger>>
      BY <1>0, <1>5, <3>1
    <3>2. ASSUME NEW u \in Users, Posts(u, Key("award", u), Grant) PROVE Slack(v)' >= Slack(v)
      <4>1. PICK k : k = Key("award", u)
        OBVIOUS
      <4>2. k.kind # "adjust" /\ Grant \in Nat
        BY <4>1, KeyFields, RedemptionConstants
      <4>3. Slack(v)' = Slack(v) + (IF v = u THEN Grant ELSE 0)
        BY <1>0, <3>2, <4>1, <4>2, SlackPosts
      <4> QED BY <1>0, <4>2, <4>3
    <3>3. ASSUME NEW u \in Users, Posts(u, Key("adjust", u), -Correction) PROVE Slack(v)' >= Slack(v)
      <4>1. PICK k, d : k = Key("adjust", u) /\ d = -Correction
        OBVIOUS
      <4>2. k.kind = "adjust"
        BY <4>1, KeyFields
      <4>3. Slack(v)' = Slack(v) + 0
        BY <1>0, <3>3, <4>1, <4>2, SlackPosts
      <4> QED BY <1>0, <4>3
    <3> QED BY <1>10, <3>1, <3>2, <3>3, AroundPosts
  <2> QED BY <1>2, <1>3, <2>1, <2>2
<1> QED BY <1>7, <1>8, <1>9, <1>10 DEF OverlapKinds

LEMMA FundStart ==
  ASSUME NEW top \in Nat, MaxInFlight > 0, Init
  PROVE  FundInv(top)
<1>1. ASSUME NEW u \in Users PROVE Covered(Slack(u), Funded(u), price, top)
  <2>1. Funded(u) = {} /\ balance[u] = 0 /\ TakenBack(u) = 0
    BY DEF Init, TablesInit, Funded, TakenBack, KeyUsed
  <2>2. MaxInFlight - 1 \in Nat
    BY RedemptionConstants
  <2>3. (MaxInFlight - 1) * top \in Nat
    BY <2>2
  <2> QED BY <2>1, <2>3 DEF Covered, Slack
<1> QED BY <1>1, ShopStart, FlightStart DEF FundInv, Funds

(* Overlapping redeem requests take a balance below zero by no more than   *)
(* one price less than the requests that may be in flight, next to what an *)
(* admin took back: what the missing lock on the balance can cost.         *)
THEOREM OverlapOverdraws ==
  \A top \in Nat :
    MaxInFlight > 0 /\ (\A x \in Costs : x <= top) => (Spec => []OverdrawnAtMost(top))
<1> SUFFICES ASSUME NEW top \in Nat, MaxInFlight > 0, \A x \in Costs : x <= top
             PROVE  Spec => []OverdrawnAtMost(top)
  OBVIOUS
<1>1. Init => FundInv(top)
  BY FundStart
<1>2. FundInv(top) /\ [Next]_vars => FundInv(top)'
  <2> SUFFICES ASSUME FundInv(top), [Next]_vars PROVE FundInv(top)'
    OBVIOUS
  <2>1. ShopInv' /\ FlightBound'
    BY ShopNext, FlightStep DEF FundInv
  <2>2. CASE UNCHANGED vars
    BY <2>1, <2>2 DEF FundInv, vars, Funds, Covered, Slack, TakenBack, KeyUsed, Funded
  <2>3. CASE Around \/ \E c \in Calls : OverlapKinds(c)
    BY <2>1, <2>3, FundStep DEF FundInv
  <2> QED BY <2>2, <2>3, OverlapNext DEF FundInv
<1>3. FundInv(top) => OverdrawnAtMost(top)
  <2> SUFFICES ASSUME FundInv(top), NEW u \in Users
               PROVE  balance[u] + TakenBack(u) >= -((MaxInFlight - 1) * top)
    BY DEF OverdrawnAtMost
  <2>1. Prices(Funded(u), price, top) /\ Slack(u) \in Int /\ Covered(Slack(u), Funded(u), price, top)
    BY FundedPrices, SlackType DEF FundInv, Funds, ShopInv
  <2>2. Slack(u) >= -((MaxInFlight - 1) * top)
    BY <2>1, CoveredBound
  <2> QED BY <2>2 DEF Slack
<1> QED BY <1>1, <1>2, <1>3, PTL DEF Spec
=============================================================================
