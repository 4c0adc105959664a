--------------------------- MODULE MCRedemptions ---------------------------
(* Two users and two keys: a purchase, its repetition with the same key,   *)
(* the same key from the other user, and a second key for the same reward. *)
EXTENDS Redemptions, TLC

CONSTANTS u1, u2, r1, r2, k1, k2

MCKeys == LedgerKeys
MCAmounts == Costs \cup {-x : x \in Costs} \cup {Grant, -Correction}
MCPurchases == {
  [user |-> u1, reward |-> r1, key |-> k1],
  [user |-> u2, reward |-> r1, key |-> k1],
  [user |-> u2, reward |-> r1, key |-> k2]}
(* Prices that move, and no limit, so that every purchase may go ahead.    *)
MCEdits == [open : {TRUE}, cost : Costs, capacity : {NoLimit}]
(* One at a time, so every edit: closed, sold out after one, unlimited.    *)
MCAllEdits == [open : BOOLEAN, cost : Costs, capacity : {1, NoLimit}]
(* A single one left, at a fixed price.                                    *)
MCLastOne == {[open |-> TRUE, cost |-> 1, capacity |-> 1]}
MCAllCapacities == {1, NoLimit}

MCSymmetry == Permutations(Calls)
=============================================================================
