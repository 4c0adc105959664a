-------------------------- MODULE MCPointsService --------------------------
(* Two users, one of whom shares an idempotency key with the other, a      *)
(* debit and two credits, in both isolations, from two concurrent callers. *)
EXTENDS PointsService, TLC

CONSTANTS u1, u2, u3, k1, k2, k3

MCAmounts == {-1, 0, 1, 2}

MCRequests == {
  [user |-> u1, key |-> k1, delta |-> 2, isolation |-> "own"],
  [user |-> u1, key |-> k1, delta |-> 2, isolation |-> "callers"],
  [user |-> u1, key |-> k2, delta |-> -1, isolation |-> "callers"],
  [user |-> u1, key |-> k3, delta |-> 1, isolation |-> "own"],
  [user |-> u2, key |-> k3, delta |-> 1, isolation |-> "callers"],
  [user |-> u2, key |-> k1, delta |-> 0, isolation |-> "own"],
  [user |-> u3, key |-> k2, delta |-> 1, isolation |-> "callers"]}
MCSymmetry == Permutations(Calls)
=============================================================================
