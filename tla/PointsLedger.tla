---------------------------- MODULE PointsLedger ----------------------------
(***************************************************************************)
(* What the points subsystem promises: for every user an append-only       *)
(* sequence of postings, each under a key of its own that is never posted  *)
(* twice, each carrying the balance it leaves behind.  Every module that   *)
(* moves points is shown to implement this specification.                  *)
(***************************************************************************)
EXTENDS Integers, Sequences

CONSTANTS
  Users,
  Keys,      \* idempotency keys
  Amounts    \* signed amounts: a credit is positive, a debit negative

VARIABLE ledger

Entry == [key : Keys, delta : Amounts, after : Int]

(* The user's balance is what the last posting left. *)
BalanceOf(seq) == IF seq = <<>> THEN 0 ELSE seq[Len(seq)].after

Posted(k) == \E u \in Users : \E i \in DOMAIN ledger[u] : ledger[u][i].key = k

LedgerTypeOK == ledger \in [Users -> Seq(Entry)]

Init == ledger = [u \in Users |-> <<>>]

Post(u, k, d) ==
  /\ ~Posted(k)
  /\ ledger' = [ledger EXCEPT ![u] =
                  Append(@, [key |-> k, delta |-> d, after |-> BalanceOf(@) + d])]

(* The first conjunct only spares TLC the search for k and d.              *)
Next == \E u \in Users :
  /\ ledger'[u] # ledger[u]
  /\ \E k \in Keys, d \in Amounts : Post(u, k, d)

Spec == Init /\ [][Next]_ledger
=============================================================================
