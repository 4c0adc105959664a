---------------------------- MODULE PointsTables ----------------------------
(***************************************************************************)
(* The two tables behind every movement of points, and the one transaction *)
(* body that writes them: PointsService.post.  point_accounts holds one    *)
(* balance per user, point_transactions the postings, unique on            *)
(* idempotency_key.  An account row is created on first use with balance   *)
(* 0, so an absent row and an untouched one are the same here.             *)
(*                                                                         *)
(* Transactions.  A caller's reads are committed rows.  The writes of one  *)
(* transaction are one step, its commit: before it they are invisible to   *)
(* everyone else, the balance is changed by an increment that holds the    *)
(* account's row lock until the commit (so it adds to the last committed   *)
(* balance), and a second insert of a key waits for the first and then     *)
(* fails, which in PostgreSQL ends the whole transaction.                  *)
(***************************************************************************)
EXTENDS Integers, Sequences

CONSTANTS
  Users,
  Keys,      \* idempotency keys
  Amounts,   \* signed amounts a posting may move
  Blocked    \* users whose account is not active

ASSUME BlockedAreUsers == Blocked \subseteq Users
ASSUME AmountsAreInts  == Amounts \subseteq Int

VARIABLES
  balance,   \* point_accounts.balance
  ledger     \* point_transactions, per user in commit order

tables == <<balance, ledger>>

Entry == [key : Keys, delta : Amounts, after : Int]

TablesTypeOK ==
  /\ balance \in [Users -> Int]
  /\ ledger \in [Users -> Seq(Entry)]

TablesInit ==
  /\ balance = [u \in Users |-> 0]
  /\ ledger = [u \in Users |-> <<>>]

(* findUnique({ idempotencyKey }) on committed rows: unscoped by user. *)
KeyUsed(k) == \E u \in Users : \E i \in DOMAIN ledger[u] : ledger[u][i].key = k

EntriesOf(k) ==
  UNION {{ledger[u][i] : i \in {j \in DOMAIN ledger[u] : ledger[u][j].key = k}} : u \in Users}

(* A balance computed in the process instead of incremented in the row: it *)
(* overwrites what another transaction posted since this one read it.      *)
MutantStalePost(u, k, d) ==
  /\ \E stale \in {0} \cup {ledger[u][i].after : i \in DOMAIN ledger[u]} :
       balance' = [balance EXCEPT ![u] = stale + d]
  /\ ledger' = [ledger EXCEPT ![u] = Append(@, [key |-> k, delta |-> d, after |-> balance'[u]])]

(* The posting records the balance it found, not the one it leaves.        *)
MutantAfterIsBefore(u, k, d) ==
  /\ balance' = [balance EXCEPT ![u] = @ + d]
  /\ ledger' = [ledger EXCEPT ![u] = Append(@, [key |-> k, delta |-> d, after |-> balance[u]])]

(* balance: { increment: signed }, then the row with balanceAfter. *)
PostEntry(u, k, d) ==
  /\ balance' = [balance EXCEPT ![u] = @ + d]
  /\ ledger' = [ledger EXCEPT ![u] =
                  Append(@, [key |-> k, delta |-> d, after |-> balance[u] + d])]

-----------------------------------------------------------------------------
(* The balance shown to a user is the sum of her history: every posting's  *)
(* balanceAfter is the previous one's plus its own amount, and the account *)
(* row agrees with the last of them.                                       *)
LastAfter(seq) == IF seq = <<>> THEN 0 ELSE seq[Len(seq)].after

BalanceMatchesLedger ==
  \A u \in Users :
    /\ balance[u] = LastAfter(ledger[u])
    /\ \A i \in DOMAIN ledger[u] :
         ledger[u][i].after = ledger[u][i].delta + (IF i = 1 THEN 0 ELSE ledger[u][i - 1].after)

(* No idempotency key is posted twice, not even for two users.             *)
KeyPostedOnce ==
  \A u, v \in Users : \A i \in DOMAIN ledger[u], j \in DOMAIN ledger[v] :
    ledger[u][i].key = ledger[v][j].key => u = v /\ i = j

(* The tables implement the ledger the subsystem promises: each step posts *)
(* one entry under a new key, with the right balance, or leaves it alone.  *)
Abstract == INSTANCE PointsLedger
ImplementsLedger == Abstract!Spec

(* Its steps alone, for modules that start with postings made before.      *)
ExtendsLedger == [][Abstract!Next]_ledger
=============================================================================
