------------------------- MODULE PointsTables_proofs -------------------------
(* What one posting does to the two points tables, for all users and keys. *)
EXTENDS PointsTables, TLAPS

(* A posting keeps the tables' types.                                      *)
LEMMA PostEntryType ==
  ASSUME TablesTypeOK, NEW u \in Users, NEW k \in Keys, NEW d \in Amounts,
         PostEntry(u, k, d)
  PROVE  TablesTypeOK'
<1> DEFINE e == [key |-> k, delta |-> d, after |-> balance[u] + d]
<1>1. balance[u] + d \in Int
  BY AmountsAreInts DEF TablesTypeOK
<1>2. e \in Entry
  BY <1>1 DEF Entry
<1>3. Append(ledger[u], e) \in Seq(Entry)
  BY <1>2 DEF TablesTypeOK
<1>4. ledger' = [ledger EXCEPT ![u] = Append(ledger[u], e)]
  BY DEF PostEntry
<1> HIDE DEF e
<1>5. ledger' \in [Users -> Seq(Entry)]
  BY <1>3, <1>4 DEF TablesTypeOK
<1>6. balance' \in [Users -> Int]
  BY <1>1 DEF TablesTypeOK, PostEntry
<1> QED BY <1>5, <1>6 DEF TablesTypeOK

(* The appended entry, and all the others where they were.                 *)
RowsAfter(u, k, d) ==
  /\ Len(ledger'[u]) = Len(ledger[u]) + 1
  /\ ledger'[u][Len(ledger[u]) + 1] = [key |-> k, delta |-> d, after |-> balance[u] + d]
  /\ \A i \in DOMAIN ledger[u] : ledger'[u][i] = ledger[u][i]
  /\ \A v \in Users \ {u} : ledger'[v] = ledger[v]
  /\ DOMAIN ledger'[u] = DOMAIN ledger[u] \cup {Len(ledger[u]) + 1}

(* The rows after a posting are the rows before it and the new one.        *)
LEMMA PostEntryRows ==
  ASSUME TablesTypeOK, NEW u \in Users, NEW k \in Keys, NEW d \in Amounts,
         PostEntry(u, k, d)
  PROVE  RowsAfter(u, k, d)
BY AmountsAreInts DEF TablesTypeOK, PostEntry, Entry, RowsAfter

(* A posting extends the chain of balances, since the increment applies to *)
(* the last committed balance and balanceAfter is what it leaves.          *)
LEMMA PostEntryBalance ==
  ASSUME TablesTypeOK, BalanceMatchesLedger,
         NEW u \in Users, NEW k \in Keys, NEW d \in Amounts, PostEntry(u, k, d)
  PROVE  BalanceMatchesLedger'
<1> DEFINE n == Len(ledger[u])
<1>0. RowsAfter(u, k, d)
  BY PostEntryRows
<1>1. n \in Nat /\ DOMAIN ledger[u] = 1..n /\ d \in Int /\ balance[u] \in Int
  BY AmountsAreInts DEF TablesTypeOK
<1>2. balance'[u] = balance[u] + d
  BY DEF PostEntry, TablesTypeOK
<1>3. ASSUME NEW v \in Users PROVE balance'[v] = LastAfter(ledger'[v])
  <2>1. CASE v = u
    <3>1. Len(ledger'[u]) = n + 1 /\ ledger'[u][n + 1].after = balance[u] + d
      BY <1>0 DEF RowsAfter
    <3>2. ledger'[u] # <<>>
      BY <1>1, <3>1
    <3> QED BY <2>1, <3>1, <3>2, <1>2 DEF LastAfter
  <2>2. CASE v # u
    BY <2>2, <1>0 DEF PostEntry, TablesTypeOK, BalanceMatchesLedger, RowsAfter
  <2> QED BY <2>1, <2>2
<1>4. ASSUME NEW v \in Users, NEW i \in DOMAIN ledger'[v]
      PROVE ledger'[v][i].after =
              ledger'[v][i].delta + (IF i = 1 THEN 0 ELSE ledger'[v][i - 1].after)
  <2>1. CASE v # u
    BY <2>1, <1>0 DEF BalanceMatchesLedger, RowsAfter
  <2>2. CASE v = u /\ i \in DOMAIN ledger[u]
    <3>1. i = 1 \/ i - 1 \in DOMAIN ledger[u]
      BY <2>2, <1>1
    <3> QED BY <2>2, <3>1, <1>0 DEF BalanceMatchesLedger, RowsAfter
  <2>3. CASE v = u /\ i = n + 1
    <3>1. ledger'[u][i].after = balance[u] + d /\ ledger'[u][i].delta = d
      BY <2>3, <1>0 DEF RowsAfter
    <3>2. balance[u] = IF n = 0 THEN 0 ELSE ledger[u][n].after
      BY <1>1 DEF BalanceMatchesLedger, LastAfter, TablesTypeOK
    <3>3. n # 0 => ledger'[u][n] = ledger[u][n]
      BY <1>1, <1>0 DEF RowsAfter
    <3> QED BY <1>1, <2>3, <3>1, <3>2, <3>3
  <2> QED BY <2>1, <2>2, <2>3, <1>0 DEF RowsAfter
<1> QED BY <1>3, <1>4 DEF BalanceMatchesLedger

(* A posting under a key not yet posted keeps every key posted once.       *)
LEMMA PostEntryOnce ==
  ASSUME TablesTypeOK, KeyPostedOnce,
         NEW u \in Users, NEW k \in Keys, NEW d \in Amounts,
         ~KeyUsed(k), PostEntry(u, k, d)
  PROVE  KeyPostedOnce'
<1>0. RowsAfter(u, k, d)
  BY PostEntryRows
<1> SUFFICES ASSUME NEW v \in Users, NEW w \in Users,
                    NEW i \in DOMAIN ledger'[v], NEW j \in DOMAIN ledger'[w],
                    ledger'[v][i].key = ledger'[w][j].key
             PROVE  v = w /\ i = j
  BY DEF KeyPostedOnce
<1> DEFINE Old(x, h) == h \in DOMAIN ledger[x]
           New(x, h) == x = u /\ h = Len(ledger[u]) + 1
<1>1. /\ Old(v, i) \/ New(v, i)
      /\ Old(w, j) \/ New(w, j)
  BY <1>0 DEF RowsAfter
<1>2. CASE Old(v, i) /\ Old(w, j)
  <2>1. ledger[v][i].key = ledger[w][j].key
    BY <1>2, <1>0 DEF RowsAfter
  <2> QED BY <1>2, <2>1 DEF KeyPostedOnce
<1>3. CASE Old(v, i) /\ New(w, j)
  <2>1. ledger[v][i].key = k
    BY <1>3, <1>0 DEF RowsAfter
  <2> QED BY <1>3, <2>1 DEF KeyUsed
<1>4. CASE New(v, i) /\ Old(w, j)
  <2>1. ledger[w][j].key = k
    BY <1>4, <1>0 DEF RowsAfter
  <2> QED BY <1>4, <2>1 DEF KeyUsed
<1>5. CASE New(v, i) /\ New(w, j)
  BY <1>5
<1> QED BY <1>1, <1>2, <1>3, <1>4, <1>5

(* Postings are never taken back.                                          *)
LEMMA PostEntryKeeps ==
  ASSUME TablesTypeOK, NEW u \in Users, NEW k \in Keys, NEW d \in Amounts,
         PostEntry(u, k, d)
  PROVE  /\ \A x : KeyUsed(x) => KeyUsed(x)'
         /\ \A x : EntriesOf(x) \subseteq EntriesOf(x)'
         /\ KeyUsed(k)'
         /\ [key |-> k, delta |-> d, after |-> balance[u] + d] \in EntriesOf(k)'
<1>0. RowsAfter(u, k, d)
  BY PostEntryRows
<1> DEFINE n == Len(ledger[u])
           e == [key |-> k, delta |-> d, after |-> balance[u] + d]
<1>1. ASSUME NEW v \in Users, NEW i \in DOMAIN ledger[v]
      PROVE i \in DOMAIN ledger'[v] /\ ledger'[v][i] = ledger[v][i]
  BY <1>0 DEF RowsAfter
<1>2. n + 1 \in DOMAIN ledger'[u] /\ ledger'[u][n + 1] = e
  BY <1>0 DEF RowsAfter
<1>3. ASSUME NEW x, KeyUsed(x) PROVE KeyUsed(x)'
  BY <1>1, <1>3 DEF KeyUsed
<1>4. ASSUME NEW x PROVE EntriesOf(x) \subseteq EntriesOf(x)'
  BY <1>1 DEF EntriesOf
<1>5. KeyUsed(k)'
  BY <1>2 DEF KeyUsed
<1>6. e \in EntriesOf(k)'
  BY <1>2 DEF EntriesOf
<1> QED BY <1>3, <1>4, <1>5, <1>6

(* A posting under a new key is a step of the promised ledger.             *)
LEMMA PostEntryRefines ==
  ASSUME TablesTypeOK, BalanceMatchesLedger,
         NEW u \in Users, NEW k \in Keys, NEW d \in Amounts,
         ~KeyUsed(k), PostEntry(u, k, d)
  PROVE  Abstract!Next
<1>0. RowsAfter(u, k, d)
  BY PostEntryRows
<1>1. Abstract!BalanceOf(ledger[u]) = balance[u]
  BY DEF Abstract!BalanceOf, BalanceMatchesLedger, LastAfter
<1>2. Abstract!Post(u, k, d)
  BY <1>1 DEF Abstract!Post, Abstract!Posted, KeyUsed, PostEntry, TablesTypeOK
<1>3. ledger'[u] # ledger[u]
  BY <1>0 DEF TablesTypeOK, RowsAfter
<1> QED BY <1>2, <1>3 DEF Abstract!Next

(* The empty tables satisfy all of it.                                     *)
LEMMA TablesStart ==
  TablesInit => TablesTypeOK /\ BalanceMatchesLedger /\ KeyPostedOnce /\ Abstract!Init
BY DEF TablesInit, TablesTypeOK, BalanceMatchesLedger, LastAfter, KeyPostedOnce, Abstract!Init, Entry
=============================================================================
