------------------------ MODULE PointsService_proofs ------------------------
(* PointsService.post, for every set of users, keys, amounts and callers:  *)
(* its types, its ledger, its keys, its answers, and that it implements    *)
(* the promised ledger.                                                    *)
EXTENDS PointsService, PointsTables_proofs

RepliesPosted == \A c \in Calls : reply[c] # NoReply => reply[c] \in EntriesOf(params[c].key)

(* The answers need the keys to be posted once, the chain needs the types. *)
ServiceInv ==
  /\ ServiceTypeOK
  /\ BalanceMatchesLedger
  /\ KeyPostedOnce
  /\ RepliesPosted

(* What a call asks for, spelled out of its type.                          *)
LEMMA ParamsTyped ==
  ASSUME ServiceTypeOK, NEW c \in Calls
  PROVE  /\ params[c].user \in Users
         /\ params[c].key \in Keys
         /\ params[c].delta \in Amounts
BY RequestsAreCalls DEF ServiceTypeOK

LEMMA EntriesTyped ==
  ASSUME TablesTypeOK, NEW k
  PROVE  EntriesOf(k) \subseteq Entry
BY DEF TablesTypeOK, EntriesOf

(* With every key posted once, a key names one posting.                    *)
LEMMA OneEntryPerKey ==
  ASSUME KeyPostedOnce, NEW k, NEW e \in EntriesOf(k), NEW f \in EntriesOf(k)
  PROVE  e = f
<1>1. PICK u \in Users : \E i \in DOMAIN ledger[u] : e = ledger[u][i] /\ ledger[u][i].key = k
  BY DEF EntriesOf
<1>2. PICK i \in DOMAIN ledger[u] : e = ledger[u][i] /\ ledger[u][i].key = k
  BY <1>1
<1>3. PICK v \in Users : \E j \in DOMAIN ledger[v] : f = ledger[v][j] /\ ledger[v][j].key = k
  BY DEF EntriesOf
<1>4. PICK j \in DOMAIN ledger[v] : f = ledger[v][j] /\ ledger[v][j].key = k
  BY <1>3
<1>5. u = v /\ i = j
  BY <1>2, <1>4 DEF KeyPostedOnce
<1> QED BY <1>2, <1>4, <1>5

LEMMA ServiceStart == Init => ServiceInv
<1> SUFFICES ASSUME Init PROVE ServiceInv
  OBVIOUS
<1>1. (CHOOSE r \in Requests : TRUE) \in Requests
  BY RequestsAreCalls
<1>2. ServiceTypeOK
  BY <1>1, TablesStart DEF Init, ServiceTypeOK
<1>3. RepliesPosted
  BY DEF Init, RepliesPosted
<1> QED BY <1>2, <1>3, TablesStart DEF Init, ServiceInv

(* A commit is one posting by the call's parameters, under a new key.      *)
LEMMA CommitPosts ==
  ASSUME NEW c \in Calls, Commit(c)
  PROVE  /\ PostEntry(params[c].user, params[c].key, params[c].delta)
         /\ ~KeyUsed(params[c].key)
BY DEF Commit, MayCommit

LEMMA TypeStep == ServiceInv /\ [Next]_vars => ServiceTypeOK'
<1> SUFFICES ASSUME ServiceInv, [Next]_vars PROVE ServiceTypeOK'
  OBVIOUS
<1> USE DEF ServiceInv, ServiceTypeOK
<1>1. ASSUME NEW c \in Calls, Call(c) PROVE ServiceTypeOK'
  BY <1>1 DEF Call, TablesTypeOK
<1>2. ASSUME NEW c \in Calls, Lookup(c) PROVE ServiceTypeOK'
  <2>1. TablesTypeOK'
    BY <1>2 DEF Lookup, TablesTypeOK
  <2>2. pc' \in [Calls -> {"idle", "called", "writing", "aborted", "answered", "rejected"}]
    BY <1>2 DEF Lookup
  <2>3. SnapshotOf(params[c].user) \in Nat
    BY ParamsTyped DEF TablesTypeOK, SnapshotOf
  <2>4. seen' \in [Calls -> Nat]
    BY <1>2, <2>3 DEF Lookup
  <2>5. reply' \in [Calls -> Entry \cup {NoReply}]
    BY <1>2, EntriesTyped DEF Lookup
  <2> QED BY <1>2, <2>1, <2>2, <2>4, <2>5 DEF Lookup
<1>3. ASSUME NEW c \in Calls, Commit(c) PROVE ServiceTypeOK'
  <2>1. TablesTypeOK'
    BY <1>3, CommitPosts, ParamsTyped, PostEntryType
  <2>2. [key |-> params[c].key, delta |-> params[c].delta,
         after |-> balance[params[c].user] + params[c].delta] \in Entry
    <3>1. PICK u \in Users, d \in Amounts : u = params[c].user /\ d = params[c].delta
      BY ParamsTyped
    <3>2. balance[u] + d \in Int
      BY AmountsAreInts DEF TablesTypeOK
    <3> QED BY <3>1, <3>2, ParamsTyped DEF Entry
  <2>3. reply' \in [Calls -> Entry \cup {NoReply}]
    BY <1>3, <2>2 DEF Commit
  <2>4. pc' \in [Calls -> {"idle", "called", "writing", "aborted", "answered", "rejected"}]
    BY <1>3 DEF Commit
  <2> QED BY <1>3, <2>1, <2>3, <2>4 DEF Commit
<1>4. ASSUME NEW c \in Calls, Abort(c) PROVE ServiceTypeOK'
  BY <1>4 DEF Abort, TablesTypeOK
<1>5. ASSUME NEW c \in Calls, Retry(c) PROVE ServiceTypeOK'
  BY <1>5 DEF Retry, TablesTypeOK
<1>6. CASE UNCHANGED vars
  BY <1>6 DEF vars, TablesTypeOK
<1> QED BY <1>1, <1>2, <1>3, <1>4, <1>5, <1>6 DEF Next

LEMMA LedgerStep ==
  ServiceInv /\ [Next]_vars => BalanceMatchesLedger' /\ KeyPostedOnce' /\ [Abstract!Next]_ledger
<1> SUFFICES ASSUME ServiceInv, [Next]_vars
             PROVE  BalanceMatchesLedger' /\ KeyPostedOnce' /\ [Abstract!Next]_ledger
  OBVIOUS
<1>1. ASSUME NEW c \in Calls, Commit(c)
      PROVE  BalanceMatchesLedger' /\ KeyPostedOnce' /\ Abstract!Next
  BY <1>1, CommitPosts, ParamsTyped, PostEntryBalance, PostEntryOnce, PostEntryRefines
     DEF ServiceInv, ServiceTypeOK
<1>2. ASSUME UNCHANGED <<balance, ledger>>
      PROVE  BalanceMatchesLedger' /\ KeyPostedOnce' /\ UNCHANGED ledger
  BY <1>2 DEF ServiceInv, BalanceMatchesLedger, LastAfter, KeyPostedOnce
<1> QED BY <1>1, <1>2 DEF Next, Call, Lookup, Abort, Retry, vars

LEMMA RepliesStep == ServiceInv /\ [Next]_vars => RepliesPosted'
<1> SUFFICES ASSUME ServiceInv, [Next]_vars PROVE RepliesPosted'
  OBVIOUS
<1> USE DEF ServiceInv, ServiceTypeOK, RepliesPosted
<1>1. ASSUME NEW c \in Calls, Call(c) PROVE RepliesPosted'
  <2>1. \A k : EntriesOf(k)' = EntriesOf(k)
    BY <1>1 DEF Call, EntriesOf
  <2> QED BY <1>1, <2>1 DEF Call, ServiceTypeOK
<1>2. ASSUME NEW c \in Calls, Lookup(c) PROVE RepliesPosted'
  <2>1. \A k : EntriesOf(k)' = EntriesOf(k)
    BY <1>2 DEF Lookup, EntriesOf
  <2> QED BY <1>2, <2>1 DEF Lookup, ServiceTypeOK
<1>3. ASSUME NEW c \in Calls, Commit(c) PROVE RepliesPosted'
  <2>1. /\ \A x : EntriesOf(x) \subseteq EntriesOf(x)'
        /\ \A k : k = params[c].key =>
             [key |-> k, delta |-> params[c].delta,
              after |-> balance[params[c].user] + params[c].delta] \in EntriesOf(k)'
    <3>1. PICK u \in Users, k \in Keys, d \in Amounts :
            u = params[c].user /\ k = params[c].key /\ d = params[c].delta
      BY ParamsTyped
    <3>2. PostEntry(u, k, d)
      BY <1>3, <3>1, CommitPosts
    <3>3. TablesTypeOK
      OBVIOUS
    <3>4. /\ \A x : EntriesOf(x) \subseteq EntriesOf(x)'
          /\ [key |-> k, delta |-> d, after |-> balance[u] + d] \in EntriesOf(k)'
      BY <3>2, <3>3, PostEntryKeeps
    <3> QED BY <3>1, <3>4
  <2>2. params' = params
    BY <1>3 DEF Commit
  <2>3. ASSUME NEW d \in Calls, reply'[d] # NoReply
        PROVE  reply'[d] \in EntriesOf(params[d].key)'
    BY <1>3, <2>1, <2>3 DEF Commit, ServiceTypeOK
  <2> QED BY <2>2, <2>3
<1>4. ASSUME NEW c \in Calls, Abort(c) \/ Retry(c) PROVE RepliesPosted'
  <2>1. \A k : EntriesOf(k)' = EntriesOf(k)
    BY <1>4 DEF Abort, Retry, EntriesOf
  <2> QED BY <1>4, <2>1 DEF Abort, Retry
<1>5. CASE UNCHANGED vars
  <2>1. \A k : EntriesOf(k)' = EntriesOf(k)
    BY <1>5 DEF vars, EntriesOf
  <2> QED BY <1>5, <2>1 DEF vars
<1> QED BY <1>1, <1>2, <1>3, <1>4, <1>5 DEF Next

LEMMA ServiceInvariant == Spec => []ServiceInv
<1>1. ServiceInv /\ [Next]_vars => ServiceInv'
  BY TypeStep, LedgerStep, RepliesStep DEF ServiceInv
<1> QED BY ServiceStart, <1>1, PTL DEF Spec

(* Every variable keeps its type, whatever calls overlap, fail and retry.  *)
THEOREM ServiceTypeCorrect == Spec => []ServiceTypeOK
BY ServiceInvariant, PTL DEF ServiceInv

(* The account row and the history never disagree.                         *)
THEOREM BalanceAlwaysMatches == Spec => []BalanceMatchesLedger
BY ServiceInvariant, PTL DEF ServiceInv

(* A retried or duplicated call never posts its key a second time.         *)
THEOREM KeysPostedOnce == Spec => []KeyPostedOnce
BY ServiceInvariant, PTL DEF ServiceInv

(* Callers with one key are all told of the same posting.                  *)
THEOREM RepliesAgree == Spec => []RepliesAreThePosting
<1>1. ServiceInv => RepliesAreThePosting
  BY OneEntryPerKey DEF ServiceInv, RepliesPosted, RepliesAreThePosting
<1> QED BY ServiceInvariant, <1>1, PTL

(* post implements the promised ledger: one posting per commit, and no     *)
(* other step touches it.                                                  *)
THEOREM ServiceImplementsLedger == Spec => ImplementsLedger
<1>1. Init => Abstract!Init
  BY TablesStart DEF Init
<1>2. ServiceInv /\ [Next]_vars => [Abstract!Next]_ledger
  BY LedgerStep
<1> QED BY ServiceInvariant, <1>1, <1>2, PTL DEF Spec, ImplementsLedger, Abstract!Spec
=============================================================================
