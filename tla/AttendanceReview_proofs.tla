------------------------ MODULE AttendanceReview_proofs ------------------------
(* Reviews, check-ins and the clean-up script, for every attendance and    *)
(* award and any number of reviews and runs of the script: types, and      *)
(* points that agree with the attendances.                                 *)
EXTENDS AttendanceReview, PointsTables_proofs, SequenceTheorems

-----------------------------------------------------------------------------
(* Postings by key. *)
LEMMA Keyed ==
  /\ \A a \in Attendances : AwardKey(a) \in Keys /\ ReversalKey(a) \in Keys
  /\ \A a, b \in Attendances :
       /\ AwardKey(a) # ReversalKey(b)
       /\ AwardKey(a) = AwardKey(b) => a = b
       /\ ReversalKey(a) = ReversalKey(b) => a = b
BY ReviewConstants DEF AwardKey, ReversalKey

LEMMA UsedIsPosted == \A k : KeyUsed(k) <=> Posted(k) # {}
BY DEF KeyUsed, Posted, EntriesOf

LEMMA PostedSame == ASSUME UNCHANGED ledger PROVE \A k : Posted(k)' = Posted(k)
BY DEF Posted, EntriesOf

(* A posting as the API or the script writes it: the balance it records is *)
(* the one that results, unless the script's was overtaken.                *)
Writes(u, k, d, after) ==
  /\ balance' = [balance EXCEPT ![u] = after]
  /\ ledger' = [ledger EXCEPT ![u] = Append(@, [key |-> k, delta |-> d, after |-> after])]

Written(u, k, d) ==
  \E after \in Int : Writes(u, k, d, after) /\ (UpsertLocks => after = balance[u] + d)

LEMMA PostEntryWrites ==
  ASSUME TablesTypeOK, NEW u \in Users, NEW k \in Keys, NEW d \in Amounts, PostEntry(u, k, d)
  PROVE  Written(u, k, d)
<1>1. PICK after \in Int : after = balance[u] + d
  BY AmountsAreInts DEF TablesTypeOK
<1>2. Writes(u, k, d, after)
  BY <1>1 DEF PostEntry, Writes, TablesTypeOK
<1> QED BY <1>1, <1>2 DEF Written

LEMMA WrittenType ==
  ASSUME TablesTypeOK, NEW u \in Users, NEW k \in Keys, NEW d \in Amounts, Written(u, k, d)
  PROVE  TablesTypeOK' /\ \A v \in Users : v # u => balance'[v] = balance[v]
<1>1. PICK after \in Int : Writes(u, k, d, after)
  BY DEF Written
<1>2. PICK e : e = [key |-> k, delta |-> d, after |-> after]
  OBVIOUS
<1>3. e \in Entry
  BY <1>2 DEF Entry
<1>4. Append(ledger[u], e) \in Seq(Entry)
  BY <1>3 DEF TablesTypeOK
<1>5. ledger' = [ledger EXCEPT ![u] = Append(ledger[u], e)]
  BY <1>1, <1>2 DEF Writes
<1>6. ledger' \in [Users -> Seq(Entry)]
  BY <1>4, <1>5 DEF TablesTypeOK
<1>7. /\ balance' \in [Users -> Int]
      /\ \A v \in Users : v # u => balance'[v] = balance[v]
  BY <1>1 DEF TablesTypeOK, Writes
<1> QED BY <1>6, <1>7 DEF TablesTypeOK

(* With the row locked since it was read, it is the posting of the API.    *)
LEMMA WrittenBalance ==
  ASSUME TablesTypeOK, NEW u \in Users, NEW k \in Keys, NEW d \in Amounts, Written(u, k, d),
         UpsertLocks => BalanceMatchesLedger
  PROVE  UpsertLocks => BalanceMatchesLedger'
<1>1. UpsertLocks => PostEntry(u, k, d)
  BY AmountsAreInts DEF Written, Writes, PostEntry, TablesTypeOK
<1> QED BY <1>1, PostEntryBalance

LEMMA PostedAfter ==
  ASSUME TablesTypeOK, NEW u \in Users, NEW k \in Keys, NEW d \in Amounts, Written(u, k, d)
  PROVE  \A x : Posted(x)' = Posted(x) \cup (IF x = k THEN {d} ELSE {})
<1>0. PICK after \in Int : Writes(u, k, d, after)
  BY DEF Written
<1> DEFINE n == Len(ledger[u])
           e == [key |-> k, delta |-> d, after |-> after]
<1>1. e.key = k /\ e.delta = d
  OBVIOUS
<1> HIDE DEF e, n
<1>2. /\ \A v \in Users : \A i : i \in DOMAIN ledger[v] => i \in DOMAIN ledger'[v] /\ ledger'[v][i] = ledger[v][i]
      /\ \A v \in Users : \A i : i \in DOMAIN ledger'[v] =>
           i \in DOMAIN ledger[v] \/ (v = u /\ i = n + 1)
      /\ n + 1 \in DOMAIN ledger'[u] /\ ledger'[u][n + 1] = e
  <2>1. ledger[u] \in Seq(Entry) /\ n \in Nat /\ DOMAIN ledger[u] = 1..n
    BY DEF TablesTypeOK, n
  <2>2. ledger'[u] = Append(ledger[u], e) /\ \A v \in Users \ {u} : ledger'[v] = ledger[v]
    BY <1>0 DEF Writes, TablesTypeOK, e
  <2>3. /\ DOMAIN ledger'[u] = 1..(n + 1) /\ ledger'[u][n + 1] = e
        /\ \A i \in 1..n : ledger'[u][i] = ledger[u][i]
    BY <2>1, <2>2 DEF n
  <2> QED BY <2>1, <2>2, <2>3
<1> SUFFICES ASSUME NEW x PROVE Posted(x)' = Posted(x) \cup (IF x = k THEN {d} ELSE {})
  OBVIOUS
<1>3. \A y : y \in Posted(x) <=> \E v \in Users : \E i \in DOMAIN ledger[v] :
               ledger[v][i].key = x /\ y = ledger[v][i].delta
  BY DEF Posted, EntriesOf
<1>4. \A y : y \in Posted(x)' <=> \E v \in Users : \E i \in DOMAIN ledger'[v] :
               ledger'[v][i].key = x /\ y = ledger'[v][i].delta
  BY DEF Posted, EntriesOf
<1>5. \A y : y \in Posted(x)' <=> y \in Posted(x) \/ (x = k /\ y = d)
  <2>1. ASSUME NEW y, y \in Posted(x) \/ (x = k /\ y = d) PROVE y \in Posted(x)'
    BY <1>1, <1>2, <1>3, <1>4, <2>1
  <2>2. ASSUME NEW y, y \in Posted(x)' PROVE y \in Posted(x) \/ (x = k /\ y = d)
    <3>1. PICK v \in Users : \E i \in DOMAIN ledger'[v] :
                 ledger'[v][i].key = x /\ y = ledger'[v][i].delta
      BY <1>4, <2>2
    <3>2. PICK i \in DOMAIN ledger'[v] : ledger'[v][i].key = x /\ y = ledger'[v][i].delta
      BY <3>1
    <3>3. CASE i \in DOMAIN ledger[v]
      BY <1>2, <1>3, <3>2, <3>3
    <3>4. CASE v = u /\ i = n + 1
      BY <1>1, <1>2, <3>2, <3>4
    <3> QED BY <1>2, <3>3, <3>4
  <2> QED BY <2>1, <2>2
<1> QED BY <1>5

LEMMA Awards == \A a \in Attendances : Award(a) \in Nat
<1> SUFFICES ASSUME NEW a \in Attendances PROVE Award(a) \in Nat
  OBVIOUS
<1>1. /\ Facts[a] \in Fact /\ Fallback["special"] \in Nat /\ Fallback["regular"] \in Nat
  BY ReviewConstants
<1>2. Facts[a].eligible \in BOOLEAN /\ Facts[a].type \in Types /\ Facts[a].base \in Nat
  BY <1>1 DEF Fact
<1>3. CASE ~Facts[a].eligible \/ Facts[a].type = "partner"
  BY <1>3 DEF Award
<1>4. CASE Facts[a].eligible /\ Facts[a].type # "partner" /\ Facts[a].base > 0
  BY <1>2, <1>4 DEF Award
<1>5. CASE Facts[a].eligible /\ Facts[a].type # "partner" /\ Facts[a].base = 0
  BY <1>1, <1>2, <1>5 DEF Award, Types
<1> QED BY <1>2, <1>3, <1>4, <1>5

-----------------------------------------------------------------------------
(* The script's state, field by field. *)
Fields(p, n, s, x, l, a, b) ==
  [pc |-> p, runs |-> n, seen |-> s, points |-> x, losers |-> l, loser |-> a, balance |-> b]

IsScript ==
  script = Fields(script.pc, script.runs, script.seen, script.points, script.losers,
                  script.loser, script.balance)

TypeInv == ReviewTypeOK /\ IsScript

(* What an attendance has been paid.                                       *)
AwardOnly ==
  \A a \in Attendances :
    Posted(AwardKey(a)) \subseteq {Award(a)} /\ (Posted(AwardKey(a)) # {} => Award(a) > 0)

BookInv ==
  /\ AwardOnly /\ ApprovedIsPaid /\ ReversedWasPaid /\ UncontestedIsSettled
  /\ UpsertLocks => BalanceMatchesLedger

(* The reviews.  An uncontested attendance has one at a time, which finds  *)
(* it as it read it, and none while the script runs.                       *)
AreRows == \A c \in Calls : pc[c] # "idle" => status[job[c].attendance] # "none"

Reviewing(c, a) == pc[c] # "idle" /\ job[c].attendance = a

OneReview ==
  \A c, d \in Calls, a \in Attendances \ Contested : Reviewing(c, a) /\ Reviewing(d, a) => c = d

StillPending ==
  \A c \in Calls : pc[c] = "write" /\ job[c].attendance \notin Contested =>
    status[job[c].attendance] = "pending"

NotReviewed ==
  script.pc # "off" => \A c \in Calls : pc[c] # "idle" => job[c].attendance \in Contested

CallInv == AreRows /\ OneReview /\ StillPending /\ NotReviewed

(* The script.  What it has read of the points is still so, but for a      *)
(* contested attendance paid since; its upsert has locked the account; and *)
(* it will leave one attendance a day.                                     *)
SeenAreRows == \A a \in script.seen : status[a] # "none"

OffIsEmpty == script.pc = "off" => script.seen = {}

PointsAreTrue ==
  \A a \in DOMAIN script.points :
    /\ script.points[a] > 0 => Posted(AwardKey(a)) = {script.points[a]}
    /\ script.points[a] = 0 /\ a \notin Contested => Posted(AwardKey(a)) = {}

Sorted == script.pc \in {"next", "reverse", "done"}

SumsAreRead == Sorted => DOMAIN script.points = script.seen

Reversing ==
  script.pc = "reverse" =>
    /\ script.loser \in script.losers /\ script.points[script.loser] > 0
    /\ UpsertLocks => script.balance = balance[Facts[script.loser].user]

ArrivedAlone ==
  script.pc = "sum" => \A a \in Present \ script.seen, b \in Present : SameDay(a, b) => a = b

OneIsKept ==
  /\ Sorted => \A a, b \in Present \ script.losers : SameDay(a, b) => a = b
  /\ script.pc = "done" => script.losers = {}

ScriptInv ==
  SeenAreRows /\ OffIsEmpty /\ PointsAreTrue /\ SumsAreRead /\ Reversing /\ ArrivedAlone /\ OneIsKept

ReviewInv == TypeInv /\ BookInv /\ CallInv /\ ScriptInv

-----------------------------------------------------------------------------
(* The kinds of steps, by what they make of the rows and the points.       *)
Pays(a) ==
  /\ Award(a) > 0 /\ ~KeyUsed(AwardKey(a)) /\ ~Locked(Facts[a].user)
  /\ PostEntry(Facts[a].user, AwardKey(a), Award(a))

Approves(a) ==
  /\ status[a] # "gone" /\ status' = [status EXCEPT ![a] = "approved"]
  /\ Pays(a) \/ (UNCHANGED tables /\ (Award(a) = 0 \/ KeyUsed(AwardKey(a))))
  /\ UNCHANGED script

Rejects(a) ==
  /\ status[a] # "gone" /\ status' = [status EXCEPT ![a] = "rejected"]
  /\ UNCHANGED <<tables, script>>

Quiet == UNCHANGED <<tables, status>>

LEMMA AttendanceOf ==
  ASSUME TypeInv
  PROVE  /\ \A a \in Attendances : Facts[a].user \in Users /\ status[a] \in Statuses
         /\ \A c \in Calls : job[c].attendance \in Attendances /\ pc[c] \in {"idle", "read", "write"}
BY ReviewConstants DEF TypeInv, ReviewTypeOK, Fact

LEMMA PostAwardPays ==
  ASSUME TypeInv, NEW a \in Attendances, PostAward(a)
  PROVE  Pays(a) \/ (UNCHANGED tables /\ (Award(a) = 0 \/ KeyUsed(AwardKey(a))))
<1>1. CASE Payable(a)
  BY <1>1 DEF PostAward, Payable, Pays
<1>2. CASE ~Payable(a)
  <2>1. Award(a) \in Nat /\ (Award(a) > 0 \/ Award(a) = 0)
    BY Awards
  <2> QED BY <1>2, <2>1 DEF PostAward, Payable
<1> QED BY <1>1, <1>2

LEMMA ApproveKind ==
  ASSUME TypeInv, NEW c \in Calls, Approve(c)
  PROVE  /\ pc' = [pc EXCEPT ![c] = "idle"] /\ job' = job /\ pc[c] = "write"
         /\ Approves(job[c].attendance) \/ (Quiet /\ UNCHANGED script)
BY AttendanceOf, PostAwardPays DEF Approve, Refuse, Goto, Approves, Quiet

LEMMA RejectKind ==
  ASSUME TypeInv, NEW c \in Calls, Reject(c)
  PROVE  /\ pc' = [pc EXCEPT ![c] = "idle"] /\ job' = job /\ pc[c] = "write"
         /\ Rejects(job[c].attendance) \/ (Quiet /\ UNCHANGED script)
BY DEF Reject, Refuse, Goto, Rejects, Quiet

LEMMA CheckInKind ==
  ASSUME TypeInv, NEW a \in Attendances, CheckIn(a)
  PROVE  /\ Approves(a) /\ UNCHANGED <<pc, job>> /\ status[a] = "none"
         /\ \A b \in Present : ~SameDay(a, b)
BY PostAwardPays DEF CheckIn, Approves

(* A loser of the script goes: with the points it had, or it had none.     *)
Goes(a) ==
  /\ a \in Present /\ a \in script.losers
  /\ status' = [status EXCEPT ![a] = "gone"]
  /\ UNCHANGED <<pc, job>>
  /\ script' = Fields("next", script.runs, script.seen, script.points, script.losers \ {a},
                       script.loser, script.balance)

Unpaid(a) == script.points[a] = 0 /\ UNCHANGED tables

TakenBack(a) ==
  /\ script.points[a] > 0 /\ ~KeyUsed(ReversalKey(a))
  /\ Written(Facts[a].user, ReversalKey(a), -script.points[a])

(* The script's own steps, which change nothing else. *)
Reads ==
  /\ script.runs < MaxRuns /\ \A c \in Calls : pc[c] # "idle" => job[c].attendance \in Contested
  /\ script' = Fields("sum", script.runs + 1, Present, <<>>, {}, NoScript.loser, 0)

Sums(a) ==
  \E n \in Nat :
    /\ script.pc = "sum" /\ a \in script.seen
    /\ n > 0 => Posted(AwardKey(a)) = {n}
    /\ n = 0 => Posted(AwardKey(a)) = {}
    /\ script' = Fields("sum", script.runs, script.seen,
                        [b \in DOMAIN script.points \cup {a} |-> IF b # a THEN script.points[b] ELSE n],
                        script.losers, script.loser, script.balance)

Groups(losers) ==
  /\ script.pc = "sum" /\ script.seen = DOMAIN script.points
  /\ losers \subseteq script.seen
  /\ \A a, b \in script.seen \ losers : a # b => ~SameDay(a, b)
  /\ script' = Fields("next", script.runs, script.seen, script.points, losers,
                      script.loser, script.balance)

ReadsAccount(a) ==
  /\ script.pc = "next" /\ a \in script.losers /\ script.points[a] > 0
  /\ script' = Fields("reverse", script.runs, script.seen, script.points, script.losers,
                      a, balance[Facts[a].user])

Finishes ==
  /\ script.pc = "next" /\ script.losers = {}
  /\ script' = Fields("done", script.runs, script.seen, script.points, script.losers,
                      script.loser, script.balance)

Exits == script' = Fields("off", script.runs, {}, <<>>, {}, NoScript.loser, 0)

ScriptMoves ==
  \/ Reads \/ Finishes \/ Exits
  \/ \E a \in Attendances : Sums(a) \/ ReadsAccount(a)
  \/ \E losers \in SUBSET Attendances : Groups(losers)

LEMMA NoScriptFields ==
  NoScript = Fields("off", 0, {}, <<>>, {}, NoScript.loser, 0) /\ NoScript.loser \in Attendances
<1>1. (CHOOSE a \in Attendances : TRUE) \in Attendances
  BY ReviewConstants
<1> QED BY <1>1 DEF NoScript, Fields

LEMMA ReadKind == ASSUME ReadAttendances PROVE Reads
<1>1. PICK f, r : f = NoScript.loser /\ r = NoScript
  OBVIOUS
<1>2. r = Fields("off", 0, {}, <<>>, {}, f, 0) /\ f = NoScript.loser
  BY <1>1, NoScriptFields
<1>3. script' = [r EXCEPT !.pc = "sum", !.runs = script.runs + 1, !.seen = Present]
  BY <1>1 DEF ReadAttendances
<1>4. script' = Fields("sum", script.runs + 1, Present, <<>>, {}, f, 0)
  BY <1>2, <1>3 DEF Fields
<1> QED BY <1>2, <1>4 DEF Reads, ReadAttendances

LEMMA ExitKind == ASSUME Exit PROVE Exits
<1>1. PICK f, r : f = NoScript.loser /\ r = NoScript
  OBVIOUS
<1>2. r = Fields("off", 0, {}, <<>>, {}, f, 0) /\ f = NoScript.loser
  BY <1>1, NoScriptFields
<1>3. script' = [r EXCEPT !.runs = script.runs]
  BY <1>1 DEF Exit
<1>4. script' = Fields("off", script.runs, {}, <<>>, {}, f, 0)
  BY <1>2, <1>3 DEF Fields
<1> QED BY <1>2, <1>4 DEF Exits

LEMMA SumKind ==
  ASSUME TypeInv, AwardOnly, NEW a \in Attendances, SumCredits(a) PROVE Sums(a)
<1> DEFINE credits == {e \in EntriesOf(AwardKey(a)) : e.delta > 0}
           n == IF credits = {} THEN 0 ELSE (CHOOSE e \in credits : TRUE).delta
<1>1. Award(a) \in Nat
  BY Awards
<1>2. \A e \in EntriesOf(AwardKey(a)) : e.delta = Award(a) /\ Award(a) > 0
  BY DEF AwardOnly, Posted
<1>4. n \in Nat /\ (n > 0 => Posted(AwardKey(a)) = {n}) /\ (n = 0 => Posted(AwardKey(a)) = {})
  <2>1. CASE credits = {}
    <3>1. EntriesOf(AwardKey(a)) = {}
      BY <1>2, <2>1
    <3> QED BY <2>1, <3>1 DEF Posted
  <2>2. CASE credits # {}
    <3>1. (CHOOSE e \in credits : TRUE) \in credits
      BY <2>2
    <3>2. PICK e \in EntriesOf(AwardKey(a)) : e = CHOOSE x \in credits : TRUE
      BY <3>1
    <3>3. n = e.delta /\ e.delta = Award(a) /\ Award(a) > 0
      BY <1>2, <2>2, <3>2
    <3>4. Award(a) \in Posted(AwardKey(a))
      <4>1. e.delta \in {x.delta : x \in EntriesOf(AwardKey(a))}
        BY <3>2
      <4> QED BY <3>3, <4>1 DEF Posted
    <3>5. Posted(AwardKey(a)) = {Award(a)} /\ n = Award(a) /\ Award(a) > 0
      BY <3>3, <3>4 DEF AwardOnly
    <3> HIDE DEF n
    <3> QED BY <1>1, <3>5
  <2> QED BY <2>1, <2>2
<1>5. script' = [script EXCEPT !.points =
                   [b \in DOMAIN script.points \cup {a} |-> IF b # a THEN script.points[b] ELSE n]]
  BY DEF SumCredits
<1> HIDE DEF n
<1>6. script' = Fields("sum", script.runs, script.seen,
                       [b \in DOMAIN script.points \cup {a} |-> IF b # a THEN script.points[b] ELSE n],
                       script.losers, script.loser, script.balance)
  BY <1>5 DEF Fields, TypeInv, IsScript, SumCredits
<1> QED BY <1>4, <1>6 DEF Sums, SumCredits

LEMMA GroupKind ==
  ASSUME TypeInv, Group PROVE \E losers \in SUBSET Attendances : Groups(losers)
<1>1. PICK winners \in SUBSET script.seen :
        /\ \A a, b \in winners : a # b => ~SameDay(a, b)
        /\ script' = [script EXCEPT !.pc = "next", !.losers = script.seen \ winners]
  BY DEF Group
<1>2. script' = Fields("next", script.runs, script.seen, script.points, script.seen \ winners,
                       script.loser, script.balance)
  BY <1>1 DEF Fields, TypeInv, IsScript
<1>3. script.seen \ winners \in SUBSET Attendances /\ script.seen \ (script.seen \ winners) = winners
  BY DEF TypeInv, ReviewTypeOK
<1> QED BY <1>1, <1>2, <1>3 DEF Group, Groups

LEMMA AccountKind ==
  ASSUME TypeInv, NEW a \in Attendances, ReadAccount(a) PROVE ReadsAccount(a)
BY DEF ReadAccount, ReadsAccount, TypeInv, IsScript, Fields

LEMMA FinishKind == ASSUME TypeInv, Finish PROVE Finishes
BY DEF Finish, Finishes, TypeInv, IsScript, Fields

LEMMA DropKind ==
  ASSUME TypeInv, NEW a \in Attendances, DropUnpaid(a) PROVE script.pc = "next" /\ Goes(a) /\ Unpaid(a)
<1>1. script' = [script EXCEPT !.losers = script.losers \ {a}]
  BY DEF DropUnpaid
<1>2. script' = Fields("next", script.runs, script.seen, script.points, script.losers \ {a},
                       script.loser, script.balance)
  BY <1>1 DEF DropUnpaid, TypeInv, IsScript, Fields
<1> QED BY <1>2 DEF DropUnpaid, Goes, Unpaid

LEMMA ReverseKind ==
  ASSUME TypeInv, Reversing, SumsAreRead, Reverse
  PROVE  script.pc = "reverse" /\ Goes(script.loser) /\ TakenBack(script.loser)
<1> DEFINE a == script.loser
<1>1. /\ a \in script.losers /\ script.points[a] > 0
      /\ UpsertLocks => script.balance = balance[Facts[a].user]
  BY DEF Reversing, Reverse
<1>2. script' = [script EXCEPT !.pc = "next", !.losers = script.losers \ {a}]
  BY DEF Reverse
<1>3. script' = Fields("next", script.runs, script.seen, script.points, script.losers \ {a},
                       script.loser, script.balance)
  BY <1>2 DEF TypeInv, IsScript, Fields
<1>4. /\ a \in Attendances /\ Facts[a].user \in Users /\ script.points[a] \in Nat
      /\ balance[Facts[a].user] \in Int /\ script.balance \in Int
  <2>1. a \in Attendances /\ a \in DOMAIN script.points
    BY <1>1 DEF TypeInv, ReviewTypeOK, SumsAreRead, Sorted, Reverse
  <2>2. Facts[a].user \in Users /\ script.points[a] \in Nat
    BY <2>1, AttendanceOf DEF TypeInv, ReviewTypeOK
  <2> QED BY <2>1, <2>2 DEF TypeInv, ReviewTypeOK, TablesTypeOK
<1>5. Written(Facts[a].user, ReversalKey(a), -script.points[a])
  <2>1. PICK after \in Int : after = script.balance - script.points[a]
    BY <1>4
  <2>2. Writes(Facts[a].user, ReversalKey(a), -script.points[a], after)
    BY <2>1 DEF Reverse, Writes
  <2>3. UpsertLocks => after = balance[Facts[a].user] + -script.points[a]
    BY <1>1, <1>4, <2>1
  <2> QED BY <2>2, <2>3 DEF Written
<1> QED BY <1>1, <1>3, <1>5 DEF Reverse, Goes, TakenBack

-----------------------------------------------------------------------------
(* Every step is of one of five kinds. *)
ReviewMoves(c) ==
  /\ Quiet /\ UNCHANGED script
  /\ \/ \E a \in Attendances, verdict \in {"approve", "reject"} : Review(c, a, verdict)
     \/ Find(c)

Verdict(c) ==
  /\ pc' = [pc EXCEPT ![c] = "idle"] /\ job' = job /\ pc[c] = "write"
  /\ \/ Approves(job[c].attendance)
     \/ Rejects(job[c].attendance)
     \/ Quiet /\ UNCHANGED script

Arrives(a) ==
  /\ Approves(a) /\ UNCHANGED <<pc, job>> /\ status[a] = "none"
  /\ \A b \in Present : ~SameDay(a, b)

ScriptWorks == Quiet /\ UNCHANGED <<pc, job>> /\ ScriptMoves

Leaves(a) ==
  /\ Goes(a)
  /\ \/ script.pc = "next" /\ Unpaid(a)
     \/ script.pc = "reverse" /\ TakenBack(a)

StepKinds ==
  \/ \E c \in Calls : ReviewMoves(c) \/ Verdict(c)
  \/ \E a \in Attendances : Arrives(a) \/ Leaves(a)
  \/ ScriptWorks

LEMMA NextKinds == ASSUME ReviewInv, Next PROVE StepKinds
<1> USE DEF ReviewInv
<1>1. ASSUME NEW c \in Calls, \/ \E a \in Attendances, verdict \in {"approve", "reject"} : Review(c, a, verdict)
                              \/ Find(c)
      PROVE  ReviewMoves(c)
  BY <1>1 DEF Review, Find, ReviewMoves, Quiet
<1>2. ASSUME NEW c \in Calls, Approve(c) \/ Reject(c) PROVE Verdict(c)
  BY <1>2, ApproveKind, RejectKind DEF Verdict
<1>3. ASSUME NEW a \in Attendances, CheckIn(a) PROVE Arrives(a)
  BY <1>3, CheckInKind DEF Arrives
<1>4. ASSUME NEW a \in Attendances, SumCredits(a) \/ ReadAccount(a) PROVE ScriptWorks
  <2>1. Quiet /\ UNCHANGED <<pc, job>>
    BY <1>4 DEF SumCredits, ReadAccount, Quiet
  <2> QED BY <1>4, <2>1, SumKind, AccountKind DEF BookInv, ScriptWorks, ScriptMoves
<1>5. ASSUME NEW a \in Attendances, DropUnpaid(a) PROVE Leaves(a)
  BY <1>5, DropKind DEF Leaves
<1>6. CASE ReadAttendances \/ Group \/ Finish \/ Exit
  <2>1. Quiet /\ UNCHANGED <<pc, job>>
    BY <1>6 DEF ReadAttendances, Group, Finish, Exit, Quiet
  <2> QED BY <1>6, <2>1, ReadKind, GroupKind, FinishKind, ExitKind DEF ScriptWorks, ScriptMoves, StepKinds
<1>7. CASE Reverse
  <2>1. script.pc = "reverse" /\ Goes(script.loser) /\ TakenBack(script.loser)
    BY <1>7, ReverseKind DEF ScriptInv
  <2>2. script.loser \in Attendances
    BY DEF TypeInv, ReviewTypeOK
  <2> QED BY <2>1, <2>2 DEF Leaves, StepKinds
<1> QED BY <1>1, <1>2, <1>3, <1>4, <1>5, <1>6, <1>7 DEF Next, StepKinds

-----------------------------------------------------------------------------
(* Facts about the kinds. *)
LEMMA PaysPosts ==
  ASSUME TypeInv, BookInv, NEW a \in Attendances, Pays(a)
  PROVE  /\ TablesTypeOK' /\ (UpsertLocks => BalanceMatchesLedger') /\ Posted(AwardKey(a)) = {}
         /\ \A x : Posted(x)' = Posted(x) \cup (IF x = AwardKey(a) THEN {Award(a)} ELSE {})
         /\ \A v \in Users : v # Facts[a].user => balance'[v] = balance[v]
<1>1. /\ Facts[a].user \in Users /\ AwardKey(a) \in Keys /\ Award(a) \in Amounts
      /\ PostEntry(Facts[a].user, AwardKey(a), Award(a)) /\ TablesTypeOK
      /\ UpsertLocks => BalanceMatchesLedger
  BY AttendanceOf, Keyed, HistoryIsPaid DEF Pays, TypeInv, ReviewTypeOK, BookInv
<1>0. Written(Facts[a].user, AwardKey(a), Award(a))
  BY <1>1, PostEntryWrites
<1>2. Posted(AwardKey(a)) = {}
  BY UsedIsPosted DEF Pays
<1>3. \A v \in Users : v # Facts[a].user => balance'[v] = balance[v]
  BY <1>0, <1>1, WrittenType
<1>4. \A x : Posted(x)' = Posted(x) \cup (IF x = AwardKey(a) THEN {Award(a)} ELSE {})
  BY <1>0, <1>1, PostedAfter
<1> QED BY <1>0, <1>1, <1>2, <1>3, <1>4, WrittenType, WrittenBalance

(* A loser's points are read, and are its award or none.                   *)
LEMMA LosersPoints ==
  ASSUME TypeInv, BookInv, ScriptInv, Sorted, NEW a \in script.losers
  PROVE  /\ a \in Attendances /\ a \in DOMAIN script.points /\ script.points[a] \in Nat
         /\ script.points[a] > 0 => Posted(AwardKey(a)) = {Award(a)} /\ script.points[a] = Award(a)
                                    /\ Award(a) > 0
<1>1. a \in Attendances /\ a \in DOMAIN script.points /\ script.points[a] \in Nat
  BY DEF TypeInv, ReviewTypeOK, ScriptInv, SumsAreRead
<1>2. script.points[a] > 0 => Posted(AwardKey(a)) = {script.points[a]}
  BY <1>1 DEF ScriptInv, PointsAreTrue
<1>3. Posted(AwardKey(a)) \subseteq {Award(a)} /\ (Posted(AwardKey(a)) # {} => Award(a) > 0)
  BY <1>1 DEF BookInv, AwardOnly
<1> QED BY <1>1, <1>2, <1>3

LEMMA TakenBackPosts ==
  ASSUME TypeInv, BookInv, ScriptInv, script.pc = "reverse",
         NEW a \in Attendances, Goes(a), TakenBack(a)
  PROVE  /\ TablesTypeOK' /\ (UpsertLocks => BalanceMatchesLedger') /\ Posted(ReversalKey(a)) = {}
         /\ Award(a) > 0 /\ Posted(AwardKey(a)) = {Award(a)}
         /\ \A x : Posted(x)' = Posted(x) \cup (IF x = ReversalKey(a) THEN {-Award(a)} ELSE {})
<1>1. script.points[a] = Award(a) /\ Award(a) > 0 /\ Posted(AwardKey(a)) = {Award(a)}
  BY LosersPoints DEF Goes, TakenBack, Sorted
<1>2. /\ Facts[a].user \in Users /\ ReversalKey(a) \in Keys /\ -Award(a) \in Amounts
      /\ Written(Facts[a].user, ReversalKey(a), -Award(a)) /\ TablesTypeOK
      /\ UpsertLocks => BalanceMatchesLedger
  BY <1>1, AttendanceOf, Keyed, HistoryIsPaid DEF TakenBack, TypeInv, ReviewTypeOK, BookInv
<1>3. Posted(ReversalKey(a)) = {}
  BY UsedIsPosted DEF TakenBack
<1>4. \A x : Posted(x)' = Posted(x) \cup (IF x = ReversalKey(a) THEN {-Award(a)} ELSE {})
  BY <1>2, PostedAfter
<1> QED BY <1>1, <1>2, <1>3, <1>4, WrittenType, WrittenBalance

LEMMA SameTables ==
  ASSUME TypeInv, BookInv, UNCHANGED tables
  PROVE  TablesTypeOK' /\ (UpsertLocks => BalanceMatchesLedger') /\ \A x : Posted(x)' = Posted(x)
BY PostedSame DEF tables, TypeInv, ReviewTypeOK, TablesTypeOK, BookInv, BalanceMatchesLedger, LastAfter

-----------------------------------------------------------------------------
(* Types. *)
LEMMA TablesTyped ==
  ASSUME ReviewInv, StepKinds PROVE TablesTypeOK' /\ (UpsertLocks => BalanceMatchesLedger')
<1>0. TypeInv /\ BookInv /\ ScriptInv
  BY DEF ReviewInv
<1>1. CASE UNCHANGED tables
  BY <1>0, <1>1, SameTables
<1>2. CASE \E a \in Attendances : Approves(a)
  BY <1>0, <1>1, <1>2, PaysPosts DEF Approves
<1>3. CASE \E a \in Attendances : Leaves(a)
  BY <1>0, <1>1, <1>3, TakenBackPosts DEF Leaves, Unpaid
<1> QED BY <1>0, <1>1, <1>2, <1>3, AttendanceOf
        DEF StepKinds, ReviewMoves, Verdict, Arrives, Rejects, Quiet, ScriptWorks

LEMMA StatusTyped == ASSUME ReviewInv, StepKinds PROVE status' \in [Attendances -> Statuses]
BY DEF ReviewInv, TypeInv, ReviewTypeOK, StepKinds, ReviewMoves, Verdict, Arrives, Approves, Rejects, Quiet,
       ScriptWorks, Leaves, Goes, Statuses

CallsType ==
  /\ pc \in [Calls -> {"idle", "read", "write"}]
  /\ job \in [Calls -> [attendance : Attendances, verdict : {"approve", "reject"}]]

LEMMA CallsTyped == ASSUME ReviewInv, StepKinds PROVE CallsType'
<1>0. CallsType
  BY DEF ReviewInv, TypeInv, ReviewTypeOK, CallsType
<1>1. CASE UNCHANGED <<pc, job>>
  BY <1>0, <1>1 DEF CallsType
<1>2. ASSUME NEW c \in Calls, NEW a \in Attendances, NEW v \in {"approve", "reject"}, Review(c, a, v)
      PROVE  CallsType'
  BY <1>0, <1>2 DEF Review, Goto, CallsType
<1>3. ASSUME NEW c \in Calls, Find(c) \/ Verdict(c) PROVE CallsType'
  BY <1>0, <1>3 DEF Find, Verdict, Goto, CallsType
<1> QED BY <1>1, <1>2, <1>3 DEF StepKinds, ReviewMoves, Arrives, ScriptWorks, Leaves, Goes

LEMMA EmptyPoints == \E e : e = <<>> /\ DOMAIN e = {} /\ e \in [{} -> Nat]
<1>1. <<>> \in Seq(Nat) /\ Len(<<>>) = 0
  OBVIOUS
<1>2. PICK e : e = <<>>
  OBVIOUS
<1>3. e \in [1..Len(e) -> Nat] /\ Len(e) = 0
  BY <1>1, <1>2, LenProperties
<1>4. 1..Len(e) = {}
  BY <1>3
<1>5. e \in [{} -> Nat]
  BY <1>3, <1>4
<1> QED BY <1>2, <1>5

ScriptType ==
  /\ script.pc \in {"off", "sum", "next", "reverse", "done"} /\ script.runs \in 0..MaxRuns
  /\ script.losers \subseteq script.seen /\ script.seen \subseteq Attendances
  /\ script.points \in [DOMAIN script.points -> Nat] /\ DOMAIN script.points \subseteq script.seen
  /\ script.loser \in Attendances /\ script.balance \in Int

LEMMA FieldsAre ==
  ASSUME NEW p, NEW n, NEW s, NEW x, NEW l, NEW a, NEW b, script' = Fields(p, n, s, x, l, a, b)
  PROVE  /\ IsScript' /\ script'.pc = p /\ script'.runs = n /\ script'.seen = s /\ script'.points = x
         /\ script'.losers = l /\ script'.loser = a /\ script'.balance = b
BY DEF Fields, IsScript

LEMMA ScriptTyped == ASSUME ReviewInv, StepKinds PROVE ScriptType' /\ IsScript'
<1>0. /\ ScriptType /\ IsScript /\ MaxRuns \in Nat /\ NoScript.loser \in Attendances
      /\ balance \in [Users -> Int]
  BY ReviewConstants, NoScriptFields DEF ReviewInv, TypeInv, ReviewTypeOK, TablesTypeOK, ScriptType
<1>1. CASE UNCHANGED script
  BY <1>0, <1>1 DEF ScriptType, IsScript, Fields
<1>2. CASE Reads
  <2>1. PICK e : e = <<>> /\ DOMAIN e = {} /\ e \in [{} -> Nat]
    BY EmptyPoints
  <2>2. script' = Fields("sum", script.runs + 1, Present, e, {}, NoScript.loser, 0)
    BY <1>2, <2>1 DEF Reads
  <2>3. script.runs + 1 \in 0..MaxRuns /\ Present \subseteq Attendances
    <3>1. script.runs \in 0..MaxRuns /\ script.runs < MaxRuns
      BY <1>0, <1>2 DEF Reads, ScriptType
    <3> QED BY <1>0, <3>1 DEF Present
  <2>4. e \in [DOMAIN e -> Nat] /\ DOMAIN e \subseteq Present
    BY <2>1
  <2>5. ScriptType' <=> /\ Present \subseteq Attendances /\ script.runs + 1 \in 0..MaxRuns
                        /\ NoScript.loser \in Attendances
    BY <2>2, <2>4, FieldsAre DEF ScriptType
  <2> QED BY <1>0, <2>2, <2>3, <2>5, FieldsAre
<1>3. CASE Exits
  <2>1. PICK e : e = <<>> /\ DOMAIN e = {} /\ e \in [{} -> Nat]
    BY EmptyPoints
  <2>2. script' = Fields("off", script.runs, {}, e, {}, NoScript.loser, 0)
    BY <1>3, <2>1 DEF Exits
  <2>3. e \in [DOMAIN e -> Nat] /\ DOMAIN e \subseteq {}
    BY <2>1
  <2>4. ScriptType' <=> script.runs \in 0..MaxRuns /\ NoScript.loser \in Attendances
    BY <2>2, <2>3, FieldsAre DEF ScriptType
  <2> QED BY <1>0, <2>2, <2>4, FieldsAre DEF ScriptType
<1>4. CASE Finishes
  BY <1>0, <1>4, FieldsAre DEF Finishes, ScriptType
<1>5. ASSUME NEW a \in Attendances, Sums(a) PROVE ScriptType' /\ IsScript'
  <2>1. PICK n \in Nat :
          /\ a \in script.seen
          /\ script' = Fields("sum", script.runs, script.seen,
                              [b \in DOMAIN script.points \cup {a} |-> IF b # a THEN script.points[b] ELSE n],
                              script.losers, script.loser, script.balance)
    BY <1>5 DEF Sums
  <2> DEFINE x == [b \in DOMAIN script.points \cup {a} |-> IF b # a THEN script.points[b] ELSE n]
  <2>2. x \in [DOMAIN x -> Nat] /\ DOMAIN x \subseteq script.seen
    BY <1>0, <2>1 DEF ScriptType
  <2>3. script' = Fields("sum", script.runs, script.seen, x, script.losers, script.loser, script.balance)
    BY <2>1
  <2> HIDE DEF x
  <2> QED BY <1>0, <2>2, <2>3, FieldsAre DEF ScriptType
<1>6. ASSUME NEW a \in Attendances, ReadsAccount(a) PROVE ScriptType' /\ IsScript'
  <2>1. balance[Facts[a].user] \in Int
    BY <1>0, AttendanceOf DEF ReviewInv
  <2> QED BY <1>0, <1>6, <2>1, FieldsAre DEF ReadsAccount, ScriptType
<1>7. ASSUME NEW losers \in SUBSET Attendances, Groups(losers) PROVE ScriptType' /\ IsScript'
  BY <1>0, <1>7, FieldsAre DEF Groups, ScriptType
<1>8. ASSUME NEW a \in Attendances, Goes(a) PROVE ScriptType' /\ IsScript'
  <2>1. script' = Fields("next", script.runs, script.seen, script.points, script.losers \ {a},
                         script.loser, script.balance)
    BY <1>8 DEF Goes
  <2>2. script.losers \ {a} \subseteq script.seen
    BY <1>0 DEF ScriptType
  <2> QED BY <1>0, <2>1, <2>2, FieldsAre DEF ScriptType
<1> QED BY <1>1, <1>2, <1>3, <1>4, <1>5, <1>6, <1>7, <1>8
        DEF StepKinds, ReviewMoves, Verdict, Arrives, Approves, Rejects, ScriptWorks, ScriptMoves, Leaves

LEMMA TypeStep == ASSUME ReviewInv, StepKinds PROVE TypeInv'
BY TablesTyped, StatusTyped, CallsTyped, ScriptTyped DEF TypeInv, ReviewTypeOK, CallsType, ScriptType

-----------------------------------------------------------------------------
(* The points agree with the rows. *)
LEMMA UsedIsPostedNext == \A k : KeyUsed(k)' <=> Posted(k)' # {}
BY DEF KeyUsed, Posted, EntriesOf

LEMMA ApprovedPosts ==
  ASSUME TypeInv, BookInv, NEW a \in Attendances, Approves(a)
  PROVE  /\ \A b \in Attendances : Posted(ReversalKey(b))' = Posted(ReversalKey(b))
         /\ \A b \in Attendances \ {a} : Posted(AwardKey(b))' = Posted(AwardKey(b))
         /\ Award(a) > 0 => Posted(AwardKey(a))' = {Award(a)}
         /\ Award(a) = 0 => Posted(AwardKey(a))' = {}
         /\ Posted(AwardKey(a)) # {} => Posted(AwardKey(a))' = Posted(AwardKey(a))
<1>1. Award(a) \in Nat
  BY Awards
<1>2. Posted(AwardKey(a)) \subseteq {Award(a)} /\ (Posted(AwardKey(a)) # {} => Award(a) > 0)
  BY DEF BookInv, AwardOnly
<1>3. CASE Pays(a)
  <2>1. /\ Posted(AwardKey(a)) = {} /\ Award(a) > 0
        /\ \A x : Posted(x)' = Posted(x) \cup (IF x = AwardKey(a) THEN {Award(a)} ELSE {})
    BY <1>3, PaysPosts DEF Pays
  <2>2. \A x : x # AwardKey(a) => Posted(x)' = Posted(x)
    BY <2>1
  <2>3. Posted(AwardKey(a))' = {Award(a)}
    BY <2>1
  <2> QED BY <1>1, <2>1, <2>2, <2>3, Keyed
<1>4. CASE UNCHANGED tables /\ (Award(a) = 0 \/ KeyUsed(AwardKey(a)))
  <2>1. \A x : Posted(x)' = Posted(x)
    BY <1>4, SameTables
  <2> QED BY <1>1, <1>2, <1>4, <2>1, UsedIsPosted
<1> QED BY <1>3, <1>4 DEF Approves

LEMMA BooksApproved ==
  ASSUME ReviewInv, NEW a \in Attendances, Approves(a), UpsertLocks => BalanceMatchesLedger' PROVE BookInv'
<1>0. TypeInv /\ BookInv
  BY DEF ReviewInv
<1>1. /\ \A b \in Attendances : Posted(ReversalKey(b))' = Posted(ReversalKey(b))
      /\ \A b \in Attendances \ {a} : Posted(AwardKey(b))' = Posted(AwardKey(b))
      /\ Award(a) > 0 => Posted(AwardKey(a))' = {Award(a)}
      /\ Award(a) = 0 => Posted(AwardKey(a))' = {}
  BY <1>0, ApprovedPosts
<1>2. /\ status'[a] = "approved" /\ status[a] # "gone"
      /\ \A b \in Attendances \ {a} : status'[b] = status[b]
  BY <1>0 DEF Approves, TypeInv, ReviewTypeOK
<1>3. Posted(ReversalKey(a)) = {}
  BY <1>0, <1>2, UsedIsPosted DEF BookInv, ReversedWasPaid
<1>4. AwardOnly'
  BY <1>0, <1>1, Awards DEF AwardOnly, BookInv
<1>5. ApprovedIsPaid'
  BY <1>0, <1>1, <1>2, <1>3 DEF ApprovedIsPaid, BookInv
<1>6. ReversedWasPaid'
  BY <1>0, <1>1, <1>2, <1>3, UsedIsPosted, UsedIsPostedNext DEF ReversedWasPaid, BookInv
<1>7. UncontestedIsSettled'
  BY <1>0, <1>1, <1>2, UsedIsPosted, UsedIsPostedNext DEF UncontestedIsSettled, BookInv
<1> QED BY <1>4, <1>5, <1>6, <1>7 DEF BookInv

(* A rejected attendance was not paid, unless it is contested; one that    *)
(* leaves without a reversal neither.                                      *)
LEMMA BooksUnpaid ==
  ASSUME ReviewInv, NEW a \in Attendances, NEW s \in {"rejected", "gone"}, UNCHANGED tables,
         status' = [status EXCEPT ![a] = s], status[a] # "gone",
         a \notin Contested => Posted(AwardKey(a)) = {}
  PROVE  BookInv'
<1>0. TypeInv /\ BookInv
  BY DEF ReviewInv
<1>1. (UpsertLocks => BalanceMatchesLedger') /\ \A x : Posted(x)' = Posted(x)
  BY <1>0, SameTables
<1>2. status'[a] = s /\ \A b \in Attendances \ {a} : status'[b] = status[b]
  BY <1>0 DEF TypeInv, ReviewTypeOK
<1>3. Posted(ReversalKey(a)) = {}
  BY <1>0, UsedIsPosted DEF BookInv, ReversedWasPaid
<1>4. AwardOnly' /\ ApprovedIsPaid'
  BY <1>0, <1>1, <1>2 DEF AwardOnly, ApprovedIsPaid, BookInv
<1>6. ReversedWasPaid'
  BY <1>0, <1>1, <1>2, <1>3, UsedIsPosted, UsedIsPostedNext DEF ReversedWasPaid, BookInv
<1>7. UncontestedIsSettled'
  BY <1>0, <1>1, <1>2, UsedIsPosted, UsedIsPostedNext DEF UncontestedIsSettled, BookInv
<1> QED BY <1>1, <1>4, <1>6, <1>7 DEF BookInv

LEMMA BooksTakenBack ==
  ASSUME ReviewInv, NEW a \in Attendances, Goes(a), script.pc = "reverse", TakenBack(a)
  PROVE  BookInv'
<1>0. TypeInv /\ BookInv /\ ScriptInv
  BY DEF ReviewInv
<1>1. /\ (UpsertLocks => BalanceMatchesLedger') /\ Award(a) \in Nat /\ Posted(AwardKey(a)) = {Award(a)}
      /\ Posted(ReversalKey(a)) = {}
      /\ \A x : Posted(x)' = Posted(x) \cup (IF x = ReversalKey(a) THEN {-Award(a)} ELSE {})
  BY <1>0, TakenBackPosts, Awards
<1>2. /\ \A b \in Attendances : Posted(AwardKey(b))' = Posted(AwardKey(b))
      /\ \A b \in Attendances \ {a} : Posted(ReversalKey(b))' = Posted(ReversalKey(b))
      /\ Posted(ReversalKey(a))' = {-Award(a)}
  <2>1. \A x : x # ReversalKey(a) => Posted(x)' = Posted(x)
    BY <1>1
  <2>2. Posted(ReversalKey(a))' = {-Award(a)}
    BY <1>1
  <2> QED BY <2>1, <2>2, Keyed
<1>3. /\ status'[a] = "gone" /\ status[a] # "gone"
      /\ \A b \in Attendances \ {a} : status'[b] = status[b]
  BY <1>0 DEF Goes, Present, TypeInv, ReviewTypeOK
<1>4. AwardOnly' /\ ApprovedIsPaid'
  BY <1>0, <1>2, <1>3 DEF AwardOnly, ApprovedIsPaid, BookInv
<1>5. {-d : d \in Posted(ReversalKey(a))'} = Posted(AwardKey(a))'
  <2>1. -(-Award(a)) = Award(a)
    BY <1>1
  <2> QED BY <1>1, <1>2, <2>1
<1>6. ReversedWasPaid'
  <2> SUFFICES ASSUME NEW b \in Attendances, KeyUsed(ReversalKey(b))'
               PROVE  status'[b] = "gone" /\ Posted(AwardKey(b))' = {-d : d \in Posted(ReversalKey(b))'}
    BY DEF ReversedWasPaid
  <2>1. CASE b = a
    BY <1>3, <1>5, <2>1
  <2>2. CASE b # a
    BY <1>0, <1>2, <1>3, <2>2, UsedIsPosted, UsedIsPostedNext DEF ReversedWasPaid, BookInv
  <2> QED BY <2>1, <2>2
<1>7. UncontestedIsSettled'
  BY <1>0, <1>2, <1>3, UsedIsPosted, UsedIsPostedNext DEF UncontestedIsSettled, BookInv
<1> QED BY <1>1, <1>4, <1>6, <1>7 DEF BookInv

LEMMA BooksSame == ASSUME ReviewInv, Quiet PROVE BookInv'
<1>1. (UpsertLocks => BalanceMatchesLedger') /\ (\A x : Posted(x)' = Posted(x)) /\ status' = status
  BY SameTables DEF ReviewInv, Quiet
<1> QED BY <1>1, UsedIsPosted, UsedIsPostedNext
        DEF ReviewInv, BookInv, AwardOnly, ApprovedIsPaid, ReversedWasPaid, UncontestedIsSettled

LEMMA BooksStep == ASSUME ReviewInv, StepKinds PROVE BookInv'
<1>0. TypeInv /\ BookInv /\ CallInv /\ ScriptInv
  BY DEF ReviewInv
<1>1. CASE Quiet
  BY <1>1, BooksSame
<1>2. CASE \E a \in Attendances : Approves(a)
  BY <1>2, TablesTyped, BooksApproved
<1>3. ASSUME NEW c \in Calls, Verdict(c), Rejects(job[c].attendance) PROVE BookInv'
  <2> DEFINE a == job[c].attendance
  <2>1. a \in Attendances
    BY <1>0, AttendanceOf
  <2>2. a \notin Contested => Posted(AwardKey(a)) = {}
    BY <1>0, <1>3, <2>1, UsedIsPosted DEF CallInv, StillPending, Verdict, BookInv, UncontestedIsSettled
  <2>3. UNCHANGED tables /\ status[a] # "gone" /\ status' = [status EXCEPT ![a] = "rejected"]
    BY <1>3 DEF Rejects
  <2> HIDE DEF a
  <2> QED BY <2>1, <2>2, <2>3, BooksUnpaid
<1>4. ASSUME NEW a \in Attendances, Leaves(a) PROVE BookInv'
  <2>1. CASE script.pc = "next" /\ Unpaid(a)
    <3>1. a \notin Contested => Posted(AwardKey(a)) = {}
      <4>1. a \in DOMAIN script.points
        BY <1>0, <1>4, <2>1, LosersPoints DEF Leaves, Goes, Sorted
      <4> QED BY <1>0, <2>1, <4>1 DEF ScriptInv, PointsAreTrue, Unpaid
    <3>2. UNCHANGED tables /\ status[a] # "gone" /\ status' = [status EXCEPT ![a] = "gone"]
      BY <1>4, <2>1 DEF Leaves, Goes, Present, Unpaid
    <3> QED BY <3>1, <3>2, BooksUnpaid
  <2>2. CASE script.pc = "reverse" /\ TakenBack(a)
    BY <1>4, <2>2, BooksTakenBack DEF Leaves
  <2> QED BY <1>4, <2>1, <2>2 DEF Leaves
<1> QED BY <1>0, <1>1, <1>2, <1>3, <1>4, AttendanceOf
        DEF StepKinds, ReviewMoves, Verdict, Arrives, ScriptWorks

-----------------------------------------------------------------------------
(* The reviews. *)
LEMMA AreRowsStep == ASSUME ReviewInv, StepKinds PROVE AreRows'
<1>0. TypeInv /\ AreRows /\ CallsType
  BY DEF ReviewInv, CallInv, TypeInv, ReviewTypeOK, CallsType
<1>1. \A a \in Attendances : status[a] # "none" => status'[a] # "none"
  BY <1>0 DEF TypeInv, ReviewTypeOK, StepKinds, ReviewMoves, Verdict, Arrives, Approves, Rejects, Quiet,
              ScriptWorks, Leaves, Goes
<1>2. ASSUME NEW d \in Calls, pc'[d] # "idle"
      PROVE  \/ pc[d] # "idle" /\ job'[d] = job[d]
             \/ status[job'[d].attendance] # "none"
  <2>1. ASSUME NEW c \in Calls, NEW a \in Attendances, NEW v \in {"approve", "reject"}, Review(c, a, v)
        PROVE  (pc[d] # "idle" /\ job'[d] = job[d]) \/ status[job'[d].attendance] # "none"
    BY <1>0, <1>2, <2>1 DEF Review, Goto, CallsType
  <2>2. ASSUME NEW c \in Calls, Find(c) \/ Verdict(c) PROVE pc[d] # "idle" /\ job'[d] = job[d]
    BY <1>0, <1>2, <2>2 DEF Find, Verdict, Goto, CallsType
  <2> QED BY <1>2, <2>1, <2>2 DEF StepKinds, ReviewMoves, Arrives, ScriptWorks, Leaves, Goes
<1>3. \A d \in Calls : job[d].attendance \in Attendances /\ job'[d].attendance \in Attendances
  BY <1>0, CallsTyped DEF CallsType
<1> QED BY <1>0, <1>1, <1>2, <1>3 DEF AreRows

(* Where a review is after a step, it was before, or it has just begun,    *)
(* undisturbed.                                                            *)
LEMMA Reviewed ==
  ASSUME ReviewInv, StepKinds
  PROVE  \/ \A c \in Calls : pc'[c] # "idle" => pc[c] # "idle" /\ job'[c] = job[c]
         \/ \E d \in Calls, a \in Attendances :
              /\ Undisturbed(a) /\ script' = script /\ pc'[d] = "read" /\ job'[d].attendance = a
              /\ \A c \in Calls \ {d} : pc'[c] = pc[c] /\ job'[c] = job[c]
<1>0. CallsType
  BY DEF ReviewInv, TypeInv, ReviewTypeOK, CallsType
<1>1. ASSUME NEW c \in Calls, NEW a \in Attendances, NEW v \in {"approve", "reject"}, Review(c, a, v)
      PROVE  /\ Undisturbed(a) /\ script' = script /\ pc'[c] = "read" /\ job'[c].attendance = a
             /\ \A e \in Calls \ {c} : pc'[e] = pc[e] /\ job'[e] = job[e]
  BY <1>0, <1>1 DEF Review, Goto, CallsType
<1>2. ASSUME NEW c \in Calls, Find(c) \/ Verdict(c)
      PROVE  \A e \in Calls : pc'[e] # "idle" => pc[e] # "idle" /\ job'[e] = job[e]
  BY <1>0, <1>2 DEF Find, Verdict, Goto, CallsType
<1>3. CASE UNCHANGED <<pc, job>>
  BY <1>3
<1>4. CASE \E c \in Calls, a \in Attendances, v \in {"approve", "reject"} : Review(c, a, v)
  <2>1. PICK c \in Calls, a \in Attendances, v \in {"approve", "reject"} : Review(c, a, v)
    BY <1>4
  <2> QED BY <1>1, <2>1
<1>5. CASE \E c \in Calls : Find(c) \/ Verdict(c)
  BY <1>2, <1>5
<1>6. UNCHANGED <<pc, job>>
      \/ (\E c \in Calls, a \in Attendances, v \in {"approve", "reject"} : Review(c, a, v))
      \/ (\E c \in Calls : Find(c) \/ Verdict(c))
  BY DEF StepKinds, ReviewMoves, Arrives, ScriptWorks, Leaves, Goes
<1> QED BY <1>3, <1>4, <1>5, <1>6

LEMMA OneReviewStep == ASSUME ReviewInv, StepKinds PROVE OneReview'
<1>0. OneReview
  BY DEF ReviewInv, CallInv
<1>1. CASE \A c \in Calls : pc'[c] # "idle" => pc[c] # "idle" /\ job'[c] = job[c]
  BY <1>0, <1>1 DEF OneReview, Reviewing
<1>2. CASE \E d \in Calls, a \in Attendances :
              /\ Undisturbed(a) /\ pc'[d] = "read" /\ job'[d].attendance = a
              /\ \A c \in Calls \ {d} : pc'[c] = pc[c] /\ job'[c] = job[c]
  <2>1. PICK d \in Calls, a \in Attendances :
              /\ Undisturbed(a) /\ pc'[d] = "read" /\ job'[d].attendance = a
              /\ \A c \in Calls \ {d} : pc'[c] = pc[c] /\ job'[c] = job[c]
    BY <1>2
  <2>2. a \notin Contested => \A c \in Calls \ {d} : ~(pc'[c] # "idle" /\ job'[c].attendance = a)
    BY <2>1 DEF Undisturbed
  <2>3. \A c, e \in Calls \ {d}, b \in Attendances \ Contested :
          (pc'[c] # "idle" /\ job'[c].attendance = b) /\ (pc'[e] # "idle" /\ job'[e].attendance = b) => c = e
    BY <1>0, <2>1 DEF OneReview, Reviewing
  <2>4. \A c, e \in Calls, b \in Attendances \ Contested :
          (pc'[c] # "idle" /\ job'[c].attendance = b) /\ (pc'[e] # "idle" /\ job'[e].attendance = b) => c = e
    BY <2>1, <2>2, <2>3
  <2> QED BY <2>4 DEF OneReview, Reviewing
<1> QED BY <1>1, <1>2, Reviewed

LEMMA StillPendingStep == ASSUME ReviewInv, StepKinds PROVE StillPending'
<1>0. /\ TypeInv /\ AreRows /\ OneReview /\ StillPending /\ NotReviewed /\ CallsType
      /\ \A a \in Attendances : status[a] \in Statuses
  BY AttendanceOf DEF ReviewInv, CallInv, TypeInv, ReviewTypeOK, CallsType
<1> SUFFICES ASSUME NEW d \in Calls, pc'[d] = "write", job'[d].attendance \notin Contested
             PROVE  status'[job'[d].attendance] = "pending"
  BY DEF StillPending
<1>1. ASSUME NEW c \in Calls, NEW a \in Attendances, NEW v \in {"approve", "reject"}, Review(c, a, v), Quiet
      PROVE  status'[job'[d].attendance] = "pending"
  BY <1>0, <1>1 DEF Review, Goto, CallsType, Quiet, StillPending
<1>2. ASSUME NEW c \in Calls, Find(c), Quiet PROVE status'[job'[d].attendance] = "pending"
  BY <1>0, <1>2 DEF Find, Goto, CallsType, Quiet, StillPending
<1>3. ASSUME NEW c \in Calls, Verdict(c) PROVE status'[job'[d].attendance] = "pending"
  <2> DEFINE a == job[c].attendance
  <2>1. d # c /\ pc[d] = "write" /\ job'[d] = job[d] /\ pc[c] = "write" /\ job[d].attendance \in Attendances
    BY <1>0, <1>3 DEF Verdict, CallsType
  <2>2. job[d].attendance # a
    BY <1>0, <2>1 DEF OneReview, Reviewing
  <2>3. \A b \in Attendances : b # a => status'[b] = status[b]
    BY <1>0, <1>3 DEF Verdict, Approves, Rejects, Quiet, TypeInv, ReviewTypeOK
  <2> QED BY <1>0, <2>1, <2>2, <2>3 DEF StillPending
<1>4. ASSUME NEW a \in Attendances, Arrives(a) PROVE status'[job'[d].attendance] = "pending"
  <2>1. pc[d] = "write" /\ job'[d] = job[d] /\ job[d].attendance \in Attendances /\ job[d].attendance # a
    BY <1>0, <1>4 DEF Arrives, CallsType, AreRows
  <2>2. \A b \in Attendances : b # a => status'[b] = status[b]
    BY <1>0, <1>4 DEF Arrives, Approves, TypeInv, ReviewTypeOK
  <2> QED BY <1>0, <2>1, <2>2 DEF StillPending
<1>5. CASE ScriptWorks
  BY <1>0, <1>5 DEF ScriptWorks, Quiet, StillPending
<1>6. ASSUME NEW a \in Attendances, Leaves(a) PROVE status'[job'[d].attendance] = "pending"
  BY <1>0, <1>6 DEF Leaves, Goes, NotReviewed
<1> QED BY <1>1, <1>2, <1>3, <1>4, <1>5, <1>6 DEF StepKinds, ReviewMoves

LEMMA NotReviewedStep == ASSUME ReviewInv, StepKinds PROVE NotReviewed'
<1>0. NotReviewed
  BY DEF ReviewInv, CallInv
<1>1. CASE Reads /\ UNCHANGED <<pc, job>>
  BY <1>1 DEF Reads, NotReviewed
<1>2. ASSUME ~(Reads /\ UNCHANGED <<pc, job>>) PROVE script'.pc # "off" => script.pc # "off"
  BY <1>2, FieldsAre DEF StepKinds, ReviewMoves, Verdict, Arrives, Approves, Rejects, ScriptWorks, ScriptMoves,
     Leaves, Goes, Finishes, Exits, Sums, ReadsAccount, Groups
<1>3. CASE script'.pc # "off" => script.pc # "off"
  BY <1>0, <1>3, Reviewed DEF NotReviewed, Undisturbed
<1> QED BY <1>1, <1>2, <1>3

LEMMA CallsStep == ASSUME ReviewInv, StepKinds PROVE CallInv'
BY AreRowsStep, OneReviewStep, StillPendingStep, NotReviewedStep DEF CallInv

-----------------------------------------------------------------------------
(* The script. *)
LEMMA PresentSame ==
  ASSUME TypeInv, NEW a \in Present, NEW s \in {"approved", "rejected"}, status' = [status EXCEPT ![a] = s]
  PROVE  Present' = Present
BY DEF Present, TypeInv, ReviewTypeOK

LEMMA SameDayIsSymmetric == \A a, b : SameDay(a, b) <=> SameDay(b, a)
BY DEF SameDay

(* An attendance that is approved keeps the points the script read, unless *)
(* it is contested; none that the script has read arrives.                 *)
LEMMA PointsStayTrue ==
  ASSUME ReviewInv, NEW a \in Attendances, Approves(a),
         a \in script.seen => a \in Contested
  PROVE  PointsAreTrue'
<1>0. TypeInv /\ BookInv /\ PointsAreTrue
  BY DEF ReviewInv, ScriptInv
<1>1. script' = script /\ DOMAIN script.points \subseteq script.seen /\ script.seen \subseteq Attendances
  BY <1>0 DEF Approves, TypeInv, ReviewTypeOK
<1>2. /\ \A b \in Attendances \ {a} : Posted(AwardKey(b))' = Posted(AwardKey(b))
      /\ Posted(AwardKey(a)) # {} => Posted(AwardKey(a))' = Posted(AwardKey(a))
  BY <1>0, ApprovedPosts
<1>3. \A b \in DOMAIN script.points :
        /\ script.points[b] > 0 => Posted(AwardKey(b))' = {script.points[b]}
        /\ script.points[b] = 0 /\ b \notin Contested => Posted(AwardKey(b))' = {}
  <2> SUFFICES ASSUME NEW b \in DOMAIN script.points
               PROVE  /\ script.points[b] > 0 => Posted(AwardKey(b))' = {script.points[b]}
                      /\ script.points[b] = 0 /\ b \notin Contested => Posted(AwardKey(b))' = {}
    OBVIOUS
  <2>1. /\ script.points[b] > 0 => Posted(AwardKey(b)) = {script.points[b]}
        /\ script.points[b] = 0 /\ b \notin Contested => Posted(AwardKey(b)) = {}
    BY <1>0 DEF PointsAreTrue
  <2>2. CASE b # a
    BY <1>1, <1>2, <2>1, <2>2
  <2>3. CASE b = a
    BY <1>1, <1>2, <2>1, <2>3
  <2> QED BY <2>2, <2>3
<1> QED BY <1>1, <1>3 DEF PointsAreTrue

LEMMA AccountStaysLocked ==
  ASSUME ReviewInv, NEW a \in Attendances, Approves(a) PROVE Reversing'
<1>0. TypeInv /\ BookInv /\ Reversing
  BY DEF ReviewInv, ScriptInv
<1>1. script' = script /\ script.loser \in Attendances /\ Facts[script.loser].user \in Users
  BY <1>0, AttendanceOf DEF Approves, TypeInv, ReviewTypeOK
<1>2. UpsertLocks /\ script.pc = "reverse" => balance'[Facts[script.loser].user] = balance[Facts[script.loser].user]
  <2>1. CASE UNCHANGED tables
    BY <2>1 DEF tables
  <2>2. CASE Pays(a)
    BY <1>0, <1>1, <2>2, PaysPosts DEF Pays, Locked
  <2> QED BY <2>1, <2>2 DEF Approves
<1> QED BY <1>0, <1>1, <1>2 DEF Reversing

(* A verdict leaves the rows there are.                                    *)
LEMMA ScriptJudged ==
  ASSUME ReviewInv, NEW c \in Calls, Verdict(c),
         Approves(job[c].attendance) \/ Rejects(job[c].attendance)
  PROVE  ScriptInv'
<1>0. TypeInv /\ BookInv /\ CallInv /\ ScriptInv
  BY DEF ReviewInv
<1> DEFINE a == job[c].attendance
<1>1. /\ script' = script /\ a \in Attendances /\ a \in Present
      /\ \E s \in {"approved", "rejected"} : status' = [status EXCEPT ![a] = s]
  BY <1>0, AttendanceOf DEF Verdict, Approves, Rejects, CallInv, AreRows, Present, Statuses
<1>2. Present' = Present
  BY <1>0, <1>1, PresentSame
<1>3. \A b \in Attendances : status[b] # "none" => status'[b] # "none"
  BY <1>0, <1>1 DEF TypeInv, ReviewTypeOK
<1>4. SeenAreRows'
  BY <1>0, <1>1, <1>3 DEF ScriptInv, SeenAreRows, TypeInv, ReviewTypeOK
<1>5. PointsAreTrue' /\ Reversing'
  <2>1. CASE Approves(a)
    <3>1. a \in script.seen => a \in Contested
      BY <1>0 DEF ScriptInv, OffIsEmpty, CallInv, NotReviewed, Verdict
    <3> HIDE DEF a
    <3> QED BY <1>1, <2>1, <3>1, PointsStayTrue, AccountStaysLocked
  <2>2. CASE Rejects(a)
    <3>1. \A x : Posted(x)' = Posted(x)
      BY <1>0, <2>2, SameTables DEF Rejects
    <3> QED BY <1>0, <2>2, <3>1 DEF Rejects, tables, ScriptInv, PointsAreTrue, Reversing
  <2> QED BY <2>1, <2>2
<1> QED BY <1>0, <1>1, <1>2, <1>4, <1>5
        DEF ScriptInv, OffIsEmpty, SumsAreRead, Sorted, ArrivedAlone, OneIsKept

(* A check-in comes on a day that has no attendance.                       *)
LEMMA ScriptArrives ==
  ASSUME ReviewInv, NEW a \in Attendances, Arrives(a) PROVE ScriptInv'
<1>0. TypeInv /\ BookInv /\ ScriptInv /\ Approves(a)
  BY DEF ReviewInv, Arrives
<1>1. script' = script /\ script.seen \subseteq Attendances /\ a \notin script.seen
  BY <1>0 DEF Arrives, Approves, ScriptInv, SeenAreRows, TypeInv, ReviewTypeOK
<1>2. /\ Present' = Present \cup {a}
      /\ \A b \in Attendances : status[b] # "none" => status'[b] # "none"
  BY <1>0 DEF Approves, Present, TypeInv, ReviewTypeOK
<1>3. \A b \in Present : ~SameDay(a, b) /\ ~SameDay(b, a)
  BY SameDayIsSymmetric DEF Arrives
<1>4. SeenAreRows'
  BY <1>0, <1>1, <1>2 DEF ScriptInv, SeenAreRows
<1>5. PointsAreTrue' /\ Reversing'
  BY <1>0, <1>1, PointsStayTrue, AccountStaysLocked
<1>6. SameDay(a, a)
  BY DEF SameDay
<1>7. ArrivedAlone'
  BY <1>0, <1>1, <1>2, <1>3 DEF ScriptInv, ArrivedAlone
<1>8. OneIsKept'
  BY <1>0, <1>1, <1>2, <1>3 DEF ScriptInv, OneIsKept, Sorted
<1> QED BY <1>0, <1>1, <1>4, <1>5, <1>7, <1>8 DEF ScriptInv, OffIsEmpty, SumsAreRead, Sorted

LEMMA ScriptLeaves == ASSUME ReviewInv, NEW a \in Attendances, Leaves(a) PROVE ScriptInv'
<1>0. TypeInv /\ BookInv /\ ScriptInv /\ Goes(a) /\ Sorted
  BY DEF ReviewInv, Leaves, Sorted
<1>1. /\ script'.pc = "next" /\ script'.seen = script.seen /\ script'.points = script.points
      /\ script'.losers = script.losers \ {a}
  BY <1>0, FieldsAre DEF Goes
<1>2. /\ Present' = Present \ {a} /\ a \in script.losers
      /\ \A b \in Attendances : status[b] # "none" => status'[b] # "none"
  BY <1>0 DEF Goes, Present, TypeInv, ReviewTypeOK
<1>3. /\ script.seen \subseteq Attendances /\ DOMAIN script.points \subseteq script.seen
      /\ script.losers \subseteq script.seen
  BY <1>0 DEF TypeInv, ReviewTypeOK
<1>4. SeenAreRows'
  BY <1>0, <1>1, <1>2, <1>3 DEF ScriptInv, SeenAreRows
<1>5. \A b \in Attendances : Posted(AwardKey(b))' = Posted(AwardKey(b))
  <2>1. CASE Unpaid(a)
    BY <1>0, <2>1, SameTables DEF Unpaid
  <2>2. CASE script.pc = "reverse" /\ TakenBack(a)
    <3>1. \A x : Posted(x)' = Posted(x) \cup (IF x = ReversalKey(a) THEN {-Award(a)} ELSE {})
      BY <1>0, <2>2, TakenBackPosts
    <3>2. \A x : x # ReversalKey(a) => Posted(x)' = Posted(x)
      BY <3>1
    <3> QED BY <1>2, <1>3, <3>2, Keyed
  <2> QED BY <2>1, <2>2 DEF Leaves
<1>6. PointsAreTrue'
  BY <1>0, <1>1, <1>3, <1>5 DEF ScriptInv, PointsAreTrue
<1>7. OneIsKept'
  BY <1>0, <1>1, <1>2 DEF ScriptInv, OneIsKept, Sorted
<1>8. OffIsEmpty' /\ SumsAreRead' /\ Reversing' /\ ArrivedAlone'
  BY <1>0, <1>1 DEF ScriptInv, OffIsEmpty, SumsAreRead, Sorted, Reversing, ArrivedAlone
<1> QED BY <1>4, <1>6, <1>7, <1>8 DEF ScriptInv

LEMMA ScriptMoved == ASSUME ReviewInv, ScriptWorks PROVE ScriptInv'
<1>0. TypeInv /\ ScriptInv
  BY DEF ReviewInv
<1>1. /\ status' = status /\ Present' = Present /\ balance' = balance /\ UNCHANGED tables
      /\ \A x : Posted(x)' = Posted(x)
  BY SameTables DEF ReviewInv, ScriptWorks, Quiet, Present, tables
<1>2. /\ script.seen \subseteq Attendances /\ DOMAIN script.points \subseteq script.seen
      /\ script.losers \subseteq script.seen
  BY <1>0 DEF TypeInv, ReviewTypeOK
<1>3. CASE Reads \/ Exits
  <2>1. PICK e : e = <<>> /\ DOMAIN e = {} /\ e \in [{} -> Nat]
    BY EmptyPoints
  <2>2. /\ \/ script'.pc = "sum" /\ script'.seen = Present
           \/ script'.pc = "off" /\ script'.seen = {}
        /\ script'.points = e /\ script'.losers = {}
    BY <1>3, <2>1, FieldsAre DEF Reads, Exits
  <2>3. SeenAreRows' /\ PointsAreTrue' /\ OffIsEmpty'
    BY <1>1, <2>1, <2>2 DEF SeenAreRows, PointsAreTrue, OffIsEmpty, Present
  <2>4. SumsAreRead' /\ Reversing' /\ ArrivedAlone' /\ OneIsKept'
    BY <1>1, <2>2 DEF SumsAreRead, Reversing, ArrivedAlone, OneIsKept, Sorted
  <2> QED BY <2>3, <2>4 DEF ScriptInv
<1>4. CASE Finishes
  <2>1. /\ script.pc = "next" /\ script.losers = {} /\ script'.pc = "done" /\ script'.seen = script.seen
        /\ script'.points = script.points /\ script'.losers = script.losers
    BY <1>4, FieldsAre DEF Finishes
  <2> QED BY <1>0, <1>1, <2>1 DEF ScriptInv, SeenAreRows, PointsAreTrue, OffIsEmpty, SumsAreRead, Reversing,
                                  ArrivedAlone, OneIsKept, Sorted
<1>5. ASSUME NEW a \in Attendances, Sums(a) PROVE ScriptInv'
  <2>1. PICK n \in Nat :
          /\ script.pc = "sum" /\ a \in script.seen
          /\ n > 0 => Posted(AwardKey(a)) = {n}
          /\ n = 0 => Posted(AwardKey(a)) = {}
          /\ script' = Fields("sum", script.runs, script.seen,
                              [b \in DOMAIN script.points \cup {a} |-> IF b # a THEN script.points[b] ELSE n],
                              script.losers, script.loser, script.balance)
    BY <1>5 DEF Sums
  <2>2. PICK x : x = [b \in DOMAIN script.points \cup {a} |-> IF b # a THEN script.points[b] ELSE n]
    OBVIOUS
  <2>3. /\ script'.pc = "sum" /\ script'.seen = script.seen /\ script'.points = x
        /\ script'.losers = script.losers
    BY <2>1, <2>2, FieldsAre
  <2>4. /\ DOMAIN x = DOMAIN script.points \cup {a} /\ x[a] = n
        /\ \A b \in DOMAIN x \ {a} : b \in DOMAIN script.points /\ x[b] = script.points[b]
    BY <2>2
  <2>5. PointsAreTrue'
    <3>1. \A b \in DOMAIN x :
            /\ x[b] > 0 => Posted(AwardKey(b)) = {x[b]}
            /\ x[b] = 0 /\ b \notin Contested => Posted(AwardKey(b)) = {}
      BY <1>0, <2>1, <2>4 DEF ScriptInv, PointsAreTrue
    <3>2. \A b \in DOMAIN x :
            /\ x[b] > 0 => Posted(AwardKey(b))' = {x[b]}
            /\ x[b] = 0 /\ b \notin Contested => Posted(AwardKey(b))' = {}
      BY <1>1, <3>1
    <3> QED BY <2>3, <3>2 DEF PointsAreTrue
  <2> QED BY <1>0, <1>1, <2>1, <2>3, <2>5
          DEF ScriptInv, SeenAreRows, OffIsEmpty, SumsAreRead, Reversing, ArrivedAlone, OneIsKept, Sorted
<1>6. ASSUME NEW a \in Attendances, ReadsAccount(a) PROVE ScriptInv'
  <2>1. /\ script.pc = "next" /\ a \in script.losers /\ script.points[a] > 0
        /\ script'.pc = "reverse" /\ script'.seen = script.seen /\ script'.points = script.points
        /\ script'.losers = script.losers /\ script'.loser = a /\ script'.balance = balance[Facts[a].user]
    BY <1>6, FieldsAre DEF ReadsAccount
  <2> QED BY <1>0, <1>1, <2>1 DEF ScriptInv, SeenAreRows, PointsAreTrue, OffIsEmpty, SumsAreRead, Reversing,
                                  ArrivedAlone, OneIsKept, Sorted
<1>7. ASSUME NEW losers \in SUBSET Attendances, Groups(losers) PROVE ScriptInv'
  <2>1. /\ script.pc = "sum" /\ script.seen = DOMAIN script.points
        /\ \A a, b \in script.seen \ losers : a # b => ~SameDay(a, b)
        /\ script'.pc = "next" /\ script'.seen = script.seen /\ script'.points = script.points
        /\ script'.losers = losers
    BY <1>7, FieldsAre DEF Groups
  <2>2. \A a \in Present \ script.seen, b \in Present : SameDay(a, b) \/ SameDay(b, a) => a = b
    BY <1>0, <2>1, SameDayIsSymmetric DEF ScriptInv, ArrivedAlone
  <2>3. OneIsKept'
    BY <1>1, <2>1, <2>2 DEF OneIsKept, Sorted
  <2> QED BY <1>0, <1>1, <2>1, <2>3 DEF ScriptInv, SeenAreRows, PointsAreTrue, OffIsEmpty, SumsAreRead,
                                        Reversing, ArrivedAlone, Sorted
<1> QED BY <1>3, <1>4, <1>5, <1>6, <1>7 DEF ScriptWorks, ScriptMoves

LEMMA ScriptSame == ASSUME ReviewInv, Quiet, UNCHANGED script PROVE ScriptInv'
<1>1. /\ status' = status /\ Present' = Present /\ balance' = balance
      /\ \A x : Posted(x)' = Posted(x)
  BY SameTables DEF ReviewInv, Quiet, Present, tables
<1> QED BY <1>1 DEF ReviewInv, ScriptInv, SeenAreRows, PointsAreTrue, OffIsEmpty, SumsAreRead, Reversing,
                    ArrivedAlone, OneIsKept, Sorted

LEMMA ScriptStep == ASSUME ReviewInv, StepKinds PROVE ScriptInv'
BY ScriptSame, ScriptMoved, ScriptJudged, ScriptArrives, ScriptLeaves DEF StepKinds, ReviewMoves, Verdict

-----------------------------------------------------------------------------
(* The invariant holds at the start, and every step keeps it. *)
LEMMA StutterKeeps == ASSUME ReviewInv, UNCHANGED vars PROVE ReviewInv'
<1>1. Quiet /\ UNCHANGED script /\ UNCHANGED <<pc, job>> /\ TypeInv
  BY DEF vars, Quiet, ReviewInv
<1>2. TypeInv'
  BY <1>1 DEF Quiet, tables, TypeInv, IsScript, ReviewTypeOK, TablesTypeOK
<1>3. CallInv'
  BY <1>1 DEF Quiet, ReviewInv, CallInv, AreRows, OneReview, Reviewing, StillPending, NotReviewed
<1> QED BY <1>1, <1>2, <1>3, BooksSame, ScriptSame DEF ReviewInv

LEMMA ReviewStep == ASSUME ReviewInv, [Next]_vars PROVE ReviewInv'
<1>1. CASE Next
  BY <1>1, NextKinds, TypeStep, BooksStep, CallsStep, ScriptStep DEF ReviewInv
<1> QED BY <1>1, StutterKeeps

LEMMA StartFits == ASSUME Init PROVE ReviewInv
<1> USE DEF Init
<1>1. /\ status = [a \in Attendances |-> Facts[a].first] /\ ledger = History
      /\ balance = [u \in Users |-> LastAfter(History[u])]
      /\ \A c \in Calls : pc[c] = "idle"
      /\ \A a \in Attendances : Facts[a].first \in {"none", "pending", "approved"} /\ Facts[a].user \in Users
  BY ReviewConstants DEF Fact
<1>2. (CHOOSE a \in Attendances : TRUE) \in Attendances
  BY ReviewConstants
<1>3. /\ NoScript.loser \in Attendances
      /\ script = Fields("off", 0, {}, <<>>, {}, NoScript.loser, 0)
  BY NoScriptFields
<1>4. PICK e : e = <<>> /\ DOMAIN e = {} /\ e \in [{} -> Nat]
  BY EmptyPoints
<1>5. /\ IsScript /\ script.pc = "off" /\ script.runs = 0 /\ script.seen = {} /\ script.points = e
      /\ script.losers = {} /\ script.loser \in Attendances /\ script.balance = 0
  BY <1>3, <1>4 DEF Fields, IsScript
<1>6. ScriptType
  <2>1. e \in [DOMAIN e -> Nat] /\ DOMAIN e \subseteq {}
    BY <1>4
  <2>2. ScriptType <=> 0 \in 0..MaxRuns
    BY <1>5, <2>1 DEF ScriptType
  <2> QED BY <2>2, ReviewConstants
<1>7. CallsType
  BY <1>2 DEF CallsType
<1>8. /\ History \in [Users -> Seq(Entry)]
      /\ \A u \in Users : \A i \in DOMAIN History[u] :
           History[u][i].after = History[u][i].delta + (IF i = 1 THEN 0 ELSE History[u][i - 1].after)
  BY HistoryIsPaid
<1>9. TablesTypeOK /\ BalanceMatchesLedger
  <2>1. \A u \in Users : LastAfter(History[u]) \in Int
    <3> SUFFICES ASSUME NEW u \in Users PROVE LastAfter(History[u]) \in Int
      OBVIOUS
    <3>1. History[u] \in Seq(Entry) /\ Len(History[u]) \in Nat
      BY <1>8
    <3>2. CASE Len(History[u]) = 0
      <4>1. History[u] = <<>>
        BY <3>1, <3>2, EmptySeq
      <4> QED BY <4>1 DEF LastAfter
    <3>3. CASE Len(History[u]) # 0
      <4>1. History[u] # <<>> /\ Len(History[u]) \in 1..Len(History[u])
        BY <3>1, <3>3, EmptySeq
      <4>2. History[u][Len(History[u])] \in Entry
        BY <3>1, <4>1
      <4> QED BY <4>1, <4>2 DEF LastAfter, Entry
    <3> QED BY <3>2, <3>3
  <2> QED BY <1>1, <1>8, <2>1 DEF TablesTypeOK, BalanceMatchesLedger
<1>10. TypeInv
  <2>1. status \in [Attendances -> Statuses]
    BY <1>1 DEF Statuses
  <2> QED BY <1>5, <1>6, <1>7, <1>9, <2>1 DEF TypeInv, ReviewTypeOK, ScriptType, CallsType
<1>11. \A k, y : y \in Posted(k) => \E a \in Attendances :
         k = AwardKey(a) /\ y = Award(a) /\ Award(a) > 0 /\ Facts[a].first = "approved"
  <2> SUFFICES ASSUME NEW k, NEW y, y \in Posted(k)
               PROVE  \E a \in Attendances :
                        k = AwardKey(a) /\ y = Award(a) /\ Award(a) > 0 /\ Facts[a].first = "approved"
    OBVIOUS
  <2>1. PICK u \in Users : \E i \in DOMAIN ledger[u] : ledger[u][i].key = k /\ y = ledger[u][i].delta
    BY DEF Posted, EntriesOf
  <2>2. PICK i \in DOMAIN History[u] : History[u][i].key = k /\ y = History[u][i].delta
    BY <1>1, <2>1
  <2>3. PICK a \in Attendances :
          /\ History[u][i].key = AwardKey(a) /\ Facts[a].first = "approved"
          /\ Award(a) > 0 /\ History[u][i].delta = Award(a)
    BY HistoryIsPaid
  <2> QED BY <2>2, <2>3
<1>12. \A a \in Attendances : Facts[a].first = "approved" /\ Award(a) > 0 => Posted(AwardKey(a)) # {}
  <2> SUFFICES ASSUME NEW a \in Attendances, Facts[a].first = "approved", Award(a) > 0
               PROVE  Posted(AwardKey(a)) # {}
    OBVIOUS
  <2>1. PICK u \in Users : \E i \in DOMAIN History[u] : History[u][i].key = AwardKey(a)
    BY HistoryIsPaid
  <2>2. PICK i \in DOMAIN ledger[u] : ledger[u][i].key = AwardKey(a)
    BY <1>1, <2>1
  <2>3. ledger[u][i] \in EntriesOf(AwardKey(a))
    BY <2>2 DEF EntriesOf
  <2> QED BY <2>3 DEF Posted
<1>13. \A a \in Attendances : Posted(ReversalKey(a)) = {}
  BY <1>11, Keyed
<1>14. \A a \in Attendances : \A y \in Posted(AwardKey(a)) :
         y = Award(a) /\ Award(a) > 0 /\ Facts[a].first = "approved"
  BY <1>11, Keyed
<1>15. BookInv
  <2>1. AwardOnly
    BY <1>14 DEF AwardOnly
  <2>2. ApprovedIsPaid
    BY <1>1, <1>12, <1>13, <2>1 DEF ApprovedIsPaid, AwardOnly
  <2>3. ReversedWasPaid
    BY <1>13, UsedIsPosted DEF ReversedWasPaid
  <2>4. UncontestedIsSettled
    BY <1>1, <1>14, UsedIsPosted DEF UncontestedIsSettled
  <2> QED BY <1>9, <2>1, <2>2, <2>3, <2>4 DEF BookInv
<1>16. CallInv
  BY <1>1 DEF CallInv, AreRows, OneReview, Reviewing, StillPending, NotReviewed
<1>17. ScriptInv
  BY <1>4, <1>5 DEF ScriptInv, SeenAreRows, OffIsEmpty, PointsAreTrue, SumsAreRead, Reversing, ArrivedAlone,
                    OneIsKept, Sorted
<1> QED BY <1>10, <1>15, <1>16, <1>17 DEF ReviewInv

LEMMA Agreed ==
  ASSUME ReviewInv PROVE ReviewTypeOK /\ AttendancesAgree /\ (UpsertLocks => BooksAgree)
<1>1. /\ ReviewTypeOK /\ ApprovedIsPaid /\ ReversedWasPaid /\ UncontestedIsSettled
      /\ UpsertLocks => BalanceMatchesLedger
  BY DEF ReviewInv, TypeInv, BookInv
<1>2. OnePerDayWhenDone
  BY DEF ReviewInv, ScriptInv, OneIsKept, Sorted, OnePerDayWhenDone
<1> QED BY <1>1, <1>2 DEF BooksAgree, AttendancesAgree

LEMMA ReviewInvAlways == Spec => []ReviewInv
<1>1. Init => ReviewInv
  BY StartFits
<1>2. ReviewInv /\ [Next]_vars => ReviewInv'
  BY ReviewStep
<1> QED BY <1>1, <1>2, PTL DEF Spec

(* Every variable keeps its type, whether or not the script's upsert locks *)
(* the account it has read: no balance but an integer is ever written.     *)
THEOREM ReviewTypeCorrect == Spec => []ReviewTypeOK
<1>1. ReviewInv => ReviewTypeOK
  BY Agreed
<1> QED BY <1>1, ReviewInvAlways, PTL

(* Postings and attendances agree, whatever is reviewed, checked in and    *)
(* cleaned up at once, and again whether or not there is a lock: what is   *)
(* approved is paid, what was taken back was paid and is gone, an          *)
(* uncontested attendance that is not approved has no points, and a        *)
(* finished clean-up leaves one attendance a day.                          *)
THEOREM AttendancesAlwaysAgree == Spec => []AttendancesAgree
<1>1. ReviewInv => AttendancesAgree
  BY Agreed
<1> QED BY <1>1, ReviewInvAlways, PTL

LEMMA StepExtends ==
  ASSUME UpsertLocks, ReviewInv, [Next]_vars PROVE [Abstract!Next]_ledger
<1>0. TypeInv /\ BookInv /\ ScriptInv /\ TablesTypeOK /\ BalanceMatchesLedger
  BY DEF ReviewInv, BookInv, TypeInv, ReviewTypeOK
<1>1. CASE UNCHANGED tables
  BY <1>1 DEF tables
<1>2. ASSUME NEW a \in Attendances, Pays(a) PROVE Abstract!Next
  <2>1. Facts[a].user \in Users /\ AwardKey(a) \in Keys /\ Award(a) \in Amounts
    BY <1>0, <1>2, AttendanceOf, Keyed, HistoryIsPaid DEF Pays
  <2> QED BY <1>0, <1>2, <2>1, PostEntryRefines DEF Pays
<1>3. ASSUME NEW a \in Attendances, Goes(a), script.pc = "reverse", TakenBack(a) PROVE Abstract!Next
  <2>1. script.points[a] = Award(a) /\ Award(a) > 0
    BY <1>0, <1>3, LosersPoints DEF Goes, TakenBack, Sorted
  <2>2. Facts[a].user \in Users /\ ReversalKey(a) \in Keys /\ -Award(a) \in Amounts
    BY <1>0, <2>1, AttendanceOf, Keyed, HistoryIsPaid
  <2>3. PostEntry(Facts[a].user, ReversalKey(a), -Award(a)) /\ ~KeyUsed(ReversalKey(a))
    BY <1>0, <1>3, <2>1, <2>2, AmountsAreInts DEF TakenBack, Written, Writes, PostEntry, TablesTypeOK
  <2> QED BY <1>0, <2>2, <2>3, PostEntryRefines
<1>4. CASE Next
  <2>1. StepKinds
    BY <1>4, NextKinds
  <2>2. \A c \in Calls : job[c].attendance \in Attendances
    BY <1>0, AttendanceOf
  <2>3. ASSUME NEW a \in Attendances, Approves(a) PROVE [Abstract!Next]_ledger
    BY <1>1, <1>2, <2>3 DEF Approves
  <2>4. ASSUME NEW a \in Attendances, Leaves(a) PROVE [Abstract!Next]_ledger
    BY <1>1, <1>3, <2>4 DEF Leaves, Unpaid
  <2> QED BY <1>1, <2>1, <2>2, <2>3, <2>4
          DEF StepKinds, ReviewMoves, Verdict, Arrives, Rejects, Quiet, ScriptWorks
<1> QED BY <1>1, <1>4 DEF vars, tables

(* With the lock, each award and each reversal is a step of the promised   *)
(* ledger: one entry, under a new key, with the balance that results from  *)
(* the last one.                                                           *)
THEOREM ReviewExtendsLedger == UpsertLocks => (Spec => ExtendsLedger)
<1> SUFFICES ASSUME UpsertLocks PROVE Spec => ExtendsLedger
  OBVIOUS
<1>1. ReviewInv /\ [Next]_vars => [Abstract!Next]_ledger
  BY StepExtends
<1> QED BY <1>1, ReviewInvAlways, PTL DEF Spec, ExtendsLedger

(* Where the upsert locks the account, every balance is the sum of its     *)
(* postings too; only for that is the lock needed.                         *)
THEOREM BooksAlwaysAgree == UpsertLocks => (Spec => []BooksAgree)
<1> SUFFICES ASSUME UpsertLocks PROVE Spec => []BooksAgree
  OBVIOUS
<1>1. ReviewInv => BooksAgree
  BY Agreed
<1> QED BY <1>1, ReviewInvAlways, PTL
=============================================================================
