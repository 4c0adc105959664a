--------------------------- MODULE AttendanceReview ---------------------------
(***************************************************************************)
(* Attendances that an administrator approves or rejects                   *)
(* (AttendancesService), and the clean-up script that a deployment runs    *)
(* beside the API: of the attendances a user has on one day it keeps one   *)
(* and deletes the others, taking back the points they were paid.  Each    *)
(* step is one statement outside a transaction, or one transaction's reads *)
(* or commit; the script may fail at any step and is run again by the next *)
(* deployment.                                                             *)
(***************************************************************************)
EXTENDS PointsTables

CONSTANTS
  Attendances,
  Facts,        \* what never changes of each attendance and its event
  History,      \* the postings for those approved at the start
  Fallback,     \* EVENT_ATTENDANCE_*_POINTS_FALLBACK by type of event
  Contested,    \* attendances whose reviews may overlap with anything
  UpsertLocks,  \* the script's upsert of an account locks its row
  Calls,        \* slots for reviews in flight
  MaxRuns       \* bound on runs of the script

Types    == {"special", "partner", "regular"}
Statuses == {"none", "pending", "approved", "rejected", "gone"}

(* first: its status at the start, "none" for a check-in still to come.    *)
Fact == [user : Users, day : Nat, type : Types, eligible : BOOLEAN, base : Nat,
         matched : Nat, first : {"none", "pending", "approved"}]

ASSUME ReviewConstants ==
  /\ Attendances # {}
  /\ Facts \in [Attendances -> Fact]
  /\ Fallback \in [{"special", "regular"} -> Nat]
  /\ Contested \subseteq Attendances
  /\ UpsertLocks \in BOOLEAN /\ MaxRuns \in Nat
  /\ Keys = Attendances \X {"award", "reversal"}

VARIABLES
  status,  \* of each attendance row
  pc,
  job,     \* the attendance and the verdict of each review
  script   \* the clean-up: what it has read so far and what it does next

vars == <<tables, status, pc, job, script>>

AwardKey(a)    == <<a, "award">>
ReversalKey(a) == <<a, "reversal">>

(* A partner's run counts, and pays nothing yet.                           *)
Award(a) ==
  LET f == Facts[a] IN
  CASE ~f.eligible \/ f.type = "partner"                -> 0
    [] f.eligible /\ f.type # "partner" /\ f.base > 0   -> f.base
    [] f.eligible /\ f.type # "partner" /\ f.base = 0   -> Fallback[f.type]

(* At the start the approved attendances are paid, and nothing else is.    *)
ASSUME HistoryIsPaid ==
  /\ \A a \in Attendances : Award(a) > 0 => {Award(a), -Award(a)} \subseteq Amounts
  /\ History \in [Users -> Seq(Entry)]
  /\ \A u \in Users : \A i \in DOMAIN History[u] :
       /\ History[u][i].after =
            History[u][i].delta + (IF i = 1 THEN 0 ELSE History[u][i - 1].after)
       /\ \E a \in Attendances :
            /\ History[u][i].key = AwardKey(a) /\ Facts[a].first = "approved"
            /\ Award(a) > 0 /\ History[u][i].delta = Award(a)
  /\ \A a \in Attendances : Facts[a].first = "approved" /\ Award(a) > 0 =>
       \E u \in Users : \E i \in DOMAIN History[u] : History[u][i].key = AwardKey(a)

NoScript == [pc |-> "off", runs |-> 0, seen |-> {}, points |-> <<>>, losers |-> {},
             loser |-> CHOOSE a \in Attendances : TRUE, balance |-> 0]

Present == {a \in Attendances : status[a] \in {"pending", "approved", "rejected"}}

ReviewTypeOK ==
  /\ TablesTypeOK
  /\ status \in [Attendances -> Statuses]
  /\ pc \in [Calls -> {"idle", "read", "write"}]
  /\ job \in [Calls -> [attendance : Attendances, verdict : {"approve", "reject"}]]
  /\ script.pc \in {"off", "sum", "next", "reverse", "done"} /\ script.runs \in 0..MaxRuns
  /\ script.losers \subseteq script.seen /\ script.seen \subseteq Attendances
  /\ script.points \in [DOMAIN script.points -> Nat] /\ DOMAIN script.points \subseteq script.seen
  /\ script.loser \in Attendances /\ script.balance \in Int

Init ==
  /\ status = [a \in Attendances |-> Facts[a].first]
  /\ ledger = History /\ balance = [u \in Users |-> LastAfter(History[u])]
  /\ pc = [c \in Calls |-> "idle"]
  /\ job = [c \in Calls |-> [attendance |-> CHOOSE a \in Attendances : TRUE, verdict |-> "reject"]]
  /\ script = NoScript

-----------------------------------------------------------------------------
Goto(c, step) == pc' = [pc EXCEPT ![c] = step]

(* The account's row lock, which the script keeps from its upsert on.      *)
Locked(u) == UpsertLocks /\ script.pc = "reverse" /\ Facts[script.loser].user = u

Payable(a) == Award(a) > 0 /\ ~KeyUsed(AwardKey(a))

(* awardEventAttendance: nothing to pay, or paid already, and no posting;  *)
(* an account that is not active is an exception, and the transaction is   *)
(* rolled back.                                                            *)
PostAward(a) ==
  \/ ~Payable(a) /\ UNCHANGED tables
  \/ /\ Payable(a) /\ Facts[a].user \notin Blocked
     /\ ~Locked(Facts[a].user)
     /\ PostEntry(Facts[a].user, AwardKey(a), Award(a))

(* An uncontested attendance is reviewed by one administrator at a time,   *)
(* and not while the script runs.                                          *)
Undisturbed(a) ==
  a \notin Contested => /\ script.pc = "off"
                        /\ \A c \in Calls : pc[c] # "idle" => job[c].attendance # a

Review(c, a, verdict) ==
  /\ pc[c] = "idle" /\ Undisturbed(a)
  /\ status[a] # "none"
  /\ job' = [job EXCEPT ![c] = [attendance |-> a, verdict |-> verdict]]
  /\ Goto(c, "read")
  /\ UNCHANGED <<tables, status, script>>

(* Not found, or reviewed before; a row deleted since it was read fails    *)
(* the update.                                                             *)
Refuse(c) == Goto(c, "idle") /\ UNCHANGED <<tables, status, job, script>>

Find(c) ==
  /\ pc[c] = "read"
  /\ Goto(c, IF status[job[c].attendance] = "pending" THEN "write" ELSE "idle")
  /\ UNCHANGED <<tables, status, job, script>>

(* The row is approved whatever it has become, in one transaction with its *)
(* points.                                                                 *)
Approve(c) ==
  LET a == job[c].attendance IN
  /\ pc[c] = "write" /\ job[c].verdict = "approve"
  /\ \/ /\ status[a] # "gone"
        /\ status' = [status EXCEPT ![a] = "approved"]
        /\ PostAward(a)
        /\ Goto(c, "idle") /\ UNCHANGED <<job, script>>
     \/ status[a] = "gone" /\ Refuse(c)
     \/ Payable(a) /\ Facts[a].user \in Blocked /\ Refuse(c)

Reject(c) ==
  LET a == job[c].attendance IN
  /\ pc[c] = "write" /\ job[c].verdict = "reject"
  /\ \/ /\ status[a] # "gone"
        /\ status' = [status EXCEPT ![a] = "rejected"]
        /\ Goto(c, "idle") /\ UNCHANGED <<tables, job, script>>
     \/ status[a] = "gone" /\ Refuse(c)

SameDay(a, b) == Facts[a].user = Facts[b].user /\ Facts[a].day = Facts[b].day

(* Check-in goes on meanwhile: one attendance a day, approved and paid.    *)
CheckIn(a) ==
  /\ status[a] = "none"
  /\ \A b \in Present : ~SameDay(a, b)
  /\ status' = [status EXCEPT ![a] = "approved"]
  /\ PostAward(a)
  /\ UNCHANGED <<pc, job, script>>

-----------------------------------------------------------------------------
(* The script reads the rows ...                                           *)
ReadAttendances ==
  /\ script.pc = "off" /\ script.runs < MaxRuns
  /\ \A c \in Calls : pc[c] # "idle" => job[c].attendance \in Contested
  /\ script' = [NoScript EXCEPT !.pc = "sum", !.runs = script.runs + 1, !.seen = Present]
  /\ UNCHANGED <<tables, status, pc, job>>

(* The sum is taken over the user, not over the attendance.                *)
MutantSumCredits(a) ==
  /\ script.pc = "sum" /\ a \in script.seen \ DOMAIN script.points
  /\ script' = [script EXCEPT !.points =
                  [b \in DOMAIN @ \cup {a} |-> IF b # a THEN @[b] ELSE balance[Facts[a].user]]]
  /\ UNCHANGED <<tables, status, pc, job>>

(* ... then sums for each the credits that name it, a query of its own.    *)
SumCredits(a) ==
  LET credits == {e \in EntriesOf(AwardKey(a)) : e.delta > 0} IN
  /\ script.pc = "sum" /\ a \in script.seen \ DOMAIN script.points
  /\ script' = [script EXCEPT !.points =
                  [b \in DOMAIN @ \cup {a} |->
                     IF b # a THEN @[b] ELSE IF credits = {} THEN 0 ELSE (CHOOSE e \in credits : TRUE).delta]]
  /\ UNCHANGED <<tables, status, pc, job>>

Rank(type) == CASE type = "special" -> 0 [] type = "partner" -> 1 [] type = "regular" -> 2

Before(a, b) ==
  LET f == Facts[a]
      g == Facts[b] IN
  Rank(f.type) < Rank(g.type) \/ (f.type = g.type /\ f.matched <= g.matched)

(* Of the attendances a user has on one day the first in order is kept;    *)
(* their review does not matter.  Ties are kept in the order of the read.  *)
Group ==
  /\ script.pc = "sum" /\ script.seen = DOMAIN script.points
  /\ \E winners \in SUBSET script.seen :
       /\ \A a, b \in winners : a # b => ~SameDay(a, b)
       /\ \A b \in script.seen : \E a \in winners : SameDay(a, b) /\ Before(a, b)
       /\ script' = [script EXCEPT !.pc = "next", !.losers = script.seen \ winners]
  /\ UNCHANGED <<tables, status, pc, job>>

(* The transaction of one loser.  With no points only the row goes.        *)
DropUnpaid(a) ==
  /\ script.pc = "next" /\ a \in script.losers /\ script.points[a] = 0
  /\ a \in Present
  /\ status' = [status EXCEPT ![a] = "gone"]
  /\ script' = [script EXCEPT !.losers = @ \ {a}]
  /\ UNCHANGED <<tables, pc, job>>

(* With points the account is read first, ...                              *)
ReadAccount(a) ==
  /\ script.pc = "next" /\ a \in script.losers /\ script.points[a] > 0
  /\ script' = [script EXCEPT !.pc = "reverse", !.loser = a, !.balance = balance[Facts[a].user]]
  /\ UNCHANGED <<tables, status, pc, job>>

(* The row goes and the points stay: the reversal is a separate statement  *)
(* that a failure can skip.                                                *)
MutantReverse ==
  LET a == script.loser IN
  /\ script.pc = "reverse" /\ a \in Present
  /\ status' = [status EXCEPT ![a] = "gone"]
  /\ script' = [script EXCEPT !.pc = "next", !.losers = @ \ {a}]
  /\ UNCHANGED <<tables, pc, job>>

(* ... and written as computed from what was read, with the reversal and   *)
(* the deletion.                                                           *)
Reverse ==
  LET a     == script.loser
      u     == Facts[a].user
      after == script.balance - script.points[a] IN
  /\ script.pc = "reverse" /\ a \in Present /\ ~KeyUsed(ReversalKey(a))
  /\ balance' = [balance EXCEPT ![u] = after]
  /\ ledger' = [ledger EXCEPT ![u] =
                  Append(@, [key |-> ReversalKey(a), delta |-> -script.points[a], after |-> after])]
  /\ status' = [status EXCEPT ![a] = "gone"]
  /\ script' = [script EXCEPT !.pc = "next", !.losers = @ \ {a}]
  /\ UNCHANGED <<pc, job>>

Finish ==
  /\ script.pc = "next" /\ script.losers = {}
  /\ script' = [script EXCEPT !.pc = "done"]
  /\ UNCHANGED <<tables, status, pc, job>>

(* The process ends, after its last write or before: what it has read is   *)
(* forgotten, an open transaction rolled back.                             *)
Exit ==
  /\ script.pc # "off"
  /\ script' = [NoScript EXCEPT !.runs = script.runs]
  /\ UNCHANGED <<tables, status, pc, job>>

Next ==
  \/ \E c \in Calls :
       \/ \E a \in Attendances, verdict \in {"approve", "reject"} : Review(c, a, verdict)
       \/ Find(c) \/ Approve(c) \/ Reject(c)
  \/ \E a \in Attendances : CheckIn(a) \/ SumCredits(a) \/ DropUnpaid(a) \/ ReadAccount(a)
  \/ ReadAttendances \/ Group \/ Reverse \/ Finish \/ Exit

Spec == Init /\ [][Next]_vars

-----------------------------------------------------------------------------
Posted(key) == {e.delta : e \in EntriesOf(key)}

(* What stands approved is paid and keeps its points.                      *)
ApprovedIsPaid ==
  \A a \in Attendances : status[a] = "approved" /\ Award(a) > 0 =>
    Posted(AwardKey(a)) = {Award(a)} /\ Posted(ReversalKey(a)) = {}

(* Only what is gone was taken back, and no more than it was paid.         *)
ReversedWasPaid ==
  \A a \in Attendances : KeyUsed(ReversalKey(a)) =>
    status[a] = "gone" /\ Posted(AwardKey(a)) = {-d : d \in Posted(ReversalKey(a))}

(* Unless its reviews overlapped, an attendance that is not approved has   *)
(* no points: none were posted, or all were taken back.                    *)
UncontestedIsSettled ==
  \A a \in Attendances \ Contested :
    /\ status[a] \in {"pending", "rejected"} => ~KeyUsed(AwardKey(a))
    /\ status[a] = "gone" /\ KeyUsed(AwardKey(a)) => KeyUsed(ReversalKey(a))

(* When the script is through, no user has two attendances on a day.       *)
OnePerDayWhenDone ==
  script.pc = "done" => \A a, b \in Present : SameDay(a, b) => a = b

(* Postings and attendances agree, with reviews, check-ins and the script, *)
(* failing and run again, going on at once (AttendancesService,            *)
(* cleanup-duplicate-attendances.ts: "Idempotent").                        *)
AttendancesAgree ==
  ApprovedIsPaid /\ ReversedWasPaid /\ UncontestedIsSettled /\ OnePerDayWhenDone

(* And so do the balances with the postings.                               *)
BooksAgree == AttendancesAgree /\ BalanceMatchesLedger
=============================================================================
