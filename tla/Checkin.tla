------------------------------- MODULE Checkin -------------------------------
(***************************************************************************)
(* The QR check-in: scans posted by runbase devices and by leaders' phones *)
(* become approved attendances and points.  Several requests overlap, a    *)
(* device sends a scan again when its answer was lost, and a request may   *)
(* stop between its transaction, its journal row and its answer.           *)
(*                                                                         *)
(* createAttendanceAndAward is one Serializable transaction: the same-day  *)
(* read and the snapshot are one step, the writes another.  PostgreSQL     *)
(* lets the second one through only if what it read is still so, and may   *)
(* refuse any transaction for what it took for a conflict.                 *)
(***************************************************************************)
EXTENDS PointsTables, FiniteSets

CONSTANTS
  Events,       \* occurrences, as materialized Event rows
  DayOf,        \* calendar day of each
  Award,        \* points for an attendance, 0 when nothing is awarded
  Scans,        \* physical scans
  Manual,       \* those a leader makes: no scanId, no device
  RunnerOf,     \* the user whose code was scanned, Nobody for an unknown one
  OpenAt,       \* what findOpenCheckinOccurrence may find for the scan
  Unapproved,   \* attendances of before, pending or rejected: no points
  Nobody,
  NoWindow,     \* no rule is open at the location
  Excluded,     \* the occurrence is pulled into a special: NotFoundException
  MaxRetries,   \* MAX_SERIALIZATION_RETRIES (3 in the code)
  Calls         \* slots for requests in flight

Attendances == Events \X Users

ASSUME CheckinConstants ==
  /\ DayOf \in [Events -> Nat] /\ Award \in [Events -> Nat]
  /\ Scans # {} /\ Manual \subseteq Scans
  /\ RunnerOf \in [Scans -> Users \cup {Nobody}]
  /\ OpenAt \in [Scans -> SUBSET (Events \cup {NoWindow, Excluded})]
  /\ Unapproved \subseteq Attendances
  /\ Nobody \notin Users
  /\ {NoWindow, Excluded} \cap Events = {}
  /\ MaxRetries \in Nat
  /\ Keys = Attendances
  /\ {Award[e] : e \in Events} \subseteq Amounts

VARIABLES
  attended,   \* event_attendances: the pairs with an approved row
  journal,    \* checkin_scans
  pc,         \* where each request stands
  job,        \* its scan, and what it has found out so far
  told        \* the outcomes requests were answered with

vars == <<balance, ledger, attended, journal, pc, job, told>>

Results == {"matched", "duplicate", "no_window", "unknown_code", "error"}
NoEvent == NoWindow   \* eventId null

(* A journal row; linked: its attendance_id names the attendance.          *)
ScanRow == [scan : Scans, event : Events \cup {NoEvent}, result : Results, linked : BOOLEAN]

Outcome == [scan : Scans, event : Events \cup {NoEvent}, result : Results]

NoJob == [scan |-> CHOOSE s \in Scans : TRUE, event |-> NoEvent, seen |-> 0,
          tries |-> 0, result |-> "error"]

CheckinTypeOK ==
  /\ TablesTypeOK
  /\ attended \subseteq Attendances
  /\ journal \subseteq ScanRow
  /\ pc \in [Calls -> {"idle", "prior", "resolve", "credit", "write", "record"}]
  /\ job \in [Calls -> [scan : Scans, event : Events \cup {NoEvent}, seen : Nat,
                        tries : 0..MaxRetries, result : Results]]
  /\ told \subseteq Outcome

Init ==
  /\ TablesInit
  /\ attended = {}
  /\ journal = {}
  /\ pc = [c \in Calls |-> "idle"]
  /\ job = [c \in Calls |-> NoJob]
  /\ told = {}

-----------------------------------------------------------------------------
Runner(c) == RunnerOf[job[c].scan]

RowsOf(s) == {row \in journal : row.scan = s}

OnDay(rows, u, e) == \E f \in Events : DayOf[f] = DayOf[e] /\ <<f, u>> \in rows

(* Any attendance of the user on the event's calendar day, whatever its    *)
(* status: a rejected one stands in the way of a credit like an approved.  *)
SameDay(u, e) == OnDay(attended \cup Unapproved, u, e)

Goto(c, step) == pc' = [pc EXCEPT ![c] = step]

(* The request ends; its answer, if any, is an outcome for the scan.       *)
End(c) ==
  /\ Goto(c, "idle")
  /\ job' = [job EXCEPT ![c] = NoJob]

Reply(c, event, result) ==
  /\ told' = told \cup {[scan |-> job[c].scan, event |-> event, result |-> result]}
  /\ End(c)

Settle(c, result) ==
  /\ Goto(c, "record")
  /\ job' = [job EXCEPT ![c].result = result, ![c].seen = 0, ![c].tries = 0]

(* A device's scan, for the first time or again, or a leader's.            *)
Receive(c) ==
  /\ pc[c] = "idle"
  /\ \E s \in Scans :
       /\ job' = [job EXCEPT ![c].scan = s]
       /\ Goto(c, IF s \in Manual THEN "resolve" ELSE "prior")
  /\ UNCHANGED <<tables, attended, journal, told>>

(* processScan: a scan in the journal is answered from it.                 *)
FindPrior(c) ==
  /\ pc[c] = "prior"
  /\ \/ /\ RowsOf(job[c].scan) = {}
        /\ Goto(c, "resolve")
        /\ UNCHANGED <<job, told>>
     \/ \E row \in RowsOf(job[c].scan) : Reply(c, row.event, row.result)
  /\ UNCHANGED <<tables, attended, journal>>

(* resolveAndRecord: the runner by code, then the open occurrence.  An     *)
(* excluded occurrence is an exception outside the try: no journal row.    *)
Resolve(c) ==
  /\ pc[c] = "resolve"
  /\ \/ Runner(c) = Nobody /\ Settle(c, "unknown_code")
     \/ /\ Runner(c) # Nobody
        /\ \E e \in OpenAt[job[c].scan] :
             CASE e = NoWindow -> Settle(c, "no_window")
               [] e = Excluded -> End(c)
               [] OTHER        -> job' = [job EXCEPT ![c].event = e] /\ Goto(c, "credit")
  /\ UNCHANGED <<tables, attended, journal, told>>

-----------------------------------------------------------------------------
(* createAttendanceAndAward: a user with an attendance that day is a       *)
(* duplicate, whichever event it is of.                                    *)
Begin(c) ==
  /\ pc[c] = "credit"
  /\ IF SameDay(Runner(c), job[c].event)
       THEN Settle(c, "duplicate")
       ELSE /\ Goto(c, "write")
            /\ job' = [job EXCEPT ![c].seen = Len(ledger[Runner(c)])]
  /\ UNCHANGED <<tables, attended, journal, told>>

(* Read Committed: nothing that was read is looked at again.               *)
MutantSerializable(c) == <<job[c].event, Runner(c)>> \notin attended

(* What was read still holds: no attendance that day has been committed    *)
(* since, and the account row, if it is written, is the one of the         *)
(* snapshot.                                                               *)
Serializable(c) ==
  /\ ~SameDay(Runner(c), job[c].event)
  /\ Award[job[c].event] > 0 => Len(ledger[Runner(c)]) = job[c].seen

(* The award is left to a later transaction, which a stop prevents.        *)
MutantAwardAttendance(u, e) ==
  \/ PostEntry(u, <<e, u>>, Award[e])
  \/ UNCHANGED tables

(* awardEventAttendance: nothing for an event that awards nothing.         *)
AwardAttendance(u, e) ==
  IF Award[e] > 0 THEN PostEntry(u, <<e, u>>, Award[e]) ELSE UNCHANGED tables

(* The attendance and its points in one commit; a blocked account rolls    *)
(* both back, and the exception becomes the result "error".                *)
Credit(c) ==
  LET u == Runner(c)
      e == job[c].event IN
  /\ pc[c] = "write"
  /\ Serializable(c)
  /\ IF Award[e] > 0 /\ u \in Blocked
       THEN Settle(c, "error") /\ UNCHANGED <<tables, attended>>
       ELSE /\ attended' = attended \cup {<<e, u>>}
            /\ AwardAttendance(u, e)
            /\ Settle(c, "matched")
  /\ UNCHANGED <<journal, told>>

(* P2002: another request created this user's attendance of this event.    *)
Collide(c) ==
  /\ pc[c] = "write"
  /\ <<job[c].event, Runner(c)>> \in attended \cup Unapproved
  /\ Settle(c, "duplicate")
  /\ UNCHANGED <<tables, attended, journal, told>>

(* A transaction that ran out of retries counts as a duplicate.            *)
MutantRefuse(c) ==
  /\ pc[c] = "write"
  /\ IF job[c].tries < MaxRetries
       THEN Goto(c, "credit") /\ job' = [job EXCEPT ![c].tries = @ + 1, ![c].seen = 0]
       ELSE Settle(c, "duplicate")
  /\ UNCHANGED <<tables, attended, journal, told>>

(* One attempt too many.                                                   *)
MutantRefuseTriesOn(c) ==
  /\ pc[c] = "write"
  /\ IF job[c].tries <= MaxRetries
       THEN Goto(c, "credit") /\ job' = [job EXCEPT ![c].tries = @ + 1, ![c].seen = 0]
       ELSE Settle(c, "error")
  /\ UNCHANGED <<tables, attended, journal, told>>

(* P2034, true or false alarm: again, a bounded number of times; after     *)
(* that, or for any other failure of the transaction, the result is error. *)
Refuse(c) ==
  /\ pc[c] = "write"
  /\ \/ /\ job[c].tries < MaxRetries
        /\ Goto(c, "credit")
        /\ job' = [job EXCEPT ![c].tries = @ + 1, ![c].seen = 0]
     \/ Settle(c, "error")
  /\ UNCHANGED <<tables, attended, journal, told>>

-----------------------------------------------------------------------------
(* A duplicate names the attendance that was there before, too.            *)
MutantLinks(result) == result \in {"matched", "duplicate"}

(* Only the scan that created the attendance refers to it.                 *)
Links(result) == result = "matched"

(* The unique columns: (device_id, scan_id) and attendance_id.             *)
Insertable(row) ==
  /\ row.scan \notin Manual => RowsOf(row.scan) = {}
  /\ row.linked => ~\E other \in journal :
       other.linked /\ other.event = row.event /\ RunnerOf[other.scan] = RunnerOf[row.scan]

(* The last delivery's outcome replaces the first's.                       *)
MutantRecordScan(c) ==
  LET row == [scan |-> job[c].scan, event |-> job[c].event,
              result |-> job[c].result, linked |-> Links(job[c].result)] IN
  /\ pc[c] = "record"
  /\ journal' = (journal \ RowsOf(row.scan)) \cup {row}
  /\ Reply(c, row.event, row.result)
  /\ UNCHANGED <<tables, attended>>

(* recordScan: a delivery that finds its scan recorded answers with that   *)
(* row; another unique violation is an exception, and no row is left.      *)
RecordScan(c) ==
  LET row == [scan |-> job[c].scan, event |-> job[c].event,
              result |-> job[c].result, linked |-> Links(job[c].result)] IN
  /\ pc[c] = "record"
  /\ \/ /\ Insertable(row)
        /\ journal' = journal \cup {row}
        /\ Reply(c, row.event, row.result)
     \/ /\ ~Insertable(row) /\ row.scan \notin Manual
        /\ \E winner \in RowsOf(row.scan) : Reply(c, winner.event, winner.result)
        /\ UNCHANGED journal
     \/ /\ ~Insertable(row) /\ (row.scan \in Manual \/ RowsOf(row.scan) = {})
        /\ End(c) /\ UNCHANGED <<journal, told>>
  /\ UNCHANGED <<tables, attended>>

(* The process stops: what is committed stays, the rest is gone.           *)
Stop(c) ==
  /\ pc[c] # "idle"
  /\ End(c)
  /\ UNCHANGED <<tables, attended, journal, told>>

Next == \E c \in Calls :
  \/ Receive(c)
  \/ FindPrior(c)
  \/ Resolve(c)
  \/ Begin(c)
  \/ Credit(c)
  \/ Collide(c)
  \/ Refuse(c)
  \/ RecordScan(c)
  \/ Stop(c)

Spec == Init /\ [][Next]_vars

-----------------------------------------------------------------------------
(* However many scanners and leaders scan a runner at once, on one day she *)
(* is credited for one event.                                              *)
OneCreditPerDay ==
  \A a, b \in attended : a[2] = b[2] /\ DayOf[a[1]] = DayOf[b[1]] => a = b

(* Points are posted for an attendance exactly when it exists, in the      *)
(* event's amount and to the one who attended; never for one without the   *)
(* other, wherever a request stops.                                        *)
PaidIffAttended ==
  /\ \A a \in attended : Award[a[1]] > 0 => KeyUsed(a)
  /\ \A u \in Users : \A i \in DOMAIN ledger[u] :
       LET e == ledger[u][i] IN
       e.key \in attended /\ e.key[2] = u /\ e.delta = Award[e.key[1]]

(* A green light is earned: whoever is told matched has been credited that *)
(* day, and so has whoever is told duplicate, unless an attendance without *)
(* approval is what the scan duplicates; and an attendance is the match of *)
(* one scan only.                                                          *)
GreenIsCredited ==
  /\ \A t \in told :
       \/ t.result = "matched"
       \/ t.result = "duplicate" /\ ~OnDay(Unapproved, RunnerOf[t.scan], t.event)
       => OnDay(attended, RunnerOf[t.scan], t.event)
  /\ \A t, o \in told :
       /\ t.result = "matched" /\ o.result = "matched"
       /\ t.event = o.event /\ RunnerOf[t.scan] = RunnerOf[o.scan]
       => t.scan = o.scan

(* A scan sent again, even while its first delivery is still being         *)
(* processed, is told the same outcome.                                    *)
ReplayIsTheOutcome ==
  \A t, o \in told : t.scan = o.scan /\ t.scan \notin Manual => t = o

(* A scan that reaches the journal's insert is in the journal after it:    *)
(* no re-scan fails on the attendance another scan refers to.              *)
EveryScanLogged ==
  [][\A c \in Calls :
       pc[c] = "record" /\ RecordScan(c)
         => \E row \in journal' : row.scan = job[c].scan]_vars
=============================================================================
