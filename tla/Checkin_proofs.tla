--------------------------- MODULE Checkin_proofs ---------------------------
(* The check-in, for every set of runners, events, scans and requests: its *)
(* types, one credit a day, points for exactly the attendances, what is    *)
(* told and what is in the journal, and the promised ledger.               *)
EXTENDS Checkin, PointsTables_proofs

Steps == {"idle", "prior", "resolve", "credit", "write", "record"}

Job == [scan : Scans, event : Events \cup {NoEvent}, seen : Nat,
        tries : 0..MaxRetries, result : Results]

(* A request that credits has a runner and an event.                       *)
Crediting(step, j) ==
  step \in {"credit", "write"} => j.event \in Events /\ RunnerOf[j.scan] \in Users

Carried == \A c \in Calls : Crediting(pc[c], job[c])

CreditInv ==
  /\ CheckinTypeOK
  /\ Carried
  /\ BalanceMatchesLedger
  /\ OneCreditPerDay
  /\ PaidIffAttended

-----------------------------------------------------------------------------
(* The kinds of steps.  A request c moves and the others stay; it goes on, *)
(* or it has a result to record.                                           *)
Moves(c) ==
  /\ pc' \in [Calls -> Steps] /\ job' \in [Calls -> Job]
  /\ \A d \in Calls \ {c} : pc'[d] = pc[d] /\ job'[d] = job[d]

GoesOn(c) == Moves(c) /\ pc'[c] # "record" /\ Crediting(pc'[c], job'[c])

Settles(c, result) ==
  /\ Moves(c) /\ pc'[c] = "record"
  /\ job'[c].scan = job[c].scan /\ job'[c].event = job[c].event /\ job'[c].result = result

Told(r) == [scan |-> r.scan, event |-> r.event, result |-> r.result]

Row(c) == [scan |-> job[c].scan, event |-> job[c].event,
           result |-> job[c].result, linked |-> Links(job[c].result)]

Quiet == UNCHANGED <<balance, ledger, attended, journal, told>>

Thinks(c) == GoesOn(c) /\ Quiet

Decides(c) ==
  /\ Quiet
  /\ \E result \in Results \ {"matched"} :
       Settles(c, result) /\ (result = "duplicate" => SameDay(Runner(c), job[c].event))

Credits(c) ==
  /\ job[c].event \in Events /\ Runner(c) \in Users
  /\ ~SameDay(Runner(c), job[c].event)
  /\ attended' = attended \cup {<<job[c].event, Runner(c)>>}
  /\ AwardAttendance(Runner(c), job[c].event)
  /\ Settles(c, "matched")
  /\ UNCHANGED <<journal, told>>

Repeats(c) ==
  /\ GoesOn(c)
  /\ \E row \in journal : told' = told \cup {Told(row)}
  /\ UNCHANGED <<balance, ledger, attended, journal>>

Logs(c) ==
  /\ GoesOn(c) /\ pc[c] = "record"
  /\ Insertable(Row(c))
  /\ journal' = journal \cup {Row(c)}
  /\ told' = told \cup {Told(Row(c))}
  /\ UNCHANGED <<balance, ledger, attended>>

CallStep(c) ==
  Receive(c) \/ FindPrior(c) \/ Resolve(c) \/ Begin(c) \/ Credit(c)
  \/ Collide(c) \/ Refuse(c) \/ RecordScan(c) \/ Stop(c)

LEMMA JobTyped ==
  ASSUME CheckinTypeOK, NEW c \in Calls
  PROVE  /\ pc[c] \in Steps /\ job[c] \in Job
         /\ pc \in [Calls -> Steps] /\ job \in [Calls -> Job]
BY DEF CheckinTypeOK, Steps, Job

LEMMA NoJobTyped == NoJob \in Job
<1>1. (CHOOSE s \in Scans : TRUE) \in Scans
  BY CheckinConstants
<1>2. "error" \in Results /\ 0 \in 0..MaxRetries
  BY CheckinConstants DEF Results
<1> QED BY <1>1, <1>2 DEF NoJob, Job, NoEvent

LEMMA EndGoesOn ==
  ASSUME CheckinTypeOK, NEW c \in Calls, End(c)
  PROVE  GoesOn(c)
<1>1. job' = [job EXCEPT ![c] = NoJob] /\ pc' = [pc EXCEPT ![c] = "idle"]
  BY DEF End, Goto
<1> QED BY <1>1, JobTyped, NoJobTyped DEF GoesOn, Moves, Crediting, Steps

LEMMA SettleSettles ==
  ASSUME CheckinTypeOK, NEW c \in Calls, NEW result \in Results, Settle(c, result)
  PROVE  Settles(c, result)
<1> DEFINE j == [job[c] EXCEPT !.result = result, !.seen = 0, !.tries = 0]
<1>1. job' = [job EXCEPT ![c] = j] /\ pc' = [pc EXCEPT ![c] = "record"]
  BY JobTyped DEF Settle, Goto
<1>2. job[c] \in Job /\ 0 \in Nat /\ 0 \in 0..MaxRetries
  BY JobTyped, CheckinConstants
<1>3. j \in Job /\ j.scan = job[c].scan /\ j.event = job[c].event /\ j.result = result
  BY <1>2 DEF Job
<1> HIDE DEF j
<1> QED BY <1>1, <1>3, JobTyped DEF Settles, Moves, Steps

LEMMA ReplyGoesOn ==
  ASSUME CheckinTypeOK, NEW c \in Calls, NEW e, NEW result, Reply(c, e, result)
  PROVE  /\ GoesOn(c)
         /\ told' = told \cup {[scan |-> job[c].scan, event |-> e, result |-> result]}
BY EndGoesOn DEF Reply

(* Every step of a request is of one of the kinds.                         *)
LEMMA StepKinds ==
  ASSUME CheckinTypeOK, Carried, NEW c \in Calls, CallStep(c)
  PROVE  Thinks(c) \/ Decides(c) \/ Credits(c) \/ Repeats(c) \/ Logs(c)
<1>0. /\ job[c] \in Job /\ pc \in [Calls -> Steps] /\ job \in [Calls -> Job]
      /\ RunnerOf[job[c].scan] \in Users \cup {Nobody}
      /\ Crediting(pc[c], job[c])
  BY JobTyped, CheckinConstants DEF Carried, Job
<1> DEFINE Rest == UNCHANGED <<tables, attended, journal, told>>
<1>1. ASSUME Rest PROVE Quiet
  BY <1>1 DEF tables, Quiet
<1>2. ASSUME End(c), Rest PROVE Thinks(c)
  BY <1>1, <1>2, EndGoesOn DEF Thinks
<1>3. ASSUME NEW result \in Results \ {"matched"}, Settle(c, result), Rest,
             result = "duplicate" => SameDay(Runner(c), job[c].event)
      PROVE  Decides(c)
  BY <1>1, <1>3, SettleSettles DEF Decides
<1>4. CASE Receive(c)
  <2>1. PICK s \in Scans : /\ job' = [job EXCEPT ![c].scan = s]
                           /\ Goto(c, IF s \in Manual THEN "resolve" ELSE "prior")
    BY <1>4 DEF Receive
  <2> DEFINE j == [job[c] EXCEPT !.scan = s]
  <2>2. job' = [job EXCEPT ![c] = j] /\ j \in Job
    BY <1>0, <2>1 DEF Job
  <2> HIDE DEF j
  <2>3. pc' \in [Calls -> Steps] /\ pc'[c] \in {"resolve", "prior"}
        /\ \A d \in Calls \ {c} : pc'[d] = pc[d]
    BY <1>0, <2>1 DEF Goto, Steps
  <2>4. GoesOn(c)
    BY <1>0, <2>2, <2>3 DEF GoesOn, Moves, Crediting
  <2> QED BY <1>1, <1>4, <2>4 DEF Receive, Thinks
<1>5. CASE FindPrior(c)
  <2>1. CASE RowsOf(job[c].scan) = {} /\ Goto(c, "resolve") /\ UNCHANGED <<job, told>>
    <3>1. GoesOn(c)
      BY <1>0, <2>1 DEF GoesOn, Moves, Crediting, Goto, Steps
    <3> QED BY <1>1, <1>5, <2>1, <3>1 DEF FindPrior, Thinks
  <2>2. CASE \E row \in RowsOf(job[c].scan) : Reply(c, row.event, row.result)
    <3>1. PICK row \in RowsOf(job[c].scan) : Reply(c, row.event, row.result)
      BY <2>2
    <3>2. row \in journal /\ row.scan = job[c].scan
      BY DEF RowsOf
    <3>3. GoesOn(c) /\ told' = told \cup {Told(row)}
      BY <3>1, <3>2, ReplyGoesOn DEF Told
    <3> QED BY <1>5, <3>2, <3>3 DEF FindPrior, Repeats, tables
  <2> QED BY <1>5, <2>1, <2>2 DEF FindPrior
<1>6. CASE Resolve(c)
  <2>1. Rest /\ pc[c] = "resolve"
    BY <1>6 DEF Resolve
  <2>2. CASE Settle(c, "unknown_code") \/ Settle(c, "no_window")
    BY <1>3, <2>1, <2>2 DEF Results
  <2>3. CASE End(c)
    BY <1>2, <2>1, <2>3
  <2>4. ASSUME NEW e \in OpenAt[job[c].scan], e # NoWindow, e # Excluded, Runner(c) # Nobody,
               job' = [job EXCEPT ![c].event = e], Goto(c, "credit")
        PROVE  Thinks(c)
    <3>1. e \in Events
      BY <1>0, <2>4, CheckinConstants DEF Job
    <3> DEFINE j == [job[c] EXCEPT !.event = e]
    <3>2. job' = [job EXCEPT ![c] = j] /\ j \in Job /\ j.event = e /\ j.scan = job[c].scan
      BY <1>0, <2>4, <3>1 DEF Job
    <3> HIDE DEF j
    <3>3. GoesOn(c)
      BY <1>0, <2>4, <3>1, <3>2 DEF GoesOn, Moves, Crediting, Goto, Steps, Runner
    <3> QED BY <1>1, <2>1, <3>3 DEF Thinks
  <2> QED BY <1>6, <2>2, <2>3, <2>4 DEF Resolve
<1>7. CASE Begin(c)
  <2>1. Rest /\ pc[c] = "credit"
    BY <1>7 DEF Begin
  <2>2. CASE SameDay(Runner(c), job[c].event) /\ Settle(c, "duplicate")
    BY <1>3, <2>1, <2>2 DEF Results
  <2>3. CASE Goto(c, "write") /\ job' = [job EXCEPT ![c].seen = Len(ledger[Runner(c)])]
    <3> DEFINE j == [job[c] EXCEPT !.seen = Len(ledger[Runner(c)])]
    <3>1. job[c].event \in Events /\ Runner(c) \in Users
      BY <1>0, <2>1 DEF Crediting, Runner
    <3>2. Len(ledger[Runner(c)]) \in Nat
      BY <3>1 DEF CheckinTypeOK, TablesTypeOK
    <3>3. job' = [job EXCEPT ![c] = j] /\ j \in Job
          /\ j.event = job[c].event /\ j.scan = job[c].scan
      BY <1>0, <2>3, <3>2 DEF Job
    <3> HIDE DEF j
    <3>4. GoesOn(c)
      BY <1>0, <2>3, <3>1, <3>3 DEF GoesOn, Moves, Crediting, Goto, Steps, Runner
    <3> QED BY <1>1, <2>1, <3>4 DEF Thinks
  <2> QED BY <1>7, <2>2, <2>3 DEF Begin
<1>8. CASE Credit(c)
  <2> DEFINE u == Runner(c)
             e == job[c].event
  <2>1. e \in Events /\ u \in Users /\ ~SameDay(u, e)
    BY <1>0, <1>8 DEF Credit, Crediting, Runner, Serializable
  <2>2. CASE Settle(c, "error") /\ UNCHANGED <<tables, attended>>
    BY <1>3, <1>8, <2>2 DEF Credit, Results
  <2>3. CASE /\ attended' = attended \cup {<<e, u>>}
             /\ AwardAttendance(u, e)
             /\ Settle(c, "matched")
    <3>1. Settles(c, "matched")
      BY <2>3, SettleSettles DEF Results
    <3> QED BY <1>8, <2>1, <2>3, <3>1 DEF Credit, Credits
  <2> QED BY <1>8, <2>2, <2>3 DEF Credit
<1>9. CASE Collide(c)
  <2>1. Rest /\ Settle(c, "duplicate") /\ <<job[c].event, Runner(c)>> \in attended \cup Unapproved
        /\ job[c].event \in Events
    BY <1>0, <1>9 DEF Collide, Crediting
  <2>2. SameDay(Runner(c), job[c].event)
    BY <2>1 DEF SameDay, OnDay
  <2> QED BY <1>3, <2>1, <2>2 DEF Results
<1>10. CASE Refuse(c)
  <2>1. Rest /\ pc[c] = "write"
    BY <1>10 DEF Refuse
  <2>2. CASE Settle(c, "error")
    BY <1>3, <2>1, <2>2 DEF Results
  <2>3. CASE /\ job[c].tries < MaxRetries /\ Goto(c, "credit")
             /\ job' = [job EXCEPT ![c].tries = @ + 1, ![c].seen = 0]
    <3> DEFINE j == [job[c] EXCEPT !.tries = @ + 1, !.seen = 0]
    <3>1. job[c].tries + 1 \in 0..MaxRetries /\ 0 \in Nat
      BY <1>0, <2>3, CheckinConstants DEF Job
    <3>2. job' = [job EXCEPT ![c] = j]
      BY <1>0, <2>3
    <3>3. j \in Job /\ j.event = job[c].event /\ j.scan = job[c].scan
      BY <1>0, <3>1 DEF Job
    <3> HIDE DEF j
    <3>4. GoesOn(c)
      BY <1>0, <2>1, <2>3, <3>2, <3>3 DEF GoesOn, Moves, Crediting, Goto, Steps
    <3> QED BY <1>1, <2>1, <3>4 DEF Thinks
  <2> QED BY <1>10, <2>2, <2>3 DEF Refuse
<1>11. CASE RecordScan(c)
  <2>1. pc[c] = "record" /\ UNCHANGED <<tables, attended>>
    BY <1>11 DEF RecordScan
  <2>2. CASE Insertable(Row(c)) /\ journal' = journal \cup {Row(c)}
             /\ Reply(c, Row(c).event, Row(c).result)
    <3>1. Row(c).scan = job[c].scan
      BY DEF Row
    <3>2. GoesOn(c) /\ told' = told \cup {Told(Row(c))}
      BY <2>2, <3>1, ReplyGoesOn DEF Told
    <3> QED BY <2>1, <2>2, <3>2 DEF Logs, tables
  <2>3. CASE (\E row \in RowsOf(Row(c).scan) : Reply(c, row.event, row.result)) /\ UNCHANGED journal
    <3>1. PICK row \in RowsOf(job[c].scan) : Reply(c, row.event, row.result)
      BY <2>3 DEF Row
    <3>2. row \in journal /\ row.scan = job[c].scan
      BY DEF RowsOf
    <3>3. GoesOn(c) /\ told' = told \cup {Told(row)}
      BY <3>1, <3>2, ReplyGoesOn DEF Told
    <3> QED BY <2>1, <2>3, <3>2, <3>3 DEF Repeats, tables
  <2>4. CASE End(c) /\ UNCHANGED <<journal, told>>
    BY <1>2, <2>1, <2>4
  <2> QED BY <1>11, <2>2, <2>3, <2>4 DEF RecordScan, Row
<1>12. CASE Stop(c)
  BY <1>2, <1>12 DEF Stop
<1> QED BY <1>4, <1>5, <1>6, <1>7, <1>8, <1>9, <1>10, <1>11, <1>12 DEF CallStep
-----------------------------------------------------------------------------
LEMMA CreditStart == Init => CreditInv
<1> SUFFICES ASSUME Init PROVE CreditInv
  OBVIOUS
<1>1. CheckinTypeOK
  BY NoJobTyped, TablesStart DEF Init, CheckinTypeOK, Job
<1>2. Carried
  BY DEF Init, Carried, Crediting
<1>3. OneCreditPerDay /\ PaidIffAttended
  BY DEF Init, OneCreditPerDay, PaidIffAttended, TablesInit, KeyUsed
<1> QED BY <1>1, <1>2, <1>3, TablesStart DEF Init, CreditInv

(* What a credit writes: the attendance, and its points if there are any,  *)
(* under a key that was not there.                                         *)
LEMMA CreditWrites ==
  ASSUME CreditInv, NEW c \in Calls, Credits(c),
         NEW e, NEW u, e = job[c].event, u = Runner(c)
  PROVE  /\ e \in Events /\ u \in Users /\ <<e, u>> \in Keys /\ Award[e] \in Amounts
         /\ ~SameDay(u, e) /\ <<e, u>> \notin attended /\ ~KeyUsed(<<e, u>>)
         /\ attended' = attended \cup {<<e, u>>}
         /\ \/ Award[e] > 0 /\ PostEntry(u, <<e, u>>, Award[e])
            \/ Award[e] = 0 /\ UNCHANGED <<balance, ledger>>
<1>1. e \in Events /\ u \in Users /\ ~SameDay(u, e) /\ attended' = attended \cup {<<e, u>>}
  BY DEF Credits
<1>2. <<e, u>> \in Keys /\ Award[e] \in Amounts /\ Award[e] \in Nat
  BY <1>1, CheckinConstants DEF Attendances
<1>3. <<e, u>> \notin attended
  BY <1>1 DEF SameDay, OnDay
<1>4. ~KeyUsed(<<e, u>>)
  BY <1>3 DEF CreditInv, PaidIffAttended, KeyUsed
<1>5. AwardAttendance(u, e)
  BY DEF Credits
<1>6. \/ Award[e] > 0 /\ PostEntry(u, <<e, u>>, Award[e])
      \/ Award[e] = 0 /\ UNCHANGED <<balance, ledger>>
  BY <1>2, <1>5 DEF AwardAttendance, tables
<1> QED BY <1>1, <1>2, <1>3, <1>4, <1>6

LEMMA CreditTables ==
  ASSUME CreditInv, NEW c \in Calls, Credits(c)
  PROVE  /\ TablesTypeOK' /\ BalanceMatchesLedger' /\ [Abstract!Next]_ledger
<1> DEFINE e == job[c].event
           u == Runner(c)
<1>0. TablesTypeOK /\ BalanceMatchesLedger
  BY DEF CreditInv, CheckinTypeOK
<1>1. PICK f, v : f = e /\ v = u
  OBVIOUS
<1>2. /\ v \in Users /\ <<f, v>> \in Keys /\ Award[f] \in Amounts /\ ~KeyUsed(<<f, v>>)
      /\ PostEntry(v, <<f, v>>, Award[f]) \/ UNCHANGED <<balance, ledger>>
  BY <1>1, CreditWrites
<1>3. CASE PostEntry(v, <<f, v>>, Award[f])
  BY <1>0, <1>2, <1>3, PostEntryType, PostEntryBalance, PostEntryRefines
<1>4. CASE UNCHANGED <<balance, ledger>>
  BY <1>0, <1>4 DEF TablesTypeOK, BalanceMatchesLedger, LastAfter
<1> QED BY <1>2, <1>3, <1>4

LEMMA RowTyped ==
  ASSUME CheckinTypeOK, NEW c \in Calls
  PROVE  Row(c) \in ScanRow /\ \A row \in journal : Told(row) \in Outcome
BY JobTyped DEF Row, ScanRow, Told, Outcome, Job, Links, CheckinTypeOK

LEMMA CheckinTypeStep ==
  ASSUME CreditInv, NEW c \in Calls, CallStep(c)
  PROVE  CheckinTypeOK'
<1>0. CheckinTypeOK /\ Carried
  BY DEF CreditInv
<1>1. Thinks(c) \/ Decides(c) \/ Credits(c) \/ Repeats(c) \/ Logs(c)
  BY <1>0, StepKinds
<1>2. pc' \in [Calls -> Steps] /\ job' \in [Calls -> Job]
  BY <1>1 DEF Thinks, Decides, Credits, Repeats, Logs, GoesOn, Settles, Moves
<1>3. TablesTypeOK'
  <2>1. CASE Credits(c)
    BY <2>1, CreditTables
  <2>2. CASE UNCHANGED <<balance, ledger>>
    BY <1>0, <2>2 DEF CheckinTypeOK, TablesTypeOK
  <2> QED BY <1>1, <2>1, <2>2 DEF Thinks, Decides, Repeats, Logs, Quiet
<1>4. attended' \subseteq Attendances
  BY <1>0, <1>1 DEF Thinks, Decides, Credits, Repeats, Logs, Quiet, CheckinTypeOK, Attendances
<1>5. journal' \subseteq ScanRow
  BY <1>0, <1>1, RowTyped DEF Thinks, Decides, Credits, Repeats, Logs, Quiet, CheckinTypeOK
<1>6. told' \subseteq Outcome
  <2>1. \A row \in ScanRow : Told(row) \in Outcome
    BY DEF ScanRow, Told, Outcome
  <2>2. journal \subseteq ScanRow /\ Row(c) \in ScanRow /\ told \subseteq Outcome
    BY <1>0, RowTyped DEF CheckinTypeOK
  <2> QED BY <1>1, <2>1, <2>2 DEF Thinks, Decides, Credits, Repeats, Logs, Quiet
<1> QED BY <1>2, <1>3, <1>4, <1>5, <1>6 DEF CheckinTypeOK, Steps, Job

LEMMA CarriedStep ==
  ASSUME CreditInv, NEW c \in Calls, CallStep(c)
  PROVE  Carried'
<1>1. Thinks(c) \/ Decides(c) \/ Credits(c) \/ Repeats(c) \/ Logs(c)
  BY StepKinds DEF CreditInv
<1>2. Crediting(pc'[c], job'[c]) /\ Moves(c)
  BY <1>1 DEF Thinks, Decides, Credits, Repeats, Logs, GoesOn, Settles, Crediting
<1>3. ASSUME NEW d \in Calls PROVE Crediting(pc'[d], job'[d])
  <2>1. CASE d = c
    BY <1>2, <2>1
  <2>2. CASE d # c
    <3>1. pc'[d] = pc[d] /\ job'[d] = job[d] /\ Crediting(pc[d], job[d])
      BY <1>2, <2>2 DEF Moves, CreditInv, Carried
    <3> QED BY <3>1
  <2> QED BY <2>1, <2>2
<1> QED BY <1>3 DEF Carried

(* A runner's second attendance of the day is never written: the snapshot  *)
(* has none and the commit checks that there still is none.                *)
LEMMA OneCreditStep ==
  ASSUME CreditInv, NEW c \in Calls, CallStep(c)
  PROVE  OneCreditPerDay'
<1>1. Thinks(c) \/ Decides(c) \/ Credits(c) \/ Repeats(c) \/ Logs(c)
  BY StepKinds DEF CreditInv
<1>2. OneCreditPerDay /\ attended \subseteq Attendances
  BY DEF CreditInv, CheckinTypeOK
<1>3. CASE Credits(c)
  <2>1. PICK e, u : e = job[c].event /\ u = Runner(c)
    OBVIOUS
  <2>2. e \in Events /\ u \in Users /\ ~SameDay(u, e) /\ attended' = attended \cup {<<e, u>>}
    BY <1>3, <2>1, CreditWrites
  <2>3. ASSUME NEW a \in attended, a[2] = u, DayOf[a[1]] = DayOf[e] PROVE FALSE
    <3>1. a[1] \in Events /\ a = <<a[1], a[2]>>
      BY <1>2 DEF Attendances
    <3> QED BY <2>2, <2>3, <3>1 DEF SameDay, OnDay
  <2> QED BY <1>2, <2>2, <2>3 DEF OneCreditPerDay
<1>4. CASE attended' = attended
  BY <1>2, <1>4 DEF OneCreditPerDay
<1> QED BY <1>1, <1>3, <1>4 DEF Thinks, Decides, Repeats, Logs, Quiet

(* The award's posting is in the transaction of its attendance.            *)
LEMMA PaidStep ==
  ASSUME CreditInv, NEW c \in Calls, CallStep(c)
  PROVE  PaidIffAttended'
<1>1. Thinks(c) \/ Decides(c) \/ Credits(c) \/ Repeats(c) \/ Logs(c)
  BY StepKinds DEF CreditInv
<1>2. PaidIffAttended /\ TablesTypeOK /\ attended \subseteq Attendances
  BY DEF CreditInv, CheckinTypeOK
<1>3. CASE Credits(c)
  <2>1. PICK e, u : e = job[c].event /\ u = Runner(c)
    OBVIOUS
  <2>2. /\ e \in Events /\ u \in Users /\ <<e, u>> \in Keys /\ Award[e] \in Amounts
        /\ attended' = attended \cup {<<e, u>>}
        /\ \/ Award[e] > 0 /\ PostEntry(u, <<e, u>>, Award[e])
           \/ Award[e] = 0 /\ UNCHANGED <<balance, ledger>>
    BY <1>3, <2>1, CreditWrites
  <2>3. CASE Award[e] > 0 /\ PostEntry(u, <<e, u>>, Award[e])
    <3>1. RowsAfter(u, <<e, u>>, Award[e])
      BY <1>2, <2>2, <2>3, PostEntryRows
    <3>2. (\A x : KeyUsed(x) => KeyUsed(x)') /\ KeyUsed(<<e, u>>)'
      BY <1>2, <2>2, <2>3, PostEntryKeeps
    <3>3. \A a \in attended' : Award[a[1]] > 0 => KeyUsed(a)'
      BY <1>2, <2>2, <3>2 DEF PaidIffAttended
    <3>4. ASSUME NEW v \in Users, NEW i \in DOMAIN ledger'[v]
          PROVE  /\ ledger'[v][i].key \in attended' /\ ledger'[v][i].key[2] = v
                 /\ ledger'[v][i].delta = Award[ledger'[v][i].key[1]]
      <4>1. CASE i \in DOMAIN ledger[v]
        <5>1. ledger'[v][i] = ledger[v][i]
          BY <3>1, <4>1 DEF RowsAfter
        <5> QED BY <1>2, <2>2, <4>1, <5>1 DEF PaidIffAttended
      <4>2. CASE i \notin DOMAIN ledger[v]
        <5>1. v = u /\ ledger'[v][i] = [key |-> <<e, u>>, delta |-> Award[e], after |-> balance[u] + Award[e]]
          BY <3>1, <3>4, <4>2 DEF RowsAfter
        <5> QED BY <2>2, <5>1
      <4> QED BY <4>1, <4>2
    <3> QED BY <3>3, <3>4 DEF PaidIffAttended
  <2>4. CASE Award[e] = 0 /\ UNCHANGED <<balance, ledger>>
    <3>1. \A x : KeyUsed(x)' = KeyUsed(x)
      BY <2>4 DEF KeyUsed
    <3>2. \A a \in attended' : Award[a[1]] > 0 => KeyUsed(a)'
      BY <1>2, <2>2, <2>4, <3>1 DEF PaidIffAttended
    <3> QED BY <1>2, <2>2, <2>4, <3>2 DEF PaidIffAttended
  <2> QED BY <2>2, <2>3, <2>4
<1>4. CASE UNCHANGED <<ledger, attended>>
  BY <1>2, <1>4 DEF PaidIffAttended, KeyUsed
<1> QED BY <1>1, <1>3, <1>4 DEF Thinks, Decides, Repeats, Logs, Quiet

LEMMA CreditStep ==
  ASSUME CreditInv, NEW c \in Calls, CallStep(c)
  PROVE  CreditInv' /\ [Abstract!Next]_ledger
<1>1. Thinks(c) \/ Decides(c) \/ Credits(c) \/ Repeats(c) \/ Logs(c)
  BY StepKinds DEF CreditInv
<1>2. BalanceMatchesLedger' /\ [Abstract!Next]_ledger
  <2>1. CASE Credits(c)
    BY <2>1, CreditTables
  <2>2. CASE UNCHANGED <<balance, ledger>>
    BY <2>2 DEF CreditInv, BalanceMatchesLedger, LastAfter
  <2> QED BY <1>1, <2>1, <2>2 DEF Thinks, Decides, Repeats, Logs, Quiet
<1> QED BY <1>2, CheckinTypeStep, CarriedStep, OneCreditStep, PaidStep DEF CreditInv

LEMMA NextCalls == [Next]_vars => UNCHANGED vars \/ \E c \in Calls : CallStep(c)
BY DEF Next, CallStep

LEMMA StutterCredits == CreditInv /\ UNCHANGED vars => CreditInv' /\ UNCHANGED ledger
BY DEF CreditInv, vars, CheckinTypeOK, TablesTypeOK, Carried, BalanceMatchesLedger, LastAfter,
       OneCreditPerDay, PaidIffAttended, KeyUsed

LEMMA CreditNext == CreditInv /\ [Next]_vars => CreditInv' /\ [Abstract!Next]_ledger
BY NextCalls, StutterCredits, CreditStep

LEMMA CreditInvariant == Spec => []CreditInv
<1>1. CreditInv /\ [Next]_vars => CreditInv'
  BY CreditNext
<1> QED BY <1>1, CreditStart, PTL DEF Spec

(* Every variable of the check-in keeps its type, for any runners, events, *)
(* scans and number of requests.                                           *)
THEOREM CheckinTypeCorrect == Spec => []CheckinTypeOK
BY CreditInvariant, PTL DEF CreditInv

(* However many scanners scan a runner at once, on one day she is credited *)
(* for one event (createAttendanceAndAward).                               *)
THEOREM CreditedOnceADay == Spec => []OneCreditPerDay
BY CreditInvariant, PTL DEF CreditInv

(* Points are posted for exactly the attendances, wherever a request stops *)
(* (awardEventAttendance in the attendance's transaction).                 *)
THEOREM AttendancesArePaid == Spec => []PaidIffAttended
BY CreditInvariant, PTL DEF CreditInv

(* The check-in implements the promised ledger.                            *)
THEOREM CheckinImplementsLedger == Spec => ImplementsLedger
<1>1. Init => Abstract!Init
  BY TablesStart DEF Init
<1>2. CreditInv /\ [Next]_vars => [Abstract!Next]_ledger
  BY CreditNext
<1> QED BY CreditInvariant, <1>1, <1>2, PTL DEF Spec, ImplementsLedger, Abstract!Spec
-----------------------------------------------------------------------------
(* The journal and the answers.  A result that is being recorded, or is in *)
(* the journal, is true of the attendances; a match is recorded by the one *)
(* request that made the attendance, and then by no other; an outcome that *)
(* was told is in the journal.                                             *)
Green == {"matched", "duplicate"}

Matching(c) == pc[c] = "record" /\ job[c].result = "matched"

Match(c) == <<job[c].event, Runner(c)>>

RowMatch(row) == <<row.event, RunnerOf[row.scan]>>

GreenJobs ==
  \A c \in Calls : pc[c] = "record" /\ job[c].result \in Green => SameDay(Runner(c), job[c].event)

GreenRows ==
  \A row \in journal : row.result \in Green => SameDay(RunnerOf[row.scan], row.event)

MatchAttended == \A c \in Calls : Matching(c) => Match(c) \in attended

MatchIsAlone ==
  \A c, d \in Calls : Matching(c) /\ Matching(d) /\ Match(c) = Match(d) => c = d

MatchIsNew ==
  \A c \in Calls, row \in journal : Matching(c) /\ row.linked => RowMatch(row) # Match(c)

LinkedAttended == \A row \in journal : row.linked => RowMatch(row) \in attended

LinkedIsMatch == \A row \in journal : row.linked <=> row.result = "matched"

LinkedOnce ==
  \A row, other \in journal :
    row.linked /\ other.linked /\ RowMatch(row) = RowMatch(other) => row = other

LoggedOnce ==
  \A row, other \in journal : row.scan = other.scan /\ row.scan \notin Manual => row = other

ToldIsLogged == \A t \in told : \E row \in journal : t = Told(row)

JournalInv ==
  /\ GreenJobs /\ GreenRows
  /\ MatchAttended /\ MatchIsAlone /\ MatchIsNew
  /\ LinkedAttended /\ LinkedIsMatch /\ LinkedOnce
  /\ LoggedOnce /\ ToldIsLogged

LEMMA JournalStart == Init => JournalInv
BY DEF Init, JournalInv, GreenJobs, GreenRows, MatchAttended, MatchIsAlone, MatchIsNew, Matching,
       LinkedAttended, LinkedIsMatch, LinkedOnce, LoggedOnce, ToldIsLogged

(* What a day's attendances say stays said.                                *)
LEMMA SameDayStays ==
  ASSUME attended \subseteq attended', NEW u, NEW e, SameDay(u, e)
  PROVE  SameDay(u, e)'
BY DEF SameDay, OnDay

LEMMA OthersMatch ==
  ASSUME NEW c \in Calls, Moves(c), NEW d \in Calls, d # c
  PROVE  /\ Matching(d)' = Matching(d) /\ Match(d)' = Match(d)
         /\ pc'[d] = pc[d] /\ job'[d] = job[d] /\ Runner(d)' = Runner(d)
BY DEF Moves, Matching, Match, Runner

LEMMA KindsMove ==
  ASSUME CheckinTypeOK, Carried, NEW c \in Calls, CallStep(c)
  PROVE  /\ Moves(c) /\ attended \subseteq attended' /\ journal \subseteq journal'
         /\ Thinks(c) \/ Decides(c) \/ Credits(c) \/ Repeats(c) \/ Logs(c)
BY StepKinds DEF Thinks, Decides, Credits, Repeats, Logs, GoesOn, Settles, Quiet

LEMMA GreenJobsStep ==
  ASSUME CreditInv, JournalInv, NEW c \in Calls, CallStep(c)
  PROVE  GreenJobs'
<1>1. /\ Moves(c) /\ attended \subseteq attended'
      /\ Thinks(c) \/ Decides(c) \/ Credits(c) \/ Repeats(c) \/ Logs(c)
  BY KindsMove DEF CreditInv
<1> SUFFICES ASSUME NEW d \in Calls, pc'[d] = "record", job'[d].result \in Green
             PROVE  \E f \in Events : /\ DayOf[f] = DayOf[job'[d].event]
                                     /\ <<f, RunnerOf[job'[d].scan]>> \in attended' \cup Unapproved
  BY DEF GreenJobs, Runner, SameDay, OnDay
<1>2. CASE d # c
  <2>1. pc[d] = "record" /\ job[d].result \in Green /\ job'[d] = job[d]
    BY <1>1, <1>2, OthersMatch
  <2>2. SameDay(RunnerOf[job[d].scan], job[d].event)
    BY <2>1 DEF JournalInv, GreenJobs, Runner
  <2> QED BY <1>1, <2>1, <2>2 DEF SameDay, OnDay
<1>3. CASE d = c
  <2>1. Decides(c) \/ Credits(c)
    BY <1>1, <1>3 DEF Thinks, Repeats, Logs, GoesOn
  <2>2. job'[c].scan = job[c].scan /\ job'[c].event = job[c].event
    BY <2>1 DEF Decides, Credits, Settles
  <2>3. CASE Decides(c)
    <3>1. SameDay(RunnerOf[job[c].scan], job[c].event)
      BY <1>3, <2>3 DEF Decides, Settles, Green, Runner
    <3> QED BY <1>1, <1>3, <2>2, <3>1 DEF SameDay, OnDay
  <2>4. CASE Credits(c)
    <3>1. job[c].event \in Events /\ <<job[c].event, RunnerOf[job[c].scan]>> \in attended'
      BY <2>4 DEF Credits, Runner
    <3> QED BY <1>3, <2>2, <3>1 DEF SameDay, OnDay
  <2> QED BY <2>1, <2>3, <2>4
<1> QED BY <1>2, <1>3

LEMMA GreenRowsStep ==
  ASSUME CreditInv, JournalInv, NEW c \in Calls, CallStep(c)
  PROVE  GreenRows'
<1>1. /\ attended \subseteq attended'
      /\ Thinks(c) \/ Decides(c) \/ Credits(c) \/ Repeats(c) \/ Logs(c)
  BY KindsMove DEF CreditInv
<1> SUFFICES ASSUME NEW row \in journal', row.result \in Green
             PROVE  SameDay(RunnerOf[row.scan], row.event)'
  BY DEF GreenRows
<1>2. CASE row \in journal
  <2>1. SameDay(RunnerOf[row.scan], row.event)
    BY <1>2 DEF JournalInv, GreenRows
  <2> QED BY <1>1, <2>1 DEF SameDay, OnDay
<1>3. CASE row \notin journal
  <2>1. Logs(c) /\ row = Row(c)
    BY <1>1, <1>3 DEF Thinks, Decides, Credits, Repeats, Logs, Quiet
  <2>2. SameDay(RunnerOf[job[c].scan], job[c].event)
    BY <2>1 DEF JournalInv, GreenJobs, Logs, Row, Runner
  <2>3. SameDay(RunnerOf[row.scan], row.event)
    BY <2>1, <2>2 DEF Row
  <2> QED BY <1>1, <2>3 DEF SameDay, OnDay
<1> QED BY <1>2, <1>3

(* A request that starts to record a match has just made the attendance:   *)
(* it was not there, so nobody records or has recorded it.                 *)
LEMMA MatchesStep ==
  ASSUME CreditInv, JournalInv, NEW c \in Calls, CallStep(c)
  PROVE  MatchAttended' /\ MatchIsAlone' /\ MatchIsNew'
<1>1. /\ Moves(c) /\ attended \subseteq attended'
      /\ Thinks(c) \/ Decides(c) \/ Credits(c) \/ Repeats(c) \/ Logs(c)
  BY KindsMove DEF CreditInv
<1>2. ASSUME NEW d \in Calls, d # c
      PROVE  Matching(d)' = Matching(d) /\ Match(d)' = Match(d)
  BY <1>1, <1>2, OthersMatch
<1>3. MatchAttended /\ MatchIsAlone /\ MatchIsNew /\ LinkedAttended
  BY DEF JournalInv
<1>4. CASE Credits(c)
  <2>1. Match(c)' = Match(c) /\ Matching(c)' /\ journal' = journal
    BY <1>4 DEF Credits, Settles, Match, Matching, Runner
  <2>2. Match(c) \notin attended /\ attended' = attended \cup {Match(c)}
    <3>1. PICK e, u : e = job[c].event /\ u = Runner(c)
      OBVIOUS
    <3> QED BY <1>4, <3>1, CreditWrites DEF Match
  <2>3. MatchAttended'
    <3>1. ASSUME NEW d \in Calls, Matching(d)' PROVE Match(d)' \in attended'
      BY <1>2, <1>3, <2>1, <2>2, <3>1 DEF MatchAttended
    <3> QED BY <3>1 DEF MatchAttended
  <2>4. MatchIsAlone'
    <3>1. ASSUME NEW d \in Calls, d # c, Matching(d)' PROVE Match(d)' # Match(c)'
      BY <1>2, <1>3, <2>1, <2>2, <3>1 DEF MatchAttended
    <3>2. ASSUME NEW d \in Calls, NEW b \in Calls, d # c, b # c, Matching(d)', Matching(b)',
                 Match(d)' = Match(b)'
          PROVE  d = b
      BY <1>2, <1>3, <3>2 DEF MatchIsAlone
    <3> QED BY <3>1, <3>2 DEF MatchIsAlone
  <2>5. MatchIsNew'
    <3>1. ASSUME NEW d \in Calls, NEW row \in journal', Matching(d)', row.linked
          PROVE  RowMatch(row) # Match(d)'
      BY <1>2, <1>3, <2>1, <2>2, <3>1 DEF MatchIsNew, LinkedAttended
    <3> QED BY <3>1 DEF MatchIsNew, RowMatch
  <2> QED BY <2>3, <2>4, <2>5
<1>5. CASE Decides(c) \/ Thinks(c) \/ Repeats(c) \/ Logs(c)
  <2>1. ~Matching(c)'
    BY <1>5 DEF Decides, Thinks, Repeats, Logs, GoesOn, Settles, Matching
  <2>2. MatchAttended'
    <3>1. ASSUME NEW d \in Calls, Matching(d)' PROVE Match(d)' \in attended'
      BY <1>1, <1>2, <1>3, <2>1, <3>1 DEF MatchAttended
    <3> QED BY <3>1 DEF MatchAttended
  <2>3. MatchIsAlone'
    <3>1. ASSUME NEW d \in Calls, NEW b \in Calls, Matching(d)', Matching(b)', Match(d)' = Match(b)'
          PROVE  d = b
      BY <1>2, <1>3, <2>1, <3>1 DEF MatchIsAlone
    <3> QED BY <3>1 DEF MatchIsAlone
  <2>4. MatchIsNew'
    <3>1. ASSUME NEW d \in Calls, NEW row \in journal', Matching(d)', row.linked
          PROVE  RowMatch(row) # Match(d)'
      <4>1. d # c /\ Matching(d) /\ Match(d)' = Match(d)
        BY <1>2, <2>1, <3>1
      <4>2. CASE row \in journal
        BY <1>3, <3>1, <4>1, <4>2 DEF MatchIsNew
      <4>3. CASE row \notin journal
        <5>1. Logs(c) /\ row = Row(c)
          BY <1>5, <4>3 DEF Thinks, Decides, Repeats, Logs, Quiet
        <5>2. Matching(c) /\ RowMatch(row) = Match(c)
          BY <3>1, <5>1 DEF Logs, Row, Links, Matching, RowMatch, Match, Runner
        <5> QED BY <1>3, <4>1, <5>2 DEF MatchIsAlone
      <4> QED BY <4>2, <4>3
    <3> QED BY <3>1 DEF MatchIsNew, RowMatch
  <2> QED BY <2>2, <2>3, <2>4
<1> QED BY <1>1, <1>4, <1>5

LEMMA RowsStep ==
  ASSUME CreditInv, JournalInv, NEW c \in Calls, CallStep(c)
  PROVE  LinkedAttended' /\ LinkedIsMatch' /\ LinkedOnce' /\ LoggedOnce' /\ ToldIsLogged'
<1>1. /\ attended \subseteq attended'
      /\ Thinks(c) \/ Decides(c) \/ Credits(c) \/ Repeats(c) \/ Logs(c)
  BY KindsMove DEF CreditInv
<1>2. MatchAttended /\ LinkedAttended /\ LinkedIsMatch /\ LinkedOnce /\ LoggedOnce /\ ToldIsLogged
  BY DEF JournalInv
<1>3. CASE Logs(c)
  <2> DEFINE new == Row(c)
  <2>1. journal' = journal \cup {new} /\ told' = told \cup {Told(new)} /\ Insertable(new)
    BY <1>3 DEF Logs
  <2>2. (new.linked <=> new.result = "matched") /\ (new.linked => RowMatch(new) \in attended)
    BY <1>2, <1>3 DEF Row, Links, Logs, MatchAttended, Matching, Match, RowMatch, Runner
  <2>3. /\ new.scan \notin Manual => \A row \in journal : row.scan # new.scan
        /\ new.linked => \A row \in journal : row.linked => RowMatch(row) # RowMatch(new)
    BY <2>1 DEF Insertable, RowsOf, RowMatch
  <2> HIDE DEF new
  <2>4. LinkedAttended'
    BY <1>1, <1>2, <2>1, <2>2 DEF LinkedAttended, RowMatch
  <2>5. LinkedIsMatch'
    BY <1>2, <2>1, <2>2 DEF LinkedIsMatch
  <2>6. LinkedOnce'
    BY <1>2, <2>1, <2>3 DEF LinkedOnce, RowMatch
  <2>7. LoggedOnce'
    BY <1>2, <2>1, <2>3 DEF LoggedOnce
  <2>8. ToldIsLogged'
    BY <1>2, <2>1 DEF ToldIsLogged, Told
  <2> QED BY <2>4, <2>5, <2>6, <2>7, <2>8
<1>4. CASE Thinks(c) \/ Decides(c) \/ Credits(c) \/ Repeats(c)
  <2>1. journal' = journal
    BY <1>4 DEF Thinks, Decides, Credits, Repeats, Quiet
  <2>2. told' = told \/ \E row \in journal : told' = told \cup {Told(row)}
    BY <1>4 DEF Thinks, Decides, Credits, Repeats, Quiet
  <2>3. LinkedAttended' /\ LinkedIsMatch' /\ LinkedOnce' /\ LoggedOnce'
    BY <1>1, <1>2, <2>1 DEF LinkedAttended, LinkedIsMatch, LinkedOnce, LoggedOnce, RowMatch
  <2>4. ToldIsLogged'
    BY <1>2, <2>1, <2>2 DEF ToldIsLogged, Told
  <2> QED BY <2>3, <2>4
<1> QED BY <1>1, <1>3, <1>4

LEMMA StutterJournal == JournalInv /\ UNCHANGED vars => JournalInv'
BY DEF JournalInv, vars, GreenJobs, GreenRows, MatchAttended, MatchIsAlone, MatchIsNew, Matching,
       Match, Runner, SameDay, OnDay, LinkedAttended, LinkedIsMatch, LinkedOnce, LoggedOnce, ToldIsLogged, RowMatch

LEMMA JournalInvariant == Spec => [](CreditInv /\ JournalInv)
<1>1. CreditInv /\ JournalInv /\ [Next]_vars => JournalInv'
  BY NextCalls, StutterJournal, GreenJobsStep, GreenRowsStep, MatchesStep, RowsStep DEF JournalInv
<1> QED BY <1>1, CreditStart, JournalStart, CreditNext, PTL DEF Spec

(* A green light is earned, but for a duplicate of an attendance without   *)
(* approval, and an attendance is the match of one scan only               *)
(* (checkin_scans.attendance_id is unique).                                *)
THEOREM GreenLightsAreEarned == Spec => []GreenIsCredited
<1>1. CreditInv /\ JournalInv => GreenIsCredited
  <2> SUFFICES ASSUME CreditInv, JournalInv PROVE GreenIsCredited
    OBVIOUS
  <2>1. ASSUME NEW t \in told,
               \/ t.result = "matched"
               \/ t.result = "duplicate" /\ ~OnDay(Unapproved, RunnerOf[t.scan], t.event)
        PROVE  OnDay(attended, RunnerOf[t.scan], t.event)
    <3>1. PICK row \in journal : t = Told(row)
      BY DEF JournalInv, ToldIsLogged
    <3>2. CASE t.result = "matched"
      <4>1. row.linked
        BY <3>1, <3>2 DEF JournalInv, LinkedIsMatch, Told
      <4>2. <<row.event, RunnerOf[row.scan]>> \in attended
        BY <4>1 DEF JournalInv, LinkedAttended, RowMatch
      <4>3. row.event \in Events
        BY <4>2 DEF CreditInv, CheckinTypeOK, Attendances
      <4> QED BY <3>1, <4>2, <4>3 DEF Told, OnDay
    <3>3. CASE t.result = "duplicate" /\ ~OnDay(Unapproved, RunnerOf[t.scan], t.event)
      <4>1. SameDay(RunnerOf[t.scan], t.event)
        BY <3>1, <3>3 DEF JournalInv, GreenRows, Green, Told
      <4> QED BY <3>3, <4>1 DEF SameDay, OnDay
    <3> QED BY <2>1, <3>2, <3>3
  <2>2. ASSUME NEW t \in told, NEW o \in told, t.result = "matched", o.result = "matched",
               t.event = o.event, RunnerOf[t.scan] = RunnerOf[o.scan]
        PROVE  t.scan = o.scan
    <3>1. PICK row \in journal : t = Told(row)
      BY DEF JournalInv, ToldIsLogged
    <3>2. PICK other \in journal : o = Told(other)
      BY DEF JournalInv, ToldIsLogged
    <3>3. row.linked /\ other.linked /\ RowMatch(row) = RowMatch(other)
      BY <2>2, <3>1, <3>2 DEF JournalInv, LinkedIsMatch, Told, RowMatch
    <3>4. row = other
      BY <3>3 DEF JournalInv, LinkedOnce
    <3> QED BY <3>1, <3>2, <3>4 DEF Told
  <2> QED BY <2>1, <2>2 DEF GreenIsCredited, Green
<1> QED BY <1>1, JournalInvariant, PTL

(* A scan delivered again, even while its first delivery is under way, is  *)
(* answered alike (the unique device and scan id of checkin_scans).        *)
THEOREM ReplaysAgree == Spec => []ReplayIsTheOutcome
<1>1. CreditInv /\ JournalInv => ReplayIsTheOutcome
  <2> SUFFICES ASSUME JournalInv, NEW t \in told, NEW o \in told, t.scan = o.scan, t.scan \notin Manual
               PROVE  t = o
    BY DEF ReplayIsTheOutcome
  <2>1. PICK row \in journal : t = Told(row)
    BY DEF JournalInv, ToldIsLogged
  <2>2. PICK other \in journal : o = Told(other)
    BY DEF JournalInv, ToldIsLogged
  <2>3. row = other
    BY <2>1, <2>2 DEF JournalInv, LoggedOnce, Told
  <2> QED BY <2>1, <2>2, <2>3
<1> QED BY <1>1, JournalInvariant, PTL

(* recordScan never fails on another scan's attendance: a scan that gets   *)
(* that far is in the journal.                                             *)
THEOREM ScansAreLogged == Spec => EveryScanLogged
<1> DEFINE Logged == \A c \in Calls : pc[c] = "record" /\ RecordScan(c)
                        => \E row \in journal' : row.scan = job[c].scan
<1>1. CreditInv /\ JournalInv => Logged
  <2> SUFFICES ASSUME JournalInv, NEW c \in Calls, pc[c] = "record", RecordScan(c)
               PROVE  \E row \in journal' : row.scan = job[c].scan
    OBVIOUS
  <2>1. Row(c).scan = job[c].scan
    BY DEF Row
  <2>2. CASE journal' = journal \cup {Row(c)}
    BY <2>1, <2>2
  <2>3. CASE journal' = journal /\ RowsOf(job[c].scan) # {}
    BY <2>3 DEF RowsOf
  <2>4. CASE ~Insertable(Row(c)) /\ (job[c].scan \in Manual \/ RowsOf(job[c].scan) = {})
    <3>1. PICK other \in journal : /\ Row(c).linked /\ other.linked
                                   /\ other.event = Row(c).event
                                   /\ RunnerOf[other.scan] = RunnerOf[Row(c).scan]
      BY <2>1, <2>4 DEF Insertable
    <3>2. Matching(c) /\ RowMatch(other) = Match(c)
      BY <3>1 DEF Row, Links, Matching, RowMatch, Match, Runner
    <3> QED BY <3>1, <3>2 DEF JournalInv, MatchIsNew
  <2> QED BY <2>2, <2>3, <2>4 DEF RecordScan, Row
<1> QED BY <1>1, JournalInvariant, PTL DEF EveryScanLogged
=============================================================================
