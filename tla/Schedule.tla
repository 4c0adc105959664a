------------------------------- MODULE Schedule -------------------------------
(***************************************************************************)
(* The requests that turn an occurrence into an event row: a member says   *)
(* she is going (EventInterestsService.markGoing), a scanner finds the run *)
(* that is open (findOpenCheckinOccurrence).  Both end in                  *)
(* ensureMaterializedEvent, several overlap, and administrators edit       *)
(* rules, specials, events and locations in between.  Each step is one     *)
(* read or one transaction.                                                *)
(*                                                                         *)
(* How a scan is credited is Checkin's subject; here it attends at once.   *)
(***************************************************************************)
EXTENDS Occurrences

CONSTANTS
  Users,
  Requests,     \* what users and scanners may ask
  Calls,        \* slots for requests in flight
  SerialRsvps,  \* a member's own requests do not overlap
  MaxCalls,     \* bound on requests that end
  Horizon       \* instants at which the public's windows open and close

Keys == (Rules \X Dates) \cup Specials

(* date: of the key; for a scan, at: its time.                             *)
Request == [kind : {"rsvp", "scan"}, user : Users, key : Keys, location : Locations, at : Nat]

ASSUME ScheduleConstants ==
  /\ Requests \subseteq Request /\ Requests # {}
  /\ Rules \X Dates # {}
  /\ SerialRsvps \in BOOLEAN /\ MaxCalls \in Nat
  /\ Horizon \subseteq Int

VARIABLES
  interests,  \* event_interests: going or cancelled, per user and key
  attended,   \* event_attendances, by user and row id
  pc,
  job,        \* the request of each call and what it has read
  told,       \* rows that requests have been given for an occurrence
  calls,      \* requests so far
  standing    \* a history: the claims that have stood since each call was asked

vars == <<tables, interests, attended, pc, job, told, calls, standing>>

(* Places that an announced event claims for a day.                        *)
Claims == UNION {e.excludes \X {Day(e.start)} : e \in Announced}

NoJob == [request |-> CHOOSE q \in Requests : TRUE, occurrence |-> CHOOSE o \in Rules \X Dates : TRUE,
          start |-> 0, locations |-> {}]

Steps == {"idle", "assert", "open", "find", "rule", "exclude", "create", "conflicts", "save"}

ScheduleTypeOK ==
  /\ TablesTypeOK
  /\ interests \in [Users \X Keys -> {"none", "going", "cancelled"}]
  /\ attended \subseteq Users \X {row.id : row \in rows}
  /\ pc \in [Calls -> Steps]
  /\ job \in [Calls -> [request : Requests, occurrence : Rules \X Int, start : Int,
                        locations : SUBSET Locations]]
  /\ told \subseteq [occurrence : Rules \X Int, id : {row.id : row \in rows}]
  /\ calls \in 0..MaxCalls
  /\ standing \in [Calls -> SUBSET (Locations \X Int)]

Init ==
  /\ TablesInit
  /\ interests = [x \in Users \X Keys |-> "none"]
  /\ attended = {}
  /\ pc = [c \in Calls |-> "idle"]
  /\ job = [c \in Calls |-> NoJob]
  /\ told = {} /\ calls = 0
  /\ standing = [c \in Calls |-> {}]

-----------------------------------------------------------------------------
Goto(c, step) == pc' = [pc EXCEPT ![c] = step] /\ UNCHANGED standing

End(c) ==
  /\ pc' = [pc EXCEPT ![c] = "idle"] /\ job' = [job EXCEPT ![c] = NoJob]
  /\ standing' = [standing EXCEPT ![c] = {}]

(* A NotFoundException, a conflict, or any other failure: nothing written. *)
Refuse(c) == End(c) /\ UNCHANGED <<tables, interests, attended, told>>

Busy(u) == \E c \in Calls : pc[c] # "idle" /\ job[c].request.user = u

Ask(c, q) ==
  /\ pc[c] = "idle"
  /\ calls < MaxCalls /\ calls' = calls + 1
  /\ q.kind = "rsvp" /\ SerialRsvps => ~Busy(q.user)
  /\ job' = [job EXCEPT ![c].request = q]
  /\ pc' = [pc EXCEPT ![c] = IF q.kind = "scan" THEN "open" ELSE "assert"]
  /\ standing' = [standing EXCEPT ![c] = Claims]
  /\ UNCHANGED <<tables, interests, attended, told>>

(* assertEventExists, assertLocationActive: a rule's date is taken on      *)
(* trust here.                                                             *)
CheckKey(c) ==
  LET q == job[c].request IN
  /\ pc[c] = "assert"
  /\ UNCHANGED calls
  /\ \/ q.location \notin active /\ Refuse(c)
     \/ /\ q.location \in active /\ q.key \in Specials
        /\ \/ specials[q.key].published /\ Goto(c, "conflicts")
                /\ UNCHANGED <<tables, interests, attended, job, told>>
           \/ ~specials[q.key].published /\ Refuse(c)
     \/ /\ q.location \in active /\ q.key \notin Specials
        /\ \/ /\ rules[q.key[1]].active
              /\ Goto(c, "find") /\ job' = [job EXCEPT ![c].occurrence = q.key]
              /\ UNCHANGED <<tables, interests, attended, told>>
           \/ ~rules[q.key[1]].active /\ Refuse(c)

(* findOpenCheckinOccurrence: the preferred of the rules open to the scan; *)
(* its date is the UTC day of its start.                                   *)
FindOpen(c) ==
  LET q    == job[c].request
      open == {r \in Rules : OpenTo(rules[r], q.location, q.at, active)} IN
  /\ pc[c] = "open"
  /\ UNCHANGED calls
  /\ \/ open = {} /\ Refuse(c)
     \/ \E r \in open :
          /\ \A other \in open : Preferred(rules[r], rules[other], q.at)
          /\ job' = [job EXCEPT ![c].occurrence =
                       <<r, Day(Compose(rules[r], LocalDay(q.at)))>>]
          /\ Goto(c, "find")
          /\ UNCHANGED <<tables, interests, attended, told>>

(* A scan's attendance: one on a calendar day, whichever event it was.     *)
Attend(u, row) ==
  attended' = IF \E other \in rows :
                   /\ <<u, other.id>> \in attended
                   /\ LocalDay(other.start) = LocalDay(row.start)
                THEN attended ELSE attended \cup {<<u, row.id>>}

(* The request has the row of its occurrence.                              *)
Got(c, row) ==
  /\ told' = told \cup {[occurrence |-> job[c].occurrence, id |-> row.id]}
  /\ IF job[c].request.kind = "scan"
       THEN Attend(job[c].request.user, row) /\ End(c)
       ELSE Goto(c, "conflicts") /\ UNCHANGED <<attended, job>>
  /\ UNCHANGED interests

(* ensureMaterializedEvent: the row there is, whatever has become of it.   *)
Find(c) ==
  LET own == RowsAt(job[c].occurrence[1], job[c].occurrence[2]) IN
  /\ pc[c] = "find"
  /\ \/ own = {} /\ Goto(c, "rule") /\ UNCHANGED <<interests, attended, job, told>>
     \/ \E row \in own : Got(c, row)
  /\ UNCHANGED <<tables, calls>>

(* The rule is read again, and its date checked against the weekday.       *)
ReadRule(c) ==
  LET r     == job[c].occurrence[1]
      start == Compose(rules[r], job[c].occurrence[2]) IN
  /\ pc[c] = "rule"
  /\ UNCHANGED calls
  /\ \/ /\ rules[r].active /\ Weekday(start) = rules[r].dow
        /\ job' = [job EXCEPT ![c].start = start, ![c].locations = RuleLocations(r)]
        /\ Goto(c, "exclude")
        /\ UNCHANGED <<tables, interests, attended, told>>
     \/ ~(rules[r].active /\ Weekday(start) = rules[r].dow) /\ Refuse(c)

(* The specials of the day are not looked at.                              *)
MutantExclude(c) ==
  /\ pc[c] = "exclude"
  /\ Goto(c, "create")
  /\ UNCHANGED <<tables, interests, attended, job, told, calls>>

(* What same-day specials pull out; a run with no location left is none.   *)
Exclude(c) ==
  LET rest == job[c].locations \ Excluded(Day(job[c].start)) IN
  /\ pc[c] = "exclude"
  /\ UNCHANGED calls
  /\ \/ /\ rest # {}
        /\ job' = [job EXCEPT ![c].locations = rest] /\ Goto(c, "create")
        /\ UNCHANGED <<tables, interests, attended, told>>
     \/ rest = {} /\ Refuse(c)

NewRow(c) ==
  [id |-> Cardinality(rows) + 1, rule |-> job[c].occurrence[1], date |-> job[c].occurrence[2],
   start |-> job[c].start, published |-> TRUE, locations |-> job[c].locations, excludes |-> {}]

(* The table has no unique index on rule and date.                         *)
MutantCreate(c) ==
  /\ pc[c] = "create"
  /\ rows' = rows \cup {NewRow(c)} /\ Got(c, NewRow(c))
  /\ UNCHANGED <<rules, specials, active, edits, calls>>

(* The answer is given although the transaction is rolled back.            *)
MutantRollback(c) ==
  /\ pc[c] = "create"
  /\ Got(c, NewRow(c))
  /\ UNCHANGED <<tables, calls>>

(* Event and sync rule in one transaction.  The unique index on rule and   *)
(* date refuses the second of two; it takes the first one's row.           *)
Create(c) ==
  LET own == RowsAt(job[c].occurrence[1], job[c].occurrence[2]) IN
  /\ pc[c] = "create"
  /\ \/ own = {} /\ rows' = rows \cup {NewRow(c)} /\ Got(c, NewRow(c))
     \/ UNCHANGED rows /\ \E row \in own : Got(c, row)
  /\ UNCHANGED <<rules, specials, active, edits, calls>>

-----------------------------------------------------------------------------
(* eventKeyToDate: a rule's key carries its date, a special has the local  *)
(* date of its start.                                                      *)
DateOf(key) == IF key \in Specials THEN LocalDay(specials[key].start) ELSE key[2]

Going(u) == {key \in Keys : interests[<<u, key>>] = "going"}

(* A member who has been on the list of the event is let in again.         *)
MutantConflicts(c) ==
  LET q == job[c].request IN
  /\ pc[c] = "conflicts"
  /\ UNCHANGED calls
  /\ IF /\ interests[<<q.user, q.key>>] = "none"
        /\ \E key \in Going(q.user) \ {q.key} : DateOf(key) = DateOf(q.key)
       THEN Refuse(c)
       ELSE Goto(c, "save") /\ UNCHANGED <<tables, interests, attended, job, told>>

(* assertNoConflictingInterest: she goes to no other event on that date.   *)
Conflicts(c) ==
  LET q == job[c].request IN
  /\ pc[c] = "conflicts"
  /\ UNCHANGED calls
  /\ IF \E key \in Going(q.user) \ {q.key} : DateOf(key) = DateOf(q.key)
       THEN Refuse(c)
       ELSE Goto(c, "save") /\ UNCHANGED <<tables, interests, attended, job, told>>

(* The row is created, or set to going again.                              *)
Save(c) ==
  LET q == job[c].request IN
  /\ pc[c] = "save"
  /\ interests' = [interests EXCEPT ![<<q.user, q.key>>] = "going"]
  /\ End(c)
  /\ UNCHANGED <<tables, attended, told, calls>>

(* cancel: one conditional update.                                         *)
Cancel(u, key) ==
  /\ interests[<<u, key>>] = "going"
  /\ SerialRsvps => ~Busy(u)
  /\ interests' = [interests EXCEPT ![<<u, key>>] = "cancelled"]
  /\ UNCHANGED <<tables, attended, pc, job, told, calls, standing>>

(* The process stops, or a query fails. *)
Stop(c) == pc[c] # "idle" /\ Refuse(c) /\ UNCHANGED calls

Next ==
  \/ \E c \in Calls :
       \/ \E q \in Requests : Ask(c, q)
       \/ CheckKey(c) \/ FindOpen(c) \/ Find(c) \/ ReadRule(c) \/ Exclude(c) \/ Create(c)
       \/ Conflicts(c) \/ Save(c) \/ Stop(c)
  \/ \E u \in Users, key \in Keys : Cancel(u, key)
  \/ /\ Administrate
     /\ standing' = [c \in Calls |-> standing[c] \cap Claims']
     /\ UNCHANGED <<interests, attended, pc, job, told, calls>>

Spec == Init /\ [][Next]_vars

-----------------------------------------------------------------------------
(* me-timeline: the cells of the dates that have a card in [t, to], and    *)
(* which of them are done: an attendance of any row behind the date's      *)
(* cards.                                                                  *)
DoneDates(u, t, to) ==
  {LocalDay(card.start) : card \in {x \in RuleCards(t, to) :
     \E row \in RowsAt(x.key[1], x.key[2]) : <<u, row.id>> \in attended}}

-----------------------------------------------------------------------------
(* However many members and scanners materialize an occurrence at once,    *)
(* all of them are given one row for it: attendances and RSVPs of one run  *)
(* never spread over two events.                                           *)
OneRowPerOccurrence ==
  \A a, b \in told : a.occurrence = b.occurrence => a.id = b.id

(* A member is going to one event on a date, through cancelling and going  *)
(* again, as long as her own requests do not overlap and no special moves. *)
OneRsvpPerDate ==
  \A u \in Users : \A a, b \in Going(u) : DateOf(a) = DateOf(b) => a = b

(* However the schedule is edited around the request that materializes a   *)
(* run, the new event starts from no place that an announced event of the  *)
(* day has claimed without a break since the request was asked.  A place   *)
(* claimed while the request is under way may slip in: the claims are read *)
(* before the transaction that writes the event.                           *)
ExclusionsRespected ==
  [][\A c \in Calls : pc[c] = "create" /\ pc'[c] # "create" =>
       \A row \in rows' \ rows :
         standing[c] \cap (row.locations \X {Day(row.start)}) = {}]_vars

(* The list and the page of an occurrence, in every window and across both *)
(* clocks.  Each card opens, with the start and the places it shows, but   *)
(* for what the code shows differently: a row that is cancelled, lies      *)
(* outside the window or has no place of its own, an event of the day      *)
(* outside the window.                                                     *)
SameStory(c, t, to) ==
  LET r == c.key[1]
      d == c.key[2] IN
  /\ Opens(rules[r], d)
  /\ (\A row \in RowsAt(r, d) : Published(row, t, to) /\ row.locations \cap active # {})
       => /\ Page(r, d).start = c.start
          /\ Excluded(d) = ExcludedIn(d, t, to) => Page(r, d).locations = c.locations

(* A run whose page opens at a start and a place the window should show.   *)
Due(r, d, t, to) ==
  /\ Opens(rules[r], d) /\ Compose(rules[r], d) \in t..to
  /\ \A row \in RowsAt(r, Day(Compose(rules[r], d))) : Published(row, t, to)
  /\ Page(r, d).locations # {}

(* Windows that open after midnight of a rule's last day are not shown it. *)
Ended(r, t) == rules[r].until # Never /\ Midnight(rules[r].until) < t

(* Two faults of the code bound the agreement, and nothing else does.  A   *)
(* card is keyed by the UTC date, so that of a run before UTC's midnight   *)
(* opens no page.  And a run that is due has its card unless the window    *)
(* opens after midnight of the rule's last day: it is then missing, though *)
(* its page opens and it is still to come.                                 *)
StoriesAgree(t, to) ==
  LET cards == RuleCards(t, to) IN
  /\ \A c \in cards : IF rules[c.key[1]].tod >= Offset
                        THEN SameStory(c, t, to) ELSE ~Opens(rules[c.key[1]], c.key[2])
  /\ \A r \in Rules, d \in Dates : Due(r, d, t, to) =>
       ((\E c \in cards : c.key = <<r, Day(Compose(rules[r], d))>>) <=> ~Ended(r, t))

(* Stated between requests, which change no table but in their last steps. *)
ListAgreesWithPage ==
  (\A c \in Calls : pc[c] = "idle") => \A t, to \in Horizon : t <= to => StoriesAgree(t, to)

(* A run she was checked in at is done on her timeline, not skipped, until *)
(* somebody edits the schedule.                                            *)
CheckedInIsDone ==
  edits = 0 =>
    \A row \in rows, u \in Users :
      <<u, row.id>> \in attended /\ InRange(rules[row.rule], row.start)
        => LocalDay(row.start) \in
             DoneDates(u, Midnight(LocalDay(row.start)) - Offset,
                          Midnight(LocalDay(row.start) + 1) - Offset - 1)
=============================================================================
