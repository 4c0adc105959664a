------------------------------- MODULE Calendar -------------------------------
(***************************************************************************)
(* The two clocks of event-occurrence.service.ts.  An instant is an        *)
(* integer; the server's zone is Offset ahead of UTC (Asia/Yekaterinburg). *)
(* dayOnly, the dates of a rule and the keys rule:<id>:<date> are UTC      *)
(* days, weekdays and times of day are local.  A day has DayLen instants   *)
(* and a week WeekLen days: small ones have every boundary the real ones   *)
(* have.                                                                   *)
(***************************************************************************)
EXTENDS Integers

CONSTANTS
  DayLen,
  WeekLen,
  Offset,      \* local time is UTC + Offset
  OpenBefore,  \* CHECKIN_OPEN_BEFORE_MS
  OpenAfter    \* CHECKIN_OPEN_AFTER_MS

ASSUME CalendarConstants ==
  /\ DayLen \in Nat \ {0} /\ WeekLen \in Nat \ {0}
  /\ Offset \in 0..(DayLen - 1)
  /\ OpenBefore \in Nat /\ OpenAfter \in Nat

Never == -1   \* endsAtDate null

(* A recurrence rule: its dates from and until are UTC midnights, dow a    *)
(* day of the week and tod a time of the day, as the DTO demands.          *)
RuleOf(Locations) ==
  [active : BOOLEAN, type : {"special", "partner", "regular"}, eligible : BOOLEAN,
   dow : 0..(WeekLen - 1), tod : 0..(DayLen - 1), duration : Nat, from : Nat, until : Nat \cup {Never},
   locations : SUBSET Locations]

Midnight(d) == d * DayLen
Day(t)      == t \div DayLen
LocalDay(t) == (t + Offset) \div DayLen
Weekday(t)  == LocalDay(t) % WeekLen

(* The instant of the rule's time of day on the local date d.              *)
Compose(rule, d) == Midnight(d) - Offset + rule.tod

EndOf(rule, start) == start + rule.duration

(* Compares by instant: an occurrence later than midnight of the last day  *)
(* is past the end.                                                        *)
MutantInRange(rule, start) ==
  /\ start >= Midnight(rule.from)
  /\ rule.until = Never \/ start <= Midnight(rule.until)

(* Within the rule's dates, the last day included.                         *)
InRange(rule, start) ==
  /\ start >= Midnight(rule.from)
  /\ rule.until = Never \/ Day(start) <= rule.until

(* getRuleOccurrenceById opens the key of date d.                          *)
Opens(rule, d) ==
  LET start == Compose(rule, d) IN
  rule.active /\ Weekday(start) = rule.dow /\ InRange(rule, start)

(* The first local date on or after t's that has the rule's weekday.       *)
NextDate(rule, t) ==
  CHOOSE d \in LocalDay(t)..(LocalDay(t) + WeekLen) :
    /\ d % WeekLen = rule.dow
    /\ \A e \in LocalDay(t)..(d - 1) : e % WeekLen # rule.dow

FirstOnOrAfter(rule, t) ==
  LET base  == IF Midnight(rule.from) > t THEN Midnight(rule.from) ELSE t
      start == Compose(rule, NextDate(rule, base)) IN
  IF start < t THEN start + WeekLen * DayLen ELSE start

(* The walk stops at midnight of the last day, before its run.             *)
MutantStartsIn(rule, t, to) ==
  LET first == FirstOnOrAfter(rule, t)
      last  == IF rule.until # Never /\ Midnight(rule.until) < to THEN Midnight(rule.until) ELSE to IN
  IF rule.active /\ Midnight(rule.from) <= to
    THEN {s \in first..last : (s - first) % (WeekLen * DayLen) = 0}
    ELSE {}

(* The starts listInRange walks through.  The end of a rule's last day     *)
(* counts, but only a rule whose last midnight is not before t is read.    *)
StartsIn(rule, t, to) ==
  LET first == FirstOnOrAfter(rule, t)
      last  == IF rule.until # Never /\ Midnight(rule.until) < to
                 THEN Midnight(rule.until + 1) - 1 ELSE to IN
  IF /\ rule.active /\ Midnight(rule.from) <= to
     /\ rule.until = Never \/ Midnight(rule.until) >= t
    THEN {s \in first..last : (s - first) % (WeekLen * DayLen) = 0}
    ELSE {}

(* findOpenCheckinOccurrence: the rule's occurrence on the local day of t  *)
(* is open to a scan at location l.                                        *)
OpenTo(rule, l, t, active) ==
  LET start == Compose(rule, LocalDay(t)) IN
  /\ rule.active /\ rule.eligible
  /\ l \in rule.locations \cap active
  /\ rule.dow = Weekday(t)
  /\ Midnight(rule.from) <= t
  /\ rule.until = Never \/ rule.until >= Day(t)
  /\ t \in (start - OpenBefore)..(EndOf(rule, start) + OpenAfter)

Rank(type) == CASE type = "special" -> 0 [] type = "partner" -> 1 [] type = "regular" -> 2

Distance(a, b) == IF a < b THEN b - a ELSE a - b

(* Special before partner before regular, then the nearest start.          *)
Preferred(rule, other, t) ==
  LET start(r) == Compose(r, LocalDay(t)) IN
  \/ Rank(rule.type) < Rank(other.type)
  \/ /\ Rank(rule.type) = Rank(other.type)
     /\ Distance(start(rule), t) <= Distance(start(other), t)
=============================================================================
