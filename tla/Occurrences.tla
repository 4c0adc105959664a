----------------------------- MODULE Occurrences -----------------------------
(***************************************************************************)
(* Recurrence rules, the events materialized from them, the specials an    *)
(* administrator creates, and what the public pages show of all three: the *)
(* list (listInRange) and the page of one occurrence                       *)
(* (getRuleOccurrenceById).  An occurrence is known by its key, a rule and *)
(* a date, whether or not an event row backs it.                           *)
(***************************************************************************)
EXTENDS Calendar, FiniteSets

CONSTANTS
  Rules,
  Versions,         \* what administrators may make of each rule
  Specials,         \* standalone events
  SpecialVersions,  \* what they may make of each of those
  RowStarts,        \* instants to which they may move a materialized event
  RowExcludes,      \* places they may make it pull out of regular runs
  Locations,
  Dates,            \* dates that occur in keys
  MaxEdits          \* bound on administrators' edits

Special == [published : BOOLEAN, start : Nat, excludes : SUBSET Locations]

ASSUME OccurrenceConstants ==
  /\ \A r \in Rules : Versions[r] \subseteq RuleOf(Locations)
  /\ \A s \in Specials : SpecialVersions[s] \subseteq Special
  /\ RowStarts \subseteq Int /\ RowExcludes \subseteq SUBSET Locations
  /\ Dates \subseteq Nat
  /\ MaxEdits \in Nat

VARIABLES
  rules,     \* event_recurrence_rules with their locations
  specials,  \* standalone events
  rows,      \* events materialized from a rule, with their sync rule's locations
  active,    \* locations that are active
  edits

tables == <<rules, specials, rows, active, edits>>

Row == [id : Nat, rule : Rules, date : Int, start : Int, published : BOOLEAN,
        locations : SUBSET Locations, excludes : SUBSET Locations]

TablesTypeOK ==
  /\ rules \in [Rules -> RuleOf(Locations)]
  /\ specials \in [Specials -> Special]
  /\ rows \subseteq Row
  /\ active \subseteq Locations
  /\ edits \in 0..MaxEdits

TablesInit ==
  /\ rules \in [Rules -> UNION {Versions[r] : r \in Rules}]
  /\ \A r \in Rules : rules[r] \in Versions[r] /\ rules[r].active
  /\ specials \in [Specials -> UNION {SpecialVersions[s] : s \in Specials}]
  /\ \A s \in Specials : specials[s] \in SpecialVersions[s]
  /\ rows = {}
  /\ active = Locations
  /\ edits = 0

RowsAt(r, d) == {row \in rows : row.rule = r /\ row.date = d}

RuleLocations(r) == rules[r].locations \cap active

(* Events the public sees: standalone ones, and materialized runs, which   *)
(* an administrator may give excluded locations as well.                   *)
Announced == {e \in {specials[s] : s \in Specials} \cup rows : e.published}

(* Locations that published events starting on the UTC day d pull out of   *)
(* the regular runs of that day.                                           *)
Excluded(d) == UNION {e.excludes : e \in {x \in Announced : Day(x.start) = d}}

-----------------------------------------------------------------------------
Edit(change) == edits < MaxEdits /\ edits' = edits + 1 /\ change

(* recurrenceRules.update: weekday, time, dates, locations, archive.       *)
UpdateRule(r) ==
  /\ Edit(\E v \in Versions[r] : v # rules[r] /\ rules' = [rules EXCEPT ![r] = v])
  /\ UNCHANGED <<specials, rows, active>>

(* events.create and events.update of a standalone event.                  *)
UpdateSpecial(s) ==
  /\ Edit(\E v \in SpecialVersions[s] :
            v # specials[s] /\ specials' = [specials EXCEPT ![s] = v])
  /\ UNCHANGED <<rules, rows, active>>

(* events.update of a materialized event, which keeps its rule and date:   *)
(* cancelled or published again, moved, given excluded locations.          *)
UpdateRow(row) ==
  /\ Edit(\E p \in BOOLEAN, s \in {row.start} \cup RowStarts, e \in {row.excludes} \cup RowExcludes :
            LET new == [row EXCEPT !.published = p, !.start = s, !.excludes = e] IN
            new # row /\ rows' = (rows \ {row}) \cup {new})
  /\ UNCHANGED <<rules, specials, active>>

(* syncRules.upsertForEvent: active locations only.                        *)
SetLocations(row) ==
  /\ Edit(\E new \in SUBSET active :
            rows' = (rows \ {row}) \cup {[row EXCEPT !.locations = new]})
  /\ UNCHANGED <<rules, specials, active>>

(* locations.update({ status }). *)
ToggleLocation(l) ==
  /\ Edit(active' = IF l \in active THEN active \ {l} ELSE active \cup {l})
  /\ UNCHANGED <<rules, specials, rows>>

Administrate ==
  \/ \E r \in Rules : UpdateRule(r)
  \/ \E s \in Specials : UpdateSpecial(s)
  \/ \E row \in rows : UpdateRow(row) \/ SetLocations(row)
  \/ \E l \in Locations : ToggleLocation(l)

-----------------------------------------------------------------------------
(* The page of an occurrence: the row that overrides it, or the rule.      *)
Page(r, d) ==
  LET start == Compose(rules[r], d)
      own   == RowsAt(r, Day(start)) IN
  IF own # {}
    THEN [start |-> (CHOOSE row \in own : TRUE).start,
          locations |-> (CHOOSE row \in own : TRUE).locations \cap active]
    ELSE [start |-> start, locations |-> RuleLocations(r) \ Excluded(Day(start))]

Published(row, t, to) == row.published /\ row.start \in t..to

(* The same from the events that listInRange has read for [t, to].         *)
ExcludedIn(d, t, to) ==
  UNION {e.excludes : e \in {x \in Announced : x.start \in t..to /\ Day(x.start) = d}}

(* The card of the rule's occurrence at s: the published row of its key,   *)
(* with the rule's locations if it has none of its own, or the rule's own, *)
(* unless every location is pulled into a special.                         *)
Card(r, s, t, to) ==
  LET d   == Day(s)
      own == {row \in RowsAt(r, d) : Published(row, t, to)} IN
  IF own # {}
    THEN {[key |-> <<r, d>>, start |-> row.start, locations |->
             IF row.locations \cap active # {} THEN row.locations \cap active
                                               ELSE RuleLocations(r)] : row \in own}
    ELSE {[key |-> <<r, d>>, start |-> s, locations |-> l] :
            l \in {RuleLocations(r) \ ExcludedIn(d, t, to)} \ {{}}}

RuleCards(t, to) ==
  UNION {UNION {Card(r, s, t, to) : s \in StartsIn(rules[r], t, to)} : r \in Rules}
=============================================================================
