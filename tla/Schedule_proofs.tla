---------------------------- MODULE Schedule_proofs ----------------------------
(* Occurrences and RSVPs, for every calendar, rules, specials, users and   *)
(* requests: types, one row for an occurrence, one RSVP a day, and places  *)
(* that specials have claimed.                                             *)
EXTENDS Schedule, FiniteSetTheorems, TLAPS

-----------------------------------------------------------------------------
(* The calendar's values. *)
LEMMA Instants ==
  ASSUME NEW v \in RuleOf(Locations), NEW d \in Int
  PROVE  /\ Compose(v, d) \in Int /\ Day(d) \in Int /\ LocalDay(d) \in Int
         /\ Day(Compose(v, d)) \in Int
<1>1. DayLen \in Nat \ {0} /\ Offset \in Int /\ v.tod \in Int
  BY CalendarConstants DEF RuleOf
<1>2. d * DayLen \in Int
  BY <1>1
<1>3. Compose(v, d) \in Int
  BY <1>1, <1>2 DEF Compose, Midnight
<1>4. \A t \in Int : Day(t) \in Int /\ LocalDay(t) \in Int
  BY <1>1 DEF Day, LocalDay
<1> QED BY <1>3, <1>4

-----------------------------------------------------------------------------
(* Whole days and weeks: what division and remainder do, for every length  *)
(* of a day and of a week.                                                 *)
LEMMA Products ==
  ASSUME NEW D \in Nat \ {0}, NEW a \in Int, NEW b \in Int
  PROVE  /\ a * D \in Int /\ b * D \in Int
         /\ a <= b => a * D <= b * D
         /\ a < b => a * D + D <= b * D
         /\ (a + b) * D = a * D + b * D
         /\ (a - b) * D = a * D - b * D
         /\ (a + 1) * D = a * D + D
OBVIOUS

(* Quotient and remainder: there are some, and one of each.                *)
LEMMA DivMod ==
  ASSUME NEW D \in Nat \ {0}, NEW t \in Int
  PROVE  t \div D \in Int /\ t % D \in 0..(D - 1) /\ t = (t \div D) * D + (t % D)
OBVIOUS

LEMMA Division ==
  ASSUME NEW D \in Nat \ {0}, NEW q \in Int, NEW r \in 0..(D - 1)
  PROVE  (q * D + r) \div D = q /\ (q * D + r) % D = r
<1> DEFINE t == q * D + r
<1>1. t \in Int
  OBVIOUS
<1> HIDE DEF t
<1>2. t \div D \in Int /\ t % D \in 0..(D - 1) /\ t = (t \div D) * D + (t % D)
  BY <1>1, DivMod
<1>3. PICK p \in Int, m \in 0..(D - 1) : t \div D = p /\ t % D = m
  BY <1>2
<1>4. p * D + m = q * D + r
  BY <1>2, <1>3 DEF t
<1>5. ~(p < q)
  BY <1>4, Products
<1>6. ~(q < p)
  BY <1>4, Products
<1> QED BY <1>3, <1>4, <1>5, <1>6 DEF t

(* Differences that a cycle divides.                                       *)
LEMMA Multiples ==
  ASSUME NEW D \in Nat \ {0}, NEW t \in Int
  PROVE  /\ t % D = 0 => \E k \in Int : t = k * D
         /\ \A k \in Int : (k * D) % D = 0
<1>1. ASSUME t % D = 0 PROVE \E k \in Int : t = k * D
  <2>1. PICK q \in Int, r \in 0..(D - 1) : q = t \div D /\ r = t % D /\ t = q * D + r
    BY DivMod
  <2>2. t = q * D
    BY <1>1, <2>1, Products
  <2> QED BY <2>2
<1>2. ASSUME NEW k \in Int PROVE (k * D) % D = 0
  BY 0 \in 0..(D - 1), Division
<1> QED BY <1>1, <1>2

LEMMA Congruent ==
  ASSUME NEW D \in Nat \ {0}, NEW a \in Int, NEW b \in Int
  PROVE  /\ a % D = b % D => \E k \in Int : a - b = k * D
         /\ \A k \in Int : (b + k * D) % D = b % D
<1>1. ASSUME a % D = b % D PROVE \E k \in Int : a - b = k * D
  <2>1. PICK x \in Int, r \in 0..(D - 1) : r = a % D /\ a = x * D + r
    BY DivMod
  <2>2. PICK y \in Int, m \in 0..(D - 1) : m = b % D /\ b = y * D + m
    BY DivMod
  <2>3. a - b = (x - y) * D
    BY <1>1, <2>1, <2>2, Products
  <2> QED BY <2>3
<1>2. ASSUME NEW k \in Int PROVE (b + k * D) % D = b % D
  <2>1. PICK x \in Int, y \in 0..(D - 1) : x = b \div D /\ y = b % D
    BY DivMod
  <2>2. b = x * D + y
    BY <2>1, DivMod
  <2>3. b + k * D = (x + k) * D + y
    BY <2>1, <2>2, Products
  <2>4. ((x + k) * D + y) % D = y
    BY Division
  <2> QED BY <2>1, <2>3, <2>4
<1> QED BY <1>1, <1>2

(* A full cycle has every remainder.                                       *)
LEMMA Cycle ==
  ASSUME NEW W \in Nat \ {0}, NEW w \in 0..(W - 1), NEW l \in Int
  PROVE  \E d \in l..(l + W - 1) : d % W = w
<1>1. PICK r \in 0..(W - 1) : r = (w - l) % W
  BY DivMod
<1>2. PICK q \in Int : w - l = q * W + r
  <2>1. (w - l) \div W \in Int /\ w - l = ((w - l) \div W) * W + ((w - l) % W)
    BY DivMod
  <2> QED BY <1>1, <2>1
<1>3. l + r \in l..(l + W - 1)
  OBVIOUS
<1>4. l + r = (-q) * W + w
  <2>1. (-q) * W = -(q * W)
    OBVIOUS
  <2> QED BY <1>2, <2>1
<1>5. ((-q) * W + w) % W = w
  BY Division
<1> QED BY <1>3, <1>4, <1>5

-----------------------------------------------------------------------------
(* The two clocks.  Every day has its midnight, and later is not earlier.  *)
LEMMA CalendarTyped ==
  /\ DayLen \in Nat \ {0} /\ WeekLen \in Nat \ {0} /\ WeekLen * DayLen \in Nat \ {0}
  /\ Offset \in 0..(DayLen - 1) /\ Offset \in Int
BY CalendarConstants

LEMMA SameWeekday ==
  ASSUME NEW d \in Int, NEW e \in Int
  PROVE  /\ d % WeekLen = e % WeekLen => \E k \in Int : d - e = k * WeekLen
         /\ \A k \in Int : (e + k * WeekLen) % WeekLen = e % WeekLen
         /\ (e + WeekLen) % WeekLen = e % WeekLen
<1>1. /\ d % WeekLen = e % WeekLen => \E k \in Int : d - e = k * WeekLen
      /\ \A k \in Int : (e + k * WeekLen) % WeekLen = e % WeekLen
  BY CalendarTyped, Congruent
<1>2. 1 * WeekLen = WeekLen
  BY CalendarTyped
<1> QED BY <1>1, <1>2

LEMMA DayBounds ==
  ASSUME NEW t \in Int
  PROVE  /\ Day(t) \in Int /\ Midnight(Day(t)) <= t /\ t < Midnight(Day(t)) + DayLen
         /\ Midnight(Day(t)) \in Int
<1>1. PICK q \in Int, r \in 0..(DayLen - 1) : q = t \div DayLen /\ t = q * DayLen + r
  BY CalendarTyped, DivMod
<1>2. q * DayLen \in Int
  BY CalendarTyped
<1> QED BY <1>1, <1>2, CalendarTyped DEF Day, Midnight

LEMMA DayWithin ==
  ASSUME NEW t \in Int, NEW d \in Int
  PROVE  /\ Midnight(d) \in Int
         /\ Midnight(d) <= t => d <= Day(t)
         /\ t < Midnight(d) + DayLen => Day(t) <= d
<1>1. PICK q \in Int : q = Day(t) /\ q * DayLen <= t /\ t < q * DayLen + DayLen
  BY DayBounds DEF Midnight
<1>2. /\ q < d => q * DayLen + DayLen <= d * DayLen
      /\ d < q => d * DayLen + DayLen <= q * DayLen
      /\ q * DayLen \in Int /\ d * DayLen \in Int
  BY CalendarTyped, Products
<1> QED BY <1>1, <1>2, CalendarTyped DEF Midnight

LEMMA LocalOrder ==
  ASSUME NEW t \in Int, NEW s \in Int, t <= s PROVE LocalDay(t) <= LocalDay(s)
<1>1. PICK u \in Int, w \in Int : u = t + Offset /\ w = s + Offset /\ u <= w
  BY CalendarTyped
<1>2. Day(u) <= Day(w)
  BY <1>1, DayBounds, DayWithin
<1> QED BY <1>1, <1>2 DEF LocalDay, Day

LEMMA LocalMidnight ==
  ASSUME NEW d \in Int PROVE LocalDay(Midnight(d)) = d
BY CalendarTyped, Division DEF LocalDay, Midnight

(* The start of the local date d is on it; on the UTC day of the same      *)
(* number from the offset on, and on the day before until then.            *)
LEMMA OwnDate ==
  ASSUME NEW v \in RuleOf(Locations), NEW d \in Int
  PROVE  /\ Compose(v, d) \in Int /\ LocalDay(Compose(v, d)) = d
         /\ v.tod >= Offset => Day(Compose(v, d)) = d
         /\ v.tod < Offset => Day(Compose(v, d)) = d - 1
<1>1. PICK x \in 0..(DayLen - 1) : x = v.tod
  BY DEF RuleOf
<1>2. d * DayLen \in Int /\ (d - 1) * DayLen = d * DayLen - DayLen
  BY CalendarTyped, Products
<1>3. Compose(v, d) = d * DayLen - Offset + x
  BY <1>1 DEF Compose, Midnight
<1>4. Compose(v, d) + Offset = d * DayLen + x
  BY <1>2, <1>3, CalendarTyped
<1>5. LocalDay(Compose(v, d)) = d
  BY <1>4, CalendarTyped, Division DEF LocalDay
<1>6. ASSUME x >= Offset PROVE Day(Compose(v, d)) = d
  <2>1. x - Offset \in 0..(DayLen - 1) /\ Compose(v, d) = d * DayLen + (x - Offset)
    BY <1>2, <1>3, <1>6, CalendarTyped
  <2> QED BY <2>1, CalendarTyped, Division DEF Day
<1>7. ASSUME x < Offset PROVE Day(Compose(v, d)) = d - 1
  <2>1. /\ DayLen - Offset + x \in 0..(DayLen - 1) /\ d - 1 \in Int
        /\ Compose(v, d) = (d - 1) * DayLen + (DayLen - Offset + x)
    BY <1>2, <1>3, <1>7, CalendarTyped
  <2> QED BY <2>1, CalendarTyped, Division DEF Day
<1> QED BY <1>1, <1>2, <1>3, <1>5, <1>6, <1>7, CalendarTyped

LEMMA ComposeOrder ==
  ASSUME NEW v \in RuleOf(Locations), NEW d \in Int, NEW e \in Int
  PROVE  /\ d <= e => Compose(v, d) <= Compose(v, e)
         /\ Compose(v, d) <= Compose(v, e) => d <= e
         /\ Compose(v, d) - Compose(v, e) = (d - e) * DayLen
         /\ Compose(v, d) \in Int
<1>1. v.tod \in Int
  BY CalendarTyped DEF RuleOf
<1>2. /\ d * DayLen \in Int /\ e * DayLen \in Int /\ (d - e) * DayLen = d * DayLen - e * DayLen
      /\ d <= e => d * DayLen <= e * DayLen
      /\ e < d => e * DayLen + DayLen <= d * DayLen
  BY CalendarTyped, Products
<1> QED BY <1>1, <1>2, CalendarTyped DEF Compose, Midnight

(* The first date of the rule's weekday on or after the local day of t.    *)
LEMMA NextDateIs ==
  ASSUME NEW v \in RuleOf(Locations), NEW t \in Int
  PROVE  /\ NextDate(v, t) \in Int /\ LocalDay(t) <= NextDate(v, t)
         /\ NextDate(v, t) % WeekLen = v.dow
         /\ \A d \in Int : LocalDay(t) <= d /\ d % WeekLen = v.dow => NextDate(v, t) <= d
<1> DEFINE Is(d) == /\ d % WeekLen = v.dow
                    /\ \A e \in LocalDay(t)..(d - 1) : e % WeekLen # v.dow
<1>1. PICK l \in Int : l = LocalDay(t)
  BY CalendarTyped DEF LocalDay
<1>2. v.dow \in 0..(WeekLen - 1)
  BY DEF RuleOf
<1>3. PICK d \in l..(l + WeekLen - 1) : d % WeekLen = v.dow
  BY <1>2, CalendarTyped, Cycle
<1>4. ASSUME NEW e \in l..(d - 1) PROVE e % WeekLen # v.dow
  <2> SUFFICES ASSUME d % WeekLen = e % WeekLen PROVE FALSE
    BY <1>3
  <2>1. PICK k \in Int : d - e = k * WeekLen
    BY SameWeekday
  <2>2. 0 < d - e /\ d - e < WeekLen
    BY CalendarTyped
  <2>3. /\ k < 1 => k * WeekLen + WeekLen <= 1 * WeekLen
        /\ 1 <= k => 1 * WeekLen <= k * WeekLen
        /\ k * WeekLen \in Int /\ 1 * WeekLen = WeekLen
    BY CalendarTyped, Products
  <2> QED BY <2>1, <2>2, <2>3, CalendarTyped
<1>5. d \in LocalDay(t)..(LocalDay(t) + WeekLen) /\ Is(d)
  BY <1>1, <1>3, <1>4, CalendarTyped
<1>6. NextDate(v, t) \in LocalDay(t)..(LocalDay(t) + WeekLen) /\ Is(NextDate(v, t))
  BY <1>5 DEF NextDate
<1>7. PICK n \in Int : n = NextDate(v, t) /\ l <= n
  BY <1>1, <1>6, CalendarTyped
<1>8. ASSUME NEW x \in Int, l <= x, x % WeekLen = v.dow PROVE n <= x
  <2> SUFFICES ASSUME x < n PROVE FALSE
    OBVIOUS
  <2>1. x \in l..(n - 1)
    BY <1>8
  <2> QED BY <1>1, <1>6, <1>7, <1>8, <2>1
<1> QED BY <1>1, <1>6, <1>7, <1>8

(* The first start: of the rule's weekday, not before the day of t nor the *)
(* rule's first, and none is between it and t.                             *)
LEMMA FirstIs ==
  ASSUME NEW v \in RuleOf(Locations), NEW t \in Int
  PROVE  \E n \in Int :
           /\ FirstOnOrAfter(v, t) = Compose(v, n)
           /\ n % WeekLen = v.dow /\ v.from <= n
           /\ \A d \in Int :
                d % WeekLen = v.dow /\ Midnight(v.from) <= Compose(v, d) /\ t <= Compose(v, d)
                  => n <= d
<1> DEFINE b == IF Midnight(v.from) > t THEN Midnight(v.from) ELSE t
           m == NextDate(v, b)
<1>1. v.from \in Int /\ Midnight(v.from) \in Int
  BY DayWithin DEF RuleOf
<1>2. b \in Int /\ Midnight(v.from) <= b /\ t <= b
  BY <1>1
<1>3. v.from <= LocalDay(b) /\ LocalDay(b) \in Int
  <2>1. LocalDay(Midnight(v.from)) <= LocalDay(b) /\ LocalDay(Midnight(v.from)) = v.from
    BY <1>1, <1>2, LocalOrder, LocalMidnight
  <2> QED BY <1>2, <2>1, CalendarTyped DEF LocalDay
<1>4. /\ m \in Int /\ LocalDay(b) <= m /\ m % WeekLen = v.dow
      /\ \A d \in Int : LocalDay(b) <= d /\ d % WeekLen = v.dow => m <= d
  BY <1>2, NextDateIs
<1> HIDE DEF m
<1>5. ASSUME NEW d \in Int, d % WeekLen = v.dow,
             Midnight(v.from) <= Compose(v, d), t <= Compose(v, d)
      PROVE  m <= d
  <2>1. b <= Compose(v, d) /\ Compose(v, d) \in Int /\ LocalDay(Compose(v, d)) = d
    BY <1>5, OwnDate
  <2>2. LocalDay(b) <= d
    BY <1>2, <2>1, LocalOrder
  <2> QED BY <1>4, <1>5, <2>2
<1>6. FirstOnOrAfter(v, t) =
        IF Compose(v, m) < t THEN Compose(v, m) + WeekLen * DayLen ELSE Compose(v, m)
  BY DEF FirstOnOrAfter, m
<1>7. CASE ~(Compose(v, m) < t)
  BY <1>3, <1>4, <1>5, <1>6, <1>7, <1>1
<1>8. CASE Compose(v, m) < t
  <2>1. m + WeekLen \in Int /\ (m + WeekLen) % WeekLen = v.dow /\ v.from <= m + WeekLen
    <3>1. (m + WeekLen) % WeekLen = m % WeekLen
      BY <1>4, SameWeekday
    <3> QED BY <1>1, <1>3, <1>4, <3>1, CalendarTyped
  <2>2. Compose(v, m + WeekLen) = Compose(v, m) + WeekLen * DayLen
    <3>1. Compose(v, m + WeekLen) - Compose(v, m) = ((m + WeekLen) - m) * DayLen
      BY <1>4, <2>1, ComposeOrder
    <3>2. (m + WeekLen) - m = WeekLen
      BY <1>4, CalendarTyped
    <3>3. Compose(v, m + WeekLen) \in Int /\ Compose(v, m) \in Int /\ WeekLen * DayLen \in Int
      BY <1>4, <2>1, ComposeOrder, CalendarTyped
    <3> QED BY <3>1, <3>2, <3>3
  <2>3. ASSUME NEW d \in Int, d % WeekLen = v.dow,
               Midnight(v.from) <= Compose(v, d), t <= Compose(v, d)
        PROVE  m + WeekLen <= d
    <3>1. m < d
      <4>1. m <= d
        BY <1>5, <2>3
      <4>2. m # d
        BY <1>4, <1>8, <2>3, ComposeOrder
      <4> QED BY <1>4, <4>1, <4>2
    <3>2. PICK k \in Int : d - m = k * WeekLen
      BY <1>4, <2>3, SameWeekday
    <3>3. /\ k < 1 => k * WeekLen + WeekLen <= 1 * WeekLen
          /\ 1 <= k => 1 * WeekLen <= k * WeekLen
          /\ k * WeekLen \in Int /\ 1 * WeekLen = WeekLen
      BY CalendarTyped, Products
    <3> QED BY <1>4, <3>1, <3>2, <3>3, CalendarTyped
  <2> QED BY <1>6, <1>8, <2>1, <2>2, <2>3
<1> QED BY <1>7, <1>8

(* A start before UTC's midnight is on a UTC day of another weekday.       *)
LEMMA ScanNames ==
  ASSUME WeekLen > 1, NEW v \in RuleOf(Locations), NEW d \in Int, d % WeekLen = v.dow
  PROVE  v.tod >= Offset \/ Day(Compose(v, d)) % WeekLen # v.dow
<1> SUFFICES ASSUME v.tod < Offset, (d - 1) % WeekLen = v.dow PROVE FALSE
  <2>1. v.tod >= Offset \/ v.tod < Offset
    BY CalendarTyped DEF RuleOf
  <2>2. v.tod < Offset => Day(Compose(v, d)) = d - 1
    BY OwnDate
  <2> QED BY <2>1, <2>2
<1>1. PICK k \in Int : d - (d - 1) = k * WeekLen
  BY SameWeekday
<1>2. /\ k < 1 => k * WeekLen + WeekLen <= 1 * WeekLen
      /\ 1 <= k => 1 * WeekLen <= k * WeekLen
      /\ k * WeekLen \in Int /\ 1 * WeekLen = WeekLen
  BY CalendarTyped, Products
<1> QED BY <1>1, <1>2, CalendarTyped

(* The rule's occurrence on the date d. *)
LEMMA OpensIs ==
  ASSUME NEW v \in RuleOf(Locations), NEW d \in Int
  PROVE  Opens(v, d) <=> /\ v.active /\ d % WeekLen = v.dow
                         /\ InRange(v, Compose(v, d))
BY OwnDate DEF Opens, Weekday

(* What the list walks through are starts on dates of the rule's weekday.  *)
LEMMA StartsAreComposed ==
  ASSUME NEW v \in RuleOf(Locations), NEW t \in Int, NEW to \in Int, NEW s \in StartsIn(v, t, to)
  PROVE  \E d \in Int : s = Compose(v, d) /\ d % WeekLen = v.dow /\ v.from <= d
<1> DEFINE first == FirstOnOrAfter(v, t)
           last  == IF v.until # Never /\ Midnight(v.until) < to
                      THEN Midnight(v.until + 1) - 1 ELSE to
<1>1. s \in first..last /\ (s - first) % (WeekLen * DayLen) = 0
  BY DEF StartsIn
<1>2. PICK n \in Int : first = Compose(v, n) /\ n % WeekLen = v.dow /\ v.from <= n
  BY FirstIs
<1>3. first \in Int /\ last \in Int
  <2>1. v.until \in Int
    BY DEF RuleOf, Never
  <2>2. Midnight(v.until + 1) \in Int
    BY <2>1, DayWithin
  <2> QED BY <1>2, <2>2, OwnDate
<1> HIDE DEF first, last
<1>4. s \in Int /\ first <= s
  BY <1>1, <1>3
<1>5. PICK k \in Int : s - first = k * (WeekLen * DayLen)
  <2>1. s - first \in Int
    BY <1>3, <1>4
  <2> QED BY <1>1, <2>1, CalendarTyped, Multiples
<1>6. PICK d \in Int : d = n + k * WeekLen
  BY CalendarTyped
<1>7. d % WeekLen = v.dow
  BY <1>2, <1>6, SameWeekday
<1>8. s = Compose(v, d)
  <2>1. Compose(v, d) - Compose(v, n) = (d - n) * DayLen /\ Compose(v, d) \in Int
    BY ComposeOrder
  <2>2. d - n = k * WeekLen
    BY <1>6, CalendarTyped
  <2>3. (k * WeekLen) * DayLen = k * (WeekLen * DayLen)
    BY CalendarTyped
  <2> QED BY <1>2, <1>3, <1>4, <1>5, <2>1, <2>2, <2>3
<1>9. v.from <= d
  <2>1. n <= d
    BY <1>2, <1>4, <1>8, ComposeOrder
  <2>2. v.from \in Int
    BY DEF RuleOf
  <2> QED BY <1>2, <2>1, <2>2
<1> QED BY <1>7, <1>8, <1>9

(* From UTC's midnight on they are occurrences with a page, each on the    *)
(* UTC day its key names.                                                  *)
LEMMA StartsAreOpen ==
  ASSUME NEW v \in RuleOf(Locations), NEW t \in Int, NEW to \in Int, v.tod >= Offset,
         NEW s \in StartsIn(v, t, to)
  PROVE  Day(s) \in Int /\ s = Compose(v, Day(s)) /\ Opens(v, Day(s))
<1> DEFINE first == FirstOnOrAfter(v, t)
           last  == IF v.until # Never /\ Midnight(v.until) < to
                      THEN Midnight(v.until + 1) - 1 ELSE to
<1>1. v.active /\ s \in first..last
  BY DEF StartsIn
<1>2. PICK d \in Int : s = Compose(v, d) /\ d % WeekLen = v.dow /\ v.from <= d
  BY StartsAreComposed
<1>3. /\ v.from \in Int /\ v.until \in Int /\ Midnight(v.from) \in Int
      /\ Midnight(v.until) \in Int /\ Midnight(v.until + 1) = Midnight(v.until) + DayLen
  <2>1. v.from \in Int /\ v.until \in Int
    BY DEF RuleOf, Never
  <2> QED BY <2>1, DayWithin, CalendarTyped, Products DEF Midnight
<1>4. s \in Int /\ Day(s) = d
  BY <1>2, OwnDate
<1>5. s <= last
  BY <1>1, <1>3, <1>4, FirstIs, OwnDate, CalendarTyped
<1>6. Midnight(v.from) <= s
  <2>1. v.from <= d => v.from * DayLen <= d * DayLen
    BY <1>3, CalendarTyped, Products
  <2>2. Midnight(d) <= s /\ Midnight(d) \in Int
    BY <1>4, DayBounds
  <2> QED BY <1>2, <1>3, <1>4, <2>1, <2>2 DEF Midnight
<1>7. v.until = Never \/ d <= v.until
  <2>1. ASSUME v.until # Never PROVE s < Midnight(v.until) + DayLen
    BY <1>3, <1>4, <1>5, <2>1, CalendarTyped
  <2> QED BY <1>3, <1>4, <2>1, DayWithin
<1> QED BY <1>1, <1>2, <1>4, <1>6, <1>7, OpensIs DEF InRange

(* The other way round: an occurrence with a page is walked through when   *)
(* it starts in the window and the rule is read for it.                    *)
LEMMA OpenIsStart ==
  ASSUME NEW v \in RuleOf(Locations), NEW t \in Int, NEW to \in Int,
         NEW d \in Int, Opens(v, d), Compose(v, d) \in t..to,
         v.until = Never \/ Midnight(v.until) >= t
  PROVE  Compose(v, d) \in StartsIn(v, t, to)
<1> DEFINE s == Compose(v, d)
           first == FirstOnOrAfter(v, t)
           last  == IF v.until # Never /\ Midnight(v.until) < to
                      THEN Midnight(v.until + 1) - 1 ELSE to
<1>1. /\ v.active /\ d % WeekLen = v.dow /\ Midnight(v.from) <= s
      /\ v.until = Never \/ Day(s) <= v.until
      /\ s \in Int /\ t <= s /\ s <= to
  BY OwnDate, OpensIs DEF InRange
<1>2. PICK n \in Int : first = Compose(v, n) /\ n % WeekLen = v.dow /\ n <= d
  BY <1>1, FirstIs
<1> HIDE DEF s, first
<1>3. v.from \in Int /\ v.until \in Int /\ Midnight(v.from) \in Int /\ Midnight(v.until) \in Int
      /\ Midnight(v.until + 1) = Midnight(v.until) + DayLen
  <2>1. v.from \in Int /\ v.until \in Int
    BY DEF RuleOf, Never
  <2> QED BY <2>1, DayWithin, CalendarTyped, Products DEF Midnight
<1>4. first \in Int /\ first <= s /\ s - first = (d - n) * DayLen
  BY <1>2, ComposeOrder DEF s
<1>5. (s - first) % (WeekLen * DayLen) = 0
  <2>1. PICK k \in Int : d - n = k * WeekLen
    BY <1>1, <1>2, SameWeekday
  <2>2. (k * WeekLen) * DayLen = k * (WeekLen * DayLen)
    BY CalendarTyped
  <2>3. (k * (WeekLen * DayLen)) % (WeekLen * DayLen) = 0
    BY CalendarTyped, Multiples
  <2> QED BY <1>4, <2>1, <2>2, <2>3
<1>6. s <= last
  <2>1. CASE v.until # Never /\ Midnight(v.until) < to
    <3>1. PICK e \in Int : e = Day(s) /\ s < Midnight(e) + DayLen /\ Midnight(e) \in Int
      BY <1>1, DayBounds
    <3>2. Midnight(e) <= Midnight(v.until)
      <4>1. e <= v.until => e * DayLen <= v.until * DayLen
        BY <1>3, CalendarTyped, Products
      <4> QED BY <1>1, <2>1, <3>1, <4>1 DEF Midnight
    <3> QED BY <1>1, <1>3, <2>1, <3>1, <3>2, CalendarTyped
  <2> QED BY <1>1, <2>1
<1>7. Midnight(v.from) <= to /\ last \in Int
  BY <1>1, <1>3, CalendarTyped
<1>8. s \in first..last
  BY <1>1, <1>4, <1>6, <1>7
<1> QED BY <1>1, <1>5, <1>7, <1>8 DEF StartsIn, s, first

-----------------------------------------------------------------------------
(* What becomes of the rows: none goes, and none changes its occurrence.   *)
Same(row, other) ==
  other.id = row.id /\ other.rule = row.rule /\ other.date = row.date

TablesInv == TablesTypeOK /\ IsFiniteSet(rows)

RowsStay == \A row \in rows : \E other \in rows' : Same(row, other)

(* One row of each occurrence (the unique index).                          *)
UniqueRows ==
  \A row, other \in rows : row.rule = other.rule /\ row.date = other.date => row = other

LEMMA IdsStay ==
  ASSUME RowsStay PROVE {row.id : row \in rows} \subseteq {row.id : row \in rows'}
BY DEF RowsStay, Same

LEMMA RowChanged ==
  ASSUME TablesInv, NEW row \in rows, NEW other \in Row, Same(row, other),
         rows' = (rows \ {row}) \cup {other}
  PROVE  /\ rows' \subseteq Row /\ IsFiniteSet(rows') /\ RowsStay
         /\ UniqueRows => UniqueRows'
<1>1. IsFiniteSet(rows \ {row}) /\ IsFiniteSet(rows')
  BY FS_RemoveElement, FS_AddElement DEF TablesInv
<1>2. rows' \subseteq Row
  BY DEF TablesInv, TablesTypeOK
<1>3. RowsStay
  BY DEF RowsStay, Same
<1>4. UniqueRows => UniqueRows'
  BY DEF UniqueRows, Same
<1> QED BY <1>1, <1>2, <1>3, <1>4

LEMMA RowsSame == ASSUME UNCHANGED rows PROVE RowsStay /\ (UniqueRows => UniqueRows')
BY DEF RowsStay, Same, UniqueRows

(* An administrator's edit. *)
LEMMA AdminTables ==
  ASSUME TablesInv, Administrate
  PROVE  /\ TablesInv' /\ RowsStay /\ edits' > 0
         /\ UniqueRows => UniqueRows'
<1> USE DEF TablesInv, TablesTypeOK
<1>0. edits \in Nat /\ MaxEdits \in Nat
  BY OccurrenceConstants
<1>1. ASSUME NEW r \in Rules, UpdateRule(r) PROVE TablesInv' /\ rows' = rows /\ edits' > 0
  <2>1. PICK v \in Versions[r] : rules' = [rules EXCEPT ![r] = v]
    BY <1>1 DEF UpdateRule, Edit
  <2>2. v \in RuleOf(Locations)
    BY OccurrenceConstants
  <2> QED BY <1>0, <1>1, <2>1, <2>2 DEF UpdateRule, Edit
<1>2. ASSUME NEW s \in Specials, UpdateSpecial(s) PROVE TablesInv' /\ rows' = rows /\ edits' > 0
  <2>1. PICK v \in SpecialVersions[s] : specials' = [specials EXCEPT ![s] = v]
    BY <1>2 DEF UpdateSpecial, Edit
  <2>2. v \in Special
    BY OccurrenceConstants
  <2> QED BY <1>0, <1>2, <2>1, <2>2 DEF UpdateSpecial, Edit
<1>3. ASSUME NEW row \in rows, UpdateRow(row) \/ SetLocations(row)
      PROVE  TablesInv' /\ RowsStay /\ edits' > 0 /\ (UniqueRows => UniqueRows')
  <2>1. \E other \in Row : Same(row, other) /\ rows' = (rows \ {row}) \cup {other}
    <3>1. \A new \in SUBSET active : [row EXCEPT !.locations = new] \in Row
                                     /\ Same(row, [row EXCEPT !.locations = new])
      BY DEF Row, Same
    <3>2. ASSUME NEW p \in BOOLEAN, NEW s \in {row.start} \cup RowStarts, NEW e \in {row.excludes} \cup RowExcludes
          PROVE  LET new == [row EXCEPT !.published = p, !.start = s, !.excludes = e]
                 IN  new \in Row /\ Same(row, new)
      <4>1. row \in Row /\ s \in Int /\ e \in SUBSET Locations
        BY OccurrenceConstants DEF Row
      <4> QED BY <4>1 DEF Row, Same
    <3> QED BY <1>3, <3>1, <3>2 DEF UpdateRow, SetLocations, Edit
  <2>2. rows' \subseteq Row /\ IsFiniteSet(rows') /\ RowsStay /\ (UniqueRows => UniqueRows')
    BY <2>1, RowChanged
  <2>3. UNCHANGED <<rules, specials, active>> /\ edits < MaxEdits /\ edits' = edits + 1
    BY <1>3 DEF UpdateRow, SetLocations, Edit
  <2> QED BY <1>0, <2>2, <2>3
<1>4. ASSUME NEW l \in Locations, ToggleLocation(l) PROVE TablesInv' /\ rows' = rows /\ edits' > 0
  BY <1>0, <1>4 DEF ToggleLocation, Edit
<1> QED BY <1>1, <1>2, <1>3, <1>4, RowsSame DEF Administrate

-----------------------------------------------------------------------------
(* The row of a call's occurrence. *)
ToldAreRows ==
  \A t \in told : \E row \in rows :
    row.id = t.id /\ row.rule = t.occurrence[1] /\ row.date = t.occurrence[2]

(* Only a member's request takes the RSVP's steps.                         *)
Asked == \A c \in Calls : pc[c] \in {"assert", "conflicts", "save"} => job[c].request.kind = "rsvp"

ScheduleInv ==
  /\ ScheduleTypeOK
  /\ IsFiniteSet(rows)
  /\ UniqueRows
  /\ ToldAreRows
  /\ Asked

Job == [request : Requests, occurrence : Rules \X Int, start : Int, locations : SUBSET Locations]

(* A step of a call: it has a new job and a new place.                     *)
Moves(c, step, j) ==
  /\ pc' = [pc EXCEPT ![c] = step] /\ step \in Steps
  /\ job' = [job EXCEPT ![c] = j] /\ j \in Job
  /\ step \in {"assert", "conflicts", "save"} => j.request.kind = "rsvp"

LEMMA MovesTyped ==
  ASSUME ScheduleInv, NEW c \in Calls, NEW step, NEW j, Moves(c, step, j)
  PROVE  /\ pc' \in [Calls -> Steps] /\ job' \in [Calls -> Job] /\ Asked'
         /\ pc'[c] = step /\ job'[c] = j
         /\ \A d \in Calls \ {c} : pc'[d] = pc[d] /\ job'[d] = job[d]
BY DEF Moves, ScheduleInv, ScheduleTypeOK, Asked, Job

LEMMA NoJobTyped == NoJob \in Job
<1>1. (CHOOSE q \in Requests : TRUE) \in Requests
  BY ScheduleConstants
<1>2. (CHOOSE o \in Rules \X Dates : TRUE) \in Rules \X Dates
  <2>1. \E o \in Rules \X Dates : TRUE
    BY ScheduleConstants
  <2> QED BY <2>1
<1>3. Rules \X Dates \subseteq Rules \X Int
  <2>1. Dates \subseteq Int
    BY OccurrenceConstants
  <2> QED BY <2>1
<1> QED BY <1>1, <1>2, <1>3 DEF NoJob, Job

LEMMA JobOf ==
  ASSUME ScheduleInv, NEW c \in Calls
  PROVE  /\ job[c] \in Job /\ job[c].request \in Request /\ pc[c] \in Steps
         /\ job[c].occurrence[1] \in Rules /\ job[c].occurrence[2] \in Int
BY ScheduleConstants DEF ScheduleInv, ScheduleTypeOK, Job

LEMMA EndMoves ==
  ASSUME ScheduleInv, NEW c \in Calls, End(c) PROVE Moves(c, "idle", NoJob)
BY NoJobTyped DEF End, Goto, Moves, Steps

LEMMA GotoMoves ==
  ASSUME ScheduleInv, NEW c \in Calls, NEW step \in Steps, Goto(c, step), UNCHANGED job,
         step \in {"assert", "conflicts", "save"} => job[c].request.kind = "rsvp"
  PROVE  Moves(c, step, job[c])
<1>1. job' = [job EXCEPT ![c] = job[c]]
  BY DEF ScheduleInv, ScheduleTypeOK
<1> QED BY <1>1, JobOf DEF Goto, Moves

-----------------------------------------------------------------------------
(* What a call's step leaves behind. *)
SomeMove(c) == \E step \in Steps, j \in Job : Moves(c, step, j)

(* The call is told of a row of its occurrence, and a scan may attend it.  *)
Tells(c) ==
  \E row \in rows' :
    /\ row.rule = job[c].occurrence[1] /\ row.date = job[c].occurrence[2]
    /\ told' = told \cup {[occurrence |-> job[c].occurrence, id |-> row.id]}
    /\ attended' \subseteq attended \cup {<<job[c].request.user, row.id>>}

Silent == UNCHANGED <<told, attended>>

LEMMA GotTells ==
  ASSUME ScheduleInv, NEW c \in Calls, NEW row \in rows', Got(c, row),
         row.rule = job[c].occurrence[1], row.date = job[c].occurrence[2]
  PROVE  SomeMove(c) /\ Tells(c)
<1>0. job[c].request.kind \in {"rsvp", "scan"}
  BY JobOf DEF Request
<1>1. CASE job[c].request.kind = "scan"
  <2>1. Moves(c, "idle", NoJob)
    BY <1>1, EndMoves DEF Got
  <2>2. Tells(c)
    BY <1>1 DEF Got, Attend, Tells
  <2> QED BY <2>1, <2>2, NoJobTyped DEF SomeMove, Steps
<1>2. CASE job[c].request.kind = "rsvp"
  <2>1. Moves(c, "conflicts", job[c])
    BY <1>2, GotoMoves DEF Got, Steps
  <2>2. Tells(c)
    BY <1>2 DEF Got, Tells
  <2> QED BY <2>1, <2>2, JobOf DEF SomeMove, Steps
<1> QED BY <1>0, <1>1, <1>2

(* A call that only thinks: no table changes, nothing is told.             *)
Thinks(c) == SomeMove(c) /\ Silent /\ UNCHANGED <<tables, interests>>

LEMMA RefuseThinks ==
  ASSUME ScheduleInv, NEW c \in Calls, Refuse(c) PROVE Thinks(c)
BY EndMoves, NoJobTyped DEF Refuse, Thinks, SomeMove, Silent, Steps

LEMMA AskThinks ==
  ASSUME ScheduleInv, NEW c \in Calls, NEW q \in Requests, Ask(c, q)
  PROVE  Thinks(c) /\ calls' \in 0..MaxCalls
<1> DEFINE j == [job[c] EXCEPT !.request = q]
           step == IF q.kind = "scan" THEN "open" ELSE "assert"
<1>1. j \in Job /\ j.request = q /\ q.kind \in {"rsvp", "scan"}
  BY JobOf, ScheduleConstants DEF Job, Request
<1>2. job' = [job EXCEPT ![c] = j] /\ pc' = [pc EXCEPT ![c] = step]
  BY DEF Ask, Goto, ScheduleInv, ScheduleTypeOK
<1>3. step \in Steps /\ Moves(c, step, j)
  BY <1>1, <1>2 DEF Moves, Steps
<1>4. calls' \in 0..MaxCalls
  BY ScheduleConstants DEF Ask, ScheduleInv, ScheduleTypeOK
<1> QED BY <1>1, <1>3, <1>4 DEF Ask, Thinks, SomeMove, Silent

LEMMA CheckKeyThinks ==
  ASSUME ScheduleInv, NEW c \in Calls, CheckKey(c) PROVE Thinks(c)
<1> DEFINE q == job[c].request
           j == [job[c] EXCEPT !.occurrence = q.key]
<1>1. CASE Refuse(c)
  BY <1>1, RefuseThinks
<1>2. CASE q.key \in Specials /\ Goto(c, "conflicts") /\ UNCHANGED <<tables, interests, attended, job, told>>
  <2>1. job[c].request.kind = "rsvp"
    BY DEF CheckKey, ScheduleInv, Asked
  <2> QED BY <1>2, <2>1, GotoMoves, JobOf DEF Thinks, SomeMove, Silent, Steps
<1>3. CASE q.key \notin Specials /\ Goto(c, "find") /\ job' = [job EXCEPT ![c].occurrence = q.key]
           /\ UNCHANGED <<tables, interests, attended, told>>
  <2>1. q.key \in Rules \X Int
    BY <1>3, JobOf, OccurrenceConstants DEF Request, Keys
  <2>2. j \in Job
    BY <2>1, JobOf DEF Job
  <2>3. job' = [job EXCEPT ![c] = j]
    BY <1>3 DEF ScheduleInv, ScheduleTypeOK
  <2>4. Moves(c, "find", j)
    BY <1>3, <2>2, <2>3 DEF Moves, Goto, Steps
  <2> QED BY <1>3, <2>2, <2>4 DEF Thinks, SomeMove, Silent, Steps
<1> QED BY <1>1, <1>2, <1>3 DEF CheckKey

LEMMA FindOpenThinks ==
  ASSUME ScheduleInv, NEW c \in Calls, FindOpen(c) PROVE Thinks(c)
<1>1. CASE Refuse(c)
  BY <1>1, RefuseThinks
<1>2. ASSUME NEW r \in Rules,
             job' = [job EXCEPT ![c].occurrence = <<r, Day(Compose(rules[r], LocalDay(job[c].request.at)))>>],
             Goto(c, "find"), UNCHANGED <<tables, interests, attended, told>>
      PROVE  Thinks(c)
  <2> DEFINE o == <<r, Day(Compose(rules[r], LocalDay(job[c].request.at)))>>
             j == [job[c] EXCEPT !.occurrence = o]
  <2>1. rules[r] \in RuleOf(Locations) /\ job[c].request.at \in Int
    BY JobOf DEF ScheduleInv, ScheduleTypeOK, TablesTypeOK, Request
  <2>2. LocalDay(job[c].request.at) \in Int
    BY <2>1, Instants
  <2>3. o \in Rules \X Int
    BY <2>1, <2>2, Instants
  <2>4. j \in Job
    BY <2>3, JobOf DEF Job
  <2>5. job' = [job EXCEPT ![c] = j]
    BY <1>2 DEF ScheduleInv, ScheduleTypeOK
  <2>6. Moves(c, "find", j)
    BY <1>2, <2>4, <2>5 DEF Moves, Goto, Steps
  <2> QED BY <1>2, <2>4, <2>6 DEF Thinks, SomeMove, Silent, Steps
<1> QED BY <1>1, <1>2 DEF FindOpen

LEMMA ReadRuleThinks ==
  ASSUME ScheduleInv, NEW c \in Calls, ReadRule(c) PROVE Thinks(c)
<1> DEFINE r == job[c].occurrence[1]
           start == Compose(rules[r], job[c].occurrence[2])
           j == [job[c] EXCEPT !.start = start, !.locations = RuleLocations(r)]
<1>1. CASE Refuse(c)
  BY <1>1, RefuseThinks
<1>2. CASE /\ job' = [job EXCEPT ![c].start = start, ![c].locations = RuleLocations(r)]
           /\ Goto(c, "exclude")
           /\ UNCHANGED <<tables, interests, attended, told>>
  <2>1. rules[r] \in RuleOf(Locations) /\ job[c].occurrence[2] \in Int
    BY JobOf DEF ScheduleInv, ScheduleTypeOK, TablesTypeOK
  <2>2. start \in Int /\ RuleLocations(r) \subseteq Locations
    BY <2>1, Instants DEF RuleLocations, RuleOf
  <2>3. j \in Job
    BY <2>2, JobOf DEF Job
  <2>4. job' = [job EXCEPT ![c] = j]
    BY <1>2 DEF ScheduleInv, ScheduleTypeOK
  <2>5. Moves(c, "exclude", j)
    BY <1>2, <2>3, <2>4 DEF Moves, Goto, Steps
  <2> QED BY <1>2, <2>3, <2>5 DEF Thinks, SomeMove, Silent, Steps
<1> QED BY <1>1, <1>2 DEF ReadRule

LEMMA ExcludeThinks ==
  ASSUME ScheduleInv, NEW c \in Calls, Exclude(c) PROVE Thinks(c)
<1> DEFINE rest == job[c].locations \ Excluded(Day(job[c].start))
           j == [job[c] EXCEPT !.locations = rest]
<1>1. CASE Refuse(c)
  BY <1>1, RefuseThinks
<1>2. CASE /\ job' = [job EXCEPT ![c].locations = rest] /\ Goto(c, "create")
           /\ UNCHANGED <<tables, interests, attended, told>>
  <2>1. j \in Job
    BY JobOf DEF Job
  <2>2. job' = [job EXCEPT ![c] = j]
    BY <1>2 DEF ScheduleInv, ScheduleTypeOK
  <2>3. Moves(c, "create", j)
    BY <1>2, <2>1, <2>2 DEF Moves, Goto, Steps
  <2> QED BY <1>2, <2>1, <2>3 DEF Thinks, SomeMove, Silent, Steps
<1> QED BY <1>1, <1>2 DEF Exclude

LEMMA ConflictsThinks ==
  ASSUME ScheduleInv, NEW c \in Calls, Conflicts(c) PROVE Thinks(c)
<1>1. CASE Refuse(c)
  BY <1>1, RefuseThinks
<1>2. CASE Goto(c, "save") /\ UNCHANGED <<tables, interests, attended, job, told>>
  <2>1. job[c].request.kind = "rsvp"
    BY DEF Conflicts, ScheduleInv, Asked
  <2> QED BY <1>2, <2>1, GotoMoves, JobOf DEF Thinks, SomeMove, Silent, Steps
<1> QED BY <1>1, <1>2 DEF Conflicts

-----------------------------------------------------------------------------
(* The steps that have a row, make one, or save the RSVP.                  *)
Finds(c) == SomeMove(c) /\ Tells(c) /\ UNCHANGED <<tables, interests>>

Makes(c) ==
  /\ pc[c] = "create"
  /\ SomeMove(c) /\ Tells(c) /\ UNCHANGED <<rules, specials, active, edits, interests>>
  /\ rows' = rows \cup {NewRow(c)} /\ RowsAt(job[c].occurrence[1], job[c].occurrence[2]) = {}

Saves(c) ==
  /\ pc[c] = "save"
  /\ Moves(c, "idle", NoJob) /\ Silent /\ UNCHANGED tables
  /\ interests' = [interests EXCEPT ![<<job[c].request.user, job[c].request.key>>] = "going"]

LEMMA FindFinds ==
  ASSUME ScheduleInv, NEW c \in Calls, Find(c) PROVE Thinks(c) \/ Finds(c)
<1>1. CASE Goto(c, "rule") /\ UNCHANGED <<tables, interests, attended, job, told>>
  BY <1>1, GotoMoves, JobOf DEF Thinks, SomeMove, Silent, Steps
<1>2. ASSUME NEW row \in RowsAt(job[c].occurrence[1], job[c].occurrence[2]), Got(c, row), UNCHANGED tables
      PROVE  Finds(c)
  <2>1. row \in rows' /\ row.rule = job[c].occurrence[1] /\ row.date = job[c].occurrence[2]
    BY <1>2 DEF RowsAt, tables
  <2> QED BY <1>2, <2>1, GotTells DEF Finds, Got
<1> QED BY <1>1, <1>2 DEF Find, tables

LEMMA CreateMakes ==
  ASSUME ScheduleInv, NEW c \in Calls, Create(c) PROVE Finds(c) \/ Makes(c)
<1>1. ASSUME NEW row \in RowsAt(job[c].occurrence[1], job[c].occurrence[2]), Got(c, row), UNCHANGED rows
      PROVE  Finds(c)
  <2>1. row \in rows' /\ row.rule = job[c].occurrence[1] /\ row.date = job[c].occurrence[2]
    BY <1>1 DEF RowsAt
  <2> QED BY <1>1, <2>1, GotTells DEF Finds, Got, Create, tables
<1>2. CASE /\ RowsAt(job[c].occurrence[1], job[c].occurrence[2]) = {}
           /\ rows' = rows \cup {NewRow(c)} /\ Got(c, NewRow(c))
  <2>1. /\ NewRow(c) \in rows' /\ NewRow(c).rule = job[c].occurrence[1]
        /\ NewRow(c).date = job[c].occurrence[2]
    BY <1>2 DEF NewRow
  <2> QED BY <1>2, <2>1, GotTells DEF Makes, Got, Create
<1> QED BY <1>1, <1>2 DEF Create

LEMMA SaveSaves ==
  ASSUME ScheduleInv, NEW c \in Calls, Save(c) PROVE Saves(c)
BY EndMoves DEF Save, Saves, Silent

CallStep(c) ==
  \/ \E q \in Requests : Ask(c, q)
  \/ CheckKey(c) \/ FindOpen(c) \/ Find(c) \/ ReadRule(c) \/ Exclude(c) \/ Create(c)
  \/ Conflicts(c) \/ Save(c) \/ Stop(c)

LEMMA StepKinds ==
  ASSUME ScheduleInv, NEW c \in Calls, CallStep(c)
  PROVE  /\ Thinks(c) \/ Finds(c) \/ Makes(c) \/ Saves(c)
         /\ calls' \in 0..MaxCalls
<1>1. (\E q \in Requests : Ask(c, q)) \/ calls' = calls
  BY DEF CallStep, CheckKey, FindOpen, Find, ReadRule, Exclude, Create, Conflicts, Save, Stop
<1>2. calls' \in 0..MaxCalls
  BY <1>1, AskThinks DEF ScheduleInv, ScheduleTypeOK
<1> QED BY <1>2, AskThinks, CheckKeyThinks, FindOpenThinks, FindFinds, ReadRuleThinks, ExcludeThinks,
           CreateMakes, ConflictsThinks, SaveSaves, RefuseThinks DEF CallStep, Stop

-----------------------------------------------------------------------------
LEMMA KindsMove ==
  ASSUME ScheduleInv, NEW c \in Calls, CallStep(c) PROVE SomeMove(c)
BY StepKinds DEF Thinks, Finds, Makes, Saves, SomeMove, Steps, Moves

(* A new row is typed, and the only one of its occurrence.                 *)
LEMMA MakesRow ==
  ASSUME ScheduleInv, NEW c \in Calls, Makes(c)
  PROVE  TablesTypeOK' /\ IsFiniteSet(rows') /\ RowsStay /\ UniqueRows'
<1>1. job[c] \in Job /\ job[c].occurrence[1] \in Rules /\ job[c].occurrence[2] \in Int
  BY JobOf
<1>2. Cardinality(rows) + 1 \in Nat /\ IsFiniteSet(rows')
  BY FS_CardinalityType, FS_AddElement DEF ScheduleInv, Makes
<1>3. NewRow(c) \in Row
  BY <1>1, <1>2 DEF NewRow, Row, Job
<1>4. TablesTypeOK'
  BY <1>3 DEF Makes, ScheduleInv, ScheduleTypeOK, TablesTypeOK
<1>5. RowsStay
  BY DEF Makes, RowsStay, Same
<1>6. \A row \in rows : ~(row.rule = NewRow(c).rule /\ row.date = NewRow(c).date)
  BY DEF Makes, RowsAt, NewRow
<1>7. UniqueRows'
  BY <1>6 DEF Makes, ScheduleInv, UniqueRows
<1> QED BY <1>2, <1>4, <1>5, <1>7

LEMMA TablesStep ==
  ASSUME ScheduleInv, [Next]_vars
  PROVE  TablesTypeOK' /\ IsFiniteSet(rows') /\ RowsStay /\ UniqueRows'
<1>1. CASE UNCHANGED tables
  BY <1>1, RowsSame DEF tables, ScheduleInv, ScheduleTypeOK, TablesTypeOK
<1>2. CASE Administrate
  BY <1>2, AdminTables DEF TablesInv, ScheduleInv, ScheduleTypeOK
<1>3. ASSUME NEW c \in Calls, CallStep(c)
      PROVE  TablesTypeOK' /\ IsFiniteSet(rows') /\ RowsStay /\ UniqueRows'
  BY <1>1, <1>3, StepKinds, MakesRow DEF Thinks, Finds, Saves
<1> QED BY <1>1, <1>2, <1>3 DEF Next, CallStep, Cancel, vars

(* What a row was once told of, it is for ever.                            *)
LEMMA ToldStep ==
  ASSUME ScheduleInv, RowsStay, told' = told \/ \E c \in Calls : Tells(c)
  PROVE  ToldAreRows'
<1>1. \A t \in told : \E row \in rows' :
        row.id = t.id /\ row.rule = t.occurrence[1] /\ row.date = t.occurrence[2]
  BY DEF ScheduleInv, ToldAreRows, RowsStay, Same
<1> QED BY <1>1 DEF ToldAreRows, Tells

LEMMA ToldType ==
  ASSUME ScheduleInv, RowsStay, Silent \/ \E c \in Calls : Tells(c)
  PROVE  /\ attended' \subseteq Users \X {row.id : row \in rows'}
         /\ told' \subseteq [occurrence : Rules \X Int, id : {row.id : row \in rows'}]
<1>1. {row.id : row \in rows} \subseteq {row.id : row \in rows'}
  BY IdsStay
<1>2. /\ attended \subseteq Users \X {row.id : row \in rows'}
      /\ told \subseteq [occurrence : Rules \X Int, id : {row.id : row \in rows'}]
  BY <1>1 DEF ScheduleInv, ScheduleTypeOK
<1>3. ASSUME NEW c \in Calls, Tells(c)
      PROVE  /\ attended' \subseteq Users \X {row.id : row \in rows'}
             /\ told' \subseteq [occurrence : Rules \X Int, id : {row.id : row \in rows'}]
  <2>1. PICK row \in rows' :
          /\ told' = told \cup {[occurrence |-> job[c].occurrence, id |-> row.id]}
          /\ attended' \subseteq attended \cup {<<job[c].request.user, row.id>>}
    BY <1>3 DEF Tells
  <2>2. job[c].occurrence \in Rules \X Int /\ job[c].request.user \in Users
    BY JobOf DEF Job, Request
  <2> QED BY <1>2, <2>1, <2>2
<1> QED BY <1>2, <1>3 DEF Silent

(* Claims are places and days. *)
LEMMA ClaimsTyped ==
  ASSUME TablesTypeOK PROVE Claims \in SUBSET (Locations \X Int)
<1> SUFFICES ASSUME NEW e \in Announced
             PROVE  e.excludes \X {Day(e.start)} \subseteq Locations \X Int
  BY DEF Claims
<1>1. e.start \in Int /\ e.excludes \subseteq Locations
  BY DEF Announced, TablesTypeOK, Special, Row
<1>2. Day(e.start) \in Int
  BY <1>1, DayBounds
<1> QED BY <1>1, <1>2

LEMMA StandsTyped ==
  ASSUME ScheduleInv, [Next]_vars PROVE standing' \in [Calls -> SUBSET (Locations \X Int)]
<1>1. standing \in [Calls -> SUBSET (Locations \X Int)] /\ Claims \in SUBSET (Locations \X Int)
  BY ClaimsTyped DEF ScheduleInv, ScheduleTypeOK
<1>2. ASSUME NEW c \in Calls, CallStep(c) PROVE standing' \in [Calls -> SUBSET (Locations \X Int)]
  <2>1. \/ UNCHANGED standing
        \/ standing' = [standing EXCEPT ![c] = {}]
        \/ standing' = [standing EXCEPT ![c] = Claims]
    BY <1>2 DEF CallStep, Ask, CheckKey, FindOpen, Find, ReadRule, Exclude, Create, Conflicts, Save,
                Stop, Got, Refuse, End, Goto
  <2> QED BY <1>1, <2>1
<1>3. ASSUME standing' = [c \in Calls |-> standing[c] \cap Claims']
      PROVE  standing' \in [Calls -> SUBSET (Locations \X Int)]
  BY <1>1, <1>3
<1> QED BY <1>1, <1>2, <1>3 DEF Next, CallStep, Cancel, vars

LEMMA ScheduleNext == ScheduleInv /\ [Next]_vars => ScheduleInv'
<1> SUFFICES ASSUME ScheduleInv, [Next]_vars PROVE ScheduleInv'
  OBVIOUS
<1>1. TablesTypeOK' /\ IsFiniteSet(rows') /\ RowsStay /\ UniqueRows'
  BY TablesStep
<1>2. Silent \/ \E c \in Calls : Tells(c)
  BY StepKinds DEF Next, CallStep, Cancel, vars, Silent, Thinks, Finds, Makes, Saves
<1>3. ToldAreRows' /\ attended' \subseteq Users \X {row.id : row \in rows'}
      /\ told' \subseteq [occurrence : Rules \X Int, id : {row.id : row \in rows'}]
  BY <1>1, <1>2, ToldStep, ToldType DEF Silent
<1>4. pc' \in [Calls -> Steps] /\ job' \in [Calls -> Job] /\ Asked'
  <2>1. CASE UNCHANGED <<pc, job>>
    BY <2>1 DEF ScheduleInv, ScheduleTypeOK, Asked, Job
  <2>2. ASSUME NEW c \in Calls, CallStep(c)
        PROVE  pc' \in [Calls -> Steps] /\ job' \in [Calls -> Job] /\ Asked'
    BY <2>2, KindsMove, MovesTyped DEF SomeMove
  <2> QED BY <2>1, <2>2 DEF Next, CallStep, Cancel, vars
<1>5. interests' \in [Users \X Keys -> {"none", "going", "cancelled"}]
  BY StepKinds DEF Next, CallStep, Cancel, vars, Thinks, Finds, Makes, Saves, ScheduleInv, ScheduleTypeOK
<1>6. calls' \in 0..MaxCalls
  BY StepKinds DEF Next, CallStep, Cancel, vars, ScheduleInv, ScheduleTypeOK
<1>7. standing' \in [Calls -> SUBSET (Locations \X Int)]
  BY StandsTyped
<1> QED BY <1>1, <1>3, <1>4, <1>5, <1>6, <1>7 DEF ScheduleInv, ScheduleTypeOK, Job

LEMMA ScheduleStart == Init => ScheduleInv
<1> SUFFICES ASSUME Init PROVE ScheduleInv
  OBVIOUS
<1>1. TablesTypeOK
  <2>1. rules \in [Rules -> RuleOf(Locations)] /\ specials \in [Specials -> Special]
    BY OccurrenceConstants DEF Init, TablesInit
  <2> QED BY <2>1, OccurrenceConstants DEF Init, TablesInit, TablesTypeOK
<1>2. IsFiniteSet(rows) /\ UniqueRows /\ ToldAreRows /\ Asked
  BY FS_EmptySet DEF Init, TablesInit, UniqueRows, ToldAreRows, Asked
<1>3. ScheduleTypeOK
  BY <1>1, NoJobTyped, ScheduleConstants DEF Init, ScheduleTypeOK, Steps, Job
<1> QED BY <1>2, <1>3 DEF ScheduleInv

LEMMA ScheduleInvariant == Spec => []ScheduleInv
BY ScheduleStart, ScheduleNext, PTL DEF Spec

(* Every variable of the schedule keeps its type, for any calendar, rules, *)
(* specials, requests and edits.                                           *)
THEOREM ScheduleTypeCorrect == Spec => []ScheduleTypeOK
BY ScheduleInvariant, PTL DEF ScheduleInv

(* All who materialize an occurrence at once are given one row for it (the *)
(* unique index, ensureMaterializedEvent's second read).                   *)
THEOREM OccurrencesHaveOneRow == Spec => []OneRowPerOccurrence
<1>1. ScheduleInv => OneRowPerOccurrence
  BY DEF ScheduleInv, UniqueRows, ToldAreRows, OneRowPerOccurrence
<1> QED BY <1>1, ScheduleInvariant, PTL

-----------------------------------------------------------------------------
(* Places.  What has stood since a call was asked is claimed now, and a    *)
(* call that has read the claims holds none of it.                         *)
Free(c) == standing[c] \cap (job[c].locations \X {Day(job[c].start)}) = {}

StandingInv ==
  /\ \A c \in Calls : standing[c] \subseteq Claims
  /\ \A c \in Calls : pc[c] = "create" => Free(c)

(* A claim on a place is a location that the day excludes.                 *)
LEMMA ClaimExcludes ==
  ASSUME NEW l, NEW d, <<l, d>> \in Claims PROVE l \in Excluded(d)
BY DEF Claims, Excluded

(* A request announces nothing: an event it makes excludes no place.       *)
LEMMA ClaimsStay ==
  ASSUME ScheduleInv, NEW c \in Calls, CallStep(c) PROVE Claims' = Claims
<1>1. UNCHANGED specials /\ (rows' = rows \/ Makes(c))
  BY StepKinds DEF Thinks, Finds, Makes, Saves, tables
<1>2. CASE rows' = rows
  BY <1>1, <1>2 DEF Claims, Announced
<1>3. CASE Makes(c)
  <2>1. PICK new : rows' = rows \cup {new} /\ new.excludes = {}
    <3>1. NewRow(c).excludes = {}
      BY DEF NewRow
    <3> QED BY <1>3, <3>1 DEF Makes
  <2>2. Announced \subseteq Announced' /\ \A e \in Announced' : e \in Announced \/ e = new
    BY <1>1, <2>1 DEF Announced
  <2> QED BY <2>1, <2>2 DEF Claims
<1> QED BY <1>1, <1>2, <1>3

(* A call's own step: what stands for it, and how it comes to Create.      *)
LEMMA StandingStep ==
  ASSUME ScheduleInv, NEW c \in Calls, CallStep(c)
  PROVE  /\ \A d \in Calls \ {c} : standing'[d] = standing[d]
         /\ standing'[c] \in {standing[c], {}, Claims}
         /\ pc'[c] = "create" => Exclude(c) /\ ~Refuse(c) /\ UNCHANGED standing
<1>1. pc \in [Calls -> Steps] /\ standing \in [Calls -> SUBSET (Locations \X Int)]
  BY DEF ScheduleInv, ScheduleTypeOK
<1>2. \/ UNCHANGED standing
      \/ standing' = [standing EXCEPT ![c] = {}]
      \/ standing' = [standing EXCEPT ![c] = Claims]
  BY DEF CallStep, Ask, CheckKey, FindOpen, Find, ReadRule, Exclude, Create, Conflicts, Save, Stop,
         Got, Refuse, End, Goto
<1>3. pc'[c] = "create" => Exclude(c) /\ ~Refuse(c)
  BY <1>1 DEF CallStep, Ask, CheckKey, FindOpen, Find, ReadRule, Exclude, Create, Conflicts, Save, Stop,
              Got, Refuse, End, Goto
<1>4. Exclude(c) /\ ~Refuse(c) => UNCHANGED standing
  BY DEF Exclude, Goto
<1> QED BY <1>1, <1>2, <1>3, <1>4

(* Reading the claims of the day leaves none of them.                      *)
LEMMA ReadsClaims ==
  ASSUME ScheduleInv, NEW c \in Calls, Exclude(c), ~Refuse(c), standing[c] \subseteq Claims
  PROVE  Free(c)'
<1>1. PICK s \in Int, l \in SUBSET Locations : s = job[c].start /\ l = job[c].locations
  BY JobOf DEF Job
<1>2. job'[c].start = s /\ job'[c].locations = l \ Excluded(Day(s)) /\ standing' = standing
  <2>1. job' = [job EXCEPT ![c].locations = l \ Excluded(Day(s))] /\ standing' = standing
    BY <1>1 DEF Exclude, Goto
  <2> QED BY <1>1, <2>1 DEF ScheduleInv, ScheduleTypeOK
<1>3. standing[c] \cap ((l \ Excluded(Day(s))) \X {Day(s)}) = {}
  BY ClaimExcludes
<1> QED BY <1>2, <1>3 DEF Free

LEMMA StandingNext == ScheduleInv /\ StandingInv /\ [Next]_vars => StandingInv'
<1> SUFFICES ASSUME ScheduleInv, StandingInv, [Next]_vars PROVE StandingInv'
  OBVIOUS
<1>1. CASE UNCHANGED <<tables, pc, job, standing>>
  <2>1. Claims' = Claims
    BY <1>1 DEF Claims, Announced, tables
  <2> QED BY <1>1, <2>1 DEF StandingInv, Free
<1>2. CASE standing' = [c \in Calls |-> standing[c] \cap Claims'] /\ UNCHANGED <<pc, job>>
  BY <1>2 DEF StandingInv, Free
<1>3. ASSUME NEW c \in Calls, CallStep(c) PROVE StandingInv'
  <2>1. Claims' = Claims
    BY <1>3, ClaimsStay
  <2>2. \A d \in Calls : standing'[d] \subseteq Claims'
    BY <1>3, <2>1, StandingStep DEF StandingInv
  <2>3. ASSUME NEW d \in Calls, d # c, pc'[d] = "create" PROVE Free(d)'
    <3>1. pc'[d] = pc[d] /\ job'[d] = job[d] /\ standing'[d] = standing[d]
      BY <1>3, <2>3, KindsMove, MovesTyped, StandingStep DEF SomeMove
    <3> QED BY <2>3, <3>1 DEF StandingInv, Free
  <2>4. pc'[c] = "create" => Free(c)'
    BY <1>3, StandingStep, ReadsClaims DEF StandingInv
  <2> QED BY <2>2, <2>3, <2>4 DEF StandingInv
<1> QED BY <1>1, <1>2, <1>3 DEF Next, CallStep, Cancel, vars

(* The step that writes a row writes the places its call holds.            *)
LEMMA WritesHeld ==
  ASSUME ScheduleInv, StandingInv, [Next]_vars,
         NEW c \in Calls, pc[c] = "create", pc'[c] # "create", NEW row \in rows' \ rows
  PROVE  standing[c] \cap (row.locations \X {Day(row.start)}) = {}
<1>1. PICK d \in Calls : CallStep(d)
  BY DEF Next, CallStep, Cancel, vars
<1>2. c = d
  BY <1>1, KindsMove, MovesTyped DEF SomeMove
<1>3. Makes(c)
  BY <1>1, <1>2, StepKinds DEF Thinks, Finds, Saves, tables
<1>4. row.locations = job[c].locations /\ row.start = job[c].start
  BY <1>3 DEF Makes, NewRow
<1> QED BY <1>4 DEF StandingInv, Free

(* However specials, events and rules are edited around a request, the     *)
(* event it materializes starts from no place that was claimed for its day *)
(* when the request was asked and without a break since, whichever edits   *)
(* announced the claim (ensureMaterializedEvent).                          *)
THEOREM ClaimsAreRespected == Spec => ExclusionsRespected
<1>1. Init => StandingInv
  BY DEF Init, StandingInv
<1>2. ScheduleInv /\ StandingInv /\ [Next]_vars =>
        [\A c \in Calls : pc[c] = "create" /\ pc'[c] # "create" =>
           \A row \in rows' \ rows :
             standing[c] \cap (row.locations \X {Day(row.start)}) = {}]_vars
  BY WritesHeld
<1> QED BY <1>1, <1>2, StandingNext, ScheduleInvariant, PTL DEF Spec, ExclusionsRespected

-----------------------------------------------------------------------------
(* RSVPs.  A call that is about to save has found no other event of the    *)
(* day, and nobody else adds to this member's.                             *)
Clear(u, key) == \A other \in Going(u) \ {key} : DateOf(other) # DateOf(key)

ClearedCalls == \A c \in Calls : pc[c] = "save" => Clear(job[c].request.user, job[c].request.key)

(* Two requests of one member are not both RSVPs.                          *)
Alone ==
  \A c, d \in Calls :
    pc[c] # "idle" /\ pc[d] # "idle" /\ job[c].request.user = job[d].request.user
    /\ job[c].request.kind = "rsvp" /\ job[d].request.kind = "rsvp" => c = d

(* Specials stay on their day whatever is edited.                          *)
SpecialsStay ==
  \A s \in Specials : \A v, w \in SpecialVersions[s] : LocalDay(v.start) = LocalDay(w.start)

SpecialsOwn == \A s \in Specials : specials[s] \in SpecialVersions[s]

RsvpInv == SpecialsOwn /\ Alone /\ ClearedCalls /\ OneRsvpPerDate

LEMMA DatesStay ==
  ASSUME SpecialsStay, ScheduleInv, SpecialsOwn, [Next]_vars
  PROVE  SpecialsOwn' /\ \A key \in Keys : DateOf(key)' = DateOf(key)
<1>1. CASE UNCHANGED specials
  BY <1>1 DEF SpecialsOwn, DateOf
<1>2. ASSUME NEW s \in Specials, UpdateSpecial(s)
      PROVE  SpecialsOwn' /\ \A key \in Keys : DateOf(key)' = DateOf(key)
  <2>1. PICK v \in SpecialVersions[s] : specials' = [specials EXCEPT ![s] = v]
    BY <1>2 DEF UpdateSpecial, Edit
  <2>2. specials' \in [Specials -> Special \cup {v}] /\ specials'[s] = v
        /\ \A x \in Specials \ {s} : specials'[x] = specials[x]
    BY <2>1 DEF ScheduleInv, ScheduleTypeOK, TablesTypeOK
  <2>3. LocalDay(v.start) = LocalDay(specials[s].start)
    BY DEF SpecialsStay, SpecialsOwn
  <2> QED BY <2>2, <2>3 DEF SpecialsOwn, DateOf
<1>3. (\E c \in Calls : CallStep(c)) => UNCHANGED specials
  BY StepKinds DEF Thinks, Finds, Makes, Saves, tables
<1> QED BY <1>1, <1>2, <1>3 DEF Next, CallStep, Cancel, vars, tables, Administrate, UpdateRule, UpdateRow,
                                SetLocations, ToggleLocation

(* A call keeps its request until it ends; only Conflicts leads to Save.   *)
LEMMA CallKeeps ==
  ASSUME ScheduleInv, NEW c \in Calls, CallStep(c)
  PROVE  /\ \A d \in Calls \ {c} : pc'[d] = pc[d] /\ job'[d] = job[d]
         /\ pc[c] # "idle" /\ pc'[c] # "idle" => job'[c].request = job[c].request
         /\ pc'[c] = "save" => Conflicts(c)
<1>1. pc \in [Calls -> Steps] /\ job \in [Calls -> Job] /\ job[c] \in Job
  BY DEF ScheduleInv, ScheduleTypeOK, Job
<1>2. \A d \in Calls \ {c} : pc'[d] = pc[d] /\ job'[d] = job[d]
  BY KindsMove, MovesTyped DEF SomeMove
<1>3. pc'[c] = "save" => Conflicts(c)
  BY <1>1 DEF CallStep, Ask, CheckKey, FindOpen, Find, ReadRule, Exclude, Create, Conflicts, Save, Stop,
              Got, Refuse, End, Goto
<1>4. ASSUME pc[c] # "idle", pc'[c] # "idle" PROVE job'[c].request = job[c].request
  <2>1. ~End(c) /\ ~Refuse(c) /\ ~ \E q \in Requests : Ask(c, q)
    BY <1>1, <1>4 DEF Refuse, End, Goto, Ask
  <2>2. \/ job' = job
        \/ \E x : job' = [job EXCEPT ![c].occurrence = x] \/ job' = [job EXCEPT ![c].locations = x]
        \/ \E x, y : job' = [job EXCEPT ![c].start = x, ![c].locations = y]
    BY <2>1 DEF CallStep, CheckKey, FindOpen, Find, ReadRule, Exclude, Create, Conflicts, Save, Stop, Got
  <2> QED BY <1>1, <2>2 DEF Job
<1> QED BY <1>2, <1>3, <1>4

LEMMA AloneStep ==
  ASSUME SerialRsvps, ScheduleInv, Alone, [Next]_vars PROVE Alone'
<1>1. CASE UNCHANGED <<pc, job>>
  BY <1>1 DEF Alone
<1>2. ASSUME NEW c \in Calls, CallStep(c) PROVE Alone'
  <2>1. \A d \in Calls \ {c} : pc'[d] = pc[d] /\ job'[d] = job[d]
    BY <1>2, CallKeeps
  <2>2. CASE pc[c] # "idle"
    <3>1. pc'[c] # "idle" => job'[c].request = job[c].request
      BY <1>2, <2>2, CallKeeps
    <3> QED BY <2>1, <2>2, <3>1 DEF Alone
  <2>3. CASE pc[c] = "idle"
    <3>1. PICK q \in Requests : Ask(c, q)
      BY <1>2, <2>3 DEF CallStep, CheckKey, FindOpen, Find, ReadRule, Exclude, Create, Conflicts, Save, Stop
    <3>2. job'[c].request = q
      BY <3>1 DEF Ask, ScheduleInv, ScheduleTypeOK
    <3>3. q.kind = "rsvp" => ~Busy(q.user)
      BY <3>1 DEF Ask
    <3> QED BY <2>1, <2>3, <3>2, <3>3 DEF Alone, Busy
  <2> QED BY <2>2, <2>3
<1> QED BY <1>1, <1>2 DEF Next, CallStep, Cancel, vars

(* Who is going to what. *)
LEMMA GoingAfter ==
  ASSUME ScheduleInv, NEW u \in Users, NEW key \in Keys, NEW v \in {"going", "cancelled"},
         interests' = [interests EXCEPT ![<<u, key>>] = v]
  PROVE  /\ \A x \in Users \ {u} : Going(x)' = Going(x)
         /\ v = "going" => Going(u)' = Going(u) \cup {key}
         /\ v = "cancelled" => Going(u)' = Going(u) \ {key}
<1>1. /\ interests \in [Users \X Keys -> {"none", "going", "cancelled"}]
      /\ \A x \in Users, k \in Keys : <<x, k>> \in Users \X Keys
  BY DEF ScheduleInv, ScheduleTypeOK
<1>2. \A x \in Users, k \in Keys :
        interests'[<<x, k>>] = IF x = u /\ k = key THEN v ELSE interests[<<x, k>>]
  BY <1>1
<1> QED BY <1>2 DEF Going

LEMMA RsvpNext ==
  SerialRsvps /\ SpecialsStay => (ScheduleInv /\ RsvpInv /\ [Next]_vars => RsvpInv')
<1> SUFFICES ASSUME SerialRsvps, SpecialsStay, ScheduleInv, RsvpInv, [Next]_vars PROVE RsvpInv'
  OBVIOUS
<1>1. SpecialsOwn' /\ Alone' /\ \A key \in Keys : DateOf(key)' = DateOf(key)
  BY DatesStay, AloneStep DEF RsvpInv
<1>2. \A c \in Calls : job[c].request.user \in Users /\ job[c].request.key \in Keys
  BY JobOf DEF Request
<1>3. \A u \in Users : Going(u) \subseteq Keys /\ Going(u)' \subseteq Keys
  BY DEF Going
<1>4. CASE UNCHANGED <<interests, pc, job>>
  <2>1. \A u \in Users : Going(u)' = Going(u)
    BY <1>4 DEF Going
  <2> QED BY <1>1, <1>2, <1>3, <1>4, <2>1 DEF RsvpInv, ClearedCalls, Clear, OneRsvpPerDate
<1>5. ASSUME NEW u \in Users, NEW key \in Keys, Cancel(u, key) PROVE RsvpInv'
  <2>1. /\ Going(u)' = Going(u) \ {key} /\ \A x \in Users \ {u} : Going(x)' = Going(x)
        /\ UNCHANGED <<pc, job>>
    BY <1>5, GoingAfter DEF Cancel
  <2>2. \A x \in Users : Going(x)' \subseteq Going(x)
    BY <2>1
  <2> QED BY <1>1, <1>2, <1>3, <2>1, <2>2 DEF RsvpInv, ClearedCalls, Clear, OneRsvpPerDate
<1>6. ASSUME NEW c \in Calls, CallStep(c), ~Saves(c) PROVE RsvpInv'
  <2>1. interests' = interests
    BY <1>6, StepKinds DEF Thinks, Finds, Makes
  <2>2. \A u \in Users : Going(u)' = Going(u)
    BY <2>1 DEF Going
  <2>3. OneRsvpPerDate'
    BY <1>1, <1>3, <2>2 DEF RsvpInv, OneRsvpPerDate
  <2>4. ASSUME NEW d \in Calls, pc'[d] = "save"
        PROVE  Clear(job[d].request.user, job[d].request.key) /\ job'[d] = job[d]
    <3>1. CASE d # c
      BY <1>6, <2>4, <3>1, CallKeeps DEF RsvpInv, ClearedCalls
    <3>2. CASE d = c
      <4>1. Conflicts(c)
        BY <1>6, <2>4, <3>2, CallKeeps
      <4>2. ~Refuse(c)
        BY <2>4, <3>2 DEF Refuse, End, Goto, ScheduleInv, ScheduleTypeOK
      <4> QED BY <3>2, <4>1, <4>2 DEF Conflicts, Clear
    <3> QED BY <3>1, <3>2
  <2>5. ClearedCalls'
    BY <1>1, <1>2, <1>3, <2>2, <2>4 DEF ClearedCalls, Clear
  <2> QED BY <1>1, <2>3, <2>5 DEF RsvpInv
<1>7. ASSUME NEW c \in Calls, CallStep(c), Saves(c) PROVE RsvpInv'
  <2> PICK u \in Users, k \in Keys : u = job[c].request.user /\ k = job[c].request.key
    BY <1>2
  <2>1. Going(u)' = Going(u) \cup {k} /\ \A x \in Users \ {u} : Going(x)' = Going(x)
    <3>1. interests' = [interests EXCEPT ![<<u, k>>] = "going"]
      BY <1>7 DEF Saves
    <3> QED BY <3>1, GoingAfter
  <2>2. pc[c] = "save" /\ Clear(u, k) /\ job[c].request.kind = "rsvp"
    BY <1>7 DEF Saves, RsvpInv, ClearedCalls, ScheduleInv, Asked
  <2>3. OneRsvpPerDate'
    BY <1>1, <1>2, <1>3, <2>1, <2>2 DEF RsvpInv, OneRsvpPerDate, Clear
  <2>4. ASSUME NEW d \in Calls, pc'[d] = "save"
        PROVE  /\ pc[d] = "save" /\ job'[d] = job[d] /\ job[d].request.user # u
    <3>1. d # c
      BY <1>7, <2>4, MovesTyped DEF Saves
    <3>2. pc[d] = "save" /\ job'[d] = job[d]
      BY <1>7, <2>4, <3>1, CallKeeps
    <3>3. job[d].request.kind = "rsvp"
      BY <3>2 DEF ScheduleInv, Asked
    <3> QED BY <2>2, <3>1, <3>2, <3>3 DEF RsvpInv, Alone
  <2>5. ClearedCalls'
    BY <1>1, <1>2, <1>3, <2>1, <2>4 DEF RsvpInv, ClearedCalls, Clear
  <2> QED BY <1>1, <2>3, <2>5 DEF RsvpInv
<1> QED BY <1>4, <1>5, <1>6, <1>7 DEF Next, CallStep, vars

(* A member whose requests do not overlap goes to one event a day, through *)
(* cancelling and going again, while specials stay on their days           *)
(* (assertNoConflictingInterest).                                          *)
THEOREM OneRsvpADay == SerialRsvps /\ SpecialsStay => (Spec => []OneRsvpPerDate)
<1> SUFFICES ASSUME SerialRsvps, SpecialsStay PROVE Spec => []OneRsvpPerDate
  OBVIOUS
<1>1. Init => RsvpInv
  <2> SUFFICES ASSUME Init PROVE RsvpInv
    OBVIOUS
  <2>1. \A u \in Users : Going(u) = {}
    BY DEF Init, Going
  <2> QED BY <2>1 DEF Init, TablesInit, RsvpInv, SpecialsOwn, Alone, ClearedCalls, OneRsvpPerDate
<1>2. RsvpInv => OneRsvpPerDate
  BY DEF RsvpInv
<1>3. ScheduleInv /\ RsvpInv /\ [Next]_vars => RsvpInv'
  BY RsvpNext
<1> QED BY <1>1, <1>2, <1>3, ScheduleInvariant, PTL DEF Spec
-----------------------------------------------------------------------------
(* List and page.                                                          *)
LEMMA OneAt ==
  ASSUME UniqueRows, NEW r, NEW d, NEW row \in RowsAt(r, d)
  PROVE  RowsAt(r, d) = {row} /\ (CHOOSE x \in RowsAt(r, d) : TRUE) = row
<1>1. RowsAt(r, d) = {row}
  BY DEF UniqueRows, RowsAt
<1> QED BY <1>1

LEMMA RulesTyped ==
  ASSUME ScheduleInv, NEW r \in Rules PROVE rules[r] \in RuleOf(Locations)
BY DEF ScheduleInv, ScheduleTypeOK, TablesTypeOK

LEMMA CardTells ==
  ASSUME ScheduleInv, NEW t \in Int, NEW to \in Int, NEW r \in Rules, rules[r].tod >= Offset,
         NEW s \in StartsIn(rules[r], t, to), NEW c \in Card(r, s, t, to)
  PROVE  c.key = <<r, Day(s)>> /\ SameStory(c, t, to)
<1> DEFINE v == rules[r]
           d == Day(s)
           shown == {row \in RowsAt(r, d) : Published(row, t, to)}
<1>1. v \in RuleOf(Locations) /\ UniqueRows
  BY RulesTyped DEF ScheduleInv
<1>2. d \in Int /\ s = Compose(v, d) /\ Opens(v, d)
  BY <1>1, StartsAreOpen
<1>3. Day(Compose(v, d)) = d
  BY <1>2
<1> HIDE DEF v, d
<1>4. ASSUME NEW row \in RowsAt(r, d),
             \A x \in RowsAt(r, d) : Published(x, t, to) /\ x.locations \cap active # {}
      PROVE  c.key = <<r, d>> /\ Page(r, d).start = c.start /\ Page(r, d).locations = c.locations
  <2>1. RowsAt(r, d) = {row} /\ (CHOOSE x \in RowsAt(r, d) : TRUE) = row /\ shown = {row}
    BY <1>1, <1>4, OneAt
  <2>2. c = [key |-> <<r, d>>, start |-> row.start, locations |-> row.locations \cap active]
    BY <1>4, <2>1 DEF Card, d
  <2>3. Page(r, d) = [start |-> row.start, locations |-> row.locations \cap active]
    BY <1>3, <2>1 DEF Page, v
  <2> QED BY <2>2, <2>3
<1>5. ASSUME RowsAt(r, d) = {}
      PROVE  /\ c.key = <<r, d>> /\ Page(r, d).start = c.start
             /\ Excluded(d) = ExcludedIn(d, t, to) => Page(r, d).locations = c.locations
  <2>1. shown = {}
    BY <1>5
  <2>2. c.key = <<r, d>> /\ c.start = s /\ c.locations = RuleLocations(r) \ ExcludedIn(d, t, to)
    BY <2>1 DEF Card, d
  <2>3. Page(r, d) = [start |-> s, locations |-> RuleLocations(r) \ Excluded(d)]
    BY <1>2, <1>3, <1>5 DEF Page, v
  <2> QED BY <2>2, <2>3
<1>6. c.key = <<r, d>>
  <2>1. CASE shown # {}
    BY <2>1 DEF Card, d
  <2>2. CASE shown = {}
    BY <2>2 DEF Card, d
  <2> QED BY <2>1, <2>2
<1>7. c.key[1] = r /\ c.key[2] = d
  BY <1>6
<1> QED BY <1>2, <1>4, <1>5, <1>6, <1>7 DEF SameStory, v, d

(* The card of a run before UTC's midnight names a date of another weekday. *)
LEMMA EarlyCardIsDead ==
  ASSUME WeekLen > 1, NEW v \in RuleOf(Locations), NEW t \in Int, NEW to \in Int,
         v.tod < Offset, NEW s \in StartsIn(v, t, to)
  PROVE  ~Opens(v, Day(s))
<1>1. PICK n \in Int : s = Compose(v, n) /\ n % WeekLen = v.dow
  BY StartsAreComposed
<1>2. Day(s) = n - 1 /\ Day(s) % WeekLen # v.dow
  BY <1>1, ScanNames, OwnDate, CalendarTyped DEF RuleOf
<1>3. Day(s) \in Int
  BY <1>1, <1>2
<1> QED BY <1>2, <1>3, OpensIs

(* A due run is walked through, with its row's card or its rule's.         *)
LEMMA DueHasCard ==
  ASSUME ScheduleInv, NEW t \in Int, NEW to \in Int, NEW r \in Rules, NEW d \in Int,
         Due(r, d, t, to), ~Ended(r, t)
  PROVE  \E c \in RuleCards(t, to) : c.key = <<r, Day(Compose(rules[r], d))>>
<1> DEFINE v == rules[r]
           s == Compose(v, d)
           k == Day(s)
           shown == {row \in RowsAt(r, k) : Published(row, t, to)}
           l == RuleLocations(r) \ ExcludedIn(k, t, to)
<1>1. v \in RuleOf(Locations) /\ UniqueRows
  BY RulesTyped DEF ScheduleInv
<1>2. s \in StartsIn(v, t, to)
  <2>1. v.until = Never \/ Midnight(v.until) >= t
    <3>1. v.until \in Int /\ Midnight(v.until) \in Int
      BY <1>1, DayWithin DEF RuleOf, Never
    <3> QED BY <3>1 DEF Ended
  <2> QED BY <1>1, <2>1, OpenIsStart DEF Due
<1>3. \E c \in Card(r, s, t, to) : c.key = <<r, k>>
  <2>1. CASE RowsAt(r, k) = {}
    <3>1. shown = {} /\ Page(r, d).locations = RuleLocations(r) \ Excluded(k)
      BY <2>1 DEF Page
    <3>2. l # {}
      <4>1. ExcludedIn(k, t, to) \subseteq Excluded(k)
        BY DEF ExcludedIn, Excluded
      <4> QED BY <3>1, <4>1 DEF Due
    <3> HIDE DEF l, s
    <3>3. [key |-> <<r, Day(s)>>, start |-> s, locations |-> l] \in Card(r, s, t, to)
      BY <3>1, <3>2 DEF Card, l
    <3> QED BY <3>3
  <2>2. ASSUME NEW row \in RowsAt(r, k) PROVE \E c \in Card(r, s, t, to) : c.key = <<r, k>>
    <3>1. row \in shown
      BY <2>2 DEF Due
    <3> HIDE DEF s
    <3> DEFINE places == IF row.locations \cap active # {} THEN row.locations \cap active
                                                           ELSE RuleLocations(r)
    <3>2. [key |-> <<r, Day(s)>>, start |-> row.start, locations |-> places] \in Card(r, s, t, to)
      BY <3>1 DEF Card
    <3> QED BY <3>2
  <2> QED BY <2>1, <2>2
<1> QED BY <1>2, <1>3 DEF RuleCards

(* A rule whose last midnight is over has no card at all.                  *)
LEMMA EndedHasNone ==
  ASSUME ScheduleInv, NEW t \in Int, NEW to \in Int, NEW c \in RuleCards(t, to)
  PROVE  c.key[1] \in Rules /\ ~Ended(c.key[1], t)
<1>1. PICK r \in Rules : \E s \in StartsIn(rules[r], t, to) : c \in Card(r, s, t, to)
  BY DEF RuleCards
<1>2. PICK s \in StartsIn(rules[r], t, to) : c \in Card(r, s, t, to)
  BY <1>1
<1>3. c.key[1] = r
  BY <1>2 DEF Card
<1>4. rules[r].until = Never \/ Midnight(rules[r].until) >= t
  BY <1>2 DEF StartsIn
<1>5. Midnight(rules[r].until) \in Int
  <2>1. rules[r].until \in Int
    BY RulesTyped DEF RuleOf, Never
  <2> QED BY <2>1, DayWithin
<1> QED BY <1>3, <1>4, <1>5 DEF Ended

LEMMA Agree ==
  ASSUME WeekLen > 1, ScheduleInv, NEW t \in Int, NEW to \in Int PROVE StoriesAgree(t, to)
<1>1. ASSUME NEW c \in RuleCards(t, to)
      PROVE  IF rules[c.key[1]].tod >= Offset
               THEN SameStory(c, t, to) ELSE ~Opens(rules[c.key[1]], c.key[2])
  <2>1. PICK r \in Rules : \E s \in StartsIn(rules[r], t, to) : c \in Card(r, s, t, to)
    BY <1>1 DEF RuleCards
  <2>2. PICK s \in StartsIn(rules[r], t, to) : c \in Card(r, s, t, to)
    BY <2>1
  <2>3. c.key = <<r, Day(s)>>
    BY <2>2 DEF Card
  <2>4. CASE rules[r].tod >= Offset
    BY <2>2, <2>3, <2>4, CardTells
  <2>5. CASE ~(rules[r].tod >= Offset)
    <3>1. rules[r] \in RuleOf(Locations) /\ rules[r].tod < Offset
      <4>1. rules[r] \in RuleOf(Locations)
        BY RulesTyped
      <4>2. rules[r].tod \in Int
        BY <4>1, CalendarTyped DEF RuleOf
      <4> QED BY <2>5, <4>1, <4>2, CalendarTyped
    <3> QED BY <2>2, <2>3, <2>5, <3>1, EarlyCardIsDead
  <2> QED BY <2>4, <2>5
<1>2. ASSUME NEW r \in Rules, NEW d \in Dates, Due(r, d, t, to)
      PROVE  (\E c \in RuleCards(t, to) : c.key = <<r, Day(Compose(rules[r], d))>>) <=> ~Ended(r, t)
  <2>1. d \in Int
    BY OccurrenceConstants
  <2>2. ASSUME NEW c \in RuleCards(t, to), c.key = <<r, Day(Compose(rules[r], d))>>
        PROVE  ~Ended(r, t)
    BY <2>2, EndedHasNone
  <2> QED BY <1>2, <2>1, <2>2, DueHasCard
<1> QED BY <1>1, <1>2 DEF StoriesAgree

(* In a week of more than one day, for every calendar, window and state    *)
(* the schedule can be in: the card of a run at or after UTC's midnight    *)
(* opens its page, and tells the same story; that of an earlier run opens  *)
(* none; and a run that is due in the window has its card exactly if the   *)
(* window opens by midnight of the rule's last day (listInRange,           *)
(* getRuleOccurrenceById).                                                 *)
THEOREM ListAndPageAgree ==
  WeekLen > 1 => (Spec => []((\A t, to \in Int : StoriesAgree(t, to)) /\ ListAgreesWithPage))
<1> SUFFICES ASSUME WeekLen > 1
             PROVE  Spec => []((\A t, to \in Int : StoriesAgree(t, to)) /\ ListAgreesWithPage)
  OBVIOUS
<1>1. ScheduleInv => (\A t, to \in Int : StoriesAgree(t, to)) /\ ListAgreesWithPage
  BY Agree, ScheduleConstants DEF ListAgreesWithPage
<1> QED BY <1>1, ScheduleInvariant, PTL

-----------------------------------------------------------------------------
(* Attendances.  While nobody edits, a row is what its rule says; a scan   *)
(* names the date of its run, unless the run starts before UTC's midnight: *)
(* then it names the day before, whose weekday is not the rule's, and is   *)
(* refused.                                                                *)
AsRule(r, date, start) ==
  start = Compose(rules[r], date) /\ date % WeekLen = rules[r].dow

Named(r, date) == rules[r].tod >= Offset \/ date % WeekLen # rules[r].dow

JobAsRule(c) ==
  /\ pc[c] \in {"exclude", "create"} =>
       AsRule(job[c].occurrence[1], job[c].occurrence[2], job[c].start)
  /\ pc[c] \in {"find", "rule", "exclude", "create"} /\ job[c].request.kind = "scan" =>
       Named(job[c].occurrence[1], job[c].occurrence[2])

RowAsRule(row) ==
  /\ row.published /\ AsRule(row.rule, row.date, row.start)
  /\ row.id <= Cardinality(rows)

AttendedInv ==
  edits = 0 =>
    /\ \A r \in Rules : rules[r].active
    /\ \A c \in Calls : JobAsRule(c)
    /\ \A row \in rows : RowAsRule(row)
    /\ \A row, other \in rows : row.id = other.id => row = other
    /\ \A row \in rows, u \in Users :
         <<u, row.id>> \in attended => rules[row.rule].tod >= Offset

(* A step of a call, seen from its own job.                                *)
LEMMA JobStep ==
  ASSUME WeekLen > 1, ScheduleInv, NEW c \in Calls, CallStep(c), JobAsRule(c), UNCHANGED rules
  PROVE  JobAsRule(c)'
<1>0. /\ pc \in [Calls -> Steps] /\ job \in [Calls -> Job] /\ job[c] \in Job
      /\ job[c].occurrence[1] \in Rules /\ job[c].occurrence[2] \in Int
      /\ job[c].request \in Request
  BY JobOf DEF ScheduleInv, ScheduleTypeOK, Job
<1>1. CASE pc'[c] \notin {"find", "rule", "exclude", "create"}
  BY <1>1 DEF JobAsRule
<1>2. ASSUME job'[c].occurrence = job[c].occurrence, job'[c].request = job[c].request,
             pc[c] \in {"find", "rule", "exclude", "create"},
             pc'[c] \in {"exclude", "create"} =>
               AsRule(job[c].occurrence[1], job[c].occurrence[2], job'[c].start)
      PROVE  JobAsRule(c)'
  BY <1>2 DEF JobAsRule, AsRule, Named
<1>3. CASE Refuse(c)
  BY <1>0, <1>1, <1>3 DEF Refuse, End, Goto
<1>4. ASSUME NEW row, Got(c, row) PROVE JobAsRule(c)'
  BY <1>0, <1>1, <1>4 DEF Got, End, Goto
<1>5. ASSUME NEW q \in Requests, Ask(c, q) PROVE JobAsRule(c)'
  <2>1. pc'[c] \in {"open", "assert"}
    BY <1>0, <1>5 DEF Ask, Goto
  <2> QED BY <1>1, <2>1
<1>6. ASSUME CheckKey(c), ~Refuse(c) PROVE JobAsRule(c)'
  <2>1. job[c].request.kind = "rsvp"
    BY <1>6 DEF CheckKey, ScheduleInv, Asked
  <2>2. pc'[c] \in {"find", "conflicts"} /\ job'[c].request = job[c].request
    BY <1>0, <1>6 DEF CheckKey, Goto, Job
  <2> QED BY <2>1, <2>2 DEF JobAsRule
<1>7. ASSUME FindOpen(c), ~Refuse(c) PROVE JobAsRule(c)'
  <2> DEFINE l == LocalDay(job[c].request.at)
  <2>1. PICK r \in Rules : /\ OpenTo(rules[r], job[c].request.location, job[c].request.at, active)
                           /\ job' = [job EXCEPT ![c].occurrence = <<r, Day(Compose(rules[r], l))>>]
                           /\ Goto(c, "find")
    BY <1>7 DEF FindOpen
  <2>2. pc'[c] = "find" /\ job'[c].occurrence = <<r, Day(Compose(rules[r], l))>>
    BY <1>0, <2>1 DEF Goto, Job
  <2>3. rules[r] \in RuleOf(Locations) /\ l \in Int /\ l % WeekLen = rules[r].dow
    <3>1. job[c].request.at \in Int
      BY <1>0 DEF Request
    <3> QED BY <2>1, <3>1, RulesTyped, CalendarTyped DEF OpenTo, Weekday, LocalDay
  <2> HIDE DEF l
  <2>4. Named(r, Day(Compose(rules[r], l)))
    BY <2>3, ScanNames DEF Named
  <2>5. job'[c].occurrence[1] = r /\ job'[c].occurrence[2] = Day(Compose(rules[r], l))
    BY <2>2
  <2> QED BY <2>2, <2>4, <2>5 DEF JobAsRule, Named
<1>8. ASSUME Find(c), ~ \E row : Got(c, row) PROVE JobAsRule(c)'
  BY <1>0, <1>2, <1>8 DEF Find, Goto
<1>9. ASSUME ReadRule(c), ~Refuse(c) PROVE JobAsRule(c)'
  <2>1. /\ pc[c] = "rule" /\ pc'[c] = "exclude"
        /\ job'[c] = [job[c] EXCEPT !.start = Compose(rules[job[c].occurrence[1]], job[c].occurrence[2]),
                                    !.locations = RuleLocations(job[c].occurrence[1])]
        /\ Weekday(Compose(rules[job[c].occurrence[1]], job[c].occurrence[2]))
             = rules[job[c].occurrence[1]].dow
    BY <1>0, <1>9 DEF ReadRule, Goto
  <2>2. PICK r \in Rules, d \in Int : r = job[c].occurrence[1] /\ d = job[c].occurrence[2]
    BY <1>0
  <2>3. d % WeekLen = rules[r].dow
    BY <2>1, <2>2, RulesTyped, OwnDate DEF Weekday
  <2>4. /\ job'[c].occurrence = job[c].occurrence /\ job'[c].request = job[c].request
        /\ job'[c].start = Compose(rules[r], d)
    BY <1>0, <2>1, <2>2 DEF Job
  <2> QED BY <1>2, <2>1, <2>2, <2>3, <2>4 DEF AsRule
<1>10. ASSUME Exclude(c), ~Refuse(c) PROVE JobAsRule(c)'
  <2>1. /\ pc[c] = "exclude"
        /\ job' = [job EXCEPT ![c].locations = job[c].locations \ Excluded(Day(job[c].start))]
    BY <1>10 DEF Exclude
  <2>2. /\ job'[c].occurrence = job[c].occurrence /\ job'[c].request = job[c].request
        /\ job'[c].start = job[c].start
    BY <1>0, <2>1 DEF Job
  <2> QED BY <1>2, <2>1, <2>2 DEF JobAsRule
<1>11. ASSUME Create(c) PROVE JobAsRule(c)'
  BY <1>4, <1>11 DEF Create
<1>12. ASSUME Conflicts(c) \/ Save(c) PROVE JobAsRule(c)'
  <2>1. pc'[c] \in {"idle", "save"}
    BY <1>0, <1>12 DEF Conflicts, Save, Refuse, End, Goto
  <2> QED BY <1>1, <2>1
<1>13. ASSUME Stop(c) PROVE JobAsRule(c)'
  BY <1>3, <1>13 DEF Stop
<1> QED BY <1>3, <1>4, <1>5, <1>6, <1>7, <1>8, <1>9, <1>10, <1>11, <1>12, <1>13 DEF CallStep

(* An attendance is a scan's, of a row of the occurrence it named.         *)
LEMMA AttendsNamed ==
  ASSUME ScheduleInv, NEW c \in Calls, CallStep(c), JobAsRule(c), \A row \in rows : RowAsRule(row),
         attended' # attended
  PROVE  \E row \in rows', u \in Users :
           /\ attended' \subseteq attended \cup {<<u, row.id>>}
           /\ rules[row.rule].tod >= Offset
<1>0. job[c].request.user \in Users
  BY JobOf DEF Request
<1>1. ASSUME NEW row, Got(c, row), row \in rows', pc[c] \in {"find", "create"},
             row.rule = job[c].occurrence[1], row.date = job[c].occurrence[2],
             row.date % WeekLen = rules[row.rule].dow
      PROVE  \E x \in rows', u \in Users :
               /\ attended' \subseteq attended \cup {<<u, x.id>>}
               /\ rules[x.rule].tod >= Offset
  <2>1. job[c].request.kind = "scan"
    BY <1>1 DEF Got
  <2>2. attended' \subseteq attended \cup {<<job[c].request.user, row.id>>}
    BY <1>1, <2>1 DEF Got, Attend
  <2>3. Named(row.rule, row.date)
    BY <1>1, <2>1 DEF JobAsRule
  <2> QED BY <1>0, <1>1, <2>2, <2>3 DEF Named
<1>2. ASSUME NEW row \in RowsAt(job[c].occurrence[1], job[c].occurrence[2])
      PROVE  /\ row \in rows /\ row.rule = job[c].occurrence[1] /\ row.date = job[c].occurrence[2]
             /\ row.date % WeekLen = rules[row.rule].dow
  BY <1>2 DEF RowsAt, RowAsRule, AsRule
<1>3. CASE Find(c)
  <2>1. PICK row \in RowsAt(job[c].occurrence[1], job[c].occurrence[2]) : Got(c, row)
    BY <1>3 DEF Find
  <2> QED BY <1>1, <1>2, <1>3, <2>1 DEF Find, tables
<1>4. CASE Create(c)
  <2>1. CASE rows' = rows \cup {NewRow(c)} /\ Got(c, NewRow(c))
    <3>1. NewRow(c).rule = job[c].occurrence[1] /\ NewRow(c).date = job[c].occurrence[2]
      BY DEF NewRow
    <3>2. NewRow(c).date % WeekLen = rules[NewRow(c).rule].dow
      BY <1>4, <3>1 DEF Create, JobAsRule, AsRule
    <3> QED BY <1>1, <1>4, <2>1, <3>1, <3>2 DEF Create
  <2>2. ASSUME NEW row \in RowsAt(job[c].occurrence[1], job[c].occurrence[2]), Got(c, row), UNCHANGED rows
        PROVE  \E x \in rows', u \in Users :
                 /\ attended' \subseteq attended \cup {<<u, x.id>>}
                 /\ rules[x.rule].tod >= Offset
    BY <1>1, <1>2, <1>4, <2>2 DEF Create
  <2> QED BY <1>4, <2>1, <2>2 DEF Create
<1>5. CASE Find(c) \/ Create(c)
  BY <1>3, <1>4, <1>5
<1> QED BY <1>5 DEF CallStep, Ask, CheckKey, FindOpen, ReadRule, Exclude, Conflicts, Save, Stop, Refuse

LEMMA AttendedCall ==
  ASSUME WeekLen > 1, ScheduleInv, edits = 0, AttendedInv, NEW c \in Calls, CallStep(c)
  PROVE  AttendedInv'
<1>0. /\ IsFiniteSet(rows) /\ rows \subseteq Row
      /\ attended \subseteq Users \X {row.id : row \in rows}
      /\ \A r \in Rules : rules[r].active
      /\ \A d \in Calls : JobAsRule(d)
      /\ \A row \in rows : RowAsRule(row)
      /\ \A row, other \in rows : row.id = other.id => row = other
      /\ \A row \in rows, u \in Users : <<u, row.id>> \in attended => rules[row.rule].tod >= Offset
  BY DEF AttendedInv, ScheduleInv, ScheduleTypeOK, TablesTypeOK
<1>1. UNCHANGED <<rules, edits>> /\ (rows' = rows \/ Makes(c))
  BY StepKinds DEF Thinks, Finds, Makes, Saves, tables
<1>2. \A d \in Calls : JobAsRule(d)'
  <2>1. JobAsRule(c)'
    BY <1>0, <1>1, JobStep
  <2>2. ASSUME NEW d \in Calls, d # c PROVE JobAsRule(d)'
    <3>1. pc'[d] = pc[d] /\ job'[d] = job[d] /\ JobAsRule(d)
      BY <1>0, <2>2, KindsMove, MovesTyped DEF SomeMove
    <3> QED BY <1>1, <3>1 DEF JobAsRule, AsRule, Named
  <2> QED BY <2>1, <2>2
<1>3. ASSUME Makes(c)
      PROVE  /\ \A row \in rows' : RowAsRule(row)'
             /\ \A row, other \in rows' : row.id = other.id => row = other
             /\ \A row \in rows' \ rows, u \in Users : <<u, row.id>> \notin attended
  <2>1. PICK n \in Nat : n = Cardinality(rows)
    BY <1>0, FS_CardinalityType
  <2>2. PICK new : new = NewRow(c) /\ rows' = rows \cup {new}
    BY <1>3 DEF Makes
  <2>3. /\ new.id = n + 1 /\ new.published /\ new.rule = job[c].occurrence[1]
        /\ new.date = job[c].occurrence[2] /\ new.start = job[c].start
    BY <2>1, <2>2 DEF NewRow
  <2>4. new \notin rows
    BY <1>3, <2>3 DEF Makes, RowsAt
  <2>5. Cardinality(rows') = n + 1
    BY <1>0, <2>1, <2>2, <2>4, FS_AddElement
  <2>6. \A row \in rows : row.id \in Nat /\ row.id <= n
    BY <1>0, <2>1 DEF RowAsRule, Row
  <2>7. AsRule(new.rule, new.date, new.start)
    BY <1>0, <1>3, <2>3 DEF Makes, JobAsRule
  <2>8. ASSUME NEW row \in rows' PROVE RowAsRule(row)'
    <3>1. row.published /\ AsRule(row.rule, row.date, row.start) /\ row.id <= n + 1
      BY <1>0, <2>1, <2>2, <2>3, <2>6, <2>7 DEF RowAsRule
    <3> QED BY <1>1, <2>5, <3>1 DEF RowAsRule, AsRule
  <2>9. \A row, other \in rows' : row.id = other.id => row = other
    BY <1>0, <2>1, <2>2, <2>3, <2>6
  <2>10. ASSUME NEW u \in Users PROVE <<u, new.id>> \notin attended
    <3>1. \A row \in rows : row.id # new.id
      BY <2>1, <2>3, <2>6
    <3> QED BY <1>0, <3>1
  <2> QED BY <2>2, <2>8, <2>9, <2>10
<1>4. /\ \A row \in rows' : RowAsRule(row)'
      /\ \A row, other \in rows' : row.id = other.id => row = other
      /\ \A row \in rows', u \in Users : <<u, row.id>> \in attended => rules[row.rule].tod >= Offset
  <2>1. CASE Makes(c)
    BY <1>0, <1>3, <2>1
  <2>2. CASE rows' = rows
    <3>1. ASSUME NEW row \in rows PROVE RowAsRule(row)'
      BY <1>0, <1>1, <2>2 DEF RowAsRule, AsRule
    <3> QED BY <1>0, <2>2, <3>1
  <2> QED BY <1>1, <2>1, <2>2
<1>5. ASSUME NEW row \in rows', NEW u \in Users, <<u, row.id>> \in attended'
      PROVE  rules[row.rule].tod >= Offset
  <2>1. CASE attended' = attended
    BY <1>4, <1>5, <2>1
  <2>2. CASE attended' # attended
    <3>1. PICK x \in rows', w \in Users : /\ attended' \subseteq attended \cup {<<w, x.id>>}
                                          /\ rules[x.rule].tod >= Offset
      BY <1>0, <2>2, AttendsNamed
    <3>2. <<u, row.id>> \in attended \/ row.id = x.id
      BY <1>5, <3>1
    <3> QED BY <1>4, <1>5, <3>1, <3>2
  <2> QED BY <2>1, <2>2
<1> QED BY <1>0, <1>1, <1>2, <1>4, <1>5 DEF AttendedInv

LEMMA AttendedNext == WeekLen > 1 => (ScheduleInv /\ AttendedInv /\ [Next]_vars => AttendedInv')
<1> SUFFICES ASSUME WeekLen > 1, ScheduleInv, AttendedInv, [Next]_vars, edits' = 0 PROVE AttendedInv'
  BY DEF AttendedInv
<1>1. CASE UNCHANGED <<tables, attended, pc, job>>
  BY <1>1 DEF tables, AttendedInv, JobAsRule, RowAsRule, AsRule, Named
<1>2. CASE Administrate
  BY <1>2, AdminTables DEF TablesInv, ScheduleInv, ScheduleTypeOK
<1>3. ASSUME NEW c \in Calls, CallStep(c) PROVE AttendedInv'
  <2>1. edits = 0
    BY <1>3, StepKinds DEF Thinks, Finds, Makes, Saves, tables
  <2> QED BY <1>3, <2>1, AttendedCall
<1> QED BY <1>1, <1>2, <1>3 DEF Next, CallStep, Cancel, vars

(* The cell of a run's day reads its card, which carries its row.          *)
LEMMA AttendedShows ==
  ASSUME WeekLen > 1, ScheduleInv, AttendedInv PROVE CheckedInIsDone
<1> SUFFICES ASSUME edits = 0, NEW row \in rows, NEW u \in Users, <<u, row.id>> \in attended,
                    InRange(rules[row.rule], row.start)
             PROVE  LocalDay(row.start) \in
                      DoneDates(u, Midnight(LocalDay(row.start)) - Offset,
                                   Midnight(LocalDay(row.start) + 1) - Offset - 1)
  BY DEF CheckedInIsDone
<1>1. PICK r \in Rules, d \in Int, s \in Int : r = row.rule /\ d = row.date /\ s = row.start
  BY DEF ScheduleInv, ScheduleTypeOK, TablesTypeOK, Row
<1>2. PICK v \in RuleOf(Locations) : v = rules[r]
  BY RulesTyped
<1>3. /\ v.active /\ row.published /\ s = Compose(v, d) /\ d % WeekLen = v.dow /\ v.tod >= Offset
      /\ InRange(v, s)
  BY <1>1, <1>2 DEF AttendedInv, RowAsRule, AsRule
<1>4. LocalDay(s) = d /\ Day(s) = d /\ Opens(v, d)
  BY <1>3, OwnDate, OpensIs
<1> DEFINE t == Midnight(d) - Offset
           to == Midnight(d + 1) - Offset - 1
           shown == {x \in RowsAt(r, d) : Published(x, t, to)}
<1>5. t \in Int /\ to \in Int /\ s \in t..to
  <2>1. Midnight(d) \in Int /\ Midnight(d + 1) = Midnight(d) + DayLen
    BY CalendarTyped, DayWithin, Products DEF Midnight
  <2>2. s = Midnight(d) - Offset + v.tod /\ v.tod \in 0..(DayLen - 1)
    BY <1>3 DEF Compose, RuleOf
  <2> QED BY <2>1, <2>2, CalendarTyped
<1>6. v.until = Never \/ Midnight(v.until) >= t
  <2>1. CASE v.until # Never
    <3>1. v.until \in Int /\ d <= v.until
      BY <1>3, <1>4, <2>1 DEF RuleOf, InRange, Never
    <3>2. Midnight(d) <= Midnight(v.until) /\ Midnight(d) \in Int /\ Midnight(v.until) \in Int
      <4>1. d <= v.until => d * DayLen <= v.until * DayLen
        BY <3>1, CalendarTyped, Products
      <4> QED BY <3>1, <4>1, DayWithin DEF Midnight
    <3> QED BY <3>2, CalendarTyped
  <2> QED BY <2>1
<1>7. s \in StartsIn(v, t, to)
  BY <1>3, <1>4, <1>5, <1>6, OpenIsStart
<1> HIDE DEF t, to
<1>8. row \in RowsAt(r, d) /\ row \in shown
  BY <1>1, <1>3, <1>5 DEF RowsAt, Published
<1> DEFINE c == [key |-> <<r, d>>, start |-> row.start, locations |->
                   IF row.locations \cap active # {} THEN row.locations \cap active
                                                     ELSE RuleLocations(r)]
<1>9. c \in Card(r, s, t, to)
  BY <1>4, <1>8 DEF Card
<1>10. c.key[1] = r /\ c.key[2] = d /\ c.start = s
  BY <1>1
<1> HIDE DEF c, shown
<1>11. c \in RuleCards(t, to)
  BY <1>2, <1>7, <1>9 DEF RuleCards
<1>12. d \in DoneDates(u, t, to)
  BY <1>4, <1>8, <1>10, <1>11 DEF DoneDates
<1> QED BY <1>1, <1>4, <1>12 DEF t, to

(* In a week of more than one day, whoever was checked in at a run has it  *)
(* as done on her timeline until somebody edits the schedule.              *)
THEOREM AttendedRunsAreDone == WeekLen > 1 => (Spec => []CheckedInIsDone)
<1> SUFFICES ASSUME WeekLen > 1 PROVE Spec => []CheckedInIsDone
  OBVIOUS
<1>1. Init => AttendedInv
  BY DEF Init, TablesInit, AttendedInv, JobAsRule
<1>2. ScheduleInv /\ AttendedInv /\ [Next]_vars => AttendedInv'
  BY AttendedNext
<1>3. ScheduleInv /\ AttendedInv => CheckedInIsDone
  BY AttendedShows
<1> QED BY <1>1, <1>2, <1>3, ScheduleInvariant, PTL DEF Spec
=============================================================================
