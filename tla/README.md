# CITYRNNG: specifications of points, shop, check-in, schedule and sessions

CITYRNNG is a running club's site. Runners come to weekly runs, have their QR
code scanned at the starting point, earn points and spend them on partners'
rewards. The server is a NestJS API over PostgreSQL (Prisma); scanners are
Raspberry Pis that post scans over mobile networks; the site is a Next.js front
end over the same API. Everything that is hard here is concurrency over database
rows: requests that overlap, callers that retry, processes that stop between two
writes.

This directory holds TLA+ specifications of that core, the TLC configurations
that check them, and proofs checked by TLAPS about each of its components: points
ledger, shop, check-in, scanner, schedule, sign-in, review and clean-up.

    tlc -workers 2 -config MCPointsService.cfg MCPointsService
    tlapm PointsService_proofs.tla

## 1. The system

| component | state | operations | interacts with |
|---|---|---|---|
| points ledger (`points.service.ts`) | `point_accounts.balance`, `point_transactions` (unique `idempotency_key`) | `post`, `getBalance`, histories | called by all that moves points, in its own Serializable transaction or in the caller's |
| awards, adjustments (`points-awards.service.ts`, `admin-points.controller.ts`) | none | signup bonus, attendance award, manual adjustment | `post` |
| shop (`redemptions.service.ts`) | `redemptions` (unique `code`, `point_txn_id`), `rewards.sold_count` | `redeem`, `markUsedByCode`, `cancelAndRefund`, computed expiry | `post`, rewards, partners |
| catalogue (`rewards.service.ts`, `partners.service.ts`, `partner-members.service.ts`) | `rewards`, `partners`, `partner_members` | create, update, membership | the shop reads it |
| check-in (`checkin.service.ts`) | `event_attendances` (unique event and user), `checkin_scans` (unique device and scan id; unique `attendance_id`) | `processScan`, `creditLeaderScan` | occurrences, awards |
| scan devices (`admin-checkin.service.ts`) | `scan_devices` | create, disable, delete, rotate key, test scan | check-in |
| runbase scanner (`scanner.py`) | queue, disk outbox | submit, deliver, flush, reboot | posts to check-in |
| occurrences (`event-occurrence.service.ts`) | `events` materialized from rules (unique rule and date) | `ensureMaterializedEvent`, `findOpenCheckinOccurrence` | check-in, RSVP |
| events, rules, locations | their rows | administrative edits | occurrences |
| RSVP (`event-interests.service.ts`) | `event_interests` | `markGoing`, `cancel` | occurrences |
| attendance review, clean-up script | `event_attendances`, accounts | approve, reject, delete and reverse | awards, points tables |
| sessions (`auth.service.ts`, `login-challenge.service.ts`, `middleware.ts`, the site's auth routes) | `sessions`, `login_challenges`, the browser's cookies | login, refresh, logout, reset | accounts |
| accounts (`users.service.ts`) | `users`, roles, profiles | register, activate, invite, passwords, roles, check-in code | signup bonus |
| dashboards, timelines, e-mail, crypto, health, web pages | none | queries and I/O | |

What makes each of them correct:

* ledger: the balance is the sum of the history; a key is posted once; a retry
  learns of the posting it made;
* shop: no debit without a redemption and no redemption without its debit; what
  is refunded is what was paid, at most once; a reward is not sold past its
  capacity; a redemption does not overdraw; a code is not used twice nor used and
  refunded;
* check-in: one credited event per runner and day; points exactly for the
  attendances; a green light only for a credited runner; every scan that was
  processed is in the journal, and a scan sent again gets the same outcome;
* scanner: a scan survives network loss and what is in the file a restart, and it arrives;
* occurrences: one event row per rule and date; a special's claim on a place is
  kept; list, page and timeline agree on dates; one RSVP a day;
* sessions: parallel refreshes do not sign a user out; a login link works once;
  an account is welcomed once, however it was activated;
* review and clean-up: what is approved is paid, what is deleted is taken back once.

`PROJECT.json` lists the hazards behind these, each at its line.

## 2. Modules

| module | what it is |
|---|---|
| `PointsLedger` | the abstract promise: per user an append-only sequence of postings under keys never posted twice, each with the running balance |
| `PointsTables` | the two tables and `PostEntry`, the one write of `post`; the invariants about them; the refinement mapping to `PointsLedger` |
| `PointsService` | overlapping calls of `post`: lookup, commit, abort, lost answer, retry |
| `Redemptions` | the shop over `PointsTables`: `redeem`, `markUsedByCode`, `cancelAndRefund`, edits, expiry |
| `Checkin` | scans over `PointsTables`: delivery, lookup in the journal, transaction, journal row |
| `ScanDelivery` | the abstract promise of a runbase device: a scan is held until it is answered for, only a fault of the device loses one |
| `Scanner` | the device's two threads, outbox, requests under way, the server's side of them, device administration; the refinement mapping to `ScanDelivery` |
| `Calendar` | the date arithmetic of occurrences, as operators: UTC and local days, weekdays, windows, first occurrence, which rule is open |
| `Occurrences` | rules, specials, materialized rows, locations and their edits; what the page and the list show of them |
| `Schedule` | RSVPs and scans that materialize occurrences, over `Occurrences` |
| `Accounts` | user rows and one-time links over `PointsTables` (the bonus) |
| `Sessions` | sign-in, token rotation, reset and logout over `Accounts`, with the browsers' cookie jars |
| `AttendanceReview` | approve and reject, and the duplicate clean-up script, over `PointsTables` |
| `MC*` | model values, requests and symmetry for TLC |
| `PointsTables_proofs` | what one `PostEntry` does, for every user, key and amount |
| `PointsService_proofs` | the theorems about `PointsService` |
| `Redemptions_proofs` | the theorems about `Redemptions` |
| `Checkin_proofs` | the theorems about `Checkin` |
| `Scanner_proofs` | the theorems about `Scanner`, with the refinement of `ScanDelivery` |
| `Schedule_proofs` | the theorems about `Occurrences` and `Schedule` |
| `Sessions_proofs` | the theorems about `Accounts` and `Sessions` |
| `AttendanceReview_proofs` | the theorems about `AttendanceReview` |

`PointsTables` is extended by every module that moves points, so each of them is
checked against the same abstract ledger (`ImplementsLedger`).

### The transaction abstraction

All modules use one reading of PostgreSQL, stated at the head of `PointsTables`:

* a read outside a transaction sees committed rows and is a step of its own;
* the writes of one transaction are one step, its commit;
* `balance: { increment }` holds the row lock until the commit, so it adds to the
  last committed balance (Read Committed: the callers' transactions);
* a Serializable transaction (`post` on its own, the check-in) is refused when a
  row it writes, or what it read, has changed since its snapshot; the snapshot's
  version of an account row is the number of its postings;
* a unique violation aborts the whole transaction, so a `catch` that goes on
  reading or retrying inside it (in `post`, and in the code generator of `redeem`)
  ends in a rollback;
* a process may stop at any point: what is committed stays, the rest is gone.

### PointsService

| action | code |
|---|---|
| `Call` | a caller with `PostParams`; `Calls` slots overlap |
| `Lookup` | amount check, `findUnique` by key (not scoped by user), account status |
| `Commit` | increment, insert, commit; the answer may be lost |
| `Abort` | P2002, P2034 or a stop |
| `Retry` | the caller repeats the request with its key |

### Redemptions

A redemption is named by the idempotency key of its debit, which is sound because
`point_txn_id` is unique. A request without a client key is one whose key nobody
else uses. `open` stands for the reward's and partner's status and the validity
window, which the code tests together. `ReadReward`, `FindExisting`,
`CheckBalance` are the three reads `redeem` makes before its transaction and
`RedeemCommit` is the transaction. `VerifyRead`/`VerifyWrite` and
`CancelRead`/`RefundLookup`/`CancelCommit` split the other two at the points where
another request can come between. `Fail` stops any of them. `EditReward`, `Expire`,
`Award` and `Adjust` are the environment: administrators, the clock, and points from
elsewhere (one award and one correction per user bound the run).

### Checkin

The occurrence a scan falls into is an input (`OpenAt`), since it depends on the
clock and on rules edited meanwhile: it can be an event, none, or the
`NotFoundException` of a fully excluded one (then there is no journal row). `Begin` is the snapshot and the
same-day read of `createAttendanceAndAward`, `Credit` its commit, `Collide` and
`Refuse` its P2002 and P2034 (a false alarm included). The read has no filter on the
status: a pending or rejected attendance of before (`Unapproved`; no code of the tree
makes one any more) makes the scan a duplicate as well. `RecordScan` is the journal
insert with the unique-violation path, `Stop` a process that stops. `Manual` scans
are the leaders': no `scanId`, so no lookup and no replay. Device authentication
happens before any of this and changes nothing; the heartbeat `touchDevice` is left
out.

### Scanner

| action | code |
|---|---|
| `Read`, `Take` | `submit`, the worker's `_q.get` |
| `Drain` | `Outbox.drain`: the file is emptied, the batch is in memory |
| `Post`, `Deliver`, `Rebuffer` | `_deliver` with its outcomes: any answer but a 5xx lets the scan go; no answer in time, or a 5xx, appends it to the outbox (`AppendLine`) |
| `Die` | an exception `_deliver` does not catch ends its thread |
| `Close`, `ExitDone`, `ExitTimeout`, `Kill`, `PowerCut`, `Start` | end of input and `drain_and_wait`, SIGTERM, the power, systemd's restart |
| `Guard`, `Process`, `Fail` | the device guard and throttle, `processScan`, a failing server |
| `SetStatus`, `RotateKey`, `DeleteDevice` | `AdminCheckinService` |

`status` of `ScanDelivery` is computed from where a scan is: queue, hand, batch,
outbox, answered, or nowhere. The lock around the outbox makes `append` and `drain`
one step each as far as threads and signals go. Nothing is flushed to the disk, so a power
cut may take the last lines and leave a torn one (`torn`); the next line is then written
behind it, and the two are one line that does not parse and is skipped. That a power cut
may also bring back lines `drain` has just removed is left out: they are delivered again
and answered from the journal. `_deliver` and the server overlap: a request may be served after its
client gave up, which is how one scan is delivered twice.

### Calendar, Occurrences, Schedule

Time is counted in parts of a day; a day has `DayLen`, a week `WeekLen` days, local
time runs `Offset` parts ahead of UTC. `Occurrences` holds what administrators edit
(`UpdateRule`, `UpdateSpecial`, `UpdateRow`, which may move a materialized run and have it
pull places out of others, `SetLocations`, `ToggleLocation`) and two
pure views: `Page`/`Opens` (`getRuleOccurrenceById`) and `RuleCards` (`listInRange`).
A rule is of `RuleOf`: its weekday and its time of day are in range, as the DTO demands.
`Schedule` has one step per read or transaction of `markGoing` and of
`findOpenCheckinOccurrence`: `CheckKey`, `FindOpen`, `Find`, `ReadRule`, `Exclude`,
`Create` (with the unique violation and the second read), `Conflicts`, `Save`. `standing`
is a history variable that no step reads: the claims on places that have stood, through
all edits, since each call was asked.
`DoneDates` is the part of the timeline that depends on keys and dates. Titles,
slugs, capacities and the choice of texts are left out.

### Accounts, Sessions

A user is her address, a session its index in the order of creation, a refresh token
that index. `Ensure`, `Register`, `Invite`, `BackfillCode` are the four ways an
account changes outside sign-in; `Consume` is the conditional update that spends a
link. A call goes through `FindLink`, `SpendLink`, `ReadUser`, a `Commit*`,
`OpenSession` and `Answer`; a refresh through `FindSession` and whatever `Decision`
says; a logout through `Revoke` and `DropCookies`. `Stop` ends any of them anywhere:
the answer never comes, the jar stays as it was. `Fail` is a 5xx of the API, before or
after it has changed anything, to `/api/auth/refresh`, which drops the cookies; to the
middleware, which keeps them, it is a `Stop`. A row's `ended` says what ended the session;
a rotation becomes `unanswered` only when the last answer to it that was under way is
lost and the browser still has the old token (`LastHope`). Access tokens, user agents and
addresses are left out; roles are not modelled.

### AttendanceReview

`Review`, `Find`, `Approve`, `Reject` are the two endpoints, `CheckIn` the attendances
that arrive meanwhile. An approval whose award meets a blocked account fails as a whole. The script is one process: `ReadAttendances`, `SumCredits` (one
query per attendance), `Group`, then per loser `DropUnpaid` or `ReadAccount` and
`Reverse`; `Exit` ends it at any point, `MaxRuns` lets it run again.

## 3. Runs

| run | what overlaps | bounds | shows |
|---|---|---|---|
| `points` | 3 calls | 3 users (one blocked), 3 keys, 7 requests in both isolations, amounts -1..2 | balance and history agree, keys post once, answers agree, ledger implemented |
| `shop` | 2 requests | 2 users, 1 reward, 2 keys shared between users, prices 1 and 2 that move, no capacity | debit and redemption belong together, refunds are the payments, the sold counter never runs ahead, no code becomes active again, ledger implemented |
| `shop_serial` | nothing (`MaxInFlight = 1`) | as above, with closing, capacity 1 and corrections below zero | never oversold, never overdrawn by a redemption, exact sold count, refunded iff cancelled |
| `shop_oversold`, `shop_overdrawn` | 2 requests | as above | both of the last two guarantees need more than the code's checks when requests overlap |
| `shop_retry` | nothing | as `shop_serial` | a retry can be refused |
| `checkin` | 2 requests | 5 scans (two devices and a leader on one runner, a blocked account, an unknown code), 4 events on 3 days, one rejected attendance, 1 retry | the six check-in properties, ledger implemented |
| `scanner` | two threads, the server, an administrator | 2 scans, one fault (a kill, a power cut, a dead thread) | green lights are on record, the device implements `ScanDelivery`, a clean shutdown waits, every scan leaves the device in the end |
| `scanner_reboot` | as above | as above | a restart between `drain` and delivery loses buffered scans, on a disk that keeps all |
| `schedule` | 2 requests, one edit | 2 rules with 2 or 3 versions, a special in 3, rows that move and claim, 2 places, 4 dates, windows between 6 instants, 3 requests of 2 users | one row per occurrence, one RSVP a day, standing claims respected, list, page and timeline agree but for two faults |
| `sessions` | 2 calls, the clock | a member on one browser, a newcomer on another, 1 link, 3 calls | bonus iff activated, one session per link, no browser is signed out by its own tabs |
| `review` | 2 reviews, a check-in, the script | 5 attendances of one user on two days, one of a blocked user, 2 runs of the script | `BooksAgree`: five parts about status, postings and balance |

Why the bounds are enough. Every conflict in this code is between two requests
over one row or one key; a third call in `points` covers a retry racing both. Two
keys give a user a repeated purchase and a second one, one shared key gives the
collision between users. Two prices tell the paid from the current one. Capacity 1
and 2 buyers is the smallest oversale. Three events tell same event, same day and
other day apart, a fourth is the day of the rejected attendance. `MAX_SERIALIZATION_RETRIES` is 3 in the code and 1 in the run: the
attempts are alike. Calls are interchangeable, so the runs use their symmetry, except
`scanner`, which checks liveness and has none.

In `scanner` two scans let the outbox hold one while the other is in a thread's hand,
and change places; a second fault adds nothing to what one loses. In `schedule` the
week has two days of four parts: each of the code's boundaries (a rule's first and
last day, UTC's midnight, local midnight, a check-in window that reaches into the next
day) lies inside four dates, and the instants of `Horizon` are both sides of the midnights
and of the runs. One edit between any two steps is what a stale read needs.
In `sessions` three calls are two tabs and a third party; a second link could only
repeat the first. In `review` the doubly credited day has a winner of each kind, and a
second run of the script starts from whatever the first one left.

Deadlock is checked in the runs of points, shop, check-in and review. `scanner`,
`schedule` and `sessions` stop at their bounds (`MaxFaults`, `MaxCalls`, `MaxEdits`) and
say `CHECK_DEADLOCK FALSE`.

Fairness is assumed in `Scanner` only: its threads are loops that keep running
(weak fairness of `Take`, `Drain`, `Post` and of the end of a post), systemd restarts the
process (`Restart=always`, weak fairness of `Start`), a shutdown ends, and neither
server nor network fails for ever, so a post that is repeated often enough is
served and answered (strong fairness of `Looked`, `Settled`, `Deliver`). A dead thread
gets none: `EventuallyAnswered` says nothing once one has died, and why is in section 5.

Restrictions that a run states as assumptions, each because the property fails without
it in a way the code allows:

* `SerialRsvps`: a user's own RSVP requests do not overlap; the check for another event
  of the day and the insert are two statements;
* `edits = 0` in `CheckedInIsDone`: an edited rule does not reach back into a row that exists;
* a claim counts in `ExclusionsRespected` if it has stood since the request: the claims are
  read before the transaction that writes the row, so one announced in between may be missed;
* the exceptions in `ListAgreesWithPage`: a card's start and places may differ from its
  page's where the run's own row is cancelled, lies outside the window or has no open place,
  or an event that claims its places lies outside the window. The two faults of the list are no exceptions: the property says which
  cards open no page and which runs are missing, exactly;
* in `GreenIsCredited`, whoever is a duplicate of an attendance without approval is not credited;
* in `RefusedOnlyIfEnded`, a rotation of which no answer arrived;
* `GraceEnds`: a refresh is answered or given up within the fifteen seconds of
  `REFRESH_REUSE_GRACE_MS`;
* `Contested`: one review at a time and none during the script, for the part of
  `BooksAgree` that says an unapproved attendance has no points;
* `UpsertLocks`: the script's `upsert` keeps the account's row locked; otherwise the
  absolute balance it writes can overwrite a posting. Only the balance is at stake.

`shop` and `shop_serial` differ on purpose. In `shop` the capacity is unlimited and
corrections are off so that the overlap is explored, not the checks; `shop_serial`
has both. The properties of `shop_serial` do not hold with overlap, for the reasons
in section 5, so they are stated where they hold; section 4 says how far they fail.

No code of the tree blocks an account; `points`, `checkin` and `review` hold a blocked
user, the shop runs none, so the refusal of a blocked buyer is modelled there but not exercised.

Every property has a mutant in `PROJECT.json`: a definition changed as a plausible
bug would, with which TLC finds the property violated.

## 4. Proofs

`PointsTables_proofs` proves, for all users, keys and amounts, what `PostEntry` does:
it keeps the types (`PostEntryType`), appends one row and touches no other
(`PostEntryRows`), keeps balance and history equal (`PostEntryBalance`), keeps keys
unique when the key is new (`PostEntryOnce`), loses no posting (`PostEntryKeeps`), and
is a step of `PointsLedger` (`PostEntryRefines`).

`PointsService_proofs` proves five theorems for every set of users, keys, amounts,
requests and calls, from the named assumptions of the modules (`AmountsAreInts`,
`RequestsAreCalls`):

* `ServiceTypeCorrect`, `BalanceAlwaysMatches`, `KeysPostedOnce`, `RepliesAgree`:
  the four invariants of the run `points`;
* `ServiceImplementsLedger`: `Spec => ImplementsLedger`, the refinement.

The inductive invariant is `ServiceInv`: types, balance and history, unique keys, and
`RepliesPosted` (an answer is a posting under the call's key). Types are needed
because a balance is an integer and a history a sequence before either can be
extended; unique keys because `RepliesAgree` follows from `RepliesPosted` only if a key
names one posting. Keys stay unique because `Commit` requires `~KeyUsed`, the unique
column. The snapshot check plays no part in these proofs: increments are safe in Read
Committed too, which is why callers may pass their own transaction.

`Redemptions_proofs` proves everything the run `shop` checks, for every set of users,
rewards, prices, capacities, edits and requests and every finite set of client keys,
from `RedemptionConstants`: `ShopTypeCorrect`, `ShopBalanceMatches`,
`DebitsAreRedemptions`, `RefundsArePayments`, `CounterNeverAhead`,
`ClosedCodesStayClosed`, `ShopImplementsLedger`. Overlap is unrestricted in them. The
inductive invariant is `ShopInv`: types, the three properties about entries, debits and
refunds, and `Carried`, which says what a request holds between its steps: the price it
read before its debit, a redemption that exists once it has been found, a refund in the
ledger once the lookup has seen it. `RedeemCommit` and `CancelCommit` keep it because the
debit's and the refund's keys are new in the ledger when they are posted, which is the
unique column again. `CounterNeverAhead` counts redemptions, hence the assumption that
client keys are finitely many.

What `shop_serial` checks holds only where requests do not overlap, and is proved under
`MaxInFlight = 1`: `SerialCountExact`, `SerialRefunds`, `SerialNeverOverdraws`,
`SerialNeverOversold`. Their invariant `SerialInv` adds to `ShopInv` that a request is
alone (`Alone`) and that what it read is still true when it writes (`Relied`): stock of
the reward, points for the price, a code that is active. Only an award and an expiry can
come between its steps, and neither makes one of these false.

How far overlapping requests can go is proved as well, for any number of them at a time:

* `OverlapOversells`: while no admin lowers a capacity (`NeverTightened`), a reward is
  sold past it by `MaxInFlight - 1` at most. `StockInv` counts the requests that passed
  the check of the stock with what is sold (`Cleared`);
* `OverlapOverdraws`: redemptions take a balance below zero by `MaxInFlight - 1` times the
  highest price at most, next to what an admin took back. In `FundInv` one of the
  requests past the check of the balance could still be paid for, if each of the slots
  that are not past it had cost the highest price (`Covered`).

Neither bound can be lowered: with `MaxInFlight = 3`, one user, three keys, a capacity of 1
and prices of 1 and 2, TLC finds the reward sold three times, and a balance of -4 where 2
points were awarded (tried by hand, not a listed run). `shop_oversold` and
`shop_overdrawn` are the cases of two.

`Checkin_proofs` proves everything the run `checkin` checks, for every set of runners,
events, days, scans and requests, from `CheckinConstants`, in two invariants:

* `CreditInv` (types, `Carried`, balance and history, one credit a day, points iff
  attended) gives `CheckinTypeCorrect`, `CreditedOnceADay`, `AttendancesArePaid` and
  `CheckinImplementsLedger`. One credit a day rests on the Serializable transaction: it
  commits only if the day it read is still without an attendance;
* `JournalInv` gives `GreenLightsAreEarned`, `ReplaysAgree` and `ScansAreLogged`. An
  attendance is the match of one request (`MatchIsAlone`) and of no row until that
  request writes it (`MatchIsNew`), so the unique `attendance_id` never refuses a row
  (`LinkedOnce`); a scan of a device has one row (`LoggedOnce`) and what is told is read
  from it (`ToldIsLogged`).

`Sessions_proofs` proves the four invariants of the run `sessions` for every set of
users, browsers and passwords, every number of calls and every bonus, from
`AccountConstants`, `SessionConstants` and the assumptions of `PointsTables`, and that
every step of a sign-in is one of the promised ledger (`BonusesExtendLedger`):

* `SessionsTypeCorrect`. Types alone are not inductive: `Carried` adds what a call
  holds at each step (a mailbox call its link until it has a session, a refresh or a
  logout a token);
* `ActivationsAreWelcomed`. An activation and its bonus are one transaction, and the
  bonus is posted under the user's own key (`OwnKeys`), so the unique key lets one
  activation through; a call that read an active row still finds it active
  (`SawActive`), which is why `ReadUser` needs no second look;
* `LinksOpenOneSession`, by `LinkInv`: between `SpendLink` and `OpenSession` the link
  is spent (`PastIsSpent`), no second call is past it (`PastIsAlone`) and no session
  has come of it (`PastIsUnused`). The first two rest on the condition
  `consumedAt: null` in the `updateMany` that spends it;
* `RefusalsAreEnded`, by `TokenInv` and `RefusalInv`: a browser left with a rotated
  token has the answer of that rotation under way (`Awaited`), hence no tab carries a
  rotated token past its grace period (`GraceCovers`), hence what a refused refresh
  looked at was ended by somebody else. `GraceCovers` is where the assumption in
  `GraceEnds` enters: without it the theorem is false, as section 5 says.

`Scanner_proofs` proves the safety properties of the run `scanner`, for every set of
scans and requests, any outcome of each scan and any number of faults: `ScannerTypeCorrect`,
`LightsAreOnRecord`, `ShutdownWaits` and `ScannerImplementsDelivery`. Fairness plays no
part in them. Two more say where scans are safe: `NetworkLosesNone` (without a fault of
the device, or the torn line it left, no step loses one, whatever answers are lost and
whatever the server and its admins do) and `FiledScansSurvive` (what is in the file is held
or answered for after any step, a kill included, unless a power cut takes it off the disk;
`scanner_reboot` is about what has left the file). Two invariants:

* `Holding`: every scan that is queued, in a hand or in the file was made, and the
  worker's count of unfinished scans covers its queue and its hand (`Counted`), which is
  all that `drain_and_wait` has to go by;
* `Posted`: each thread has one request under way (`Lone`), for the scan it has in hand
  (`Own`), and a reply that says green is on record (`GreenReplies`): a green light needs
  this because the client may have given up on an earlier request for the same scan.

For the refinement each action is sorted by what it does to the scans: it keeps all
where they are held, makes one, answers for one, loses some, or spoils the one that is
written behind a torn line; only a fault of the device, and the line it tore, lose any.

`Schedule_proofs` proves, for every calendar, set of rules, specials and requests, from
the assumptions of `Calendar`, `Occurrences` and `Schedule`:

* `ScheduleTypeCorrect` and `OccurrencesHaveOneRow`, by `ScheduleInv`: one row of a rule
  and date (`UniqueRows`, the unique index), and what was told is such a row and stays
  one (`ToldAreRows`). Rows are finitely many, which gives a fresh one its number;
* `ClaimsAreRespected`, by `StandingInv`: a claim that has stood since the request was
  asked stood when the exclusions were read, hence its place is not among those the request
  carries from then on (`Free`), whatever has been edited before, in between or after;
* `OneRsvpADay`, where `SerialRsvps` holds and `SpecialsStay` (an edit does not move a
  special to another day; such an edit reaches back into RSVPs made before, and no code
  looks again). A call that has passed the conflict check is its member's only one
  (`Alone`), so what it found is still so when it inserts (`ClearedCalls`);
* `ListAndPageAgree`, both ways, for any two instants as the bounds of a window and in
  every state, from types and unique rows: the rest is arithmetic of two clocks, in
  lemmas about `Day`, `LocalDay`, `Compose` and `StartsIn` for any length of day and week
  and any offset below a day. It needs `WeekLen > 1` and of a rule what the DTO demands of one
  (`create-recurrence-rule.dto.ts:38-46`): a day of the week, a time within a day;
* `AttendedRunsAreDone`, by `AttendedInv`: while nobody edits, a row is what its rule says
  (`RowAsRule`), and a run that starts before UTC's midnight is never scanned into: the
  scan names the day before (`Named`), which is not the rule's weekday, unless the week
  has one day only, hence `WeekLen > 1`.

`AttendanceReview_proofs` proves both invariants of the run `review`, for every set of
attendances, any base points and fallbacks and any number of reviews and runs of the script:
`ReviewTypeCorrect` and `BooksAlwaysAgree`. Of the start they assume `HistoryIsPaid`: the
approved attendances are paid, and nothing else is. The lock is needed for the balances
only: `AttendancesAlwaysAgree` proves the other four parts of `BooksAgree`
(`AttendancesAgree`) without it, `BooksAlwaysAgree` and `ReviewExtendsLedger` (every award
and reversal is a step of the promised ledger) assume `UpsertLocks`. The invariant
`ReviewInv` has three parts besides the types:

* the books: the parts of `BooksAgree` and that no attendance is paid other than its
  award (`AwardOnly`);
* the reviews: an uncontested attendance has one review at a time, finds it as it was
  read (`StillPending`) and has none while the script runs (`NotReviewed`);
* the script: the sums it has read are still the credits there are, but for a contested
  attendance paid since (`PointsAreTrue`); if there is a lock, the balance it has read is
  still the account's (`Reversing`; without one a posting in between is overwritten and
  history and balance part); what arrives during a run has its day to itself
  (`ArrivedAlone`), which is why a finished run leaves one attendance a day.

Only model-checked:

* `EventuallyAnswered`, which needs fairness and ENABLED, out of the prover's reach: what
  it rests on is proved, that no scan is lost without a fault and that the mapping to
  `ScanDelivery` holds;
* that what the four runs of section 5 refute is refuted, and that the bounds of the two
  `Overlap` theorems are reached.

## 5. Where code and documents disagree

Shown by runs:

* `shop_oversold`: stock is read before the transaction and the counter is
  incremented without a condition, so two requests share the last item.
* `shop_overdrawn`: the comment at `redemptions.service.ts:123` promises that the
  transaction verifies the balance again, as does `docs/ERD.md:403`; nothing does.
* `scanner_reboot`: the outbox is there "so a scan survives a network blip or
  reboot" (`scanner.py:134`); `drain` empties the file before the batch is delivered.
* `shop_retry`: `redemptions.service.ts:74` and `docs/API-CONTRACTS.md:364` promise the
  earlier redemption to a repeated key; the availability checks come first.

Met while modelling, visible in the modules, not stated as runs:

* two overlapping cancellations post one refund but decrement `soldCount` twice
  (`CancelCommit`, second disjunct), although `docs/API-CONTRACTS.md:409` calls the
  operation idempotent; the counter then runs behind, never ahead;
* a verification that overlaps a cancellation leaves a code both used and refunded;
* the code generator's retry on a collision runs in a transaction PostgreSQL has
  aborted, so it cannot succeed;
* codes expire after 14 days (`redemptions.service.ts:30`), documented as 7
  (`docs/API-CONTRACTS.md:371`); an expired code keeps status `active`;
* a scan into a fully excluded occurrence gets a 404 and no journal row;
* a rejected or pending attendance of the day makes a scan a duplicate, with a green light,
  although nothing was paid: the read of the day has no filter on the status
  (`checkin.service.ts:252`), the comment after it says "already credited".

The scanner:

* an answer that is not JSON or is cut short raises an exception nobody catches and
  ends the thread that posted (`Die`), for the rest of the process;
* the outbox is not flushed to the disk: a power cut can take its last lines or tear one,
  and the first scan written after a torn line is lost with it;
* a clean shutdown waits for the worker's scans, not for what the flusher has drained;
* every 4xx lets a scan go, among them 429 from the global throttle and 401 after the
  key was rotated; a scan recorded as `error` is answered with that error for ever.

The schedule:

* `listInRange` drops the run of a rule's last day from every window that opens after that
  day's midnight (`event-occurrence.service.ts:442`), such as the one that opens now on the
  morning of the run, although its page opens and the comment at lines 484-486 says the run
  of the last day is kept. `ListAgreesWithPage` states it: missing if and only if so;
* for a run whose time of day is less than the UTC offset the list keys the card by the
  UTC date and the page by the local one, so the card opens no page (stated there as well);
* exclusions by a special outside the listed window are not seen by the list;
* an unpublished or cancelled override is still listed as the rule's card;
* archiving or editing a rule hides its past rows from the timeline;
* a special announced after a run was materialized, or while it is, changes nothing in its
  row; a scan at an excluded place is then credited to the regular run;
* the comment of the timeline calls the special the face of a day, the list sorts by time.

Sessions and accounts:

* a refresh that was under way when its user signed out, or reset her password, ends
  with a new session (the rotation is by id, and a session revoked a moment ago is within
  the grace period), although `auth.service.ts:128` says a reset logs out all other devices;
* `/api/auth/refresh` drops the cookies on any error, the middleware only on a 401;
* a rotation of which no answer arrived signs the browser out after the grace period;
* nothing ends a refresh within that period: `fetch` in `middleware.ts:66` has no timeout.
  A refresh that takes longer can be refused for another tab's rotation; `GraceEnds` rules
  this out;
* `registerWithPassword` fills in a check-in code from the row it read, and can replace one
  issued meanwhile; two registrations of one pending account both succeed;
* a password reset leaves a pending account pending: it can sign in and has no bonus yet.

Review and clean-up:

* a rejection that overlaps an approval leaves the row rejected and the points paid;
* the script picks the winner whatever the review said: a rejected or pending special
  displaces an approved run, whose points are taken back;
* an approval between the script's sums and its deletion leaves points without an attendance.

## 6. Not modelled, and the plan

Not modelled:

* role grants and profile texts (`grantRole`, `revokeRole`, `updateProfile`): single-row
  writes that nothing modelled here reads;
* partner membership: single-row writes;
* the one-off script that re-keys RSVPs: no code writes the keys it looks for any more;
* dashboards, listings and the rest of the timeline: queries;
* e-mail, cryptography, configuration, health: stateless or input and output;
* web pages and forms: they render what the API returns, and hold state only until the
  next load; the part of the site that keeps state, its cookies, is in `Sessions`;
* build and deployment.

Left to do, in this order:

1. Roles: a token carries the roles of the moment it was issued, so a revoked role
   works until the token is refreshed; partner membership is read on every request.
2. The shop's overlapping requests: the code could be used and refunded, and the sold
   counter run behind, by how much, as the two `Overlap` theorems do for stock and points.
3. An abstract check-in (a scan is credited, known or refused in one step) that `Checkin`
   with its lookup, transaction and journal row implements.
