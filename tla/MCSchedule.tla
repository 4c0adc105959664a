------------------------------ MODULE MCSchedule ------------------------------
(* Two-day weeks and four-part days, one part ahead of UTC.  r1 is an      *)
(* evening run at both places, r2 a partner's run that overlaps it at l2   *)
(* and in one version starts before UTC's midnight; x1 is a special on     *)
(* date 2 that may claim one place or both.                                *)
EXTENDS Schedule, TLC

CONSTANTS r1, r2, x1, l1, l2, u1, u2, c1, c2

Regular == [active |-> TRUE, type |-> "regular", eligible |-> TRUE, dow |-> 0, tod |-> 3,
            duration |-> 1, from |-> 1, until |-> 4, locations |-> {l1, l2}]
Partner == [active |-> TRUE, type |-> "partner", eligible |-> TRUE, dow |-> 0, tod |-> 2,
            duration |-> 1, from |-> 2, until |-> Never, locations |-> {l2}]

MCVersions ==
  (r1 :> {Regular, [Regular EXCEPT !.active = FALSE], [Regular EXCEPT !.dow = 1]})
  @@ (r2 :> {Partner, [Partner EXCEPT !.tod = 0]})

Draft == [published |-> FALSE, start |-> 9, excludes |-> {l1}]

MCSpecialVersions ==
  x1 :> {Draft, [Draft EXCEPT !.published = TRUE],
         [Draft EXCEPT !.published = TRUE, !.excludes = {l1, l2}]}

MCRowExcludes == {{l2}}

Rsvp(u, key, l) == [kind |-> "rsvp", user |-> u, key |-> key, location |-> l, at |-> 0]
Scan(u, l, t)   == [kind |-> "scan", user |-> u, key |-> x1, location |-> l, at |-> t]

MCRequests ==
  {Rsvp(u1, <<r1, 2>>, l1), Rsvp(u1, <<r2, 2>>, l2), Rsvp(u1, x1, l1), Rsvp(u2, <<r1, 2>>, l2),
   Scan(u2, l1, 17), Scan(u1, l2, 11)}

MCSymmetry == Permutations(Calls)
=============================================================================
