------------------------------- MODULE MCReview -------------------------------
(* ann's day 1 was credited twice, as a regular run and as a special; a    *)
(* partner's run of that day is approved, another regular one waits for a  *)
(* review; on day 3 she will check in.  bob, whose account is blocked, has *)
(* a run that waits for a review.                                          *)
EXTENDS AttendanceReview, TLC

CONSTANTS ann, bob, reg, spec, part, late, new, his, c1, c2

Run == [user |-> ann, day |-> 1, type |-> "regular", eligible |-> TRUE, base |-> 2,
        matched |-> 2, first |-> "approved"]

MCFacts ==
  (reg :> Run)
  @@ (spec :> [Run EXCEPT !.type = "special", !.base = 0])
  @@ (part :> [Run EXCEPT !.type = "partner"])
  @@ (late :> [Run EXCEPT !.matched = 1, !.first = "pending"])
  @@ (new :> [Run EXCEPT !.day = 3, !.first = "none"])
  @@ (his :> [Run EXCEPT !.user = bob, !.first = "pending"])

MCFallback == ("special" :> 3) @@ ("regular" :> 1)

MCHistory ==
  ann :> <<[key |-> <<reg, "award">>, delta |-> 2, after |-> 2],
           [key |-> <<spec, "award">>, delta |-> 3, after |-> 5]>>
  @@ bob :> <<>>

MCAttendances == {reg, spec, part, late, new, his}
MCKeys        == MCAttendances \X {"award", "reversal"}
MCAmounts     == {-3, -2, 2, 3}
MCSymmetry    == Permutations(Calls)
=============================================================================
