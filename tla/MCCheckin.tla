------------------------------ MODULE MCCheckin ------------------------------
(* Two occurrences on one day and one on each of the next two.  A runner,  *)
(* whose attendance of the last one was rejected long ago, is scanned      *)
(* by a device (s1), by a leader (s2) and at another point (s3, which is   *)
(* late enough for the next day's window); s4 is a blocked account, s5 an  *)
(* unknown code.                                                           *)
EXTENDS Checkin, TLC

CONSTANTS u1, u2, e1, e2, e3, e4, s1, s2, s3, s4, s5, c1, c2

MCKeys == Attendances
MCDayOf == (e1 :> 1) @@ (e2 :> 1) @@ (e3 :> 2) @@ (e4 :> 3)
MCAward == (e1 :> 2) @@ (e2 :> 0) @@ (e3 :> 1) @@ (e4 :> 1)
MCAmounts == {0, 1, 2}
MCRunnerOf == (s1 :> u1) @@ (s2 :> u1) @@ (s3 :> u1) @@ (s4 :> u2) @@ (s5 :> Nobody)
MCOpenAt == (s1 :> {e1}) @@ (s2 :> {e1}) @@ (s3 :> {e2, e3, e4, NoWindow, Excluded})
         @@ (s4 :> {e1}) @@ (s5 :> {e1})
MCUnapproved == {<<e4, u1>>}
MCSymmetry == Permutations(Calls)
=============================================================================
