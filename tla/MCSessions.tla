------------------------------ MODULE MCSessions ------------------------------
(* ann is a member, signed in on b1; bob has no account yet.               *)
EXTENDS Sessions, TLC

CONSTANTS ann, bob, b1, b2, p1, p2, c1, c2

By(kind, u, b, p) == [kind |-> kind, user |-> u, browser |-> b, password |-> p, current |-> p1]

MCSignedIn == <<[browser |-> b1, user |-> ann]>>

MCRequests ==
  {By("verify", bob, b2, p1), By("register", bob, b2, p1), By("reset", ann, b2, p2),
   By("login", ann, b2, p1), By("change", ann, b1, p2)}

MCSymmetry == Permutations(Calls)
=============================================================================
