----------------------------- MODULE ScanDelivery -----------------------------
(***************************************************************************)
(* What a runbase device promises about the scans it reads, whatever it    *)
(* keeps them in: a scan is held until the server has answered for it, and *)
(* only a fault of the device itself (its process ends, one of its threads *)
(* dies, its power is cut) may lose some, and one more later if it leaves  *)
(* a torn record.  A network that is down or slow loses none.              *)
(***************************************************************************)
EXTENDS Naturals

CONSTANT Scans

VARIABLES
  status,   \* of each scan
  faults,   \* faults of the device so far
  torn      \* the last one left a torn record

Statuses == {"unmade", "held", "answered", "lost"}

Held == {s \in Scans : status[s] = "held"}

Init ==
  /\ status = [s \in Scans |-> "unmade"]
  /\ faults = 0
  /\ torn = FALSE

Become(S, new) == status' = [s \in Scans |-> IF s \in S THEN new ELSE status[s]]

(* A code is read off a runner's QR. *)
Make(s) == status[s] = "unmade" /\ Become({s}, "held") /\ UNCHANGED <<faults, torn>>

(* The server has answered for the scan: recorded it, or refused it. *)
Answer(s) == status[s] = "held" /\ Become({s}, "answered") /\ UNCHANGED <<faults, torn>>

(* A fault loses some of the scans the device holds. *)
Fault ==
  /\ faults' = faults + 1 /\ torn' \in BOOLEAN
  /\ \E L \in SUBSET Held : Become(L, "lost")

(* The torn record goes, and takes with it at most the scan next to it. *)
Mend ==
  /\ torn /\ torn' = FALSE /\ UNCHANGED faults
  /\ \/ UNCHANGED status
     \/ \E s \in Held : Become({s}, "lost")

Next == Fault \/ Mend \/ \E s \in Scans : Make(s) \/ Answer(s)

Spec == Init /\ [][Next]_<<status, faults, torn>>
=============================================================================
