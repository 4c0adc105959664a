------------------------------ MODULE MCScanner ------------------------------
(* Two scans, one of a member in an open window, one for an occurrence     *)
(* that may have been pulled into a special event.                         *)
EXTENDS Scanner, TLC

CONSTANTS s1, s2

MCMayFind == (s1 :> {"credited"}) @@ (s2 :> {"unpaid", "excluded"})
=============================================================================
