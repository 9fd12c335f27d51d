------------------------------- MODULE Powers -------------------------------
(***************************************************************************)
(* The powers of a base, as a recursive function.                          *)
(***************************************************************************)
EXTENDS Integers

PowersOf(b) ==
  LET power[n \in Nat] == IF n = 0 THEN 1 ELSE b * power[n - 1]
  IN power
=============================================================================
