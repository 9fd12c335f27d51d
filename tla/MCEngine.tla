------------------------------ MODULE MCEngine ------------------------------
(***************************************************************************)
(* The instances of Engine that TLC checks.                                *)
(***************************************************************************)
EXTENDS EngineProperties, TLC

CONSTANTS c1, c2, c3, c4, i1, i2, p1, s1, s2

(* The calls of record() do not differ.                                    *)
CallSymmetry == Permutations(Calls)
=============================================================================
