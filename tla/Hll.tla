--------------------------------- MODULE Hll --------------------------------
(***************************************************************************)
(* The HyperLogLog sketch of visitors.rs, at any width: hashes of W bits,  *)
(* of which the top P choose one of 2^P registers.                         *)
(***************************************************************************)
EXTENDS Powers

CONSTANTS W, P   \* 64 and HLL_P

ASSUME HllAssumption == W \in Nat /\ P \in 1 .. W - 1

Power == PowersOf(2)

Hash == 0 .. Power[W] - 1
Register == 0 .. Power[P] - 1
Sketch == [Register -> 0 .. W + 1]

Empty == [i \in Register |-> 0]

(* u64::leading_zeros() of a word of W bits.                               *)
LeadingZeros(x) ==
  CHOOSE n \in 0 .. W : x < Power[W - n] /\ (n = W \/ x >= Power[W - n - 1])

(* The shift drops the bits that chose the register; rho stays below the   *)
(* 255 the code clamps it to.                                              *)
Index(h) == h \div Power[W - P]
Rho(h) == LeadingZeros((h * Power[P]) % Power[W]) + 1

(* Mutant: the register takes the last rho, not the largest.               *)
AddLast(sketch, h) == [sketch EXCEPT ![Index(h)] = Rho(h)]

Add(sketch, h) ==
  [sketch EXCEPT ![Index(h)] = IF Rho(h) > @ THEN Rho(h) ELSE @]

-----------------------------------------------------------------------------
(* Reference: the sketch of a set of hashes, from the bits of the hashes.  *)

(* The bits below the index, counted from 1 at the top.                    *)
Bit(h, k) == (h \div Power[W - P - k]) % 2
OneBits(h) == {k \in 1 .. W - P : Bit(h, k) = 1}

(* Where the first one is; a tail without one counts as the whole word.    *)
FirstOne(h) ==
  IF OneBits(h) = {} THEN W + 1
  ELSE CHOOSE k \in OneBits(h) : \A j \in OneBits(h) : k <= j

SketchOf(H) ==
  [i \in Register |->
     LET ranks == {FirstOne(h) : h \in {h \in H : h \div Power[W - P] = i}}
     IN CHOOSE m \in ranks \cup {0} : \A n \in ranks : n <= m]
=============================================================================
