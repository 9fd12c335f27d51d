------------------------------ MODULE Tiering -------------------------------
(***************************************************************************)
(* What the two storage tiers promise together: every sample is in the hot *)
(* store or in the cold one and moves from the first to the second, once   *)
(* and for good.  A failed removal may leave a moved sample in the hot     *)
(* store too, and a pass that is cut short may lose samples; nothing else  *)
(* may.  Module Compaction implements this.                                *)
(***************************************************************************)
CONSTANTS
  Row,    \* the samples that may ever be inserted
  Faults  \* "crash" and "io" cut a pass short, "remove" fails to remove

VARIABLES hot, cold, failed

Init == hot = {} /\ cold = {} /\ failed = {}

Insert(r) ==
  /\ r \notin hot \cup cold
  /\ hot' = hot \cup {r}
  /\ UNCHANGED <<cold, failed>>

(* One export: a non-empty set of rows changes tier at once.               *)
Export(S) ==
  /\ S # {}
  /\ cold' = cold \cup S
  /\ \/ hot' = hot \ S
     \/ "remove" \in failed /\ hot \ S \subseteq hot' /\ hot' \subseteq hot
  /\ UNCHANGED failed

Fail(f) ==
  /\ failed' = failed \cup {f}
  /\ IF f = "remove" THEN UNCHANGED hot ELSE hot' \in SUBSET hot
  /\ UNCHANGED cold

Next ==
  \/ \E r \in Row : Insert(r)
  \/ \E S \in SUBSET hot : Export(S)
  \/ \E f \in Faults : Fail(f)

Spec == Init /\ [][Next]_<<hot, cold, failed>>
=============================================================================
