----------------------------- MODULE MCRegistry -----------------------------
(* Registry on small instances: label keys are lists over two keys; the    *)
(* list that names a key twice is no valid definition.                     *)
EXTENDS RegistryProperties

CONSTANTS a, b

MCKeys == {<<>>, <<a>>, <<a, a>>}
MCMoreKeys == MCKeys \cup {<<b>>}
MCInvalid == {<<a, a>>}
=============================================================================
