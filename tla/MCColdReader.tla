---------------------------- MODULE MCColdReader ----------------------------
(* Compaction and a polling client on small instances.                     *)
EXTENDS ColdReader
=============================================================================
