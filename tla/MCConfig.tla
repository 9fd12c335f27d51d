------------------------------ MODULE MCConfig ------------------------------
(* Configurations at both sides of every limit.                            *)
EXTENDS Config
=============================================================================
