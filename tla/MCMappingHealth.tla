--------------------------- MODULE MCMappingHealth ---------------------------
(* TLC instances of MappingHealth, whose constants are all plain values. *)
EXTENDS MappingHealth
=============================================================================
