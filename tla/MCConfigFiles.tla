---------------------------- MODULE MCConfigFiles ----------------------------
(* ConfigFiles with two goroutines in one process and one in another.      *)
EXTENDS ConfigFiles

CONSTANTS a, b

MCWriter == {"a1", "a2", "b1"}

MCProcessOf == [w \in MCWriter |-> IF w = "b1" THEN b ELSE a]

=============================================================================
