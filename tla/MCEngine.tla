------------------------------ MODULE MCEngine ------------------------------
(***************************************************************************)
(* Model values for the engine: a file of a single byte, and one of three  *)
(* or, where the faults multiply the states, of two.                       *)
(***************************************************************************)
EXTENDS EngineProps

MCFileSize == [f \in 0 .. 1 |-> IF f = 0 THEN 3 ELSE 1]
MCShortFileSize == [f \in 0 .. 1 |-> IF f = 0 THEN 2 ELSE 1]
=============================================================================
