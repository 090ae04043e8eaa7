------------------------------ MODULE MCDesktop ------------------------------
(***************************************************************************)
(* Model values for the desktop: one file of a single chunk, or a file     *)
(* of two chunks and one of one.  The workers are interchangeable.         *)
(***************************************************************************)
EXTENDS DesktopProps, TLC

MCOneChunk == [f \in 0 .. 0 |-> 1]
MCTwoFiles == [f \in 0 .. 1 |-> 2 - f]

WorkerSymmetry == Permutations(Worker)
=============================================================================
