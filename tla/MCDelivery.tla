----------------------------- MODULE MCDelivery -----------------------------
(***************************************************************************)
(* Model values for Delivery: a large file of two bytes and a small one of *)
(* one.                                                                    *)
(***************************************************************************)
EXTENDS Delivery

MCFileSize == [f \in File |-> 2 - f]
=============================================================================
