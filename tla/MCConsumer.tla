----------------------------- MODULE MCConsumer -----------------------------
(***************************************************************************)
(* Instances of Consumer for TLC.                                          *)
(***************************************************************************)
EXTENDS Consumer, TLC

DeliverySymmetry == Permutations(Deliveries) \cup Permutations(Stoppers)
=============================================================================
