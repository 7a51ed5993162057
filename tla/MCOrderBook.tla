----------------------------- MODULE MCOrderBook -----------------------------
(***************************************************************************)
(* OrderBook, and its refinement of ReferenceBook, with small constants.   *)
(***************************************************************************)
EXTENDS OrderBook

\* Ids are only compared for equality: TLC may permute them.
IdSymmetry == Permutations(OrderIds)
=============================================================================
