---------------------------- MODULE MCLogRecords ----------------------------
(***************************************************************************)
(* A small instance of LogRecords: the first thread opens two records, the *)
(* second one.                                                             *)
(***************************************************************************)
EXTENDS LogRecords, TLC

CONSTANTS t1, t2
MCMaxRecords == (t1 :> 2) @@ (t2 :> 1)
Symmetry == Permutations(Slots)
=============================================================================
