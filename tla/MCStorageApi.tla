---------------------------- MODULE MCStorageApi ----------------------------
(***************************************************************************)
(* Symmetry of StorageApi for TLC: clients and values are interchangeable. *)
(***************************************************************************)
EXTENDS StorageApi, TLC

ClientSymmetry == Permutations(Callers) \cup Permutations(Values)
=============================================================================
