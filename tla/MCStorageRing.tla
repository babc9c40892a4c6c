--------------------------- MODULE MCStorageRing ---------------------------
(***************************************************************************)
(* Instances of StorageRing for TLC.                                       *)
(***************************************************************************)
EXTENDS StorageRing

(* Every newcomer contacts the lowest founder.                             *)
LowestFounder == [j \in Newcomer |-> Min(Founder)]
=============================================================================
