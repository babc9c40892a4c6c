-------------------------- MODULE MCStorageRouting --------------------------
(***************************************************************************)
(* Instances of StorageRouting for TLC: clients at different servers.      *)
(***************************************************************************)
EXTENDS StorageRouting

CONSTANTS Ann, Bob

LowestFounder == [j \in Newcomer |-> Min(Founder)]
BothEnds == [c \in Client |-> IF c = Ann THEN Min(Founder) ELSE Max(Founder)]
=============================================================================
