------------------------------- MODULE NodeList -------------------------------
(***************************************************************************)
(* The node list of one storage server when RegisterServer and             *)
(* collectBodies run one after the other: what the list, the index and the *)
(* decision made from them (who owns a key) are worth without any          *)
(* interleaving.                                                           *)
(***************************************************************************)
EXTENDS Ring

CONSTANTS
  Node,      \* ids of the servers that may register or die
  Self,      \* the id of the server whose list this is
  Key        \* ids of the keys it is asked for

ASSUME NodeAssumption ==
  /\ Node \subseteq Nat
  /\ Self \in Node
  /\ Key \subseteq Nat

VARIABLES nodeList, nodeIndex

vars == <<nodeList, nodeIndex>>

TypeOK == nodeList \in Seq(Node) /\ nodeIndex \in Nat

Init == nodeList = <<Self>> /\ nodeIndex = 0

(* sort.Sort and the search for the own index that follow every change.    *)
Becomes(list) ==
  /\ nodeList' = Sorted(list)
  /\ nodeIndex' = Reindex(Sorted(list), Self, nodeIndex)

Register(n) == Becomes(Add(nodeList, n))
Collect(n)  == n # Self /\ Becomes(RemoveDead(nodeList, n))

Next == \E n \in Node : Register(n) \/ Collect(n)

Spec == Init /\ [][Next]_vars

-----------------------------------------------------------------------------
(* The list stays sorted without repetition, whatever registers again and  *)
(* whatever the removal in place leaves.                                   *)
ListIncreasing == Increasing(nodeList)

(* nodeIndex finds the server whenever its list still has it.              *)
IndexTracksSelf ==
  Self \in Range(nodeList) =>
    nodeIndex < Len(nodeList) /\ nodeList[nodeIndex + 1] = Self

(* Of the servers that share this list, the test of checkServer lets       *)
(* exactly one claim a key, and it is the key's successor on the ring.     *)
OneOwner ==
  \A key \in Key : \A i \in 1..Len(nodeList) :
    Claims(nodeList, i - 1, key) <=> nodeList[i] = Successor(Range(nodeList), key)

(* collectBodies takes just the dead node out when it is one of the last   *)
(* two of the list.                                                        *)
LastTwoRemoved ==
  \A i \in DOMAIN nodeList :
    i >= Len(nodeList) - 1 =>
      Range(RemoveDead(nodeList, nodeList[i])) = Range(nodeList) \ {nodeList[i]}
===============================================================================
