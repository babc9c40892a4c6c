-------------------------------- MODULE Ring --------------------------------
(***************************************************************************)
(* The consistent-hashing ring of the storage servers, as pure operators:  *)
(* the node list every server keeps, the position of a server in it, which *)
(* server a key belongs to, which keys a newcomer is handed, which nodes   *)
(* go into a skip list, and what the two list updates of storage-impl.go   *)
(* that work in place do to the list.                                      *)
(*                                                                         *)
(* A node is its 32-bit id and a key is the 32-bit Storehash of its user   *)
(* and class: both are numbers, and only their order matters.  Lists are   *)
(* sequences; an index is the code's 0-based nodeIndex, so the node at     *)
(* index i of list is list[i + 1].                                         *)
(***************************************************************************)
EXTENDS Naturals, Sequences, FiniteSets, FiniteSetsExt, Functions

Increasing(list) == \A i, j \in DOMAIN list : i < j => list[i] < list[j]

Occurrences(list, n) == {i \in DOMAIN list : list[i] = n}

(* RegisterServer adds a node that is not in the list at its end.          *)
AddAgain(list, n) == Append(list, n)
Add(list, n) == IF n \in Range(list) THEN list ELSE Append(list, n)

(* sort.Sort(byID{list}): each position takes the element of that rank.    *)
(* Equal ids are the same node, so their order does not matter.            *)
Before(list, i, j) == list[i] < list[j] \/ (list[i] = list[j] /\ i < j)
Rank(list, i) == Cardinality({j \in DOMAIN list : Before(list, j, i)}) + 1
Sorted(list) ==
  [r \in DOMAIN list |-> list[CHOOSE i \in DOMAIN list : Rank(list, i) = r]]

(* The loop after every sort: the first position of the server itself; the *)
(* index keeps its old value when the server is not in its own list.       *)
ReindexOrMinusOne(list, self, old) ==
  IF self \in Range(list) THEN Min(Occurrences(list, self)) - 1 ELSE 0 - 1
ReindexFromOne(list, self, old) ==
  IF self \in Range(list) THEN Min(Occurrences(list, self)) ELSE old
Reindex(list, self, old) ==
  IF self \in Range(list) THEN Min(Occurrences(list, self)) - 1 ELSE old

-----------------------------------------------------------------------------
(* Ownership of keys.                                                      *)

(* The test checkServer makes with its own list and index.                 *)
ClaimsStrictly(list, index, key) ==
  LET own         == list[index + 1]
      last        == list[Len(list)]
      predecessor == list[IF index = 0 THEN Len(list) ELSE index]
  IN \/ index = 0 /\ (key < own \/ key > last)
     \/ key > predecessor /\ key < own
Claims(list, index, key) ==
  LET own         == list[index + 1]
      last        == list[Len(list)]
      predecessor == list[IF index = 0 THEN Len(list) ELSE index]
  IN \/ index = 0 /\ (key <= own \/ key > last)
     \/ key > predecessor /\ key <= own

(* What the test is meant to decide: a key belongs to the first node whose *)
(* id is not below it, and past the last node the ring wraps around.       *)
Successor(nodes, key) ==
  LET above == {n \in nodes : key <= n}
  IN IF above # {} THEN Min(above) ELSE Min(nodes)

(* The test TransferData makes for each key it holds: list is the list of  *)
(* the server that gives, atFront says whether that server found itself at *)
(* index 0, newcomer is the id of the server that asks.                    *)
MovesStrictly(list, atFront, newcomer, key) ==
  \/ key < newcomer
  \/ key > list[Len(list)] /\ atFront
Moves(list, atFront, newcomer, key) ==
  \/ key <= newcomer
  \/ key > list[Len(list)] /\ atFront

-----------------------------------------------------------------------------
(* Updates in place.                                                       *)

(* What collectBodies does for one dead node.  append(list[:i], list[i+1]) *)
(* keeps the elements before index i and ONE element after it, and the     *)
(* range loop goes on over the old length; a later match only re-slices.   *)
RemoveDeadAndNext(list, dead) ==
  IF dead \in Range(list) THEN SubSeq(list, 1, Min(Occurrences(list, dead)) - 1) ELSE list
RemoveDead(list, dead) ==
  LET at      == Occurrences(list, dead)
      first   == Min(at)
      last    == Max(at)
      shifted == IF first < Len(list)
                 THEN [list EXCEPT ![first] = list[first + 1]] ELSE list
  IN IF at = {} THEN list
     ELSE IF first = last /\ first < Len(list)
          THEN SubSeq(shifted, 1, first)
          ELSE SubSeq(shifted, 1, last - 1)

(* What decoding one more RegisterReply into a copy of the first reply     *)
(* does to nodeList, which shares its array: a reply that fits overwrites  *)
(* the front of the list, a longer one gets an array of its own.           *)
Overwrite(list, reply) ==
  IF Len(reply) > Len(list) THEN list
  ELSE [i \in 1..Len(list) |-> IF i <= Len(reply) THEN reply[i] ELSE list[i]]

-----------------------------------------------------------------------------
(* The nodes iCalculateSkipList connects to, in the order it dials them.   *)
(* Up to fullMesh nodes (6 in the code) it is everybody.  The node "before"*)
(* index 0 is computed as -(0 - 1) = 1.                                    *)
SkipTargetsButLast(list, index, fullMesh) ==
  LET n     == Len(list)
      jump  == n \div 4
      first == IF index = 0 THEN 1 ELSE index - 1
      At(i) == list[(i % (n - 1)) + 1]
  IN IF n <= fullMesh THEN list
     ELSE << At(first), At(index + 1), At(index + jump),
             At(index + 2 * jump), At(index + 3 * jump) >>
SkipTargets(list, index, fullMesh) ==
  LET n     == Len(list)
      jump  == n \div 4
      first == IF index = 0 THEN 1 ELSE index - 1
      At(i) == list[(i % n) + 1]
  IN IF n <= fullMesh THEN list
     ELSE << At(first), At(index + 1), At(index + jump),
             At(index + 2 * jump), At(index + 3 * jump) >>
=============================================================================
