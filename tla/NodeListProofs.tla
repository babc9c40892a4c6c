--------------------------- MODULE NodeListProofs ---------------------------
(***************************************************************************)
(* Theorems about NodeList, for every set of nodes and keys.               *)
(***************************************************************************)
EXTENDS NodeList, RingProofs

(* The removal in place loses nodes behind the dead one, but what it keeps *)
(* remains in order and without repetition.                                *)
LEMMA RemoveDeadKeepsIncreasing ==
  ASSUME NEW list \in Seq(Nat), Increasing(list), NEW dead
  PROVE  RemoveDead(list, dead) \in Seq(Nat) /\ Increasing(RemoveDead(list, dead))
<1> DEFINE at == Occurrences(list, dead)
           first == Min(at)
           shifted == IF first < Len(list)
                      THEN [list EXCEPT ![first] = list[first + 1]] ELSE list
<1>0. RemoveDead(list, dead) \in Seq(Nat)
  BY RemoveDeadType
<1>1. CASE at = {}
  BY <1>0, <1>1 DEF RemoveDead
<1>2. CASE at # {}
  <2>1. at \in SUBSET (1..Len(list)) /\ at \in SUBSET Nat /\ Len(list) \in Nat
    BY DEF Occurrences
  <2>2. first \in at /\ Max(at) \in at
    BY <1>2, <2>1, MinOfNat, MaxOfInterval
  <2>3. first = Max(at)
    <3>1. list[first] = list[Max(at)]
      BY <2>2 DEF Occurrences
    <3>2. QED
      BY <2>1, <2>2, <3>1, IncreasingIsDifferent DEF Different
  <2>4. first \in 1..Len(list)
    BY <2>1, <2>2
  <2>5. RemoveDead(list, dead) =
          IF first < Len(list) THEN SubSeq(shifted, 1, first)
          ELSE SubSeq(list, 1, first - 1)
    BY <1>2, <2>3 DEF RemoveDead
  <2> HIDE DEF first, at
  <2>6. /\ \A i \in 1..Len(list) : list[i] \in Nat
        /\ \A i, j \in 1..Len(list) : i < j => list[i] < list[j]
    BY DEF Increasing
  <2>7. CASE first < Len(list)
    <3> DEFINE new == [i \in 1..first |-> IF i = first THEN list[first + 1] ELSE list[i]]
    <3>1. /\ shifted \in Seq(Nat) /\ Len(shifted) = Len(list)
          /\ \A i \in 1..first : shifted[i] = new[i]
      BY <2>4, <2>6, <2>7
    <3> HIDE DEF shifted
    <3>2. SubSeq(shifted, 1, first) = new
      BY <2>4, <3>1
    <3>3. DOMAIN new = 1..first /\ \A i, j \in 1..first : i < j => new[i] < new[j]
      <4>1. ASSUME NEW i \in 1..first, NEW j \in 1..first, i < j
            PROVE  new[i] < new[j]
        <5>1. i \in 1..Len(list) /\ j \in 1..Len(list) /\ new[i] = list[i]
          BY <2>4, <4>1
        <5>2. CASE j = first
          BY <2>4, <2>6, <2>7, <5>1, <5>2
        <5>3. CASE j # first
          BY <2>6, <4>1, <5>1, <5>3
        <5>4. QED
          BY <5>2, <5>3
      <4>2. QED
        BY <4>1
    <3> HIDE DEF new
    <3>4. Increasing(new)
      BY <3>3 DEF Increasing
    <3>5. QED
      BY <1>0, <2>5, <2>7, <3>2, <3>4
  <2>8. CASE ~ (first < Len(list))
    <3> DEFINE new == [i \in 1..(first - 1) |-> list[i]]
    <3>1. SubSeq(list, 1, first - 1) = new
      BY <2>4
    <3>2. Increasing(new)
      BY <2>4, <2>6 DEF Increasing
    <3> HIDE DEF new
    <3>3. QED
      BY <1>0, <2>5, <2>8, <3>1, <3>2
  <2>9. QED
    BY <2>7, <2>8
<1>3. QED
  BY <1>1, <1>2

-----------------------------------------------------------------------------
ListInv == TypeOK /\ ListIncreasing /\ IndexTracksSelf

LEMMA BecomesInv ==
  ASSUME NEW list \in Seq(Node), Different(list), nodeIndex \in Nat, Becomes(list)
  PROVE  ListInv'
<1>1. Node \in SUBSET Nat /\ Self \in Node
  BY NodeAssumption
<1>2. list \in Seq(Nat)
  BY ListOfNumbers, NodeAssumption
<1>3. Sorted(list) \in Seq(Node)
  BY <1>1, SortedType
<1>4. Increasing(Sorted(list))
  BY <1>2, SortedSorts DEF Different
<1>5. nodeIndex' \in Nat
  BY <1>3, ReindexType DEF Becomes
<1>6. ASSUME Self \in Range(Sorted(list))
      PROVE  /\ Reindex(Sorted(list), Self, nodeIndex) < Len(Sorted(list))
             /\ Sorted(list)[Reindex(Sorted(list), Self, nodeIndex) + 1] = Self
  <2> DEFINE at == Occurrences(Sorted(list), Self)
  <2>1. at \in SUBSET (1..Len(Sorted(list))) /\ at # {} /\ at \in SUBSET Nat
    BY <1>3, <1>6, OccurrencesType
  <2>2. Min(at) \in at
    BY <2>1, MinOfNat
  <2>3. Sorted(list)[Min(at)] = Self
    BY <2>2 DEF Occurrences
  <2>4. Reindex(Sorted(list), Self, nodeIndex) = Min(at) - 1
    BY <1>6 DEF Reindex
  <2>5. Min(at) \in 1..Len(Sorted(list)) /\ Len(Sorted(list)) \in Nat
    BY <1>3, <2>1, <2>2
  <2> HIDE DEF at
  <2>6. QED
    BY <2>3, <2>4, <2>5
<1>7. nodeList' = Sorted(list)
  BY DEF Becomes
<1>8. IndexTracksSelf'
  BY <1>6, <1>7 DEF IndexTracksSelf, Becomes
<1>9. QED
  BY <1>3, <1>4, <1>5, <1>7, <1>8 DEF ListInv, TypeOK, ListIncreasing

LEMMA ListInit == Init => ListInv
<1> SUFFICES ASSUME Init PROVE ListInv
  OBVIOUS
<1>1. Self \in Node /\ nodeList = <<Self>> /\ nodeIndex = 0
  BY NodeAssumption DEF Init
<1>2. nodeList \in Seq(Node) /\ Len(nodeList) = 1 /\ nodeList[1] = Self
  BY <1>1
<1>3. Increasing(nodeList)
  BY <1>1 DEF Increasing
<1>4. IndexTracksSelf
  BY <1>1, <1>2 DEF IndexTracksSelf
<1>5. QED
  BY <1>1, <1>2, <1>3, <1>4 DEF ListInv, TypeOK, ListIncreasing

LEMMA ListStep == ListInv /\ [Next]_vars => ListInv'
<1> SUFFICES ASSUME ListInv, [Next]_vars PROVE ListInv'
  OBVIOUS
<1>1. /\ nodeList \in Seq(Node) /\ nodeList \in Seq(Nat) /\ nodeIndex \in Nat
      /\ Increasing(nodeList) /\ Different(nodeList)
  BY ListOfNumbers, NodeAssumption, IncreasingIsDifferent DEF ListInv, TypeOK, ListIncreasing
<1>2. ASSUME NEW n \in Node, Register(n) PROVE ListInv'
  <2>1. n \in Nat
    BY NodeAssumption
  <2>2. Add(nodeList, n) \in Seq(Node) /\ Different(Add(nodeList, n))
    BY <1>1, <2>1, AddType, AddKeepsDifferent
  <2>3. QED
    BY <1>1, <1>2, <2>2, BecomesInv DEF Register
<1>3. ASSUME NEW n \in Node, Collect(n) PROVE ListInv'
  <2>1. RemoveDead(nodeList, n) \in Seq(Node) /\ Different(RemoveDead(nodeList, n))
    BY <1>1, RemoveDeadType, RemoveDeadKeepsIncreasing, IncreasingIsDifferent
  <2>2. QED
    BY <1>1, <1>3, <2>1, BecomesInv DEF Collect
<1>4. CASE UNCHANGED vars
  BY <1>4 DEF vars, ListInv, TypeOK, ListIncreasing, IndexTracksSelf
<1>5. QED
  BY <1>2, <1>3, <1>4 DEF Next

LEMMA ListInvariant == Spec => []ListInv
  BY ListInit, ListStep, PTL DEF Spec

(* However servers register, register again and are collected, the list    *)
(* stays in order without repetition.                                      *)
THEOREM ListStaysIncreasing == Spec => []ListIncreasing
<1>1. ListInv => ListIncreasing
  BY DEF ListInv
<1>2. QED
  BY <1>1, ListInvariant, PTL

(* ... and nodeIndex points at the server while the list still has it.     *)
THEOREM IndexIsRight == Spec => []IndexTracksSelf
<1>1. ListInv => IndexTracksSelf
  BY DEF ListInv
<1>2. QED
  BY <1>1, ListInvariant, PTL

(* ... so that of the servers sharing the list exactly the successor of a  *)
(* key on the ring claims it in checkServer.                               *)
THEOREM SuccessorOwns == Spec => []OneOwner
<1>1. ListInv => OneOwner
  <2> SUFFICES ASSUME ListInv, NEW key \in Key, NEW i \in 1..Len(nodeList)
               PROVE  Claims(nodeList, i - 1, key) <=>
                        nodeList[i] = Successor(Range(nodeList), key)
    BY DEF OneOwner
  <2>1. nodeList \in Seq(Nat) /\ Increasing(nodeList)
    BY ListOfNumbers, NodeAssumption DEF ListInv, TypeOK, ListIncreasing
  <2>2. key \in Nat
    BY NodeAssumption
  <2>3. QED
    BY <2>1, <2>2, ClaimsIsSuccessor
<1>2. QED
  BY <1>1, ListInvariant, PTL

(* The list holds nodes only and nodeIndex is never negative, whichever    *)
(* node the removal in place takes out.                                    *)
THEOREM TypeCorrect == Spec => []TypeOK
<1>1. ListInv => TypeOK
  BY DEF ListInv
<1>2. QED
  BY <1>1, ListInvariant, PTL

-----------------------------------------------------------------------------
(* What the removal in place leaves of an increasing list, by position: a  *)
(* node occurs once, and behind it one node at most is kept.               *)
LEMMA RemoveDeadByPosition ==
  ASSUME NEW list \in Seq(Nat), Increasing(list), NEW i \in 1..Len(list)
  PROVE  /\ i = Len(list) =>
              RemoveDead(list, list[i]) = [k \in 1..(i - 1) |-> list[k]]
         /\ i < Len(list) =>
              RemoveDead(list, list[i]) =
                [k \in 1..i |-> IF k = i THEN list[i + 1] ELSE list[k]]
<1> DEFINE at == Occurrences(list, list[i])
           shifted == IF i < Len(list) THEN [list EXCEPT ![i] = list[i + 1]] ELSE list
<1>1. DOMAIN list = 1..Len(list) /\ Len(list) \in Nat
  OBVIOUS
<1>2. at = {i}
  BY <1>1, IncreasingIsDifferent DEF Occurrences, Different
<1>3. Min(at) = i /\ Max(at) = i
  <2>1. i \in Nat
    BY <1>1
  <2> HIDE DEF at
  <2>2. at \in SUBSET Nat /\ at \in SUBSET (1..Len(list)) /\ at # {}
    BY <1>2, <2>1
  <2>3. QED
    BY <1>1, <1>2, <2>2, MinOfNat, MaxOfInterval
<1>4. RemoveDead(list, list[i]) =
        IF i < Len(list) THEN SubSeq(shifted, 1, i) ELSE SubSeq(shifted, 1, i - 1)
  BY <1>2, <1>3 DEF RemoveDead
<1>5. ASSUME i = Len(list)
      PROVE  RemoveDead(list, list[i]) = [k \in 1..(i - 1) |-> list[k]]
  <2>1. shifted = list /\ RemoveDead(list, list[i]) = SubSeq(list, 1, i - 1)
    <3>1. ~ (i < Len(list))
      BY <1>1, <1>5
    <3>2. shifted = list
      BY <3>1
    <3>3. QED
      BY <1>4, <3>1, <3>2
  <2>2. SubSeq(list, 1, i - 1) = [k \in 1..(i - 1) |-> list[k]]
    BY <1>1
  <2>3. QED
    BY <2>1, <2>2
<1>6. ASSUME i < Len(list)
      PROVE  RemoveDead(list, list[i]) =
               [k \in 1..i |-> IF k = i THEN list[i + 1] ELSE list[k]]
  <2> DEFINE new == [k \in 1..i |-> IF k = i THEN list[i + 1] ELSE list[k]]
  <2>1. /\ shifted \in Seq(Nat) /\ Len(shifted) = Len(list)
        /\ \A k \in 1..i : shifted[k] = new[k]
    BY <1>1, <1>6
  <2> HIDE DEF shifted
  <2>2. SubSeq(shifted, 1, i) = new
    BY <1>1, <2>1
  <2>3. QED
    BY <1>4, <1>6, <2>2
<1>7. QED
  BY <1>5, <1>6

(* append(list[:i], list[i+1]) of collectBodies is the removal it is meant *)
(* to be as long as the dead node is one of the last two of the list.      *)
THEOREM LastTwoAreRemoved == Spec => []LastTwoRemoved
<1>1. ListInv => LastTwoRemoved
  <2> SUFFICES ASSUME ListInv, NEW i \in DOMAIN nodeList, i >= Len(nodeList) - 1
               PROVE  Range(RemoveDead(nodeList, nodeList[i]))
                        = Range(nodeList) \ {nodeList[i]}
    BY DEF LastTwoRemoved
  <2> DEFINE n    == Len(nodeList)
             left == RemoveDead(nodeList, nodeList[i])
  <2>1. /\ nodeList \in Seq(Nat) /\ Increasing(nodeList) /\ Different(nodeList)
        /\ i \in 1..n /\ n \in Nat /\ DOMAIN nodeList = 1..n
    BY ListOfNumbers, NodeAssumption, IncreasingIsDifferent DEF ListInv, TypeOK, ListIncreasing
  <2>2. Range(nodeList) \ {nodeList[i]} = {nodeList[k] : k \in (1..n) \ {i}}
    BY <2>1 DEF Range, Different
  <2>3. CASE i = n
    <3>1. left = [k \in 1..(i - 1) |-> nodeList[k]]
      BY <2>1, <2>3, RemoveDeadByPosition
    <3>2. Range(left) = {nodeList[k] : k \in 1..(i - 1)}
      BY <3>1 DEF Range
    <3>3. (1..n) \ {i} = 1..(i - 1)
      BY <2>1, <2>3
    <3>4. QED
      BY <2>2, <3>2, <3>3
  <2>4. CASE i = n - 1
    <3>1. left = [k \in 1..i |-> IF k = i THEN nodeList[i + 1] ELSE nodeList[k]]
      <4>1. i < n
        BY <2>1, <2>4
      <4>2. QED
        BY <2>1, <4>1, RemoveDeadByPosition
    <3>2. Range(left) =
            {IF k = i THEN nodeList[i + 1] ELSE nodeList[k] : k \in 1..i}
      BY <3>1 DEF Range
    <3>3. (1..n) \ {i} = 1..(i - 1) \cup {i + 1}
      BY <2>1, <2>4
    <3>4. \A k \in 1..i : k = i \/ k \in 1..(i - 1)
      BY <2>1
    <3>5. /\ i \in 1..i
          /\ \A k \in 1..(i - 1) : k \in 1..i /\ k # i
      BY <2>1
    <3> HIDE DEF n
    <3>6. Range(left) \subseteq Range(nodeList) \ {nodeList[i]}
      BY <2>2, <3>2, <3>3, <3>4
    <3>7. ASSUME NEW k \in 1..(i - 1) \cup {i + 1} PROVE nodeList[k] \in Range(left)
      <4>1. CASE k = i + 1
        BY <3>2, <3>5, <4>1
      <4>2. CASE k \in 1..(i - 1)
        BY <3>2, <3>5, <4>2
      <4>3. QED
        BY <3>7, <4>1, <4>2
    <3>8. QED
      BY <2>2, <3>3, <3>6, <3>7
  <2>5. i = n \/ i = n - 1
    BY <2>1
  <2>6. QED
    BY <2>3, <2>4, <2>5
<1>2. QED
  BY <1>1, ListInvariant, PTL
=============================================================================
