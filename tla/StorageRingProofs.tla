-------------------------- MODULE StorageRingProofs --------------------------
(***************************************************************************)
(* Theorems about StorageRing, for every set of servers, founders, buddies *)
(* and keys, and any number of crashes.                                    *)
(***************************************************************************)
EXTENDS StorageRing, RingProofs

(* A newcomer tells nodes only after its buddy has replied, so that the    *)
(* position it has reached is one of its list.                             *)
Counting == \A j \in Newcomer : joinPC[j] = "tell" => told[j] > 0

TypeInv == TypeOK /\ Counting

-----------------------------------------------------------------------------
LEMMA NewTask ==
  ASSUME NEW phase \in Phase, NEW s \in Server, NEW by \in Server,
         NEW slot \in Nat, NEW todo \in Seq(Server)
  PROVE  TaskIn(phase, s, by, slot, todo) \in Task
  BY DEF TaskIn, Task

LEMMA SlotType == MainSlot \in Nat /\ CleanupSlot \in Nat /\ FreshSlot \in Nat
  BY DEF MainSlot, CleanupSlot, FreshSlot

(* A goroutine that goes on is a goroutine.                                *)
LEMMA TaskGoesOn ==
  ASSUME NEW t \in Task, NEW phase \in Phase, NEW todo \in Seq(Server),
         NEW everybody \in BOOLEAN
  PROVE  /\ [t EXCEPT !.phase = phase] \in Task
         /\ [t EXCEPT !.todo = todo] \in Task
         /\ [t EXCEPT !.phase = phase, !.todo = todo] \in Task
         /\ [t EXCEPT !.phase = phase, !.todo = todo,
                      !.everybody = everybody] \in Task
  BY DEF Task

LEMMA TypeInit == Init => TypeInv
<1> SUFFICES ASSUME Init PROVE TypeInv
  OBVIOUS
<1> USE RingAssumption
<1>1. PICK list \in [1..Cardinality(Founder) -> Founder] :
        /\ nodeList = [s \in Server |-> IF s \in Founder THEN list ELSE << >>]
        /\ nodeIndex = [s \in Server |-> Reindex(list, s, 0)]
        /\ connMap = [s \in Server |->
             [n \in Server |->
                IF /\ s \in Founder /\ n # s
                   /\ n \in Range(SkipTargets(list, Reindex(list, s, 0), FullMesh))
                THEN "client" ELSE "none"]]
  BY DEF Init
<1>2. list \in Seq(Server) /\ << >> \in Seq(Server)
  <2>1. IsFiniteSet(Founder)
    BY FS_Subset
  <2>2. Cardinality(Founder) \in Nat
    BY <2>1, FS_CardinalityType
  <2>3. \A n \in Founder : n \in Server
    OBVIOUS
  <2>4. list \in [1..Cardinality(Founder) -> Server]
    BY <2>3
  <2>5. list \in Seq(Server)
    BY <2>2, <2>4
  <2>6. QED
    BY <2>5
<1>3. nodeList \in [Server -> Seq(Server)]
  BY <1>1, <1>2
<1>4. nodeIndex \in [Server -> Nat]
  BY <1>1, <1>2, ReindexType
<1>5. connMap \in [Server -> [Server -> {"none", "nil", "client"}]]
  BY <1>1
<1>6. deadNodeList \in [Server -> Seq(Server)]
  BY <1>2 DEF Init
<1>7. /\ life \in [Server -> {"off", "starting", "serving", "crashed"}]
      /\ stored \in [Server -> SUBSET Key]
      /\ tasks \subseteq Task
      /\ joinPC \in [Newcomer -> {"off", "register", "tell", "collect", "fetch",
                                  "open", "done"}]
      /\ told \in [Newcomer -> Nat]
      /\ call \in [Newcomer -> {"none", "append", "sort", "reply",
                                "index", "scan", "scanAtFront", "adopt"}]
      /\ peer \in [Newcomer -> Server]
      /\ transit \in [Newcomer -> SUBSET Key]
  BY DEF Init
<1>8. Counting
  BY DEF Init, Counting
<1>9. QED
  BY <1>3, <1>4, <1>5, <1>6, <1>7, <1>8 DEF TypeInv, TypeOK

-----------------------------------------------------------------------------
(* The helpers several actions share.                                      *)

LEMMA RecalculateType ==
  ASSUME TypeOK, NEW s \in Server, NEW by \in Server, NEW slot \in Nat,
         Recalculate(s, by, slot)
  PROVE  tasks' \subseteq Task
<1>1. << >> \in Seq(Server) /\ "clear" \in Phase
  BY DEF Phase
<1>2. TaskIn("clear", s, by, slot, << >>) \in Task
  BY <1>1, NewTask
<1>3. QED
  BY <1>2 DEF TypeOK, Recalculate

LEMMA BecomeType ==
  ASSUME TypeOK, NEW t \in tasks, NEW u \in Task, Become(t, u)
  PROVE  tasks' \subseteq Task
  BY DEF TypeOK, Become

LEMMA MarkDeadType ==
  ASSUME TypeOK, NEW s \in Server, NEW n \in Server, MarkDead(s, n)
  PROVE  deadNodeList' \in [Server -> Seq(Server)]
<1>1. Append(deadNodeList[s], n) \in Seq(Server)
  BY DEF TypeOK
<1>2. QED
  BY <1>1 DEF TypeOK, MarkDead

LEMMA SortListType ==
  ASSUME TypeOK, NEW s \in Server, SortList(s)
  PROVE  /\ nodeList' \in [Server -> Seq(Server)]
         /\ nodeIndex' \in [Server -> Nat]
<1>1. Server \in SUBSET Nat
  BY RingAssumption
<1>2. nodeList[s] \in Seq(Server) /\ nodeIndex[s] \in Nat
  BY DEF TypeOK
<1>3. Sorted(nodeList[s]) \in Seq(Server)
  BY <1>1, <1>2, SortedType
<1>4. Reindex(Sorted(nodeList[s]), s, nodeIndex[s]) \in Nat
  BY <1>2, <1>3, ReindexType
<1>5. QED
  BY <1>3, <1>4 DEF TypeOK, SortList

LEMMA HaltType ==
  ASSUME TypeInv, NEW s \in Server, Halt(s)
  PROVE  TypeInv'
<1> USE DEF TypeInv
<1>1. << >> \in Seq(Server) /\ NoConnections \in [Server -> {"none", "nil", "client"}]
  BY DEF NoConnections
<1>2. /\ nodeList' \in [Server -> Seq(Server)]
      /\ deadNodeList' \in [Server -> Seq(Server)]
  BY <1>1 DEF TypeOK, Halt
<1>3. /\ life' \in [Server -> {"off", "starting", "serving", "crashed"}]
      /\ nodeIndex' \in [Server -> Nat]
      /\ stored' \in [Server -> SUBSET Key]
      /\ tasks' \subseteq Task
  BY DEF TypeOK, Halt
<1>4. connMap' \in [Server -> [Server -> {"none", "nil", "client"}]]
  BY <1>1 DEF TypeOK, Halt
<1>5. transit' \in [Newcomer -> SUBSET Key]
  BY DEF TypeOK, Halt
<1>6. call' \in [Newcomer -> {"none", "append", "sort", "reply",
                             "index", "scan", "scanAtFront", "adopt"}]
  BY DEF TypeOK, Halt
<1>7. UNCHANGED <<joinPC, told, peer>>
  BY DEF Halt
<1>8. Counting'
  BY <1>7 DEF Counting
<1>9. QED
  BY <1>2, <1>3, <1>4, <1>5, <1>6, <1>7, <1>8 DEF TypeOK

(* The node a newcomer tells, and the one it takes its data from, are      *)
(* servers of its list.                                                    *)
LEMMA NodeToTell ==
  ASSUME TypeInv, NEW j \in Newcomer, Telling(j)
  PROVE  nodeList[j][told[j]] \in Server
<1>1. j \in Server /\ nodeList[j] \in Seq(Server) /\ told[j] \in Nat
  BY DEF TypeInv, TypeOK, Newcomer
<1>2. told[j] \in 1..Len(nodeList[j])
  BY <1>1 DEF TypeInv, Counting, Telling, InLoop, LoopEnds
<1>3. QED
  BY <1>1, <1>2

LEMMA NodeToFetchFrom ==
  ASSUME TypeInv, NEW j \in Newcomer, FetchFrom(j) <= Len(nodeList[j])
  PROVE  nodeList[j][FetchFrom(j)] \in Server
<1>1. /\ j \in Server /\ nodeList[j] \in Seq(Server) /\ nodeIndex[j] \in Nat
      /\ Len(nodeList[j]) \in Nat
  BY DEF TypeInv, TypeOK, Newcomer
<1>2. FetchFrom(j) \in 1..Len(nodeList[j])
  BY <1>1 DEF FetchFrom
<1>3. QED
  BY <1>1, <1>2
-----------------------------------------------------------------------------
LEMMA JoinType ==
  ASSUME TypeInv, NEW j \in Newcomer, Join(j)
  PROVE  TypeInv'
<1> USE DEF TypeInv
<1> DEFINE p == peer[j]
<1>0. /\ j \in Server /\ p \in Server
      /\ nodeList[j] \in Seq(Server) /\ nodeList[p] \in Seq(Server)
      /\ deadNodeList[j] \in Seq(Server)
      /\ told[j] \in Nat /\ told[j] + 1 \in Nat /\ told[j] + 1 > 0
  BY DEF TypeOK, Newcomer
<1>1. CASE CallBuddy(j)
  <2>1. Buddy[j] \in Server
    BY RingAssumption
  <2>2. QED
    BY <1>1, <2>1 DEF TypeOK, Counting, CallBuddy, Calls
<1>2. CASE CallNode(j)
  <2>1. nodeList[j][told[j]] \in Server
    BY <1>2, NodeToTell DEF CallNode
  <2>2. QED
    BY <1>2, <2>1 DEF TypeOK, Counting, CallNode, Calls
<1>3. CASE SkipNode(j)
  <2>1. deadNodeList' \in [Server -> Seq(Server)]
    <3>1. CASE UNCHANGED deadNodeList
      BY <3>1 DEF TypeOK
    <3>2. CASE MarkDead(j, nodeList[j][told[j]])
      <4>1. nodeList[j][told[j]] \in Server
        BY <1>3, NodeToTell DEF SkipNode
      <4>2. QED
        BY <1>0, <3>2, <4>1, MarkDeadType
    <3>3. QED
      BY <1>3, <3>1, <3>2 DEF SkipNode
  <2>2. QED
    BY <1>0, <1>3, <2>1 DEF TypeOK, Counting, SkipNode
<1>4. CASE EveryoneTold(j)
  <2>1. TaskIn("bury", j, j, MainSlot, deadNodeList[j]) \in Task
    BY <1>0, NewTask, SlotType DEF Phase
  <2>2. tasks' \subseteq Task
    BY <1>4, <2>1 DEF TypeOK, EveryoneTold
  <2>3. joinPC' \in [Newcomer -> {"off", "register", "tell", "collect", "fetch",
                                 "open", "done"}]
    BY <1>4 DEF TypeOK, EveryoneTold
  <2>4. Counting'
    BY <1>4 DEF TypeOK, Counting, EveryoneTold
  <2>5. QED
    BY <1>4, <2>2, <2>3, <2>4 DEF TypeOK, EveryoneTold
<1>5. CASE RegisterAppend(j)
  <2>1. Add(nodeList[p], j) \in Seq(Server)
    BY <1>0, AddType
  <2>2. QED
    BY <1>5, <2>1 DEF TypeOK, Counting, RegisterAppend
<1>6. CASE RegisterSort(j)
  <2>1. /\ nodeList' \in [Server -> Seq(Server)]
        /\ nodeIndex' \in [Server -> Nat]
    BY <1>0, <1>6, SortListType DEF RegisterSort
  <2>2. QED
    BY <1>6, <2>1 DEF TypeOK, Counting, RegisterSort
<1>7. CASE RegisterReply(j)
  <2>1. tasks' \subseteq Task
    BY <1>0, <1>7, RecalculateType DEF RegisterReply
  <2>2. Overwrite(nodeList[j], nodeList[p]) \in Seq(Server)
    BY <1>0, OverwriteType
  <2>3. nodeList' \in [Server -> Seq(Server)]
    <3> DEFINE new == IF joinPC[j] = "register" THEN nodeList[p]
                      ELSE Overwrite(nodeList[j], nodeList[p])
    <3>1. new \in Seq(Server)
      BY <1>0, <2>2
    <3>2. nodeList' = nodeList \/ nodeList' = [nodeList EXCEPT ![j] = new]
      BY <1>7 DEF RegisterReply
    <3>3. nodeList \in [Server -> Seq(Server)]
      BY DEF TypeOK
    <3> HIDE DEF new
    <3>4. [nodeList EXCEPT ![j] = new] \in [Server -> Seq(Server)]
      BY <1>0, <3>1, <3>3
    <3>5. QED
      BY <3>2, <3>3, <3>4
  <2>4. \/ UNCHANGED <<joinPC, told>>
        \/ /\ told' = [told EXCEPT ![j] = @ + 1]
           /\ joinPC' = [joinPC EXCEPT ![j] = "tell"]
    BY <1>7 DEF RegisterReply
  <2> DEFINE Stages == {"off", "register", "tell", "collect", "fetch", "open", "done"}
  <2>5. joinPC' \in [Newcomer -> Stages]
    <3>1. joinPC \in [Newcomer -> Stages] /\ "tell" \in Stages
      BY DEF TypeOK
    <3> HIDE DEF Stages
    <3>2. QED
      BY <2>4, <3>1
  <2>6. told' \in [Newcomer -> Nat] /\ Counting'
    <3>1. /\ told \in [Newcomer -> Nat] /\ joinPC \in [Newcomer -> Stages]
          /\ \A i \in Newcomer : joinPC[i] = "tell" => told[i] > 0
      BY DEF TypeOK, Counting
    <3>2. told[j] + 1 \in Nat /\ told[j] + 1 > 0
      BY <3>1
    <3> HIDE DEF Stages
    <3>3. QED
      BY <2>4, <3>1, <3>2 DEF Counting
  <2>7. /\ call' = [call EXCEPT ![j] = "none"]
        /\ UNCHANGED <<life, nodeIndex, deadNodeList, connMap, stored, peer, transit>>
    BY <1>7 DEF RegisterReply
  <2>8. QED
    BY <2>1, <2>3, <2>5, <2>6, <2>7 DEF TypeOK
<1>8. CASE BuddyLost(j)
  BY <1>8 DEF TypeOK, Counting, BuddyLost, CallLost
<1>9. CASE NodeLost(j)
  <2>1. deadNodeList' \in [Server -> Seq(Server)]
    BY <1>0, <1>9, MarkDeadType DEF NodeLost
  <2>2. QED
    BY <1>0, <1>9, <2>1 DEF TypeOK, Counting, NodeLost, CallLost
<1>10. CASE TransferLost(j)
  BY <1>10 DEF TypeOK, Counting, TransferLost, CallLost
<1>11. CASE CallTransfer(j)
  <2>1. nodeList[j][FetchFrom(j)] \in Server
    BY <1>11, NodeToFetchFrom DEF CallTransfer
  <2>2. QED
    BY <1>11, <2>1 DEF TypeOK, Counting, CallTransfer, Calls
<1>12. CASE NobodyToFetchFrom(j)
  <2>1. nodeList[j][FetchFrom(j)] \in Server
    BY <1>12, NodeToFetchFrom DEF NobodyToFetchFrom
  <2>2. deadNodeList' \in [Server -> Seq(Server)]
    BY <1>0, <1>12, <2>1, MarkDeadType DEF NobodyToFetchFrom
  <2>3. QED
    BY <1>12, <2>2 DEF TypeOK, Counting, NobodyToFetchFrom
<1>13. CASE FetchPanics(j)
  BY <1>0, <1>13, HaltType DEF FetchPanics
<1>14. CASE TransferIndex(j)
  <2>1. Sorted(nodeList[p]) \in Seq(Server)
    BY <1>0, SortedType, RingAssumption
  <2>2. nodeList' \in [Server -> Seq(Server)]
    BY <1>14, <2>1 DEF TypeOK, TransferIndex
  <2>3. call' \in [Newcomer -> {"none", "append", "sort", "reply",
                               "index", "scan", "scanAtFront", "adopt"}]
    BY <1>14 DEF TypeOK, TransferIndex
  <2>4. QED
    BY <1>14, <2>2, <2>3 DEF TypeOK, Counting, TransferIndex
<1>15. CASE TransferScan(j)
  <2> DEFINE given == {k \in stored[p] :
                         Moves(nodeList[p], call[j] = "scanAtFront", j, k)}
  <2>1. CASE Halt(p)
    BY <1>0, <2>1, HaltType
  <2>2. CASE ~ Halt(p)
    <3>1. /\ GiveKeys(p, j, given)
          /\ call' = [call EXCEPT ![j] = IF Joining(j) THEN "adopt" ELSE "none"]
          /\ UNCHANGED <<life, nodeList, nodeIndex, deadNodeList, connMap,
                         tasks, joinPC, told, peer>>
      BY <1>15, <2>2 DEF TransferScan
    <3>2. given \subseteq stored[p] /\ stored[p] \subseteq Key
      BY <1>0 DEF TypeOK
    <3> HIDE DEF given
    <3>3. /\ stored' \in [Server -> SUBSET Key]
          /\ transit' \in [Newcomer -> SUBSET Key]
      BY <3>1, <3>2 DEF TypeOK, GiveKeys
    <3>4. QED
      BY <3>1, <3>3 DEF TypeOK, Counting
  <2>3. QED
    BY <2>1, <2>2
<1>16. CASE Adopt(j)
  BY <1>0, <1>16 DEF TypeOK, Counting, Adopt
<1>17. CASE Open(j)
  <2>1. tasks' \subseteq Task
    BY <1>0, <1>17, RecalculateType, SlotType DEF Open
  <2>2. QED
    BY <1>17, <2>1 DEF TypeOK, Counting, Open
<1>18. QED
  BY <1>1, <1>2, <1>3, <1>4, <1>5, <1>6, <1>7, <1>8, <1>9, <1>10, <1>11,
     <1>12, <1>13, <1>14, <1>15, <1>16, <1>17 DEF Join

LEMMA BackgroundType ==
  ASSUME TypeInv, NEW t \in tasks, RunTask(t)
  PROVE  TypeInv'
<1> USE DEF TypeInv
<1> DEFINE s == t.at
<1>0. /\ t \in Task /\ s \in Server /\ t.by \in Server
      /\ t.phase \in Phase /\ t.todo \in Seq(Server)
      /\ nodeList[s] \in Seq(Server) /\ nodeIndex[s] \in Nat
      /\ deadNodeList[s] \in Seq(Server) /\ << >> \in Seq(Server)
      /\ connMap[s] \in [Server -> {"none", "nil", "client"}]
  BY DEF TypeOK, Task
<1>1. CASE ClearSkipList(t)
  <2>1. [t EXCEPT !.phase = "choose"] \in Task
    BY <1>0, TaskGoesOn DEF Phase
  <2>2. tasks' \subseteq Task
    BY <1>1, <2>1, BecomeType DEF ClearSkipList
  <2>3. connMap' \in [Server -> [Server -> {"none", "nil", "client"}]]
    BY <1>1 DEF TypeOK, ClearSkipList, NoConnections
  <2>4. QED
    BY <1>1, <2>2, <2>3 DEF TypeOK, Counting, ClearSkipList, ringVars, joinVars
<1>2. CASE ChooseNodes(t)
  <2> DEFINE targets == SkipTargets(nodeList[s], nodeIndex[s], FullMesh)
             everybody == Len(nodeList[s]) <= FullMesh
  <2>1. targets \in Seq(Server)
    BY <1>0, SkipTargetsType, RingAssumption
  <2>2. [t EXCEPT !.phase = "dial", !.todo = targets,
                  !.everybody = everybody] \in Task
    <3>1. everybody \in BOOLEAN /\ "dial" \in Phase
      BY DEF Phase
    <3> HIDE DEF targets, everybody
    <3>2. QED
      BY <1>0, <2>1, <3>1, TaskGoesOn
  <2>3. tasks' \subseteq Task
    BY <1>2, <2>2, BecomeType DEF ChooseNodes
  <2>4. QED
    BY <1>2, <2>3 DEF TypeOK, Counting, ChooseNodes, ringVars, joinVars
<1>3. CASE DialNode(t)
  <2>1. Head(t.todo) \in Server /\ Tail(t.todo) \in Seq(Server)
    BY <1>0, <1>3 DEF DialNode, Dialling
  <2>2. /\ [t EXCEPT !.todo = Tail(@)] \in Task
        /\ [t EXCEPT !.phase = "record"] \in Task
        /\ [t EXCEPT !.phase = "recordNil"] \in Task
    BY <1>0, <2>1, TaskGoesOn DEF Phase
  <2>3. AfterRefusal(t) \in Task
    BY <2>2 DEF AfterRefusal
  <2>4. tasks' \subseteq Task
    BY <1>3, <2>2, <2>3, BecomeType DEF DialNode
  <2>5. deadNodeList' \in [Server -> Seq(Server)]
    BY <1>0, <1>3, <2>1, MarkDeadType DEF DialNode, TypeOK
  <2>6. QED
    BY <1>3, <2>4, <2>5 DEF TypeOK, Counting, DialNode, ringVars, joinVars
<1>4. CASE RecordConnection(t)
  <2>1. Head(t.todo) \in Server /\ Tail(t.todo) \in Seq(Server)
    BY <1>0, <1>4 DEF RecordConnection
  <2>2. [t EXCEPT !.phase = "dial", !.todo = Tail(@)] \in Task
    BY <1>0, <2>1, TaskGoesOn DEF Phase
  <2>3. tasks' \subseteq Task
    BY <1>4, <2>2, BecomeType DEF RecordConnection
  <2>4. connMap' \in [Server -> [Server -> {"none", "nil", "client"}]]
    BY <1>0, <1>4, <2>1 DEF TypeOK, RecordConnection
  <2>5. QED
    BY <1>4, <2>3, <2>4 DEF TypeOK, Counting, RecordConnection, ringVars, joinVars
<1>5. CASE EndSkipList(t)
  <2>1. /\ TaskIn("collect", t.at, t.by, CleanupSlot, << >>) \in Task
        /\ [t EXCEPT !.phase = "collect"] \in Task
    BY <1>0, NewTask, TaskGoesOn, SlotType DEF Phase
  <2>2. tasks' \subseteq Task
    BY <1>5, <2>1, BecomeType DEF EndSkipList
  <2>3. QED
    BY <1>5, <2>2 DEF TypeOK, Counting, EndSkipList, ringVars
<1>6. CASE CollectBodies(t)
  <2>1. [t EXCEPT !.phase = "bury", !.todo = deadNodeList[t.at]] \in Task
    BY <1>0, TaskGoesOn DEF Phase
  <2>2. tasks' \subseteq Task
    BY <1>6, <2>1, BecomeType DEF CollectBodies, TypeOK
  <2>3. QED
    BY <1>6, <2>2 DEF TypeOK, Counting, CollectBodies, ringVars, joinVars
<1>7. CASE Bury(t)
  <2>1. Head(t.todo) \in Server /\ Tail(t.todo) \in Seq(Server)
    BY <1>0, <1>7 DEF Bury
  <2>2. RemoveDead(nodeList[s], Head(t.todo)) \in Seq(Server)
    BY <1>0, RemoveDeadType
  <2>3. [t EXCEPT !.phase = IF Tail(t.todo) = << >> THEN "resort" ELSE "bury",
                  !.todo = Tail(@)] \in Task
    BY <1>0, <2>1, TaskGoesOn DEF Phase
  <2>4. tasks' \subseteq Task
    BY <1>7, <2>3, BecomeType DEF Bury
  <2>5. nodeList' \in [Server -> Seq(Server)]
    BY <1>0, <1>7, <2>2 DEF TypeOK, Bury
  <2>6. deadNodeList' \in [Server -> Seq(Server)]
    BY <1>0, <1>7 DEF TypeOK, Bury
  <2>7. QED
    BY <1>7, <2>4, <2>5, <2>6 DEF TypeOK, Counting, Bury, joinVars
<1>8. CASE Resort(t)
  <2>1. /\ nodeList' \in [Server -> Seq(Server)]
        /\ nodeIndex' \in [Server -> Nat]
    BY <1>0, <1>8, SortListType DEF Resort
  <2>2. [t EXCEPT !.phase = "clear"] \in Task
    BY <1>0, TaskGoesOn DEF Phase
  <2>3. tasks' \subseteq Task
    BY <1>8, <2>2, BecomeType DEF Resort
  <2>4. QED
    BY <1>8, <2>1, <2>3 DEF TypeOK, Counting, Resort, joinVars
<1>9. QED
  BY <1>1, <1>2, <1>3, <1>4, <1>5, <1>6, <1>7, <1>8 DEF RunTask

LEMMA TypeStep == TypeInv /\ [Next]_vars => TypeInv'
<1> SUFFICES ASSUME TypeInv, [Next]_vars PROVE TypeInv'
  OBVIOUS
<1>1. ASSUME NEW j \in Newcomer, Start(j) PROVE TypeInv'
  <2>1. j \in Server /\ <<j>> \in Seq(Server)
    BY DEF Newcomer
  <2>2. QED
    BY <1>1, <2>1 DEF TypeInv, TypeOK, Counting, Start
<1>2. ASSUME NEW s \in Server, Crash(s) PROVE TypeInv'
  BY <1>2, HaltType DEF Crash
<1>3. CASE UNCHANGED vars
  BY <1>3 DEF TypeInv, TypeOK, Counting, vars
<1>4. QED
  BY <1>1, <1>2, <1>3, JoinType, BackgroundType DEF Next, Background

(* Every variable keeps to its type: in particular a list holds servers    *)
(* only, and no index is negative, whatever is removed from the lists.     *)
THEOREM TypeCorrect == Spec => []TypeOK
<1>1. Spec => []TypeInv
  BY TypeInit, TypeStep, PTL DEF Spec
<1>2. TypeInv => TypeOK
  BY DEF TypeInv
<1>3. QED
  BY <1>1, <1>2, PTL
-----------------------------------------------------------------------------
(* What a step can do to the keys.                                         *)

Gives(p, j) == /\ call[j] \in {"scan", "scanAtFront"}
               /\ \E given \in SUBSET stored[p] : GiveKeys(p, j, given)
               /\ UNCHANGED life
Takes(j) == /\ stored' = [stored EXCEPT ![j] = @ \cup transit[j]]
            /\ transit' = [transit EXCEPT ![j] = {}]
Forgets(j) == /\ life[peer[j]] = "crashed"
              /\ UNCHANGED stored
              /\ transit' = [transit EXCEPT ![j] = {}]
Dies(s) == /\ life' = [life EXCEPT ![s] = "crashed"]
           /\ stored' = [stored EXCEPT ![s] = {}]
           /\ transit' = [j \in Newcomer |-> IF j = s THEN {} ELSE transit[j]]

KeyStep ==
  \/ UNCHANGED <<stored, transit>>
  \/ \E j \in Newcomer : \E p \in Server : Gives(p, j)
  \/ \E j \in Newcomer : Takes(j) \/ Forgets(j)
  \/ \E s \in Server : Dies(s)

LEMMA KeySteps == TypeInv /\ [Next]_vars => KeyStep
<1> SUFFICES ASSUME TypeInv, [Next]_vars PROVE KeyStep
  OBVIOUS
<1>1. ASSUME NEW j \in Newcomer, Start(j) PROVE KeyStep
  BY <1>1 DEF Start, KeyStep
<1>2. ASSUME NEW j \in Newcomer, Join(j) PROVE KeyStep
  <2>1. j \in Server /\ peer[j] \in Server
    BY DEF TypeInv, TypeOK, Newcomer
  <2>2. CASE CallBuddy(j) \/ CallNode(j) \/ SkipNode(j) \/ EveryoneTold(j)
    BY <2>2 DEF CallBuddy, CallNode, SkipNode, EveryoneTold, KeyStep
  <2>3. CASE RegisterAppend(j) \/ RegisterSort(j) \/ RegisterReply(j)
    BY <2>3 DEF RegisterAppend, RegisterSort, RegisterReply, KeyStep
  <2>4. CASE BuddyLost(j) \/ NodeLost(j) \/ CallTransfer(j)
             \/ NobodyToFetchFrom(j) \/ TransferIndex(j) \/ Open(j)
    BY <2>4 DEF BuddyLost, NodeLost, CallTransfer, NobodyToFetchFrom,
                TransferIndex, Open, KeyStep
  <2>5. CASE TransferLost(j)
    <3>1. Forgets(j)
      BY <2>5 DEF TransferLost, CallLost, Forgets
    <3>2. QED
      BY <3>1 DEF KeyStep
  <2>6. CASE FetchPanics(j)
    <3>1. Dies(j)
      BY <2>6 DEF FetchPanics, Halt, Dies
    <3>2. QED
      BY <2>1, <3>1 DEF KeyStep
  <2>7. CASE TransferScan(j)
    <3> DEFINE given == {k \in stored[peer[j]] :
                 Moves(nodeList[peer[j]], call[j] = "scanAtFront", j, k)}
    <3>1. given \in SUBSET stored[peer[j]]
      OBVIOUS
    <3>2. CASE Halt(peer[j])
      <4>1. Dies(peer[j])
        BY <3>2 DEF Halt, Dies
      <4>2. QED
        BY <2>1, <4>1 DEF KeyStep
    <3>3. CASE ~ Halt(peer[j])
      <4>1. GiveKeys(peer[j], j, given) /\ UNCHANGED life
        BY <2>7, <3>3 DEF TransferScan
      <4>2. call[j] \in {"scan", "scanAtFront"}
        BY <2>7 DEF TransferScan, Handling
      <4> HIDE DEF given
      <4>3. Gives(peer[j], j)
        BY <3>1, <4>1, <4>2 DEF Gives
      <4>4. QED
        BY <2>1, <4>3 DEF KeyStep
    <3>4. QED
      BY <3>2, <3>3
  <2>8. CASE Adopt(j)
    <3>1. Takes(j)
      BY <2>8 DEF Adopt, Takes
    <3>2. QED
      BY <3>1 DEF KeyStep
  <2>9. QED
    BY <1>2, <2>2, <2>3, <2>4, <2>5, <2>6, <2>7, <2>8 DEF Join
<1>3. ASSUME NEW t \in tasks, RunTask(t) PROVE KeyStep
  BY <1>3 DEF RunTask, ClearSkipList, ChooseNodes, DialNode, RecordConnection,
              EndSkipList, CollectBodies, Bury, Resort, joinVars, KeyStep
<1>4. ASSUME NEW s \in Server, Crash(s) PROVE KeyStep
  <2>1. Dies(s)
    BY <1>4 DEF Crash, Halt, Dies
  <2>2. QED
    BY <2>1 DEF KeyStep
<1>5. CASE UNCHANGED vars
  BY <1>5 DEF vars, KeyStep
<1>6. QED
  BY <1>1, <1>2, <1>3, <1>4, <1>5 DEF Next, Background

(* Of a key at most one server or reply has it, whichever step is taken.   *)
LEMMA UniqueStep ==
  TypeInv /\ NeverDuplicated /\ KeyStep => NeverDuplicated'
<1> SUFFICES ASSUME TypeInv, NeverDuplicated, KeyStep, NEW k \in Key
             PROVE  /\ \A s, t \in HeldBy(k)' : s = t
                    /\ \A i, j \in MovingTo(k)' : i = j
                    /\ HeldBy(k)' = {} \/ MovingTo(k)' = {}
  BY DEF NeverDuplicated
<1>0. /\ stored \in [Server -> SUBSET Key] /\ transit \in [Newcomer -> SUBSET Key]
      /\ Newcomer \subseteq Server
  BY DEF TypeInv, TypeOK, Newcomer
<1>1. /\ \A s, t \in Server : k \in stored[s] /\ k \in stored[t] => s = t
      /\ \A i, j \in Newcomer : k \in transit[i] /\ k \in transit[j] => i = j
      /\ \A s \in Server : \A i \in Newcomer : ~(k \in stored[s] /\ k \in transit[i])
  BY DEF NeverDuplicated, HeldBy, MovingTo
<1> DEFINE OneAfter ==
      /\ \A s, t \in Server : k \in stored'[s] /\ k \in stored'[t] => s = t
      /\ \A i, j \in Newcomer : k \in transit'[i] /\ k \in transit'[j] => i = j
      /\ \A s \in Server : \A i \in Newcomer : ~(k \in stored'[s] /\ k \in transit'[i])
<1>2. OneAfter
  <2>1. CASE UNCHANGED <<stored, transit>>
    BY <1>1, <2>1
  <2>2. ASSUME NEW j \in Newcomer, NEW p \in Server, Gives(p, j) PROVE OneAfter
    <3>1. PICK given \in SUBSET stored[p] : GiveKeys(p, j, given)
      BY <2>2 DEF Gives
    <3>2. /\ stored' = [stored EXCEPT ![p] = @ \ given]
          /\ \/ transit' = [transit EXCEPT ![j] = given]
             \/ transit' = [transit EXCEPT ![j] = {}]
      BY <3>1 DEF GiveKeys
    <3>3. QED
      BY <1>0, <1>1, <3>1, <3>2
  <2>3. ASSUME NEW j \in Newcomer, Takes(j) \/ Forgets(j) PROVE OneAfter
    BY <1>0, <1>1, <2>3 DEF Takes, Forgets
  <2>4. ASSUME NEW s \in Server, Dies(s) PROVE OneAfter
    BY <1>0, <1>1, <2>4 DEF Dies
  <2>5. QED
    BY <2>1, <2>2, <2>3, <2>4 DEF KeyStep
<1>3. QED
  BY <1>2 DEF HeldBy, MovingTo
LEMMA UniqueInit == Init => NeverDuplicated
  BY DEF Init, NeverDuplicated, HeldBy, MovingTo

(* No key is in two places, however joins, hand-overs and crashes          *)
(* interleave: TransferData takes a key out of the giver's maps before the *)
(* reply that carries it is sent, and only that reply brings it back.      *)
THEOREM KeysAreUnique == Spec => []NeverDuplicated
<1> DEFINE Inv == TypeInv /\ NeverDuplicated
<1>1. Init => Inv
  BY TypeInit, UniqueInit
<1>2. Inv /\ [Next]_vars => Inv'
  BY TypeStep, KeySteps, UniqueStep
<1>3. Spec => []Inv
  BY <1>1, <1>2, PTL DEF Spec
<1>4. QED
  BY <1>3, PTL

-----------------------------------------------------------------------------
(* A server that has crashed stays crashed, and only such servers refuse a *)
(* connection.                                                             *)
LEMMA CrashIsFinal == TypeInv /\ [Next]_vars => Crashed \subseteq Crashed'
<1> SUFFICES ASSUME TypeInv, [Next]_vars PROVE Crashed \subseteq Crashed'
  OBVIOUS
<1>0. /\ DOMAIN life = Server /\ Newcomer \subseteq Server
      /\ \A j \in Newcomer : peer[j] \in Server
  BY DEF TypeInv, TypeOK, Newcomer
<1>1. ASSUME NEW s \in Server, Halt(s) PROVE Crashed \subseteq Crashed'
  BY <1>0, <1>1 DEF Halt, Crashed
<1>2. ASSUME UNCHANGED life PROVE Crashed \subseteq Crashed'
  BY <1>2 DEF Crashed
<1>3. ASSUME NEW j \in Newcomer, Start(j) PROVE Crashed \subseteq Crashed'
  BY <1>0, <1>3 DEF Start, Crashed
<1>4. ASSUME NEW j \in Newcomer, Join(j) PROVE Crashed \subseteq Crashed'
  <2>1. CASE FetchPanics(j)
    BY <1>0, <1>1, <2>1 DEF FetchPanics
  <2>2. CASE TransferScan(j)
    BY <1>0, <1>1, <1>2, <2>2 DEF TransferScan
  <2>3. CASE Open(j)
    BY <1>0, <2>3 DEF Open, Joining, Crashed
  <2>4. CASE ~(FetchPanics(j) \/ TransferScan(j) \/ Open(j))
    <3>1. UNCHANGED life
      BY <1>4, <2>4
         DEF Join, CallBuddy, CallNode, SkipNode, EveryoneTold, RegisterAppend,
             RegisterSort, RegisterReply, BuddyLost, NodeLost, TransferLost,
             CallTransfer, NobodyToFetchFrom, TransferIndex, Adopt
    <3>2. QED
      BY <1>2, <3>1
  <2>5. QED
    BY <2>1, <2>2, <2>3, <2>4
<1>5. ASSUME NEW t \in tasks, RunTask(t) PROVE Crashed \subseteq Crashed'
  <2>1. UNCHANGED life
    BY <1>5 DEF RunTask, ClearSkipList, ChooseNodes, DialNode, RecordConnection,
                EndSkipList, CollectBodies, Bury, Resort
  <2>2. QED
    BY <1>2, <2>1
<1>6. ASSUME NEW s \in Server, Crash(s) PROVE Crashed \subseteq Crashed'
  BY <1>1, <1>6 DEF Crash
<1>7. CASE UNCHANGED vars
  BY <1>2, <1>7 DEF vars
<1>8. QED
  BY <1>3, <1>4, <1>5, <1>6, <1>7 DEF Next, Background

(* A step that marks a node dead marks one that has crashed.               *)
LEMMA MarkedStep ==
  ASSUME TypeInv, OnlyTheDeadMarked, Crashed \subseteq Crashed',
         NEW s \in Server, NEW n \in Crashed, MarkDead(s, n)
  PROVE  OnlyTheDeadMarked'
<1>1. /\ deadNodeList \in [Server -> Seq(Server)] /\ n \in Server
      /\ deadNodeList' = [deadNodeList EXCEPT ![s] = Append(@, n)]
  BY DEF TypeInv, TypeOK, MarkDead, Crashed
<1>2. ASSUME NEW r \in Server PROVE Range(deadNodeList'[r]) \subseteq Crashed'
  <2>1. Range(deadNodeList[r]) \subseteq Crashed'
    BY DEF OnlyTheDeadMarked
  <2>2. CASE r # s
    BY <1>1, <2>1, <2>2
  <2>3. CASE r = s
    <3> DEFINE old == deadNodeList[s]
               new == Append(old, n)
    <3>1. old \in Seq(Server) /\ new \in Seq(Server) /\ Len(old) \in Nat
      BY <1>1
    <3>2. ASSUME NEW i \in 1..Len(new) PROVE new[i] \in Crashed'
      <4>1. CASE i = Len(old) + 1
        BY <3>1, <4>1
      <4>2. CASE i # Len(old) + 1
        <5>1. i \in 1..Len(old) /\ new[i] = old[i]
          BY <3>1, <4>2
        <5>2. old[i] \in Range(old)
          BY <3>1, <5>1, RangeOfList
        <5>3. QED
          BY <2>1, <2>3, <5>1, <5>2
      <4>3. QED
        BY <4>1, <4>2
    <3>3. deadNodeList'[r] = new
      BY <1>1, <2>3
    <3> HIDE DEF new
    <3>4. \A m \in Range(new) : \E i \in 1..Len(new) : m = new[i]
      BY <3>1, RangeOfList
    <3>5. QED
      BY <3>2, <3>3, <3>4
  <2>4. QED
    BY <2>2, <2>3
<1>3. QED
  BY <1>2 DEF OnlyTheDeadMarked

LEMMA MarkedLess ==
  ASSUME TypeInv, OnlyTheDeadMarked, Crashed \subseteq Crashed',
         \A r \in Server : deadNodeList'[r] = deadNodeList[r] \/ deadNodeList'[r] = << >>
  PROVE  OnlyTheDeadMarked'
<1>1. Range(<< >>) = {}
  BY DEF Range
<1>2. QED
  BY <1>1 DEF OnlyTheDeadMarked

LEMMA OnlyTheDeadStep ==
  TypeInv /\ OnlyTheDeadMarked /\ [Next]_vars => OnlyTheDeadMarked'
<1> SUFFICES ASSUME TypeInv, OnlyTheDeadMarked, [Next]_vars PROVE OnlyTheDeadMarked'
  OBVIOUS
<1>0. /\ deadNodeList \in [Server -> Seq(Server)] /\ Newcomer \subseteq Server
      /\ Crashed \subseteq Crashed'
      /\ \A j \in Newcomer : peer[j] \in Server
  BY CrashIsFinal DEF TypeInv, TypeOK, Newcomer
<1>1. ASSUME NEW s \in Server, Halt(s) PROVE OnlyTheDeadMarked'
  BY <1>0, <1>1, MarkedLess DEF Halt
<1>2. ASSUME UNCHANGED deadNodeList PROVE OnlyTheDeadMarked'
  BY <1>0, <1>2, MarkedLess
<1>3. ASSUME NEW j \in Newcomer, Join(j) PROVE OnlyTheDeadMarked'
  <2>1. CASE SkipNode(j)
    <3>1. CASE MarkDead(j, nodeList[j][told[j]]) /\ Refuses(nodeList[j][told[j]])
      <4>1. nodeList[j][told[j]] \in Server
        BY <2>1, NodeToTell DEF SkipNode
      <4>2. nodeList[j][told[j]] \in Crashed
        BY <3>1, <4>1 DEF Refuses, Crashed
      <4>3. QED
        BY <1>0, <3>1, <4>2, MarkedStep
    <3>2. QED
      BY <1>2, <2>1, <3>1 DEF SkipNode
  <2>2. CASE NodeLost(j)
    BY <1>0, <2>2, MarkedStep DEF NodeLost, CallLost, Crashed
  <2>3. CASE NobodyToFetchFrom(j)
    <3>1. nodeList[j][FetchFrom(j)] \in Server
      BY <2>3, NodeToFetchFrom DEF NobodyToFetchFrom
    <3>2. nodeList[j][FetchFrom(j)] \in Crashed
      BY <2>3, <3>1 DEF NobodyToFetchFrom, Refuses, Crashed
    <3>3. QED
      BY <1>0, <2>3, <3>2, MarkedStep DEF NobodyToFetchFrom
  <2>4. CASE FetchPanics(j)
    BY <1>0, <1>1, <2>4 DEF FetchPanics
  <2>5. CASE TransferScan(j)
    BY <1>0, <1>1, <1>2, <2>5 DEF TransferScan
  <2>6. CASE ~(SkipNode(j) \/ NodeLost(j) \/ NobodyToFetchFrom(j)
               \/ FetchPanics(j) \/ TransferScan(j))
    <3>1. UNCHANGED deadNodeList
      BY <1>3, <2>6
         DEF Join, CallBuddy, CallNode, EveryoneTold, RegisterAppend,
             RegisterSort, RegisterReply, BuddyLost, TransferLost,
             CallTransfer, TransferIndex, Adopt, Open
    <3>2. QED
      BY <1>2, <3>1
  <2>7. QED
    BY <2>1, <2>2, <2>3, <2>4, <2>5, <2>6
<1>4. ASSUME NEW t \in tasks, RunTask(t) PROVE OnlyTheDeadMarked'
  <2>0. t \in Task /\ t.at \in Server
    BY DEF TypeInv, TypeOK, Task
  <2>1. CASE DialNode(t)
    <3>1. CASE MarkDead(t.at, Head(t.todo)) /\ Refuses(Head(t.todo))
      <4>1. Head(t.todo) \in Server
        BY <2>0, <2>1 DEF DialNode, Dialling, Task
      <4>2. Head(t.todo) \in Crashed
        BY <3>1, <4>1 DEF Refuses, Crashed
      <4>3. QED
        BY <1>0, <2>0, <3>1, <4>2, MarkedStep
    <3>2. QED
      BY <1>2, <2>1, <3>1 DEF DialNode
  <2>2. CASE Bury(t)
    BY <1>0, <2>0, <2>2, MarkedLess DEF Bury
  <2>3. CASE ~(DialNode(t) \/ Bury(t))
    <3>1. UNCHANGED deadNodeList
      BY <1>4, <2>3 DEF RunTask, ClearSkipList, ChooseNodes, RecordConnection,
                        EndSkipList, CollectBodies, Resort
    <3>2. QED
      BY <1>2, <3>1
  <2>4. QED
    BY <2>1, <2>2, <2>3
<1>5. ASSUME NEW j \in Newcomer, Start(j) PROVE OnlyTheDeadMarked'
  BY <1>2, <1>5 DEF Start
<1>6. ASSUME NEW s \in Server, Crash(s) PROVE OnlyTheDeadMarked'
  BY <1>1, <1>6 DEF Crash
<1>7. CASE UNCHANGED vars
  BY <1>2, <1>7 DEF vars
<1>8. QED
  BY <1>3, <1>4, <1>5, <1>6, <1>7 DEF Next, Background

(* A server that a constructor or a goroutine of another one counts as     *)
(* dead has crashed, at whatever moment it was dialled.                    *)
THEOREM MarkedAreDead == Spec => []OnlyTheDeadMarked
<1> DEFINE Inv == TypeInv /\ OnlyTheDeadMarked
<1>1. Init => OnlyTheDeadMarked
  <2>1. Range(<< >>) = {}
    BY DEF Range
  <2>2. QED
    BY <2>1 DEF Init, OnlyTheDeadMarked
<1>2. Init => Inv
  BY <1>1, TypeInit
<1>3. Inv /\ [Next]_vars => Inv'
  BY TypeStep, OnlyTheDeadStep
<1>4. Spec => []Inv
  BY <1>2, <1>3, PTL DEF Spec
<1>5. QED
  BY <1>4, PTL
-----------------------------------------------------------------------------
(* Why no hand-over loses keys: the newcomer still waits for the call that *)
(* a peer handles for it, in the stage of the join that made the call, and *)
(* keys travel in the last part of a Transfer call only, so that one       *)
(* Transfer reply never replaces another.                                  *)
Waiting(j) ==
  call[j] # "none" /\ life[j] # "crashed" =>
    life[j] = "starting" /\ joinPC[j] \in {"register", "tell", "fetch"}
Transferring(j) ==
  call[j] \in {"index", "scan", "scanAtFront", "adopt"} /\ life[j] # "crashed" =>
    joinPC[j] = "fetch"
Carrying(j) == transit[j] # {} => call[j] = "adopt" /\ life[j] # "crashed"

CallInv == \A j \in Newcomer : Waiting(j) /\ Transferring(j) /\ Carrying(j)

LEMMA CallInit == Init => CallInv
  BY DEF Init, CallInv, Waiting, Transferring, Carrying

LEMMA CallHalt ==
  ASSUME TypeInv, CallInv, NEW s \in Server, Halt(s)
  PROVE  CallInv'
<1>1. ASSUME NEW j \in Newcomer PROVE (Waiting(j) /\ Transferring(j) /\ Carrying(j))'
  <2>1. j \in Server /\ Waiting(j) /\ Transferring(j) /\ Carrying(j)
    BY DEF CallInv, Newcomer
  <2>2. CASE j = s
    <3>1. life'[j] = "crashed" /\ transit'[j] = {}
      BY <2>1, <2>2 DEF Halt, TypeInv, TypeOK
    <3>2. QED
      BY <3>1 DEF Waiting, Transferring, Carrying
  <2>3. CASE j # s
    <3>1. /\ life'[j] = life[j] /\ transit'[j] = transit[j]
          /\ call'[j] = call[j] /\ joinPC'[j] = joinPC[j]
      BY <2>1, <2>3 DEF Halt, TypeInv, TypeOK
    <3>2. QED
      BY <2>1, <3>1 DEF Waiting, Transferring, Carrying
  <2>4. QED
    BY <2>2, <2>3
<1>2. QED
  BY <1>1 DEF CallInv

(* What a step of newcomer j does to j, by the stage it is in.             *)
LEMMA CallOfJoin ==
  ASSUME TypeInv, CallInv, NEW j \in Newcomer, Join(j),
         ~ (FetchPanics(j) \/ TransferScan(j))
  PROVE  (Waiting(j) /\ Transferring(j) /\ Carrying(j))'
<1>0. /\ Waiting(j) /\ Transferring(j) /\ Carrying(j)
      /\ j \in Server /\ DOMAIN life = Server
      /\ DOMAIN joinPC = Newcomer /\ DOMAIN call = Newcomer /\ DOMAIN transit = Newcomer
  BY DEF CallInv, TypeInv, TypeOK, Newcomer
<1> USE DEF Waiting, Transferring, Carrying
<1>1. CASE CallBuddy(j)
  BY <1>0, <1>1 DEF CallBuddy, Calls, Joining
<1>2. CASE CallNode(j)
  BY <1>0, <1>2 DEF CallNode, Calls, Telling, InLoop, Joining
<1>3. CASE SkipNode(j)
  BY <1>0, <1>3 DEF SkipNode
<1>4. CASE EveryoneTold(j)
  BY <1>0, <1>4 DEF EveryoneTold, InLoop
<1>5. CASE RegisterAppend(j)
  BY <1>0, <1>5 DEF RegisterAppend, Handling
<1>6. CASE RegisterSort(j)
  BY <1>0, <1>6 DEF RegisterSort, Handling
<1>7. CASE RegisterReply(j)
  BY <1>0, <1>7 DEF RegisterReply, Handling
<1>8. CASE BuddyLost(j) \/ NodeLost(j)
  BY <1>0, <1>8 DEF BuddyLost, NodeLost, CallLost, Joining
<1>9. CASE TransferLost(j)
  BY <1>0, <1>9 DEF TransferLost, CallLost
<1>10. CASE CallTransfer(j)
  BY <1>0, <1>10 DEF CallTransfer, Calls, Fetching, Joining
<1>11. CASE NobodyToFetchFrom(j)
  BY <1>0, <1>11 DEF NobodyToFetchFrom, Fetching
<1>12. CASE TransferIndex(j)
  <2>1. call[j] = "index" /\ call'[j] \in {"adopt", "scan", "scanAtFront"}
    BY <1>0, <1>12 DEF TransferIndex, Handling
  <2>2. UNCHANGED <<life, joinPC, transit>>
    BY <1>12 DEF TransferIndex
  <2>3. QED
    BY <1>0, <2>1, <2>2
<1>13. CASE Adopt(j)
  BY <1>0, <1>13 DEF Adopt
<1>14. CASE Open(j)
  BY <1>0, <1>14 DEF Open, Joining
<1>15. QED
  BY <1>1, <1>2, <1>3, <1>4, <1>5, <1>6, <1>7, <1>8, <1>9, <1>10, <1>11,
     <1>12, <1>13, <1>14 DEF Join
LEMMA CallOfScan ==
  ASSUME TypeInv, CallInv, NEW j \in Newcomer, TransferScan(j), ~ Halt(peer[j])
  PROVE  (Waiting(j) /\ Transferring(j) /\ Carrying(j))'
<1>1. /\ Waiting(j) /\ Transferring(j) /\ Carrying(j)
      /\ DOMAIN call = Newcomer /\ DOMAIN transit = Newcomer
  BY DEF CallInv, TypeInv, TypeOK
<1>2. PICK given \in SUBSET stored[peer[j]] : GiveKeys(peer[j], j, given)
  <2>1. GiveKeys(peer[j], j, {k \in stored[peer[j]] :
                   Moves(nodeList[peer[j]], call[j] = "scanAtFront", j, k)})
    BY DEF TransferScan
  <2>2. QED
    BY <2>1
<1>3. /\ call[j] \in {"scan", "scanAtFront"}
      /\ call' = [call EXCEPT ![j] = IF Joining(j) THEN "adopt" ELSE "none"]
      /\ UNCHANGED <<life, joinPC>>
  BY DEF TransferScan, Handling
<1>4. transit' = [transit EXCEPT ![j] = IF Joining(j) THEN given ELSE {}]
  BY <1>2 DEF GiveKeys
<1>5. CASE Joining(j)
  <2>1. call'[j] = "adopt" /\ life[j] = "starting"
    BY <1>1, <1>3, <1>5 DEF Joining
  <2>2. QED
    BY <1>1, <1>3, <2>1 DEF Waiting, Transferring, Carrying
<1>6. CASE ~ Joining(j)
  <2>1. call'[j] = "none" /\ transit'[j] = {}
    BY <1>1, <1>3, <1>4, <1>6
  <2>2. QED
    BY <2>1 DEF Waiting, Transferring, Carrying
<1>7. QED
  BY <1>5, <1>6

(* Nobody else's join is touched.                                          *)
LEMMA OtherCalls ==
  ASSUME TypeInv, CallInv, NEW j \in Newcomer, NEW i \in Newcomer, i # j,
         Start(j) \/ Join(j), ~ Halt(j), ~ Halt(peer[j])
  PROVE  (Waiting(i) /\ Transferring(i) /\ Carrying(i))'
<1>1. /\ i \in Server /\ j \in Server
      /\ Waiting(i) /\ Transferring(i) /\ Carrying(i)
      /\ DOMAIN life = Server /\ DOMAIN call = Newcomer
      /\ DOMAIN joinPC = Newcomer /\ DOMAIN transit = Newcomer
  BY DEF CallInv, TypeInv, TypeOK, Newcomer
<1>2. UNCHANGED joinPC \/ \E v : joinPC' = [joinPC EXCEPT ![j] = v]
  BY DEF Start, Join, CallBuddy, CallNode, SkipNode, EveryoneTold, RegisterAppend,
         RegisterSort, RegisterReply, BuddyLost, NodeLost, TransferLost, CallTransfer,
         NobodyToFetchFrom, FetchPanics, TransferIndex, TransferScan, Adopt, Open
<1>3. UNCHANGED call \/ \E v : call' = [call EXCEPT ![j] = v]
  BY DEF Start, Join, CallBuddy, CallNode, SkipNode, EveryoneTold, RegisterAppend,
         RegisterSort, RegisterReply, BuddyLost, NodeLost, TransferLost, CallTransfer,
         NobodyToFetchFrom, FetchPanics, TransferIndex, TransferScan, Adopt, Open,
         Calls, CallLost
<1>4. UNCHANGED life \/ \E v : life' = [life EXCEPT ![j] = v]
  BY DEF Start, Join, CallBuddy, CallNode, SkipNode, EveryoneTold, RegisterAppend,
         RegisterSort, RegisterReply, BuddyLost, NodeLost, TransferLost, CallTransfer,
         NobodyToFetchFrom, FetchPanics, TransferIndex, TransferScan, Adopt, Open
<1>5. UNCHANGED transit \/ \E v : transit' = [transit EXCEPT ![j] = v]
  BY DEF Start, Join, CallBuddy, CallNode, SkipNode, EveryoneTold, RegisterAppend,
         RegisterSort, RegisterReply, BuddyLost, NodeLost, TransferLost, CallTransfer,
         NobodyToFetchFrom, FetchPanics, TransferIndex, TransferScan, Adopt, Open,
         GiveKeys
<1>6. /\ joinPC'[i] = joinPC[i] /\ call'[i] = call[i]
      /\ life'[i] = life[i] /\ transit'[i] = transit[i]
  BY <1>1, <1>2, <1>3, <1>4, <1>5
<1>7. QED
  BY <1>1, <1>6 DEF Waiting, Transferring, Carrying

LEMMA CallStep == TypeInv /\ CallInv /\ [Next]_vars => CallInv'
<1> SUFFICES ASSUME TypeInv, CallInv, [Next]_vars PROVE CallInv'
  OBVIOUS
<1>0. /\ Newcomer \subseteq Server /\ \A j \in Newcomer : peer[j] \in Server
      /\ DOMAIN life = Server /\ DOMAIN joinPC = Newcomer
      /\ \A j \in Newcomer : Waiting(j) /\ Transferring(j) /\ Carrying(j)
  BY DEF CallInv, TypeInv, TypeOK, Newcomer
<1>1. ASSUME NEW j \in Newcomer, Start(j) \/ Join(j) PROVE CallInv'
  <2>1. CASE Halt(j) \/ Halt(peer[j])
    BY <1>0, <2>1, CallHalt
  <2>2. CASE ~ Halt(j) /\ ~ Halt(peer[j])
    <3>1. CASE Start(j)
      <4>1. (Waiting(j) /\ Transferring(j) /\ Carrying(j))'
        BY <1>0, <3>1 DEF Start, Waiting, Transferring, Carrying
      <4>2. QED
        BY <2>2, <3>1, <4>1, OtherCalls DEF CallInv
    <3>2. CASE Join(j)
      <4>1. (Waiting(j) /\ Transferring(j) /\ Carrying(j))'
        <5>1. ~ FetchPanics(j)
          BY <2>2 DEF FetchPanics
        <5>2. QED
          BY <2>2, <3>2, <5>1, CallOfJoin, CallOfScan
      <4>2. QED
        BY <2>2, <3>2, <4>1, OtherCalls DEF CallInv
    <3>3. QED
      BY <1>1, <3>1, <3>2
  <2>3. QED
    BY <2>1, <2>2
<1>2. ASSUME NEW t \in tasks, RunTask(t) PROVE CallInv'
  <2>1. UNCHANGED <<life, call, transit>>
    BY <1>2 DEF RunTask, ClearSkipList, ChooseNodes, DialNode, RecordConnection,
                EndSkipList, CollectBodies, Bury, Resort, joinVars
  <2>2. \A j \in Newcomer : joinPC'[j] = joinPC[j] \/ joinPC'[j] = "fetch"
    BY <1>2 DEF RunTask, ClearSkipList, ChooseNodes, DialNode, RecordConnection,
                EndSkipList, CollectBodies, Bury, Resort, joinVars
  <2>3. QED
    BY <1>0, <2>1, <2>2 DEF CallInv, Waiting, Transferring, Carrying
<1>3. ASSUME NEW s \in Server, Crash(s) PROVE CallInv'
  BY <1>3, CallHalt DEF Crash
<1>4. CASE UNCHANGED vars
  BY <1>0, <1>4 DEF vars, CallInv, Waiting, Transferring, Carrying
<1>5. QED
  BY <1>1, <1>2, <1>3, <1>4 DEF Next, Background

LEMMA LossInit == Init => NothingLost
<1> SUFFICES ASSUME Init, NEW k \in Key PROVE HeldBy(k) # {}
  BY DEF NothingLost
<1>1. /\ Founder \subseteq Server /\ Founder # {} /\ Server \subseteq Nat
  BY RingAssumption
<1> DEFINE above == {n \in Founder : k <= n}
<1>2. Founder \in SUBSET Nat /\ above \in SUBSET Nat
  BY <1>1
<1>3. Min(Founder) \in Founder
  BY <1>1, <1>2, MinOfNat
<1>4. above # {} => Min(above) \in above
  BY <1>2, MinOfNat
<1>5. Successor(Founder, k) \in Founder
  BY <1>3, <1>4 DEF Successor
<1>6. k \in stored[Successor(Founder, k)]
  BY <1>1, <1>5 DEF Init
<1>7. QED
  BY <1>1, <1>5, <1>6 DEF HeldBy

LEMMA LossStep ==
  TypeInv /\ CallInv /\ NothingLost /\ KeyStep /\ Crashed \subseteq Crashed'
    => NothingLost'
<1> SUFFICES ASSUME TypeInv, CallInv, NothingLost, KeyStep,
                    Crashed \subseteq Crashed', Undisturbed',
                    NEW k \in Key
             PROVE  (HeldBy(k) \cup MovingTo(k))' # {}
  BY DEF NothingLost
<1>0. /\ stored \in [Server -> SUBSET Key] /\ transit \in [Newcomer -> SUBSET Key]
      /\ DOMAIN life = Server
      /\ Newcomer \subseteq Server /\ \A j \in Newcomer : peer[j] \in Server
  BY DEF TypeInv, TypeOK, Newcomer
<1>1. Crashed = {} /\ Crashed' = {}
  BY DEF Undisturbed
<1>2. (\E s \in Server : k \in stored[s]) \/ (\E j \in Newcomer : k \in transit[j])
  BY <1>1 DEF NothingLost, Undisturbed, HeldBy, MovingTo
<1> DEFINE StillThere == \/ \E s \in Server : k \in stored'[s]
                         \/ \E j \in Newcomer : k \in transit'[j]
<1>3. StillThere
  <2>1. CASE UNCHANGED <<stored, transit>>
    BY <1>2, <2>1
  <2>2. ASSUME NEW j \in Newcomer, NEW p \in Server, Gives(p, j)
        PROVE  StillThere
    <3>1. PICK given \in SUBSET stored[p] : GiveKeys(p, j, given)
      BY <2>2 DEF Gives
    <3>2. life[j] # "crashed"
      BY <1>0, <1>1 DEF Crashed
    <3>3. Joining(j) /\ transit[j] = {}
      BY <1>0, <2>2, <3>2 DEF Gives, CallInv, Waiting, Carrying, Joining
    <3>4. /\ stored' = [stored EXCEPT ![p] = @ \ given]
          /\ transit' = [transit EXCEPT ![j] = given]
      BY <3>1, <3>3 DEF GiveKeys
    <3>5. QED
      BY <1>0, <1>2, <3>3, <3>4
  <2>3. ASSUME NEW j \in Newcomer, Takes(j) PROVE StillThere
    BY <1>0, <1>2, <2>3 DEF Takes
  <2>4. ASSUME NEW j \in Newcomer, Forgets(j) PROVE FALSE
    BY <1>0, <1>1, <2>4 DEF Forgets, Crashed
  <2>5. ASSUME NEW s \in Server, Dies(s) PROVE FALSE
    BY <1>0, <1>1, <2>5 DEF Dies, Crashed
  <2>6. QED
    BY <2>1, <2>2, <2>3, <2>4, <2>5 DEF KeyStep
<1>4. QED
  BY <1>3 DEF HeldBy, MovingTo

(* While no server dies, no key is lost, although TransferData deletes     *)
(* what it gives before anybody else has it and iNewStorageserver ignores  *)
(* the error of the call.                                                  *)
THEOREM KeysSurvive == Spec => []NothingLost
<1> DEFINE Inv == TypeInv /\ CallInv /\ NothingLost
<1>1. Init => Inv
  BY TypeInit, CallInit, LossInit
<1>2. Inv /\ [Next]_vars => Inv'
  BY TypeStep, CallStep, KeySteps, CrashIsFinal, LossStep
<1>3. Spec => []Inv
  BY <1>1, <1>2, PTL DEF Spec
<1>4. QED
  BY <1>3, PTL

-----------------------------------------------------------------------------
(* Why no dead node is forgotten: whoever marks one belongs to a           *)
(* constructor that will still spawn iCalculateSkipList, or is a goroutine *)
(* that comes to collectBodies, which does not end before it finds         *)
(* deadNodeList empty.                                                     *)
Collecting(s) == life[s] = "starting" \/ \E t \in tasks : t.at = s

CollectorDue == \A s \in Server : deadNodeList[s] # << >> => Collecting(s)

(* All these proofs need of the types: every server has a state and a list *)
(* of the dead, every goroutine a server.                                  *)
Places == /\ DOMAIN life = Server /\ DOMAIN deadNodeList = Server
          /\ \A t \in tasks : "at" \in DOMAIN t

LEMMA TypeHasPlaces == TypeInv => Places
  BY DEF TypeInv, TypeOK, Task, Places

(* A goroutine stays at its server.                                        *)
LEMMA TaskStays ==
  ASSUME NEW t, "at" \in DOMAIN t, NEW phase, NEW todo
  PROVE  /\ LET u == [t EXCEPT !.phase = phase]
            IN "at" \in DOMAIN u /\ u.at = t.at
         /\ LET u == [t EXCEPT !.todo = todo]
            IN "at" \in DOMAIN u /\ u.at = t.at
  OBVIOUS

LEMMA NewTaskStays ==
  ASSUME NEW phase, NEW s, NEW by, NEW slot, NEW todo
  PROVE  LET u == TaskIn(phase, s, by, slot, todo)
         IN "at" \in DOMAIN u /\ u.at = s
  BY DEF TaskIn

(* A goroutine goes on as another one of the same server, or ends where no *)
(* dead node is left to collect.                                           *)
LEMMA TaskGoesOnOrEnds ==
  ASSUME Places, NEW t \in tasks, RunTask(t)
  PROVE  \/ \E u : Become(t, u) /\ "at" \in DOMAIN u /\ u.at = t.at
         \/ /\ tasks' = tasks \ {t} /\ UNCHANGED deadNodeList
            /\ deadNodeList[t.at] = << >>
<1>0. "at" \in DOMAIN t
  BY DEF Places
<1>1. CASE ClearSkipList(t)
  <2>1. Become(t, [t EXCEPT !.phase = "choose"])
    BY <1>1 DEF ClearSkipList
  <2>2. QED
    BY <1>0, <2>1, TaskStays
<1>2. CASE ChooseNodes(t)
  <2> DEFINE u == [t EXCEPT
                    !.phase = "dial",
                    !.todo = SkipTargets(nodeList[t.at], nodeIndex[t.at], FullMesh),
                    !.everybody = Len(nodeList[t.at]) <= FullMesh]
  <2>1. Become(t, u)
    BY <1>2 DEF ChooseNodes
  <2>2. "at" \in DOMAIN u /\ u.at = t.at
    BY <1>0
  <2> HIDE DEF u
  <2>3. QED
    BY <2>1, <2>2
<1>3. CASE DialNode(t)
  <2>1. \/ Become(t, [t EXCEPT !.todo = Tail(@)])
        \/ Become(t, [t EXCEPT !.phase = "record"])
        \/ Become(t, [t EXCEPT !.phase = "recordNil"])
    BY <1>3 DEF DialNode, AfterRefusal
  <2>2. QED
    BY <1>0, <2>1, TaskStays
<1>4. CASE RecordConnection(t)
  <2> DEFINE u == [t EXCEPT !.phase = "dial", !.todo = Tail(@)]
  <2>1. Become(t, u)
    BY <1>4 DEF RecordConnection
  <2>2. "at" \in DOMAIN u /\ u.at = t.at
    BY <1>0
  <2> HIDE DEF u
  <2>3. QED
    BY <2>1, <2>2
<1>5. CASE EndSkipList(t)
  BY <1>0, <1>5, TaskStays, NewTaskStays DEF EndSkipList
<1>6. CASE CollectBodies(t)
  <2>1. CASE deadNodeList[t.at] = << >>
    BY <1>6, <2>1 DEF CollectBodies
  <2>2. CASE deadNodeList[t.at] # << >>
    <3> DEFINE u == [t EXCEPT !.phase = "bury", !.todo = deadNodeList[t.at]]
    <3>1. Become(t, u)
      BY <1>6, <2>2 DEF CollectBodies
    <3>2. "at" \in DOMAIN u /\ u.at = t.at
      BY <1>0
    <3> HIDE DEF u
    <3>3. QED
      BY <3>1, <3>2
  <2>3. QED
    BY <2>1, <2>2
<1>7. CASE Bury(t)
  <2> DEFINE u == [t EXCEPT
                    !.phase = IF Tail(t.todo) = << >> THEN "resort" ELSE "bury",
                    !.todo = Tail(@)]
  <2>1. Become(t, u)
    BY <1>7 DEF Bury
  <2>2. "at" \in DOMAIN u /\ u.at = t.at
    BY <1>0
  <2> HIDE DEF u
  <2>3. QED
    BY <2>1, <2>2
<1>8. CASE Resort(t)
  BY <1>0, <1>8, TaskStays DEF Resort
<1>9. QED
  BY <1>1, <1>2, <1>3, <1>4, <1>5, <1>6, <1>7, <1>8 DEF RunTask

(* A step of a join keeps the goroutines there are, but for those of a     *)
(* server it ends; it marks a dead node for a constructor only, and ends a *)
(* constructor only by spawning a goroutine.                               *)
LEMMA JoinCollects ==
  ASSUME Places, NEW j \in Newcomer, Join(j)
  PROVE  \/ Halt(j) \/ Halt(peer[j])
         \/ /\ \A t \in tasks : t \in tasks'
            /\ \A t \in tasks' : t \in tasks \/ "at" \in DOMAIN t
            /\ \/ UNCHANGED <<life, deadNodeList>>
               \/ /\ life[j] = "starting" /\ UNCHANGED life
                  /\ \E n : MarkDead(j, n)
               \/ /\ life' = [life EXCEPT ![j] = "serving"]
                  /\ UNCHANGED deadNodeList
                  /\ \E t \in tasks' : t.at = j
<1>1. CASE SkipNode(j) \/ NodeLost(j) \/ NobodyToFetchFrom(j)
  BY <1>1 DEF SkipNode, NodeLost, NobodyToFetchFrom, CallLost, Fetching, Telling,
              InLoop, Joining
<1>2. CASE EveryoneTold(j)
  BY <1>2, NewTaskStays DEF EveryoneTold
<1>3. CASE RegisterReply(j)
  BY <1>3, NewTaskStays DEF RegisterReply, Recalculate
<1>4. CASE Open(j)
  BY <1>4, NewTaskStays DEF Open, Recalculate
<1>5. CASE FetchPanics(j) \/ TransferScan(j)
  BY <1>5 DEF FetchPanics, TransferScan
<1>6. CASE \/ CallBuddy(j) \/ CallNode(j) \/ RegisterAppend(j) \/ RegisterSort(j)
           \/ BuddyLost(j) \/ TransferLost(j) \/ CallTransfer(j)
           \/ TransferIndex(j) \/ Adopt(j)
  BY <1>6 DEF CallBuddy, CallNode, RegisterAppend, RegisterSort, BuddyLost,
              TransferLost, CallTransfer, TransferIndex, Adopt
<1>7. QED
  BY <1>1, <1>2, <1>3, <1>4, <1>5, <1>6 DEF Join

LEMMA HaltPlaces ==
  ASSUME Places, NEW r, Halt(r)
  PROVE  /\ Places'
         /\ r \in Server => deadNodeList'[r] = << >>
         /\ \A s \in Server \ {r} :
              /\ deadNodeList'[s] = deadNodeList[s] /\ life'[s] = life[s]
              /\ Collecting(s) => Collecting(s)'
  BY DEF Halt, Places, Collecting

LEMMA PlacesStep == Places /\ [Next]_vars => Places'
<1> SUFFICES ASSUME Places, [Next]_vars PROVE Places'
  OBVIOUS
<1>1. ASSUME NEW j \in Newcomer, Start(j) PROVE Places'
  BY <1>1 DEF Start, Places
<1>2. ASSUME NEW j \in Newcomer, Join(j) PROVE Places'
  <2>1. CASE Halt(j) \/ Halt(peer[j])
    BY <2>1, HaltPlaces
  <2>2. CASE ~ (Halt(j) \/ Halt(peer[j]))
    BY <1>2, <2>2, JoinCollects DEF Places, MarkDead
  <2>3. QED
    BY <2>1, <2>2
<1>3. ASSUME NEW t \in tasks, RunTask(t) PROVE Places'
  <2>1. UNCHANGED life /\ DOMAIN deadNodeList' = DOMAIN deadNodeList
    BY <1>3 DEF RunTask, ClearSkipList, ChooseNodes, DialNode, RecordConnection,
                EndSkipList, CollectBodies, Bury, Resort, MarkDead
  <2>2. QED
    BY <1>3, <2>1, TaskGoesOnOrEnds DEF Places, Become
<1>4. ASSUME NEW s \in Server, Crash(s) PROVE Places'
  BY <1>4, HaltPlaces DEF Crash
<1>5. CASE UNCHANGED vars
  BY <1>5 DEF vars, Places
<1>6. QED
  BY <1>1, <1>2, <1>3, <1>4, <1>5 DEF Next, Background

(* A step spawns one goroutine at most.                                    *)
LEMMA OneMoreTask == [Next]_vars => \E u : tasks' \subseteq tasks \cup {u}
<1> SUFFICES ASSUME [Next]_vars PROVE \E u : tasks' \subseteq tasks \cup {u}
  OBVIOUS
<1>1. ASSUME NEW s, Halt(s) PROVE tasks' \subseteq tasks
  BY <1>1 DEF Halt
<1>2. ASSUME NEW j \in Newcomer, Start(j) \/ Join(j)
      PROVE  \E u : tasks' \subseteq tasks \cup {u}
  BY <1>1, <1>2
     DEF Start, Join, CallBuddy, CallNode, SkipNode, EveryoneTold, RegisterAppend,
         RegisterSort, RegisterReply, BuddyLost, NodeLost, TransferLost,
         CallTransfer, NobodyToFetchFrom, FetchPanics, TransferIndex,
         TransferScan, Adopt, Open, Recalculate
<1>3. ASSUME NEW t \in tasks, RunTask(t)
      PROVE  \E u : tasks' \subseteq tasks \cup {u}
  BY <1>3 DEF RunTask, ClearSkipList, ChooseNodes, DialNode, RecordConnection,
              EndSkipList, CollectBodies, Bury, Resort, Become
<1>4. ASSUME NEW s \in Server, Crash(s) PROVE tasks' \subseteq tasks
  BY <1>1, <1>4 DEF Crash
<1>5. CASE UNCHANGED vars
  BY <1>5 DEF vars
<1>6. QED
  BY <1>2, <1>3, <1>4, <1>5 DEF Next, Background

(* After a step of the ring a server that has dead nodes to collect has    *)
(* somebody to do it, unless it had them before and nobody then.           *)
LEMMA CollectorStep ==
  ASSUME Places, [Next]_vars, NEW s \in Server, deadNodeList'[s] # << >>
  PROVE  \/ Collecting(s)'
         \/ deadNodeList[s] # << >> /\ ~ Collecting(s) /\ life'[s] = life[s]
<1> DEFINE Goal == \/ Collecting(s)'
                   \/ /\ deadNodeList[s] # << >> /\ ~ Collecting(s)
                      /\ life'[s] = life[s]
<1>1. ASSUME NEW r, Halt(r) PROVE Goal
  BY <1>1, HaltPlaces
<1>2. ASSUME NEW j \in Newcomer, Start(j) PROVE Goal
  BY <1>2 DEF Start, Places, Collecting
<1>3. ASSUME NEW j \in Newcomer, Join(j) PROVE Goal
  <2>1. CASE Halt(j) \/ Halt(peer[j])
    BY <1>1, <2>1
  <2>2. CASE ~ (Halt(j) \/ Halt(peer[j]))
    <3>1. /\ \A t \in tasks : t \in tasks'
          /\ \/ UNCHANGED <<life, deadNodeList>>
             \/ /\ life[j] = "starting" /\ UNCHANGED life
                /\ \E n : MarkDead(j, n)
             \/ /\ life' = [life EXCEPT ![j] = "serving"]
                /\ UNCHANGED deadNodeList
                /\ \E t \in tasks' : t.at = j
      BY <1>3, <2>2, JoinCollects
    <3>2. CASE s = j
      BY <3>1, <3>2 DEF Places, Collecting
    <3>3. CASE s # j
      BY <3>1, <3>3 DEF Places, Collecting, MarkDead
    <3>4. QED
      BY <3>2, <3>3
  <2>3. QED
    BY <2>1, <2>2
<1>4. ASSUME NEW t \in tasks, RunTask(t) PROVE Goal
  <2>1. /\ UNCHANGED life
        /\ \/ UNCHANGED deadNodeList
           \/ \E v : deadNodeList' = [deadNodeList EXCEPT ![t.at] = v]
    BY <1>4 DEF RunTask, ClearSkipList, ChooseNodes, DialNode, RecordConnection,
                EndSkipList, CollectBodies, Bury, Resort, MarkDead
  <2>2. CASE s # t.at
    <3>1. deadNodeList'[s] = deadNodeList[s]
      BY <2>1, <2>2 DEF Places
    <3>2. Collecting(s) => Collecting(s)'
      BY <1>4, <2>1, <2>2, TaskGoesOnOrEnds DEF Become, Collecting
    <3>3. QED
      BY <2>1, <3>1, <3>2
  <2>3. CASE s = t.at
    BY <1>4, <2>3, TaskGoesOnOrEnds DEF Become, Collecting
  <2>4. QED
    BY <2>2, <2>3
<1>5. ASSUME NEW r \in Server, Crash(r) PROVE Goal
  BY <1>1, <1>5 DEF Crash
<1>6. CASE UNCHANGED vars
  BY <1>6 DEF vars, Collecting
<1>7. QED
  BY <1>2, <1>3, <1>4, <1>5, <1>6 DEF Next, Background

(* A node that a constructor or a goroutine has marked dead, at whatever   *)
(* moment, is collected before the last goroutine of that server ends.     *)
THEOREM DeadAreCollected == Spec => []BodiesCollected
<1> DEFINE Inv == TypeInv /\ CollectorDue
<1>1. Init => Inv
  BY TypeInit DEF Init, CollectorDue
<1>2. Inv /\ [Next]_vars => Inv'
  <2> SUFFICES ASSUME Inv, [Next]_vars PROVE CollectorDue'
    BY TypeStep
  <2>1. QED
    BY TypeHasPlaces, CollectorStep DEF CollectorDue
<1>3. Inv => BodiesCollected
  BY DEF CollectorDue, Collecting, BodiesCollected, Quiet, Settled
<1>4. QED
  BY <1>1, <1>2, <1>3, PTL DEF Spec

-----------------------------------------------------------------------------
(* A nil client comes from a dial that was refused: the goroutine that is  *)
(* about to record one has the node that refused it at the head of its     *)
(* list, and that node stays dead.                                         *)
RefusalNoted ==
  \A t \in tasks : t.phase = "recordNil" =>
                     t.todo # << >> /\ Head(t.todo) \in Crashed
NilInv == RefusalNoted /\ NilOnlyForDead

(* What leaves the connections alone or clears some, and spawns nobody who *)
(* is about to record a nil client, preserves this.                        *)
LEMMA NilKept ==
  ASSUME NilInv, Crashed \subseteq Crashed',
         \A s, n \in Server : connMap'[s][n] = "nil" => connMap[s][n] = "nil",
         \A u \in tasks' : u \in tasks \/ u.phase # "recordNil"
  PROVE  NilInv'
  BY DEF NilInv, RefusalNoted, NilOnlyForDead

LEMMA NilTask ==
  ASSUME TypeInv, NilInv, Crashed \subseteq Crashed', NEW t \in tasks, RunTask(t)
  PROVE  NilInv'
<1>0. /\ t \in Task /\ t.at \in Server /\ t.todo \in Seq(Server)
      /\ connMap \in [Server -> [Server -> {"none", "nil", "client"}]]
  BY DEF TypeInv, TypeOK, Task
<1>1. ASSUME UNCHANGED connMap, NEW u, Become(t, u), u.phase # "recordNil"
      PROVE  NilInv'
  BY <1>1, NilKept DEF Become
<1>2. CASE ClearSkipList(t)
  <2>1. [t EXCEPT !.phase = "choose"].phase # "recordNil"
    BY <1>0 DEF Task
  <2>2. \A u \in tasks' : u \in tasks \/ u.phase # "recordNil"
    BY <1>2, <2>1 DEF ClearSkipList, Become
  <2>3. \A s, n \in Server : connMap'[s][n] = "nil" => connMap[s][n] = "nil"
    BY <1>0, <1>2 DEF ClearSkipList, NoConnections
  <2>4. QED
    BY <2>2, <2>3, NilKept
<1>3. CASE ChooseNodes(t)
  <2> DEFINE u == [t EXCEPT
                    !.phase = "dial",
                    !.todo = SkipTargets(nodeList[t.at], nodeIndex[t.at], FullMesh),
                    !.everybody = Len(nodeList[t.at]) <= FullMesh]
  <2>1. Become(t, u) /\ UNCHANGED connMap
    BY <1>3 DEF ChooseNodes
  <2>2. u.phase # "recordNil"
    BY <1>0 DEF Task
  <2> HIDE DEF u
  <2>3. QED
    BY <1>1, <2>1, <2>2
<1>4. CASE DialNode(t)
  <2> DEFINE node == Head(t.todo)
             u == [t EXCEPT !.phase = "recordNil"]
  <2>1. UNCHANGED connMap /\ node \in Server /\ t.todo # << >>
    BY <1>0, <1>4 DEF DialNode, Dialling
  <2>2. /\ [t EXCEPT !.phase = "record"].phase # "recordNil"
        /\ t.phase # "recordNil" => [t EXCEPT !.todo = Tail(@)].phase # "recordNil"
    BY <1>0 DEF Task
  <2>3. t.phase # "recordNil"
    BY <1>4 DEF DialNode, Dialling
  <2>4. CASE Become(t, [t EXCEPT !.phase = "record"])
    BY <1>1, <2>1, <2>2, <2>4
  <2>5. CASE Become(t, [t EXCEPT !.todo = Tail(@)])
    BY <1>1, <2>1, <2>2, <2>3, <2>5
  <2>6. CASE Refuses(node) /\ Become(t, u)
    <3>1. u.todo = t.todo
      BY <1>0 DEF Task
    <3> HIDE DEF u
    <3>2. node \in Crashed'
      BY <2>1, <2>6 DEF Refuses, Crashed
    <3>3. RefusalNoted'
      BY <2>1, <2>6, <3>1, <3>2 DEF RefusalNoted, NilInv, Become
    <3>4. QED
      BY <2>1, <3>3 DEF NilInv, NilOnlyForDead
  <2>7. QED
    BY <1>4, <2>4, <2>5, <2>6 DEF DialNode, AfterRefusal
<1>5. CASE RecordConnection(t)
  <2> DEFINE node == Head(t.todo)
             u == [t EXCEPT !.phase = "dial", !.todo = Tail(@)]
  <2>1. /\ Become(t, u)
        /\ connMap' = [connMap EXCEPT ![t.at][node] =
                         IF t.phase = "record" THEN "client" ELSE "nil"]
        /\ t.phase = "record" \/ t.phase = "recordNil"
    BY <1>5 DEF RecordConnection
  <2>2. u.phase # "recordNil" /\ node \in Server
    BY <1>0, <1>5 DEF Task, RecordConnection
  <2> HIDE DEF u
  <2>3. RefusalNoted'
    BY <2>1, <2>2 DEF RefusalNoted, NilInv, Become
  <2>4. t.phase = "recordNil" => node \in Crashed
    BY DEF NilInv, RefusalNoted
  <2>5. ASSUME NEW s \in Server, NEW n \in Server, connMap'[s][n] = "nil"
        PROVE  n \in Crashed'
    <3>1. connMap[s][n] = "nil" \/ (n = node /\ t.phase = "recordNil")
      BY <1>0, <2>1, <2>2, <2>5
    <3>2. QED
      BY <2>4, <3>1 DEF NilInv, NilOnlyForDead
  <2>6. QED
    BY <2>3, <2>5 DEF NilInv, NilOnlyForDead
<1>6. CASE EndSkipList(t)
  <2>1. /\ UNCHANGED connMap
        /\ \/ Become(t, TaskIn("collect", t.at, t.by, CleanupSlot, << >>))
           \/ Become(t, [t EXCEPT !.phase = "collect"])
    BY <1>6 DEF EndSkipList
  <2>2. /\ TaskIn("collect", t.at, t.by, CleanupSlot, << >>).phase # "recordNil"
        /\ [t EXCEPT !.phase = "collect"].phase # "recordNil"
    BY <1>0 DEF Task, TaskIn
  <2>3. QED
    BY <1>1, <2>1, <2>2
<1>7. CASE CollectBodies(t)
  <2> DEFINE u == [t EXCEPT !.phase = "bury", !.todo = deadNodeList[t.at]]
  <2>1. UNCHANGED connMap /\ (tasks' = tasks \ {t} \/ Become(t, u))
    BY <1>7 DEF CollectBodies
  <2>2. u.phase # "recordNil"
    BY <1>0 DEF Task
  <2> HIDE DEF u
  <2>3. QED
    BY <1>1, <2>1, <2>2, NilKept
<1>8. CASE Bury(t)
  <2> DEFINE u == [t EXCEPT
                    !.phase = IF Tail(t.todo) = << >> THEN "resort" ELSE "bury",
                    !.todo = Tail(@)]
  <2>1. Become(t, u) /\ UNCHANGED connMap
    BY <1>8 DEF Bury
  <2>2. u.phase # "recordNil"
    BY <1>0 DEF Task
  <2> HIDE DEF u
  <2>3. QED
    BY <1>1, <2>1, <2>2
<1>9. CASE Resort(t)
  <2>1. Become(t, [t EXCEPT !.phase = "clear"]) /\ UNCHANGED connMap
    BY <1>9 DEF Resort
  <2>2. [t EXCEPT !.phase = "clear"].phase # "recordNil"
    BY <1>0 DEF Task
  <2>3. QED
    BY <1>1, <2>1, <2>2
<1>10. QED
  BY <1>2, <1>3, <1>4, <1>5, <1>6, <1>7, <1>8, <1>9 DEF RunTask

LEMMA NilStep ==
  ASSUME TypeInv, NilInv, [Next]_vars
  PROVE  NilInv'
<1>0. /\ connMap \in [Server -> [Server -> {"none", "nil", "client"}]]
      /\ Crashed \subseteq Crashed'
      /\ \A j \in Newcomer : peer[j] \in Server
  BY CrashIsFinal DEF TypeInv, TypeOK
<1>1. ASSUME NEW s, Halt(s) PROVE NilInv'
  <2>1. \A r, n \in Server : connMap'[r][n] = "nil" => connMap[r][n] = "nil"
    BY <1>0, <1>1 DEF Halt, NoConnections
  <2>2. tasks' \subseteq tasks
    BY <1>1 DEF Halt
  <2>3. QED
    BY <1>0, <2>1, <2>2, NilKept
<1>2. ASSUME NEW j \in Newcomer, Start(j) PROVE NilInv'
  BY <1>0, <1>2, NilKept DEF Start
<1>3. ASSUME NEW j \in Newcomer, Join(j) PROVE NilInv'
  <2>1. CASE Halt(j) \/ Halt(peer[j])
    BY <1>1, <2>1
  <2>2. CASE ~ (Halt(j) \/ Halt(peer[j]))
    <3>1. /\ UNCHANGED connMap
          /\ \/ tasks' = tasks
             \/ tasks' = tasks \cup {TaskIn("bury", j, j, MainSlot, deadNodeList[j])}
             \/ \E s, by, slot :
                  tasks' = tasks \cup {TaskIn("clear", s, by, slot, << >>)}
      BY <1>3, <2>2
         DEF Join, CallBuddy, CallNode, SkipNode, EveryoneTold, RegisterAppend,
             RegisterSort, RegisterReply, BuddyLost, NodeLost, TransferLost,
             CallTransfer, NobodyToFetchFrom, FetchPanics, TransferIndex,
             TransferScan, Adopt, Open, Recalculate
    <3>2. \A u \in tasks' : u \in tasks \/ u.phase # "recordNil"
      BY <3>1 DEF TaskIn
    <3>3. QED
      BY <1>0, <3>1, <3>2, NilKept
  <2>3. QED
    BY <2>1, <2>2
<1>4. ASSUME NEW t \in tasks, RunTask(t) PROVE NilInv'
  BY <1>0, <1>4, NilTask
<1>5. ASSUME NEW s \in Server, Crash(s) PROVE NilInv'
  BY <1>1, <1>5 DEF Crash
<1>6. CASE UNCHANGED vars
  BY <1>0, <1>6, NilKept DEF vars
<1>7. QED
  BY <1>2, <1>3, <1>4, <1>5, <1>6 DEF Next, Background

(* Whatever crashes and whoever joins, a skip list holds a nil client only *)
(* for a node that is dead: the branch that dials everybody and does not   *)
(* look whether dialNode succeeded never records one for a live node,      *)
(* although other goroutines of the server clear and refill the same map   *)
(* between the dial and the record.                                        *)
THEOREM NilClientsAreOfTheDead == Spec => []NilOnlyForDead
<1> DEFINE Inv == TypeInv /\ NilInv
<1>1. Init => Inv
  <2> SUFFICES ASSUME Init PROVE NilInv
    BY TypeInit
  <2>1. \A s, n \in Server : connMap[s][n] # "nil"
    BY DEF Init
  <2>2. QED
    BY <2>1 DEF Init, NilInv, RefusalNoted, NilOnlyForDead
<1>2. Inv /\ [Next]_vars => Inv'
  BY TypeStep, NilStep
<1>3. Inv => NilOnlyForDead
  BY DEF NilInv
<1>4. QED
  BY <1>1, <1>2, <1>3, PTL DEF Spec
=============================================================================
