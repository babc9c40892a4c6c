------------------------------ MODULE JoinProofs ------------------------------
(***************************************************************************)
(* The ring at rest after one newcomer has joined it, and nobody has died: *)
(* whatever the founders, their number, the position of the newcomer and   *)
(* the threshold of the skip lists, everybody knows everybody, has the     *)
(* skip list its calculation asks for, and is connected to the next one.   *)
(***************************************************************************)
EXTENDS StorageRingProofs

OneNewcomer == \A i, j \in Newcomer : i = j

-----------------------------------------------------------------------------
(* The invariant.                                                          *)

Roster(list, nodes) ==
  list \in Seq(Server) /\ Increasing(list) /\ Range(list) = nodes

(* All servers, in whatever order.                                         *)
Whole(list) == list \in Seq(Server) /\ Different(list) /\ Range(list) = Server

Knows(s, nodes) ==
  Roster(nodeList[s], nodes) /\ nodeIndex[s] = Reindex(nodeList[s], s, 0)

Idle(s) == \A t \in tasks : t.at # s

(* The newcomer has been appended to the list of s, or its registration    *)
(* there is not over yet.                                                  *)
Enrolling(s) == \E j \in Newcomer : peer[j] = s /\ call[j] = "sort"
Limbo(s) == \/ \E j \in Newcomer : peer[j] = s /\ call[j] \in {"sort", "reply"}
            \/ s \in Newcomer /\ life[s] # "serving"

Calm == /\ \A f \in Founder : life[f] = "serving"
        /\ \A s \in Server : deadNodeList[s] = << >>

(* A founder knows the founders and has nothing to do, or everybody; it is *)
(* out of order only between the append and the sort of RegisterServer.    *)
FounderInv(f) ==
  \/ Knows(f, Founder) /\ Idle(f) /\ ~ Enrolling(f)
  \/ Knows(f, Server)
  \/ Whole(nodeList[f]) /\ Idle(f) /\ Enrolling(f)

(* The founders at the positions of its list that a newcomer has been at   *)
(* have heard of it.                                                       *)
HeardOf(j) ==
  \A i \in 1..Len(nodeList[j]) :
    i < told[j] => nodeList[j][i] = j \/ Knows(nodeList[j][i], Server)

JoinerInv(j) ==
  /\ nodeIndex[j] = 0
  /\ life[j] = "off" <=> joinPC[j] = "off"
  /\ life[j] = "serving" <=> joinPC[j] = "done"
  /\ joinPC[j] = "off" => call[j] = "none" /\ \A f \in Founder : Knows(f, Founder)
  /\ joinPC[j] \in {"off", "register"} => told[j] = 0
  /\ joinPC[j] \notin {"off", "register"} =>
       Roster(nodeList[j], Server) /\ told[j] > 0 /\ HeardOf(j)
  /\ joinPC[j] \notin {"off", "register", "tell"} => told[j] > Len(nodeList[j])
  /\ joinPC[j] # "collect"
  /\ call[j] # "none" => peer[j] \in Founder
  /\ call[j] # "none" /\ joinPC[j] = "tell" => peer[j] = nodeList[j][told[j]]
  /\ call[j] \in {"append", "sort", "reply"} => joinPC[j] \in {"register", "tell"}
  /\ call[j] = "reply" => Knows(peer[j], Server)

Targets(s) == Range(SkipTargets(nodeList[s], nodeIndex[s], FullMesh)) \ {s}

(* A goroutine of a skip list dials what belongs into it.                  *)
TaskInv(t) ==
  /\ t.phase \in {"clear", "choose", "dial", "record", "collect"}
  /\ ~ IsMain(t)
  /\ t.at \in Newcomer => life[t.at] = "serving"
  /\ t.phase \in {"dial", "record"} => Range(t.todo) \subseteq Targets(t.at) \cup {t.at}
  /\ t.phase = "record" => t.todo # << >> /\ Head(t.todo) # t.at

(* What belongs into a skip list is there or about to be put there, and    *)
(* what is there belongs there or is about to be cleared.                  *)
Clearing(s) == \E t \in tasks : t.at = s /\ t.phase = "clear"
Choosing(s) == \E t \in tasks : t.at = s /\ t.phase = "choose"
Dialled(s, n) == \E t \in tasks : /\ t.at = s /\ t.phase \in {"dial", "record"}
                                  /\ n \in Range(t.todo)
SkipInv(s) ==
  /\ \A n \in Server : connMap[s][n] # "nil"
  /\ ~ Limbo(s) => \A n \in Server :
       /\ n \in Targets(s) => \/ connMap[s][n] = "client"
                             \/ Clearing(s) \/ Choosing(s) \/ Dialled(s, n)
       /\ connMap[s][n] = "client" => n \in Targets(s) \/ Clearing(s)

JoinInv ==
  /\ Calm
  /\ \A f \in Founder : FounderInv(f)
  /\ \A j \in Newcomer : JoinerInv(j)
  /\ \A t \in tasks : TaskInv(t)
  /\ \A s \in Server : SkipInv(s)

(* It holds until the first crash.                                         *)
RingInv == TypeInv /\ CallInv /\ (Undisturbed => JoinInv)

-----------------------------------------------------------------------------
(* Lists of servers.                                                       *)

LEMMA RosterIsUnique ==
  ASSUME NEW nodes, NEW list, NEW other, Roster(list, nodes), Roster(other, nodes)
  PROVE  list = other
  BY ListOfNumbers, IncreasingIsUnique, RingAssumption DEF Roster

LEMMA RosterIsWhole ==
  ASSUME NEW list, Roster(list, Server)
  PROVE  Whole(list)
  BY ListOfNumbers, IncreasingIsDifferent, RingAssumption DEF Roster, Whole

LEMMA WholeIsSorted ==
  ASSUME NEW list, Whole(list)
  PROVE  Roster(Sorted(list), Server)
<1>1. list \in Seq(Server) /\ Server \in SUBSET Nat /\ list \in Seq(Nat)
  BY ListOfNumbers, RingAssumption DEF Whole
<1>2. QED
  BY <1>1, SortedType, SortedSorts DEF Whole, Roster, Different

LEMMA RosterStaysSorted ==
  ASSUME NEW list, Roster(list, Server)
  PROVE  Sorted(list) = list
  BY RosterIsWhole, WholeIsSorted, RosterIsUnique

LEMMA AppendRange ==
  ASSUME NEW S, NEW list \in Seq(S), NEW n \in S
  PROVE  Range(Append(list, n)) = Range(list) \cup {n}
<1> DEFINE new == Append(list, n)
<1>1. /\ new \in Seq(S) /\ Len(new) = Len(list) + 1 /\ Len(list) \in Nat
      /\ \A i \in 1..Len(list) : new[i] = list[i]
      /\ new[Len(list) + 1] = n
  OBVIOUS
<1> HIDE DEF new
<1>2. Range(new) \subseteq Range(list) \cup {n}
  <2>1. ASSUME NEW i \in 1..Len(new) PROVE new[i] \in Range(list) \cup {n}
    <3>1. i \in 1..Len(list) \/ i = Len(list) + 1
      BY <1>1
    <3>2. QED
      BY <1>1, <3>1, RangeOfList
  <2>2. QED
    BY <1>1, <2>1, RangeOfList
<1>3. Range(list) \cup {n} \subseteq Range(new)
  <2>1. \A i \in 1..Len(list) : i \in 1..Len(new)
    BY <1>1
  <2>2. Len(list) + 1 \in 1..Len(new)
    BY <1>1
  <2>3. \A m \in Range(list) : m \in Range(new)
    BY <1>1, <2>1, RangeOfList
  <2>4. n \in Range(new)
    BY <1>1, <2>2, RangeOfList
  <2>5. QED
    BY <2>3, <2>4
<1>4. QED
  BY <1>2, <1>3 DEF new

(* RegisterServer adds the newcomer to the list of the founders, ...       *)
LEMMA AddToFounders ==
  ASSUME OneNewcomer, NEW j \in Newcomer, NEW list, Roster(list, Founder)
  PROVE  Whole(Add(list, j))
<1>1. /\ j \in Server /\ j \notin Founder /\ Server = Founder \cup {j}
      /\ list \in Seq(Server) /\ list \in Seq(Nat) /\ j \in Nat
  BY ListOfNumbers, RingAssumption DEF OneNewcomer, Newcomer, Roster
<1>2. Add(list, j) = Append(list, j)
  BY <1>1 DEF Add, Roster
<1>3. Range(Add(list, j)) = Server
  BY <1>1, <1>2, AppendRange DEF Roster
<1>4. Different(Add(list, j))
  BY <1>1, IncreasingIsDifferent, AddKeepsDifferent DEF Roster
<1>5. Add(list, j) \in Seq(Server)
  BY <1>1, AddType
<1>6. QED
  BY <1>3, <1>4, <1>5 DEF Whole

(* ... and leaves a list of everybody as it is.                            *)
LEMMA AddToAll ==
  ASSUME NEW j \in Newcomer, NEW list, Roster(list, Server)
  PROVE  Add(list, j) = list
  BY DEF Add, Roster, Newcomer

LEMMA OverwriteItself ==
  ASSUME NEW list \in Seq(Server)
  PROVE  Overwrite(list, list) = list
<1>1. Overwrite(list, list) = [i \in 1..Len(list) |-> list[i]]
  BY DEF Overwrite
<1>2. QED
  BY <1>1

LEMMA ReindexForgets ==
  ASSUME NEW list, NEW n \in Range(list), NEW old
  PROVE  Reindex(list, n, old) = Reindex(list, n, 0)
  BY DEF Reindex

-----------------------------------------------------------------------------
(* What a step can be as long as nobody dies.                              *)

LEMMA Domains ==
  TypeInv => /\ Newcomer \subseteq Server /\ Founder \subseteq Server
             /\ DOMAIN life = Server /\ DOMAIN nodeList = Server
             /\ DOMAIN nodeIndex = Server /\ DOMAIN deadNodeList = Server
             /\ DOMAIN connMap = Server /\ DOMAIN stored = Server
             /\ DOMAIN joinPC = Newcomer /\ DOMAIN told = Newcomer
             /\ DOMAIN call = Newcomer /\ DOMAIN peer = Newcomer
             /\ DOMAIN transit = Newcomer
             /\ \A j \in Newcomer : peer[j] \in Server
  BY RingAssumption DEF TypeInv, TypeOK, Newcomer

LEMMA NobodyDead ==
  ASSUME Undisturbed, NEW s \in Server
  PROVE  life[s] # "crashed" /\ ~ Refuses(s)
  BY DEF Undisturbed, Crashed, Refuses

LEMMA NobodyHalts ==
  ASSUME TypeInv, Undisturbed', NEW s \in Server
  PROVE  ~ Halt(s)
  BY Domains DEF Undisturbed, Crashed, Halt

(* What a newcomer knows of the call it waits for.                         *)
LEMMA StillJoining ==
  ASSUME TypeInv, CallInv, Undisturbed, NEW j \in Newcomer, call[j] # "none"
  PROVE  /\ Joining(j)
         /\ joinPC[j] \in {"register", "tell", "fetch"}
         /\ call[j] \in {"index", "scan", "scanAtFront", "adopt"} => joinPC[j] = "fetch"
<1>1. j \in Server
  BY DEF Newcomer
<1>2. QED
  BY <1>1, NobodyDead DEF CallInv, Waiting, Transferring, Joining

(* A newcomer that calls somebody calls a founder.                         *)
LEMMA FounderAnswers ==
  ASSUME NEW j \in Newcomer, OneNewcomer, Joining(j), NEW n \in Server, Answers(n)
  PROVE  n \in Founder
  BY DEF OneNewcomer, Newcomer, Joining, Answers

LEMMA JoinSteps ==
  ASSUME RingInv, Undisturbed, Undisturbed', NEW j \in Newcomer, Join(j)
  PROVE  \/ CallBuddy(j) \/ CallNode(j) \/ CallTransfer(j)
         \/ /\ SkipNode(j) /\ nodeList[j][told[j]] = j
            /\ UNCHANGED deadNodeList
         \/ /\ EveryoneTold(j)
            /\ joinPC' = [joinPC EXCEPT ![j] = "fetch"] /\ UNCHANGED tasks
         \/ RegisterAppend(j) \/ RegisterSort(j) \/ RegisterReply(j)
         \/ TransferIndex(j)
         \/ /\ TransferScan(j)
            /\ call' = [call EXCEPT ![j] = "adopt"]
            /\ UNCHANGED <<life, nodeList, nodeIndex, deadNodeList, connMap,
                           tasks, joinPC, told, peer>>
            /\ GiveKeys(peer[j], j, {k \in stored[peer[j]] :
                 Moves(nodeList[peer[j]], call[j] = "scanAtFront", j, k)})
         \/ Adopt(j) \/ Open(j)
<1>0. /\ TypeInv /\ CallInv /\ Calm /\ j \in Server /\ peer[j] \in Server
      /\ ~ Refuses(peer[j]) /\ life[peer[j]] # "crashed"
      /\ ~ Halt(j) /\ ~ Halt(peer[j])
  BY Domains, NobodyDead, NobodyHalts DEF RingInv, JoinInv
<1>1. CASE SkipNode(j)
  <2>1. nodeList[j][told[j]] \in Server
    BY <1>0, <1>1, NodeToTell DEF SkipNode
  <2>2. QED
    BY <1>1, <2>1, NobodyDead DEF SkipNode
<1>2. CASE EveryoneTold(j)
  BY <1>0, <1>2 DEF EveryoneTold, Calm
<1>3. CASE BuddyLost(j) \/ NodeLost(j) \/ TransferLost(j)
  BY <1>0, <1>3 DEF BuddyLost, NodeLost, TransferLost, CallLost
<1>4. CASE NobodyToFetchFrom(j)
  <2>1. nodeList[j][FetchFrom(j)] \in Server
    BY <1>0, <1>4, NodeToFetchFrom DEF NobodyToFetchFrom
  <2>2. QED
    BY <1>4, <2>1, NobodyDead DEF NobodyToFetchFrom
<1>5. CASE FetchPanics(j)
  BY <1>0, <1>5 DEF FetchPanics
<1>6. CASE TransferScan(j)
  <2>1. call[j] # "none"
    BY <1>6 DEF TransferScan, Handling
  <2>2. Joining(j)
    BY <1>0, <2>1, StillJoining
  <2>3. QED
    BY <1>0, <1>6, <2>2 DEF TransferScan
<1>7. QED
  BY <1>1, <1>2, <1>3, <1>4, <1>5, <1>6 DEF Join

(* A goroutine finds nobody dead to collect.                               *)
LEMMA TaskSteps ==
  ASSUME RingInv, Undisturbed, NEW t \in tasks, RunTask(t)
  PROVE  /\ \/ ClearSkipList(t) \/ ChooseNodes(t) \/ DialNode(t) \/ RecordConnection(t)
            \/ EndSkipList(t) /\ UNCHANGED joinPC
            \/ tasks' = tasks \ {t} /\ UNCHANGED connMap /\ t.phase = "collect"
         /\ UNCHANGED <<life, nodeList, nodeIndex, deadNodeList, stored, joinVars>>
<1>0. t \in Task /\ t.at \in Server /\ TypeInv /\ Calm /\ TaskInv(t)
  BY DEF RingInv, JoinInv, TypeInv, TypeOK, Task
<1>1. CASE ClearSkipList(t) \/ ChooseNodes(t) \/ RecordConnection(t)
  BY <1>1 DEF ClearSkipList, ChooseNodes, RecordConnection, ringVars
<1>2. CASE DialNode(t)
  <2>1. Head(t.todo) \in Server
    BY <1>0, <1>2 DEF DialNode, Dialling, Task
  <2>2. QED
    BY <1>2, <2>1, NobodyDead DEF DialNode, ringVars
<1>3. CASE EndSkipList(t)
  <2>1. joinPC' = [i \in Newcomer |-> joinPC[i]]
    BY <1>0, <1>3 DEF EndSkipList, TaskInv
  <2>2. UNCHANGED joinPC
    BY <1>0, <2>1, Domains DEF TypeInv, TypeOK
  <2>3. QED
    BY <1>3, <2>2 DEF EndSkipList, ringVars, joinVars
<1>4. CASE CollectBodies(t)
  BY <1>0, <1>4 DEF CollectBodies, Calm, ringVars
<1>5. CASE Bury(t) \/ Resort(t)
  BY <1>0, <1>5 DEF Bury, Resort, TaskInv
<1>6. QED
  BY <1>1, <1>2, <1>3, <1>4, <1>5 DEF RunTask

(* Every founder has heard of a newcomer that has told everybody.          *)
LEMMA EverybodyHasHeard ==
  ASSUME RingInv, Undisturbed, NEW j \in Newcomer,
         joinPC[j] \notin {"off", "register", "tell"}, NEW f \in Founder
  PROVE  Knows(f, Server)
<1>1. /\ Roster(nodeList[j], Server) /\ told[j] > Len(nodeList[j]) /\ HeardOf(j)
      /\ told[j] \in Nat
  BY DEF RingInv, JoinInv, JoinerInv, TypeInv, TypeOK
<1>2. f \in Range(nodeList[j]) /\ f # j
  BY <1>1, RingAssumption DEF Roster, Newcomer
<1>3. PICK i \in 1..Len(nodeList[j]) : f = nodeList[j][i]
  BY <1>1, <1>2, RangeOfList DEF Roster
<1>4. i < told[j]
  BY <1>1 DEF Roster
<1>5. QED
  BY <1>1, <1>2, <1>3, <1>4 DEF HeardOf

(* A list of everybody is final: nothing is added to it and sorting it     *)
(* again changes nothing.                                                  *)
LEMMA KnownStays ==
  ASSUME RingInv, Undisturbed, Undisturbed', [Next]_vars,
         NEW f \in Founder, Knows(f, Server)
  PROVE  nodeList'[f] = nodeList[f] /\ nodeIndex'[f] = nodeIndex[f]
<1> DEFINE Stays == nodeList'[f] = nodeList[f] /\ nodeIndex'[f] = nodeIndex[f]
<1>0. /\ TypeInv /\ f \in Server /\ f \notin Newcomer
      /\ DOMAIN nodeList = Server /\ DOMAIN nodeIndex = Server
      /\ Newcomer \subseteq Server
  BY RingAssumption, Domains DEF RingInv, Newcomer
<1>1. /\ Roster(nodeList[f], Server) /\ f \in Range(nodeList[f])
      /\ nodeIndex[f] = Reindex(nodeList[f], f, 0)
  BY <1>0 DEF Knows, Roster
<1>2. /\ Sorted(nodeList[f]) = nodeList[f]
      /\ \A j \in Newcomer : Add(nodeList[f], j) = nodeList[f]
      /\ Reindex(nodeList[f], f, nodeIndex[f]) = nodeIndex[f]
  BY <1>1, RosterStaysSorted, AddToAll, ReindexForgets
<1>3. ASSUME NEW j \in Newcomer, Start(j) PROVE Stays
  BY <1>0, <1>3 DEF Start
<1>4. ASSUME NEW j \in Newcomer, Join(j) PROVE Stays
  <2>1. CASE RegisterAppend(j)
    BY <1>0, <1>2, <2>1 DEF RegisterAppend
  <2>2. CASE RegisterSort(j)
    BY <1>0, <1>2, <2>2 DEF RegisterSort, SortList
  <2>3. CASE RegisterReply(j)
    BY <1>0, <2>3 DEF RegisterReply
  <2>4. CASE TransferIndex(j)
    BY <1>0, <1>2, <2>4 DEF TransferIndex
  <2>5. CASE ~ (RegisterAppend(j) \/ RegisterSort(j) \/ RegisterReply(j)
                \/ TransferIndex(j))
    <3>1. UNCHANGED <<nodeList, nodeIndex>>
      BY <1>4, <2>5, JoinSteps
         DEF CallBuddy, CallNode, CallTransfer, SkipNode, EveryoneTold, Adopt, Open
    <3>2. QED
      BY <3>1
  <2>6. QED
    BY <2>1, <2>2, <2>3, <2>4, <2>5
<1>5. ASSUME NEW t \in tasks, RunTask(t) PROVE Stays
  BY <1>5, TaskSteps
<1>6. ASSUME NEW s \in Server, Crash(s) PROVE Stays
  BY <1>0, <1>6, NobodyHalts DEF Crash
<1>7. CASE UNCHANGED vars
  BY <1>7 DEF vars
<1>8. QED
  BY <1>3, <1>4, <1>5, <1>6, <1>7 DEF Next, Background

LEMMA StillKnows ==
  ASSUME RingInv, Undisturbed, Undisturbed', [Next]_vars,
         NEW f \in Founder, Knows(f, Server)
  PROVE  Knows(f, Server)'
  BY KnownStays DEF Knows

-----------------------------------------------------------------------------
(* The invariant holds of the ring the newcomer meets.                     *)
LEMMA JoinInit == Init => JoinInv
<1> SUFFICES ASSUME Init PROVE JoinInv
  OBVIOUS
<1>0. Newcomer \subseteq Server /\ Founder \subseteq Server /\ Newcomer \cap Founder = {}
  BY RingAssumption DEF Newcomer
<1>1. PICK list \in [1..Cardinality(Founder) -> Founder] :
        /\ Increasing(list) /\ Range(list) = Founder
        /\ nodeList = [s \in Server |-> IF s \in Founder THEN list ELSE << >>]
        /\ nodeIndex = [s \in Server |-> Reindex(list, s, 0)]
        /\ connMap = [s \in Server |->
             [n \in Server |->
                IF /\ s \in Founder /\ n # s
                   /\ n \in Range(SkipTargets(list, Reindex(list, s, 0), FullMesh))
                THEN "client" ELSE "none"]]
  BY DEF Init
<1>2. list \in Seq(Server)
  <2>1. Cardinality(Founder) \in Nat
    BY RingAssumption, FS_Subset, FS_CardinalityType
  <2>2. list \in [1..Cardinality(Founder) -> Server]
    BY <1>0
  <2>3. QED
    BY <2>1, <2>2
<1>3. tasks = {} /\ Calm
  BY <1>0 DEF Init, Calm
<1>4. \A f \in Founder : Knows(f, Founder) /\ FounderInv(f)
  <2>1. \A f \in Founder : Knows(f, Founder)
    BY <1>0, <1>1, <1>2 DEF Knows, Roster
  <2>2. \A f \in Founder : Idle(f) /\ ~ Enrolling(f)
    BY <1>3 DEF Init, Idle, Enrolling
  <2>3. QED
    BY <2>1, <2>2 DEF FounderInv
<1>5. ASSUME NEW j \in Newcomer PROVE JoinerInv(j)
  <2>1. nodeIndex[j] = 0
    <3>1. j \notin Range(list)
      BY <1>0, <1>1
    <3>2. QED
      BY <1>0, <1>1, <3>1 DEF Reindex
  <2>2. life[j] = "off" /\ joinPC[j] = "off" /\ call[j] = "none" /\ told[j] = 0
    BY <1>0 DEF Init
  <2>3. QED
    BY <1>4, <2>1, <2>2 DEF JoinerInv
<1>6. ASSUME NEW s \in Server PROVE SkipInv(s)
  <2>1. \A n \in Server : connMap[s][n] \in {"client", "none"}
    BY <1>1
  <2>2. CASE s \in Founder
    <3>1. Targets(s) = Range(SkipTargets(list, Reindex(list, s, 0), FullMesh)) \ {s}
      BY <1>1, <2>2 DEF Targets
    <3>2. \A n \in Server : connMap[s][n] = "client" <=> n \in Targets(s)
      BY <1>1, <2>2, <3>1
    <3>3. QED
      BY <2>1, <3>2 DEF SkipInv
  <2>3. CASE s \notin Founder
    <3>1. Limbo(s)
      BY <2>3 DEF Init, Limbo, Newcomer
    <3>2. QED
      BY <2>1, <3>1 DEF SkipInv
  <2>4. QED
    BY <2>2, <2>3
<1>7. QED
  BY <1>3, <1>4, <1>5, <1>6 DEF JoinInv

-----------------------------------------------------------------------------
(* A step keeps each part of it.                                           *)

LEMMA CalmStep ==
  ASSUME RingInv, Undisturbed, Undisturbed', [Next]_vars
  PROVE  Calm'
<1>0. /\ Calm /\ TypeInv /\ \A f \in Founder : f \in Server /\ f \notin Newcomer
      /\ DOMAIN life = Server /\ Newcomer \subseteq Server
  BY Domains, RingAssumption DEF RingInv, JoinInv, Newcomer
<1>1. ASSUME NEW j \in Newcomer, Start(j) PROVE Calm'
  BY <1>0, <1>1 DEF Start, Calm
<1>2. ASSUME NEW j \in Newcomer, Join(j) PROVE Calm'
  <2>1. /\ UNCHANGED deadNodeList
        /\ life' = life \/ life' = [life EXCEPT ![j] = "serving"]
    BY <1>2, JoinSteps
       DEF CallBuddy, CallNode, CallTransfer, SkipNode, EveryoneTold, RegisterAppend,
           RegisterSort, RegisterReply, TransferIndex, TransferScan, Adopt, Open
  <2>2. QED
    BY <1>0, <2>1 DEF Calm
<1>3. ASSUME NEW t \in tasks, RunTask(t) PROVE Calm'
  BY <1>0, <1>3, TaskSteps DEF Calm
<1>4. ASSUME NEW s \in Server, Crash(s) PROVE Calm'
  BY <1>0, <1>4, NobodyHalts DEF Crash
<1>5. CASE UNCHANGED vars
  BY <1>0, <1>5 DEF vars, Calm
<1>6. QED
  BY <1>1, <1>2, <1>3, <1>4, <1>5 DEF Next, Background

(* While the newcomer waits between the append and the sort of a           *)
(* registration, nothing else happens to it.                               *)
LEMMA EnrollingEnds ==
  ASSUME RingInv, Undisturbed, Undisturbed', NEW j \in Newcomer,
         Start(j) \/ Join(j), call[j] = "sort"
  PROVE  RegisterSort(j)
<1>1. /\ JoinerInv(j) /\ joinPC[j] \in {"register", "tell"}
      /\ joinPC[j] # "off" /\ life[j] # "off"
  BY DEF RingInv, JoinInv, JoinerInv
<1>2. QED
  BY <1>1, JoinSteps
     DEF Start, CallBuddy, CallNode, CallTransfer, Calls, SkipNode, Telling,
         EveryoneTold, InLoop, RegisterAppend, RegisterReply, TransferIndex,
         TransferScan, Handling, Adopt, Open

(* The sort of RegisterServer makes a list of everybody out of the list    *)
(* the newcomer was appended to.                                           *)
LEMMA SortKnows ==
  ASSUME OneNewcomer, RingInv, Undisturbed, Undisturbed', [Next]_vars,
         NEW j \in Newcomer, RegisterSort(j), NEW f \in Founder, f = peer[j]
  PROVE  Knows(f, Server)'
<1>1. /\ call[j] = "sort" /\ JoinerInv(j)
      /\ DOMAIN nodeList = Server /\ DOMAIN nodeIndex = Server
  BY Domains DEF RegisterSort, Handling, RingInv, JoinInv
<1>2. f \in Server /\ Enrolling(f)
  BY <1>1, RingAssumption DEF Enrolling
<1>3. FounderInv(f)
  BY <1>2 DEF RingInv, JoinInv
<1>4. CASE Knows(f, Server)
  BY <1>4, StillKnows
<1>5. CASE Whole(nodeList[f])
  <2>1. /\ nodeList'[f] = Sorted(nodeList[f])
        /\ nodeIndex'[f] = Reindex(Sorted(nodeList[f]), f, nodeIndex[f])
    BY <1>1, <1>2 DEF RegisterSort, SortList
  <2>2. Roster(Sorted(nodeList[f]), Server)
    BY <1>5, WholeIsSorted
  <2>3. f \in Range(Sorted(nodeList[f]))
    BY <1>2, <2>2 DEF Roster
  <2>4. Reindex(Sorted(nodeList[f]), f, nodeIndex[f]) = Reindex(Sorted(nodeList[f]), f, 0)
    BY <2>3, ReindexForgets
  <2>5. QED
    BY <2>1, <2>2, <2>4 DEF Knows
<1>6. QED
  BY <1>2, <1>3, <1>4, <1>5 DEF FounderInv

LEMMA FounderStep ==
  ASSUME OneNewcomer, RingInv, Undisturbed, Undisturbed', [Next]_vars, NEW f \in Founder
  PROVE  FounderInv(f)'
<1>0. /\ TypeInv /\ CallInv /\ Calm /\ FounderInv(f) /\ f \in Server /\ f \notin Newcomer
      /\ DOMAIN nodeList = Server /\ DOMAIN nodeIndex = Server
      /\ DOMAIN call = Newcomer /\ DOMAIN peer = Newcomer
      /\ Newcomer \subseteq Server
      /\ \A j \in Newcomer : JoinerInv(j)
  BY Domains, RingAssumption DEF RingInv, JoinInv, Newcomer
<1>1. CASE Knows(f, Server)
  BY <1>1, StillKnows DEF FounderInv
<1>2. CASE ~ Knows(f, Server)
  <2>1. /\ Idle(f)
        /\ \/ Knows(f, Founder) /\ ~ Enrolling(f)
           \/ Whole(nodeList[f]) /\ Enrolling(f)
    BY <1>0, <1>2 DEF FounderInv
  <2> DEFINE Same == UNCHANGED <<nodeList, nodeIndex>>
  <2>2. ASSUME nodeList'[f] = nodeList[f], nodeIndex'[f] = nodeIndex[f],
               Idle(f)', Enrolling(f)' <=> Enrolling(f)
        PROVE  FounderInv(f)'
    <3>1. Knows(f, Founder)' <=> Knows(f, Founder)
      BY <2>2 DEF Knows
    <3>2. QED
      BY <2>1, <2>2, <3>1 DEF FounderInv
  <2>3. ASSUME NEW j \in Newcomer, Start(j) PROVE FounderInv(f)'
    <3>1. nodeList'[f] = nodeList[f] /\ nodeIndex'[f] = nodeIndex[f]
      BY <1>0, <2>3 DEF Start
    <3>2. Idle(f)' /\ (Enrolling(f)' <=> Enrolling(f))
      BY <2>1, <2>3 DEF Start, Idle, Enrolling
    <3>3. QED
      BY <2>2, <3>1, <3>2
  <2>4. ASSUME NEW j \in Newcomer, Join(j) PROVE FounderInv(f)'
    <3>0. \A i \in Newcomer : i = j
      BY DEF OneNewcomer
    <3>1. Idle(f)'
      <4>1. CASE RegisterReply(j)
        <5>1. peer[j] # f
          BY <1>0, <1>2, <4>1 DEF RegisterReply, Handling, JoinerInv
        <5>2. QED
          BY <2>1, <4>1, <5>1 DEF RegisterReply, Recalculate, Idle, TaskIn
      <4>2. CASE Open(j)
        BY <1>0, <2>1, <4>2 DEF Open, Recalculate, Idle, TaskIn
      <4>3. CASE ~ RegisterReply(j) /\ ~ Open(j)
        <5>1. UNCHANGED tasks
          BY <2>4, <4>3, JoinSteps
             DEF CallBuddy, CallNode, CallTransfer, SkipNode, RegisterAppend,
                 RegisterSort, TransferIndex, TransferScan, Adopt
        <5>2. QED
          BY <2>1, <5>1 DEF Idle
      <4>4. QED
        BY <4>1, <4>2, <4>3
    <3>2. CASE Enrolling(f)
      <4>1. call[j] = "sort" /\ peer[j] = f
        BY <3>0, <3>2 DEF Enrolling
      <4>2. RegisterSort(j)
        BY <2>4, <4>1, EnrollingEnds
      <4>3. Knows(f, Server)'
        BY <2>4, <4>1, <4>2, SortKnows
      <4>4. QED
        BY <4>3 DEF FounderInv
    <3>3. CASE ~ Enrolling(f)
      <4>1. Knows(f, Founder)
        BY <2>1, <3>3
      <4>2. CASE RegisterAppend(j) /\ peer[j] = f
        <5>1. nodeList'[f] = Add(nodeList[f], j)
          BY <1>0, <4>2 DEF RegisterAppend
        <5>2. Whole(Add(nodeList[f], j))
          BY <4>1, AddToFounders DEF Knows
        <5>3. Enrolling(f)'
          BY <1>0, <4>2 DEF RegisterAppend, Enrolling
        <5>4. QED
          BY <3>1, <5>1, <5>2, <5>3 DEF FounderInv
      <4>3. CASE ~ (RegisterAppend(j) /\ peer[j] = f)
        <5>1. ~ Enrolling(f)'
          <6>1. CASE RegisterAppend(j)
            BY <3>0, <4>3, <6>1 DEF RegisterAppend, Enrolling
          <6>2. CASE ~ RegisterAppend(j)
            <7>1. call' = call \/ call'[j] # "sort"
              BY <1>0, <2>4, <6>2, JoinSteps
                 DEF CallBuddy, CallNode, CallTransfer, Calls, SkipNode, EveryoneTold,
                     RegisterSort, RegisterReply, TransferIndex, TransferScan,
                     Adopt, Open
            <7>2. call' = call => peer' = peer \/ call[j] = "none"
              BY <2>4, <6>2, JoinSteps
                 DEF CallBuddy, CallNode, CallTransfer, Calls, SkipNode, EveryoneTold,
                     RegisterSort, RegisterReply, TransferIndex, TransferScan,
                     Adopt, Open
            <7>3. QED
              BY <3>0, <3>3, <7>1, <7>2 DEF Enrolling
          <6>3. QED
            BY <6>1, <6>2
        <5>2. nodeList'[f] = nodeList[f] /\ nodeIndex'[f] = nodeIndex[f]
          <6>1. CASE RegisterAppend(j)
            BY <1>0, <4>3, <6>1 DEF RegisterAppend
          <6>2. CASE RegisterSort(j)
            <7>1. peer[j] # f
              BY <3>3, <6>2 DEF RegisterSort, Handling, Enrolling
            <7>2. QED
              BY <1>0, <6>2, <7>1 DEF RegisterSort, SortList
          <6>3. CASE RegisterReply(j)
            BY <1>0, <6>3 DEF RegisterReply
          <6>4. CASE TransferIndex(j)
            <7>1. call[j] = "index"
              BY <6>4 DEF TransferIndex, Handling
            <7>2. joinPC[j] = "fetch"
              BY <1>0, <7>1, StillJoining
            <7>3. FALSE
              BY <1>2, <7>2, EverybodyHasHeard
            <7>4. QED
              BY <7>3
          <6>5. CASE ~ (RegisterAppend(j) \/ RegisterSort(j) \/ RegisterReply(j)
                        \/ TransferIndex(j))
            <7>1. UNCHANGED <<nodeList, nodeIndex>>
              BY <2>4, <6>5, JoinSteps
                 DEF CallBuddy, CallNode, CallTransfer, SkipNode, EveryoneTold,
                     Adopt, Open
            <7>2. QED
              BY <7>1
          <6>6. QED
            BY <6>1, <6>2, <6>3, <6>4, <6>5
        <5>3. QED
          BY <2>2, <3>1, <3>3, <5>1, <5>2
      <4>4. QED
        BY <4>2, <4>3
    <3>4. QED
      BY <3>2, <3>3
  <2>5. ASSUME NEW t \in tasks, RunTask(t) PROVE FounderInv(f)'
    <3>1. UNCHANGED <<nodeList, nodeIndex, call, peer>>
      BY <2>5, TaskSteps DEF joinVars
    <3>2. Idle(f)'
      <4>1. \A u \in tasks' : u \in tasks \/ u.at = t.at
        BY <1>0, <2>5, TypeHasPlaces, TaskGoesOnOrEnds DEF Become
      <4>2. QED
        BY <2>1, <4>1 DEF Idle
    <3>3. Enrolling(f)' <=> Enrolling(f)
      BY <3>1 DEF Enrolling
    <3>4. QED
      BY <2>2, <3>1, <3>2, <3>3
  <2>6. ASSUME NEW s \in Server, Crash(s) PROVE FounderInv(f)'
    BY <1>0, <2>6, NobodyHalts DEF Crash
  <2>7. CASE UNCHANGED vars
    BY <2>1, <2>2, <2>7 DEF vars, Idle, Enrolling
  <2>8. QED
    BY <2>3, <2>4, <2>5, <2>6, <2>7 DEF Next, Background
<1>3. QED
  BY <1>1, <1>2

(* Who has heard of the newcomer does not forget it, and the next one has  *)
(* heard of it when the newcomer goes on to the one after.                 *)
LEMMA HeardStays ==
  ASSUME OneNewcomer, RingInv, Undisturbed, Undisturbed', [Next]_vars,
         NEW j \in Newcomer, Roster(nodeList[j], Server), HeardOf(j),
         nodeList'[j] = nodeList[j],
         \/ told'[j] = told[j]
         \/ /\ told'[j] = told[j] + 1
            /\ nodeList[j][told[j]] = j \/ Knows(nodeList[j][told[j]], Server)
  PROVE  HeardOf(j)'
<1> DEFINE list == nodeList[j]
           n == told[j]
<1>1. list \in Seq(Server) /\ n \in Nat /\ Len(list) \in Nat
  BY DEF RingInv, TypeInv, TypeOK, Newcomer
<1>2. \A i \in 1..Len(list) : list[i] \in Server /\ (list[i] = j \/ list[i] \in Founder)
  BY <1>1 DEF OneNewcomer, Newcomer
<1> HIDE DEF list, n
<1>3. \A i \in 1..Len(list) : i < n => list[i] = j \/ Knows(list[i], Server)
  BY DEF HeardOf, list, n
<1>4. ASSUME NEW i \in 1..Len(list), i < told'[j]
      PROVE  list[i] = j \/ Knows(list[i], Server)
  <2>1. CASE i < n
    BY <1>3, <2>1
  <2>2. CASE ~ (i < n)
    <3>1. told'[j] = n + 1 /\ i = n
      BY <1>1, <1>4, <2>2 DEF n
    <3>2. QED
      BY <1>1, <3>1 DEF list, n
  <2>3. QED
    BY <2>1, <2>2
<1>5. ASSUME NEW i \in 1..Len(list), i < told'[j], list[i] # j
      PROVE  Knows(list[i], Server)'
  BY <1>2, <1>4, <1>5, StillKnows DEF Knows, list
<1>6. nodeList'[j] = list
  BY DEF list
<1>7. ASSUME NEW i \in 1..Len(nodeList'[j]), i < told'[j], nodeList'[j][i] # j
      PROVE  Knows(nodeList[j][i], Server)'
  BY <1>5, <1>6, <1>7 DEF Knows, list
<1>8. QED
  BY <1>7 DEF HeardOf

(* The newcomer itself, step by step.                                      *)
LEMMA JoinerOfStart ==
  ASSUME RingInv, Undisturbed, NEW j \in Newcomer, Start(j)
  PROVE  JoinerInv(j)'
<1>1. /\ life'[j] = "starting" /\ joinPC'[j] = "register"
      /\ life[j] = "off"
      /\ UNCHANGED <<nodeIndex, told, call, peer>>
  BY Domains DEF RingInv, Start
<1>2. QED
  BY <1>1 DEF RingInv, JoinInv, JoinerInv

LEMMA JoinerOfJoin ==
  ASSUME OneNewcomer, RingInv, Undisturbed, Undisturbed', [Next]_vars,
         NEW j \in Newcomer, Join(j)
  PROVE  JoinerInv(j)'
<1>0. /\ TypeInv /\ CallInv /\ JoinerInv(j) /\ Calm
      /\ j \in Server /\ j \notin Founder /\ Founder \subseteq Server
      /\ DOMAIN life = Server /\ DOMAIN nodeList = Server /\ DOMAIN nodeIndex = Server
      /\ DOMAIN joinPC = Newcomer /\ DOMAIN told = Newcomer
      /\ DOMAIN call = Newcomer /\ DOMAIN peer = Newcomer
      /\ told[j] \in Nat
  BY Domains, RingAssumption DEF RingInv, JoinInv, Newcomer, TypeInv, TypeOK
<1> USE DEF JoinerInv
<1>1. CASE CallBuddy(j) \/ CallNode(j) \/ CallTransfer(j)
  <2>1. PICK n \in Server : /\ Answers(n) /\ Joining(j) /\ call[j] = "none"
                            /\ peer' = [peer EXCEPT ![j] = n]
                            /\ joinPC[j] = "tell" => n = nodeList[j][told[j]]
    <3>1. CASE CallBuddy(j)
      BY <3>1, RingAssumption DEF CallBuddy, Calls
    <3>2. CASE CallNode(j)
      BY <1>0, <3>2, NodeToTell DEF CallNode, Calls, Telling, InLoop
    <3>3. CASE CallTransfer(j)
      BY <1>0, <3>3, NodeToFetchFrom DEF CallTransfer, Calls, Fetching
    <3>4. QED
      BY <1>1, <3>1, <3>2, <3>3
  <2>2. n \in Founder
    BY <2>1, FounderAnswers
  <2>3. /\ UNCHANGED <<life, nodeList, nodeIndex, joinPC, told>>
        /\ \/ call'[j] = "append" /\ joinPC[j] \in {"register", "tell"}
           \/ call'[j] = "index" /\ joinPC[j] = "fetch"
    BY <1>0, <1>1 DEF CallBuddy, CallNode, CallTransfer, Calls, Telling, InLoop, Fetching
  <2>4. joinPC[j] \notin {"off", "register"} => HeardOf(j)'
    BY <1>0, <2>3, HeardStays
  <2>5. QED
    BY <1>0, <2>1, <2>2, <2>3, <2>4
<1>2. CASE SkipNode(j) /\ nodeList[j][told[j]] = j
  <2>1. /\ UNCHANGED <<life, nodeList, nodeIndex, joinPC, call, peer>>
        /\ told'[j] = told[j] + 1 /\ joinPC[j] = "tell" /\ call[j] = "none"
    BY <1>0, <1>2 DEF SkipNode, Telling, InLoop
  <2>2. HeardOf(j)'
    BY <1>0, <1>2, <2>1, HeardStays
  <2>3. QED
    BY <1>0, <2>1, <2>2
<1>3. CASE EveryoneTold(j) /\ joinPC' = [joinPC EXCEPT ![j] = "fetch"]
  <2>1. /\ UNCHANGED <<life, nodeList, nodeIndex, told, call, peer>>
        /\ joinPC[j] = "tell" /\ joinPC'[j] = "fetch" /\ call[j] = "none"
        /\ life[j] = "starting" /\ told[j] > Len(nodeList[j])
    BY <1>0, <1>3 DEF EveryoneTold, InLoop, LoopEnds, Joining
  <2>2. HeardOf(j)'
    BY <1>0, <2>1, HeardStays
  <2>3. QED
    BY <1>0, <2>1, <2>2
<1>4. CASE RegisterAppend(j) \/ RegisterSort(j)
  <2>1. /\ UNCHANGED <<life, joinPC, told, peer>>
        /\ call[j] \in {"append", "sort"} /\ call'[j] \in {"sort", "reply"}
        /\ call'[j] = "reply" => RegisterSort(j)
    BY <1>0, <1>4 DEF RegisterAppend, RegisterSort, Handling
  <2>2. nodeList'[j] = nodeList[j] /\ nodeIndex'[j] = nodeIndex[j]
    BY <1>0, <1>4, <2>1 DEF RegisterAppend, RegisterSort, SortList
  <2>3. joinPC[j] \notin {"off", "register"} => HeardOf(j)'
    BY <1>0, <2>1, <2>2, HeardStays
  <2>4. call'[j] = "reply" => Knows(peer[j], Server)'
    BY <1>0, <2>1, SortKnows DEF Knows
  <2>5. QED
    BY <1>0, <2>1, <2>2, <2>3, <2>4
<1>5. CASE RegisterReply(j)
  <2>1. /\ Joining(j) /\ joinPC[j] \in {"register", "tell"} /\ call[j] = "reply"
        /\ Knows(peer[j], Server) /\ peer[j] \in Founder
    BY <1>0, <1>5, StillJoining DEF RegisterReply, Handling
  <2>2. /\ UNCHANGED <<life, nodeIndex, peer>>
        /\ call'[j] = "none" /\ joinPC'[j] = "tell" /\ told'[j] = told[j] + 1
        /\ nodeList'[j] = IF joinPC[j] = "register" THEN nodeList[peer[j]]
                          ELSE Overwrite(nodeList[j], nodeList[peer[j]])
    BY <1>0, <1>5, <2>1 DEF RegisterReply
  <2>3. Roster(nodeList'[j], Server) /\ HeardOf(j)'
    <3>1. CASE joinPC[j] = "register"
      <4>1. told'[j] = 1
        BY <1>0, <2>2, <3>1
      <4>2. HeardOf(j)'
        BY <4>1 DEF HeardOf
      <4>3. QED
        BY <2>1, <2>2, <3>1, <4>2 DEF Knows
    <3>2. CASE joinPC[j] = "tell"
      <4>1. Roster(nodeList[j], Server) /\ Roster(nodeList[peer[j]], Server)
        BY <1>0, <2>1, <3>2 DEF Knows
      <4>2. nodeList[peer[j]] = nodeList[j] /\ nodeList[j] \in Seq(Server)
        BY <4>1, RosterIsUnique DEF Roster
      <4>3. nodeList'[j] = nodeList[j]
        BY <2>2, <3>2, <4>2, OverwriteItself
      <4>4. peer[j] = nodeList[j][told[j]]
        BY <1>0, <2>1, <3>2
      <4>5. HeardOf(j)'
        BY <1>0, <2>1, <2>2, <3>2, <4>1, <4>3, <4>4, HeardStays
      <4>6. QED
        BY <4>1, <4>3, <4>5
    <3>3. QED
      BY <2>1, <3>1, <3>2
  <2>4. QED
    BY <1>0, <2>1, <2>2, <2>3 DEF Joining
<1>6. CASE TransferIndex(j)
  <2>1. /\ UNCHANGED <<life, nodeIndex, joinPC, told, peer>>
        /\ call[j] = "index" /\ call'[j] \in {"adopt", "scan", "scanAtFront"}
    BY <1>0, <1>6 DEF TransferIndex, Handling
  <2>2. nodeList'[j] = nodeList[j] /\ joinPC[j] = "fetch"
    BY <1>0, <1>6, <2>1, StillJoining DEF TransferIndex
  <2>3. HeardOf(j)'
    BY <1>0, <2>1, <2>2, HeardStays
  <2>4. QED
    BY <1>0, <2>1, <2>2, <2>3
<1>7. CASE /\ TransferScan(j)
           /\ call' = [call EXCEPT ![j] = "adopt"]
           /\ UNCHANGED <<life, nodeList, nodeIndex, deadNodeList, connMap,
                          tasks, joinPC, told, peer>>
  <2>1. call[j] \in {"scan", "scanAtFront"} /\ call'[j] = "adopt"
    BY <1>0, <1>7 DEF TransferScan, Handling
  <2>2. joinPC[j] = "fetch"
    BY <1>0, <2>1, StillJoining
  <2>3. HeardOf(j)'
    BY <1>0, <1>7, <2>2, HeardStays
  <2>4. QED
    BY <1>0, <1>7, <2>1, <2>2, <2>3
<1>8. CASE Adopt(j)
  <2>1. /\ UNCHANGED <<life, nodeList, nodeIndex, told, peer>>
        /\ call[j] = "adopt" /\ call'[j] = "none" /\ joinPC'[j] = "open"
        /\ life[j] = "starting"
    BY <1>0, <1>8 DEF Adopt, Joining
  <2>2. joinPC[j] = "fetch"
    BY <1>0, <2>1, StillJoining
  <2>3. HeardOf(j)'
    BY <1>0, <2>1, <2>2, HeardStays
  <2>4. QED
    BY <1>0, <2>1, <2>2, <2>3
<1>9. CASE Open(j)
  <2>1. /\ UNCHANGED <<nodeList, nodeIndex, told, call, peer>>
        /\ life'[j] = "serving" /\ joinPC[j] = "open" /\ joinPC'[j] = "done"
    BY <1>0, <1>9 DEF Open
  <2>2. HeardOf(j)'
    BY <1>0, <2>1, HeardStays
  <2>3. call[j] = "none"
    BY <1>0, <2>1, StillJoining
  <2>4. QED
    BY <1>0, <2>1, <2>2, <2>3
<1>10. QED
  BY <1>1, <1>2, <1>3, <1>4, <1>5, <1>6, <1>7, <1>8, <1>9, JoinSteps

LEMMA JoinerStep ==
  ASSUME OneNewcomer, RingInv, Undisturbed, Undisturbed', [Next]_vars,
         NEW j \in Newcomer
  PROVE  JoinerInv(j)'
<1>0. TypeInv /\ JoinerInv(j) /\ j \in Server
  BY DEF RingInv, JoinInv, Newcomer
<1>1. ASSUME NEW i \in Newcomer, Start(i) PROVE JoinerInv(j)'
  BY <1>1, JoinerOfStart DEF OneNewcomer
<1>2. ASSUME NEW i \in Newcomer, Join(i) PROVE JoinerInv(j)'
  BY <1>2, JoinerOfJoin DEF OneNewcomer
<1>3. ASSUME UNCHANGED <<life, nodeList, nodeIndex, joinPC, told, call, peer>>
      PROVE  JoinerInv(j)'
  <2>1. \A s, nodes : Knows(s, nodes)' <=> Knows(s, nodes)
    BY <1>3 DEF Knows
  <2>2. HeardOf(j)' <=> HeardOf(j)
    BY <1>3, <2>1 DEF HeardOf, Knows
  <2>3. (call[j] = "reply" => Knows(peer[j], Server)') /\ peer'[j] = peer[j]
    BY <1>0, <1>3, <2>1 DEF JoinerInv
  <2>4. joinPC[j] = "off" => \A f \in Founder : Knows(f, Founder)'
    BY <1>0, <2>1 DEF JoinerInv
  <2>5. QED
    BY <1>0, <1>3, <2>2, <2>3, <2>4 DEF JoinerInv
<1>4. ASSUME NEW t \in tasks, RunTask(t) PROVE JoinerInv(j)'
  BY <1>3, <1>4, TaskSteps DEF joinVars
<1>5. ASSUME NEW s \in Server, Crash(s) PROVE JoinerInv(j)'
  BY <1>0, <1>5, NobodyHalts DEF Crash
<1>6. CASE UNCHANGED vars
  BY <1>3, <1>6 DEF vars
<1>7. QED
  BY <1>1, <1>2, <1>4, <1>5, <1>6 DEF Next, Background

-----------------------------------------------------------------------------
(* The skip lists.                                                         *)

(* The list a server has is the one its goroutines have seen, and changes  *)
(* only while a registration there has not been answered.                  *)
LEMMA ListStays ==
  ASSUME OneNewcomer, RingInv, Undisturbed, Undisturbed', [Next]_vars,
         NEW s \in Server, ~ Limbo(s)' \/ ~ Idle(s)
  PROVE  nodeList'[s] = nodeList[s] /\ nodeIndex'[s] = nodeIndex[s]
<1> DEFINE Stays == nodeList'[s] = nodeList[s] /\ nodeIndex'[s] = nodeIndex[s]
<1>0. /\ TypeInv /\ CallInv /\ Newcomer \subseteq Server
      /\ DOMAIN life = Server /\ DOMAIN nodeList = Server /\ DOMAIN nodeIndex = Server
      /\ DOMAIN call = Newcomer /\ DOMAIN peer = Newcomer
      /\ \A j \in Newcomer : JoinerInv(j)
  BY Domains DEF RingInv, JoinInv
<1>1. ASSUME NEW j \in Newcomer, Start(j) PROVE Stays
  <2>1. CASE s = j
    <3>1. life[s] = "off" /\ life'[s] = "starting"
      BY <1>0, <1>1, <2>1 DEF Start
    <3>2. Idle(s)
      BY <2>1, <3>1 DEF RingInv, JoinInv, TaskInv, Idle
    <3>3. Limbo(s)'
      BY <2>1, <3>1 DEF Limbo
    <3>4. QED
      BY <3>2, <3>3
  <2>2. CASE s # j
    BY <1>0, <1>1, <2>2 DEF Start
  <2>3. QED
    BY <2>1, <2>2
<1>2. ASSUME NEW j \in Newcomer, Join(j) PROVE Stays
  <2>1. CASE RegisterAppend(j) \/ RegisterSort(j)
    <3>1. peer[j] \in Founder
      BY <1>0, <2>1 DEF RegisterAppend, RegisterSort, Handling, JoinerInv
    <3>2. CASE s # peer[j]
      BY <1>0, <2>1, <3>2 DEF RegisterAppend, RegisterSort, SortList
    <3>3. CASE s = peer[j]
      <4>1. Limbo(s)'
        BY <1>0, <2>1, <3>3 DEF RegisterAppend, RegisterSort, Limbo
      <4>2. Knows(s, Server)
        BY <3>1, <3>3, <4>1 DEF RingInv, JoinInv, FounderInv
      <4>3. QED
        BY <3>1, <3>3, <4>2, KnownStays
    <3>4. QED
      BY <3>2, <3>3
  <2>2. CASE RegisterReply(j)
    <3>1. CASE s # j
      BY <1>0, <2>2, <3>1 DEF RegisterReply
    <3>2. CASE s = j
      <4>1. life[s] = "starting" /\ life'[s] = "starting"
        BY <1>0, <2>2, <3>2, StillJoining DEF RegisterReply, Handling, Joining
      <4>2. Idle(s)
        BY <3>2, <4>1 DEF RingInv, JoinInv, TaskInv, Idle
      <4>3. Limbo(s)'
        BY <3>2, <4>1 DEF Limbo
      <4>4. QED
        BY <4>2, <4>3
    <3>3. QED
      BY <3>1, <3>2
  <2>3. CASE TransferIndex(j)
    <3>1. call[j] = "index" /\ joinPC[j] = "fetch" /\ peer[j] \in Founder
      BY <1>0, <2>3, StillJoining DEF TransferIndex, Handling, JoinerInv
    <3>2. Knows(peer[j], Server)
      BY <3>1, EverybodyHasHeard
    <3>3. CASE s = peer[j]
      BY <3>1, <3>2, <3>3, KnownStays
    <3>4. CASE s # peer[j]
      BY <1>0, <2>3, <3>4 DEF TransferIndex
    <3>5. QED
      BY <3>3, <3>4
  <2>4. CASE ~ (RegisterAppend(j) \/ RegisterSort(j) \/ RegisterReply(j)
                \/ TransferIndex(j))
    <3>1. UNCHANGED <<nodeList, nodeIndex>>
      BY <1>2, <2>4, JoinSteps
         DEF CallBuddy, CallNode, CallTransfer, SkipNode, EveryoneTold, Adopt, Open
    <3>2. QED
      BY <3>1
  <2>5. QED
    BY <2>1, <2>2, <2>3, <2>4
<1>3. ASSUME NEW t \in tasks, RunTask(t) PROVE Stays
  BY <1>3, TaskSteps
<1>4. ASSUME NEW r \in Server, Crash(r) PROVE Stays
  BY <1>0, <1>4, NobodyHalts DEF Crash
<1>5. CASE UNCHANGED vars
  BY <1>5 DEF vars
<1>6. QED
  BY <1>1, <1>2, <1>3, <1>4, <1>5 DEF Next, Background

LEMMA TailRange ==
  ASSUME NEW S, NEW list \in Seq(S), list # << >>
  PROVE  /\ Tail(list) \in Seq(S) /\ Head(list) \in Range(list)
         /\ Range(list) = {Head(list)} \cup Range(Tail(list))
<1> DEFINE rest == Tail(list)
<1>1. /\ rest \in Seq(S) /\ Len(rest) = Len(list) - 1 /\ Len(list) \in Nat
      /\ Len(list) > 0 /\ Head(list) = list[1]
      /\ \A i \in 1..Len(rest) : rest[i] = list[i + 1]
  OBVIOUS
<1> HIDE DEF rest
<1>2. Head(list) \in Range(list)
  <2>1. 1 \in 1..Len(list)
    BY <1>1
  <2>2. QED
    BY <1>1, <2>1, RangeOfList
<1>3. \A n \in Range(rest) : n \in Range(list)
  <2>1. ASSUME NEW i \in 1..Len(rest) PROVE rest[i] \in Range(list)
    <3>1. i + 1 \in 1..Len(list)
      BY <1>1
    <3>2. QED
      BY <1>1, <3>1, RangeOfList
  <2>2. QED
    BY <1>1, <2>1, RangeOfList
<1>4. \A n \in Range(list) : n = Head(list) \/ n \in Range(rest)
  <2>1. ASSUME NEW i \in 1..Len(list) PROVE list[i] = list[1] \/ list[i] \in Range(rest)
    <3>1. CASE i = 1
      BY <3>1
    <3>2. CASE i # 1
      <4>1. i - 1 \in 1..Len(rest) /\ (i - 1) + 1 = i
        BY <1>1, <3>2
      <4>2. rest[i - 1] = list[i]
        BY <1>1, <4>1
      <4>3. QED
        BY <1>1, <4>1, <4>2, RangeOfList
    <3>3. QED
      BY <3>1, <3>2
  <2>2. QED
    BY <1>1, <2>1, RangeOfList
<1>5. QED
  BY <1>1, <1>2, <1>3, <1>4 DEF rest

(* What a join does to the goroutines.                                     *)
LEMMA JoinSpawns ==
  ASSUME RingInv, Undisturbed, Undisturbed', NEW j \in Newcomer, Join(j)
  PROVE  /\ UNCHANGED connMap
         /\ \/ UNCHANGED tasks
            \/ RegisterReply(j) /\ Recalculate(peer[j], j, told[j]) /\ peer[j] \in Founder
            \/ Open(j) /\ Recalculate(j, j, FreshSlot) /\ life'[j] = "serving"
         /\ UNCHANGED life \/ (Open(j) /\ life' = [life EXCEPT ![j] = "serving"])
<1>0. JoinerInv(j) /\ DOMAIN life = Server /\ j \in Server
  BY Domains DEF RingInv, JoinInv, Newcomer
<1>1. CASE RegisterReply(j)
  BY <1>0, <1>1 DEF RegisterReply, Handling, JoinerInv
<1>2. CASE Open(j)
  BY <1>0, <1>2 DEF Open
<1>3. CASE ~ RegisterReply(j) /\ ~ Open(j)
  BY <1>3, JoinSteps
     DEF CallBuddy, CallNode, CallTransfer, SkipNode, EveryoneTold, RegisterAppend,
         RegisterSort, TransferIndex, Adopt
<1>4. QED
  BY <1>1, <1>2, <1>3

LEMMA TaskOfJoin ==
  ASSUME OneNewcomer, RingInv, Undisturbed, Undisturbed', [Next]_vars,
         NEW j \in Newcomer, Start(j) \/ Join(j), NEW t \in tasks'
  PROVE  TaskInv(t)'
<1>0. /\ TypeInv /\ CallInv /\ DOMAIN life = Server /\ j \in Server
      /\ Founder \subseteq Server /\ Founder \cap Newcomer = {}
  BY Domains, RingAssumption DEF RingInv, Newcomer
<1>1. CASE t \in tasks
  <2>1. TaskInv(t) /\ t.at \in Server /\ ~ Idle(t.at)
    BY <1>0, <1>1 DEF RingInv, JoinInv, TypeInv, TypeOK, Task, Idle
  <2>2. Targets(t.at)' = Targets(t.at)
    <3>1. nodeList'[t.at] = nodeList[t.at] /\ nodeIndex'[t.at] = nodeIndex[t.at]
      BY <2>1, ListStays
    <3>2. QED
      BY <3>1 DEF Targets
  <2>3. life[t.at] = "serving" => life'[t.at] = "serving"
    <3>1. CASE Start(j)
      BY <1>0, <3>1 DEF Start
    <3>2. CASE Join(j)
      BY <1>0, <2>1, <3>2, JoinSpawns
    <3>3. QED
      BY <3>1, <3>2
  <2>4. QED
    BY <2>1, <2>2, <2>3 DEF TaskInv
<1>2. CASE t \notin tasks
  <2>1. Join(j)
    BY <1>2 DEF Start
  <2>2. CASE RegisterReply(j) /\ Recalculate(peer[j], j, told[j]) /\ peer[j] \in Founder
    <3>1. t = TaskIn("clear", peer[j], j, told[j], << >>)
      BY <1>2, <2>2 DEF Recalculate
    <3>2. t.phase = "clear" /\ t.at = peer[j] /\ t.by = j
      BY <3>1 DEF TaskIn
    <3>3. QED
      BY <1>0, <2>2, <3>2 DEF TaskInv, IsMain
  <2>3. CASE Open(j) /\ Recalculate(j, j, FreshSlot) /\ life'[j] = "serving"
    <3>1. t = TaskIn("clear", j, j, FreshSlot, << >>)
      BY <1>2, <2>3 DEF Recalculate
    <3>2. t.phase = "clear" /\ t.at = j /\ t.slot # MainSlot
      BY <3>1 DEF TaskIn, FreshSlot, MainSlot
    <3>3. QED
      BY <2>3, <3>2 DEF TaskInv, IsMain
  <2>4. QED
    BY <1>2, <2>1, <2>2, <2>3, JoinSpawns
<1>3. QED
  BY <1>1, <1>2

(* What a goroutine of a skip list becomes, and what it puts into connMap. *)
LEMMA GoroutineGoesOn ==
  ASSUME RingInv, Undisturbed, NEW t \in tasks, RunTask(t)
  PROVE  \/ /\ tasks' = tasks \ {t} /\ UNCHANGED connMap /\ t.phase = "collect"
         \/ \E u : /\ Become(t, u) /\ u.at = t.at /\ TaskInv(u)
                   /\ \/ /\ t.phase = "clear" /\ u.phase = "choose"
                         /\ connMap' = [connMap EXCEPT ![t.at] = NoConnections]
                      \/ /\ t.phase = "choose" /\ u.phase = "dial"
                         /\ Range(u.todo) \ {t.at} = Targets(t.at)
                         /\ UNCHANGED connMap
                      \/ /\ t.phase = "dial" /\ u.phase \in {"dial", "record"}
                         /\ Range(t.todo) \ {t.at} \subseteq Range(u.todo)
                         /\ UNCHANGED connMap
                      \/ /\ t.phase = "record" /\ u.phase = "dial"
                         /\ Head(t.todo) \in Targets(t.at)
                         /\ Range(t.todo) = {Head(t.todo)} \cup Range(u.todo)
                         /\ connMap' = [connMap EXCEPT ![t.at][Head(t.todo)] = "client"]
                      \/ /\ t.phase = "dial" /\ Range(t.todo) = {}
                         /\ u.phase = "collect" /\ UNCHANGED connMap
<1>0. /\ TypeInv /\ TaskInv(t) /\ t \in Task /\ t.at \in Server
      /\ t.todo \in Seq(Server)
      /\ nodeList[t.at] \in Seq(Server) /\ nodeIndex[t.at] \in Nat
  BY DEF RingInv, JoinInv, TypeInv, TypeOK, Task
<1>1. CASE ClearSkipList(t)
  <2> DEFINE u == [t EXCEPT !.phase = "choose"]
  <2>1. /\ Become(t, u) /\ t.phase = "clear"
        /\ connMap' = [connMap EXCEPT ![t.at] = NoConnections]
    BY <1>1 DEF ClearSkipList
  <2>2. u.at = t.at /\ u.by = t.by /\ u.slot = t.slot /\ u.phase = "choose"
    BY <1>0 DEF Task
  <2> HIDE DEF u
  <2>3. TaskInv(u)
    BY <1>0, <2>2 DEF TaskInv, IsMain
  <2>4. QED
    BY <2>1, <2>2, <2>3
<1>2. CASE ChooseNodes(t)
  <2> DEFINE targets == SkipTargets(nodeList[t.at], nodeIndex[t.at], FullMesh)
             u == [t EXCEPT !.phase = "dial", !.todo = targets,
                            !.everybody = Len(nodeList[t.at]) <= FullMesh]
  <2>1. Become(t, u) /\ t.phase = "choose" /\ UNCHANGED connMap
    BY <1>2 DEF ChooseNodes
  <2>2. /\ u.at = t.at /\ u.by = t.by /\ u.slot = t.slot /\ u.phase = "dial"
        /\ u.todo = targets
    BY <1>0 DEF Task
  <2>3. Range(targets) \ {t.at} = Targets(t.at)
    BY DEF Targets
  <2> HIDE DEF u, targets
  <2>4. TaskInv(u)
    BY <1>0, <2>2, <2>3 DEF TaskInv, IsMain
  <2>5. QED
    BY <2>1, <2>2, <2>3, <2>4
<1>3. CASE DialNode(t)
  <2>1. /\ t.phase = "dial" /\ t.todo # << >>
        /\ Head(t.todo) \in Server
    BY <1>0, <1>3 DEF DialNode, Dialling
  <2>2. UNCHANGED connMap
    BY <1>3 DEF DialNode
  <2>3. Range(t.todo) = {Head(t.todo)} \cup Range(Tail(t.todo))
    BY <1>0, <2>1, TailRange
  <2>4. CASE Head(t.todo) = t.at
    <3> DEFINE u == [t EXCEPT !.todo = Tail(@)]
    <3>1. Become(t, u)
      BY <1>3, <2>1, <2>4, NobodyDead DEF DialNode
    <3>2. /\ u.at = t.at /\ u.by = t.by /\ u.slot = t.slot /\ u.phase = t.phase
          /\ u.todo = Tail(t.todo)
      BY <1>0 DEF Task
    <3> HIDE DEF u
    <3>3. TaskInv(u)
      BY <1>0, <2>1, <2>3, <3>2 DEF TaskInv, IsMain
    <3>4. QED
      BY <2>1, <2>2, <2>3, <2>4, <3>1, <3>2, <3>3
  <2>5. CASE Head(t.todo) # t.at
    <3> DEFINE u == [t EXCEPT !.phase = "record"]
    <3>1. Become(t, u)
      BY <1>3, <2>1, <2>5, NobodyDead DEF DialNode
    <3>2. /\ u.at = t.at /\ u.by = t.by /\ u.slot = t.slot /\ u.phase = "record"
          /\ u.todo = t.todo
      BY <1>0 DEF Task
    <3> HIDE DEF u
    <3>3. TaskInv(u)
      BY <1>0, <2>1, <2>5, <3>2 DEF TaskInv, IsMain
    <3>4. QED
      BY <2>1, <2>2, <3>1, <3>2, <3>3
  <2>6. QED
    BY <2>4, <2>5
<1>4. CASE RecordConnection(t)
  <2> DEFINE u == [t EXCEPT !.phase = "dial", !.todo = Tail(@)]
  <2>1. /\ t.phase = "record" /\ t.todo # << >> /\ Head(t.todo) # t.at
        /\ connMap' = [connMap EXCEPT ![t.at][Head(t.todo)] = "client"]
        /\ Become(t, u)
    BY <1>0, <1>4 DEF RecordConnection, TaskInv
  <2>2. /\ Head(t.todo) \in Range(t.todo)
        /\ Range(t.todo) = {Head(t.todo)} \cup Range(Tail(t.todo))
    BY <1>0, <2>1, TailRange
  <2>3. /\ u.at = t.at /\ u.by = t.by /\ u.slot = t.slot /\ u.phase = "dial"
        /\ u.todo = Tail(t.todo)
    BY <1>0 DEF Task
  <2> HIDE DEF u
  <2>4. Range(t.todo) \subseteq Targets(t.at) \cup {t.at}
    BY <1>0, <2>1 DEF TaskInv
  <2>5. TaskInv(u)
    BY <1>0, <2>2, <2>3, <2>4 DEF TaskInv, IsMain
  <2>6. QED
    BY <2>1, <2>2, <2>3, <2>4, <2>5
<1>5. CASE EndSkipList(t)
  <2> DEFINE u == [t EXCEPT !.phase = "collect"]
  <2>1. Become(t, u) /\ t.phase = "dial" /\ t.todo = << >> /\ UNCHANGED connMap
    BY <1>0, <1>5 DEF EndSkipList, TaskInv
  <2>2. u.at = t.at /\ u.by = t.by /\ u.slot = t.slot /\ u.phase = "collect"
    BY <1>0 DEF Task
  <2> HIDE DEF u
  <2>3. TaskInv(u)
    BY <1>0, <2>2 DEF TaskInv, IsMain
  <2>4. Range(t.todo) = {}
    BY <2>1 DEF Range
  <2>5. QED
    BY <2>1, <2>2, <2>3, <2>4
<1>6. QED
  BY <1>1, <1>2, <1>3, <1>4, <1>5, TaskSteps

LEMMA TaskStep ==
  ASSUME OneNewcomer, RingInv, Undisturbed, Undisturbed', [Next]_vars, NEW u \in tasks'
  PROVE  TaskInv(u)'
<1>1. ASSUME NEW j \in Newcomer, Start(j) \/ Join(j) PROVE TaskInv(u)'
  BY <1>1, TaskOfJoin
<1>2. ASSUME NEW t \in tasks, RunTask(t) PROVE TaskInv(u)'
  <2>1. UNCHANGED <<life, nodeList, nodeIndex>>
    BY <1>2, TaskSteps
  <2>2. TaskInv(u)
    <3>1. \A v \in tasks : TaskInv(v)
      BY DEF RingInv, JoinInv
    <3>2. u \in tasks \/ TaskInv(u)
      BY <1>2, GoroutineGoesOn DEF Become
    <3>3. QED
      BY <3>1, <3>2
  <2>3. QED
    BY <2>1, <2>2 DEF TaskInv, Targets
<1>3. ASSUME NEW s \in Server, Crash(s) PROVE TaskInv(u)'
  BY <1>3, NobodyHalts DEF Crash, RingInv
<1>4. CASE UNCHANGED vars
  BY <1>4 DEF vars, RingInv, JoinInv, TaskInv, Targets
<1>5. QED
  BY <1>1, <1>2, <1>3, <1>4 DEF Next, Background

(* A registration ends by a calculation of the skip list.                  *)
LEMMA LimboEnds ==
  ASSUME OneNewcomer, RingInv, Undisturbed, Undisturbed',
         NEW j \in Newcomer, Start(j) \/ Join(j), NEW s \in Server,
         Limbo(s), ~ Limbo(s)'
  PROVE  Clearing(s)'
<1>0. /\ TypeInv /\ CallInv /\ DOMAIN life = Server /\ DOMAIN call = Newcomer
      /\ JoinerInv(j) /\ j \in Server
      /\ \A i \in Newcomer : i = j
  BY Domains DEF RingInv, JoinInv, OneNewcomer, Newcomer
<1>1. CASE peer[j] = s /\ call[j] \in {"sort", "reply"}
  <2>1. joinPC[j] \in {"register", "tell"} /\ Joining(j)
    BY <1>0, <1>1, StillJoining DEF JoinerInv
  <2>2. RegisterSort(j) \/ RegisterReply(j)
    BY <1>1, <2>1, JoinSteps
       DEF Start, Joining, CallBuddy, CallNode, CallTransfer, Calls, SkipNode, Telling,
           EveryoneTold, InLoop, RegisterAppend, TransferIndex, TransferScan,
           Handling, Adopt, Open
  <2>3. ~ RegisterSort(j)
    <3>1. RegisterSort(j) => peer'[j] = s /\ call'[j] = "reply"
      BY <1>0, <1>1 DEF RegisterSort
    <3>2. QED
      BY <3>1 DEF Limbo
  <2>4. TaskIn("clear", s, j, told[j], << >>) \in tasks'
    BY <1>1, <2>2, <2>3 DEF RegisterReply, Recalculate
  <2>5. QED
    BY <2>4 DEF Clearing, TaskIn
<1>2. CASE s = j /\ life[j] # "serving"
  <2>1. life'[j] = "serving"
    BY <1>2 DEF Limbo
  <2>2. Open(j)
    BY <1>0, <1>2, <2>1, JoinSpawns DEF Start
  <2>3. TaskIn("clear", s, j, FreshSlot, << >>) \in tasks'
    BY <1>2, <2>2 DEF Open, Recalculate
  <2>4. QED
    BY <2>3 DEF Clearing, TaskIn
<1>3. QED
  BY <1>0, <1>1, <1>2 DEF Limbo

LEMMA SkipStep ==
  ASSUME OneNewcomer, RingInv, Undisturbed, Undisturbed', [Next]_vars, NEW s \in Server
  PROVE  SkipInv(s)'
<1>0. /\ TypeInv /\ SkipInv(s) /\ DOMAIN connMap = Server
      /\ connMap[s] \in [Server -> {"none", "nil", "client"}]
  BY Domains DEF RingInv, JoinInv, TypeInv, TypeOK
<1>1. ~ Limbo(s)' => Targets(s)' = Targets(s)
  BY ListStays DEF Targets
<1>2. ASSUME NEW j \in Newcomer, Start(j) \/ Join(j) PROVE SkipInv(s)'
  <2>1. UNCHANGED connMap /\ \A t \in tasks : t \in tasks'
    BY <1>2, JoinSpawns DEF Start, Recalculate
  <2>2. Clearing(s) => Clearing(s)'
    BY <2>1 DEF Clearing
  <2>3. /\ Choosing(s) => Choosing(s)'
        /\ \A n : Dialled(s, n) => Dialled(s, n)'
    BY <2>1 DEF Choosing, Dialled
  <2>4. Limbo(s) /\ ~ Limbo(s)' => Clearing(s)'
    BY <1>2, LimboEnds
  <2>5. QED
    BY <1>0, <1>1, <2>1, <2>2, <2>3, <2>4 DEF SkipInv
<1>3. ASSUME NEW t \in tasks, RunTask(t) PROVE SkipInv(s)'
  <2>0. /\ Limbo(s)' <=> Limbo(s)
        /\ t \in Task /\ t.at \in Server /\ t.todo \in Seq(Server)
    BY <1>0, <1>3, TaskSteps DEF joinVars, Limbo, TypeInv, TypeOK, Task
  <2>1. CASE t.at # s
    <3>1. connMap'[s] = connMap[s]
      BY <1>0, <1>3, <2>1, GoroutineGoesOn
    <3>2. /\ \A v \in tasks' : v.at = s => v \in tasks
          /\ \A v \in tasks : v.at = s => v \in tasks'
      <4>1. \/ tasks' = tasks \ {t}
            \/ \E u : tasks' = (tasks \ {t}) \cup {u} /\ u.at = t.at
        BY <1>3, GoroutineGoesOn DEF Become
      <4>2. QED
        BY <2>1, <4>1
    <3>3. Clearing(s)' <=> Clearing(s)
      BY <3>2 DEF Clearing
    <3>4. /\ Choosing(s)' <=> Choosing(s)
          /\ \A n : Dialled(s, n)' <=> Dialled(s, n)
      BY <3>2 DEF Choosing, Dialled
    <3>5. QED
      BY <1>0, <1>1, <2>0, <3>1, <3>3, <3>4 DEF SkipInv
  <2>2. CASE t.at = s
    <3>1. CASE tasks' = tasks \ {t} /\ UNCHANGED connMap /\ t.phase = "collect"
      <4>1. Clearing(s)' <=> Clearing(s)
        BY <3>1 DEF Clearing
      <4>2. /\ Choosing(s)' <=> Choosing(s)
            /\ \A n : Dialled(s, n)' <=> Dialled(s, n)
        BY <3>1 DEF Choosing, Dialled
      <4>3. QED
        BY <1>0, <1>1, <2>0, <3>1, <4>1, <4>2 DEF SkipInv
    <3>2. ASSUME NEW u, Become(t, u), u.at = s,
                 t.phase = "clear", u.phase = "choose",
                 connMap' = [connMap EXCEPT ![s] = NoConnections]
          PROVE  SkipInv(s)'
      <4>1. \A n \in Server : connMap'[s][n] = "none"
        BY <1>0, <3>2 DEF NoConnections
      <4>2. Choosing(s)'
        BY <3>2 DEF Choosing, Become
      <4>3. QED
        BY <1>1, <4>1, <4>2 DEF SkipInv
    <3>3. ASSUME NEW u, Become(t, u), u.at = s,
                 t.phase = "choose", u.phase = "dial",
                 Range(u.todo) \ {s} = Targets(s), UNCHANGED connMap
          PROVE  SkipInv(s)'
      <4>1. Clearing(s)' <=> Clearing(s)
        BY <3>3 DEF Clearing, Become
      <4>2. \A n \in Targets(s) : Dialled(s, n)'
        BY <3>3 DEF Dialled, Become
      <4>3. QED
        BY <1>0, <1>1, <2>0, <3>3, <4>1, <4>2 DEF SkipInv
    <3>4. ASSUME NEW u, Become(t, u), u.at = s,
                 t.phase = "dial", u.phase \in {"dial", "record"},
                 Range(t.todo) \ {s} \subseteq Range(u.todo), UNCHANGED connMap
          PROVE  SkipInv(s)'
      <4>1. (Clearing(s)' <=> Clearing(s)) /\ (Choosing(s)' <=> Choosing(s))
        BY <3>4 DEF Clearing, Choosing, Become
      <4>2. ASSUME NEW n \in Server, n # s, Dialled(s, n) PROVE Dialled(s, n)'
        BY <3>4, <4>2 DEF Dialled, Become
      <4>3. s \notin Targets(s)
        BY DEF Targets
      <4>4. QED
        BY <1>0, <1>1, <2>0, <3>4, <4>1, <4>2, <4>3 DEF SkipInv
    <3>5. ASSUME NEW u, Become(t, u), u.at = s,
                 t.phase = "record", u.phase = "dial", Head(t.todo) \in Targets(s),
                 Range(t.todo) = {Head(t.todo)} \cup Range(u.todo),
                 connMap' = [connMap EXCEPT ![s][Head(t.todo)] = "client"]
          PROVE  SkipInv(s)'
      <4>1. (Clearing(s)' <=> Clearing(s)) /\ (Choosing(s)' <=> Choosing(s))
        BY <3>5 DEF Clearing, Choosing, Become
      <4>2. ASSUME NEW n \in Server, n # Head(t.todo), Dialled(s, n)
            PROVE  Dialled(s, n)'
        BY <3>5, <4>2 DEF Dialled, Become
      <4>3. \A n \in Server : connMap'[s][n] =
              IF n = Head(t.todo) THEN "client" ELSE connMap[s][n]
        BY <1>0, <3>5
      <4>4. QED
        BY <1>0, <1>1, <2>0, <3>5, <4>1, <4>2, <4>3 DEF SkipInv
    <3>6. ASSUME NEW u, Become(t, u), u.at = s, t.phase = "dial",
                 Range(t.todo) = {}, u.phase = "collect", UNCHANGED connMap
          PROVE  SkipInv(s)'
      <4>1. (Clearing(s)' <=> Clearing(s)) /\ (Choosing(s)' <=> Choosing(s))
        BY <3>6 DEF Clearing, Choosing, Become
      <4>2. \A n : Dialled(s, n) => Dialled(s, n)'
        BY <3>6 DEF Dialled, Become
      <4>3. QED
        BY <1>0, <1>1, <2>0, <3>6, <4>1, <4>2 DEF SkipInv
    <3>7. QED
      BY <1>3, <2>2, <3>1, <3>2, <3>3, <3>4, <3>5, <3>6, GoroutineGoesOn
  <2>3. QED
    BY <2>1, <2>2
<1>4. ASSUME NEW r \in Server, Crash(r) PROVE SkipInv(s)'
  BY <1>4, NobodyHalts DEF Crash, RingInv
<1>5. CASE UNCHANGED vars
  BY <1>0, <1>1, <1>5 DEF vars, SkipInv, Limbo, Clearing, Choosing, Dialled
<1>6. QED
  BY <1>2, <1>3, <1>4, <1>5 DEF Next, Background

-----------------------------------------------------------------------------
(* The theorems on the lists.                                              *)

LEMMA JoinInvStep ==
  ASSUME OneNewcomer, RingInv, [Next]_vars
  PROVE  RingInv'
<1>1. TypeInv' /\ CallInv'
  BY TypeStep, CallStep DEF RingInv
<1>2. ASSUME Undisturbed' PROVE JoinInv'
  <2>1. Undisturbed
    BY <1>2, CrashIsFinal DEF RingInv, Undisturbed
  <2>2. Calm'
    BY <1>2, <2>1, CalmStep
  <2>3. \A f \in Founder : FounderInv(f)'
    BY <1>2, <2>1, FounderStep
  <2>4. \A j \in Newcomer : JoinerInv(j)'
    BY <1>2, <2>1, JoinerStep
  <2>5. \A t \in tasks' : TaskInv(t)'
    BY <1>2, <2>1, TaskStep
  <2>6. \A s \in Server : SkipInv(s)'
    BY <1>2, <2>1, SkipStep
  <2>7. QED
    BY <2>2, <2>3, <2>4, <2>5, <2>6 DEF JoinInv
<1>3. QED
  BY <1>1, <1>2 DEF RingInv

LEMMA JoinInvariant == OneNewcomer => (Spec => []RingInv)
<1> SUFFICES ASSUME OneNewcomer PROVE Spec => []RingInv
  OBVIOUS
<1>1. Init => RingInv
  BY TypeInit, CallInit, JoinInit DEF RingInv
<1>2. RingInv /\ [Next]_vars => RingInv'
  BY JoinInvStep
<1>3. QED
  BY <1>1, <1>2, PTL DEF Spec

(* At rest either the newcomer has not been started, or it serves.         *)
LEMMA AtRest ==
  ASSUME RingInv, Quiet, Undisturbed, NEW j \in Newcomer
  PROVE  /\ joinPC[j] \in {"off", "done"} /\ call[j] = "none"
         /\ life[j] = "serving" <=> joinPC[j] = "done"
<1>1. /\ TypeInv /\ CallInv /\ JoinerInv(j) /\ j \in Server
      /\ life[j] \in {"off", "starting", "serving", "crashed"}
  BY DEF RingInv, JoinInv, Newcomer, TypeInv, TypeOK
<1>2. life[j] \in {"off", "serving"}
  BY <1>1, NobodyDead DEF Quiet, Settled
<1>3. call[j] = "none"
  BY <1>1, <1>2, StillJoining DEF Joining
<1>4. QED
  BY <1>1, <1>2, <1>3 DEF JoinerInv

LEMMA JoinedAtRest ==
  ASSUME OneNewcomer, RingInv, Quiet, Undisturbed
  PROVE  /\ \A f \in Founder : Knows(f, Serving)
         /\ \A s \in Serving : Roster(nodeList[s], Serving)
<1>0. /\ Calm /\ TypeInv /\ Founder \subseteq Server /\ \A j \in Newcomer : JoinerInv(j)
      /\ \A f \in Founder : FounderInv(f)
  BY RingAssumption DEF RingInv, JoinInv
<1>1. CASE \E j \in Newcomer : joinPC[j] = "done"
  <2>1. PICK j \in Newcomer : joinPC[j] = "done"
    BY <1>1
  <2>2. Server = Founder \cup {j}
    BY RingAssumption DEF OneNewcomer, Newcomer
  <2>3. Serving = Server
    BY <1>0, <2>1, <2>2, AtRest DEF Calm, Serving
  <2>4. \A f \in Founder : Knows(f, Server)
    BY <2>1, EverybodyHasHeard
  <2>5. Roster(nodeList[j], Server)
    BY <1>0, <2>1 DEF JoinerInv
  <2>6. QED
    BY <2>2, <2>3, <2>4, <2>5 DEF Knows
<1>2. CASE ~ \E j \in Newcomer : joinPC[j] = "done"
  <2>1. \A j \in Newcomer : joinPC[j] = "off" /\ life[j] # "serving" /\ call[j] = "none"
    BY <1>2, AtRest
  <2>2. Serving = Founder
    BY <1>0, <2>1 DEF Calm, Serving, Newcomer
  <2>3. ASSUME NEW f \in Founder PROVE Knows(f, Founder)
    <3>1. CASE Newcomer = {}
      <4>1. Server = Founder /\ ~ Enrolling(f)
        BY <3>1, RingAssumption DEF Newcomer, Enrolling
      <4>2. QED
        BY <1>0, <4>1 DEF FounderInv
    <3>2. CASE Newcomer # {}
      BY <1>0, <2>1, <3>2 DEF JoinerInv
    <3>3. QED
      BY <3>1, <3>2
  <2>4. QED
    BY <2>2, <2>3 DEF Knows
<1>3. QED
  BY <1>1, <1>2

(* However the registrations of a newcomer at the other servers interleave *)
(* with what else they do, in the end every server has the same sorted     *)
(* list of all.                                                            *)
THEOREM EverybodyIsKnown == OneNewcomer => (Spec => []RingKnown)
<1> SUFFICES ASSUME OneNewcomer PROVE Spec => []RingKnown
  OBVIOUS
<1>1. RingInv => RingKnown
  BY JoinedAtRest DEF RingKnown, Roster
<1>2. QED
  BY <1>1, JoinInvariant, PTL

(* The goroutines that clear and refill connMap in turn, one for each      *)
(* registration, leave a connection to each node of the skip list and to   *)
(* no other one, in a ring of any size.                                    *)
THEOREM SkipListsAreComplete == OneNewcomer => (Spec => []SkipListComplete)
<1> SUFFICES ASSUME OneNewcomer PROVE Spec => []SkipListComplete
  OBVIOUS
<1>1. RingInv => SkipListComplete
  <2> SUFFICES ASSUME RingInv, Quiet, Undisturbed, NEW s \in Serving, NEW n \in Server
               PROVE  connMap[s][n] = IF n \in Targets(s) THEN "client" ELSE "none"
    BY DEF SkipListComplete, Targets
  <2>1. s \in Server /\ life[s] = "serving" /\ SkipInv(s)
    BY DEF Serving, RingInv, JoinInv
  <2>2. connMap[s][n] \in {"none", "nil", "client"}
    BY <2>1 DEF RingInv, TypeInv, TypeOK
  <2>3. ~ Limbo(s)
    BY <2>1, AtRest DEF Limbo
  <2>4. ~ Clearing(s) /\ ~ Choosing(s) /\ ~ Dialled(s, n)
    BY DEF Quiet, Clearing, Choosing, Dialled
  <2>5. QED
    BY <2>1, <2>2, <2>3, <2>4 DEF SkipInv
<1>2. QED
  BY <1>1, JoinInvariant, PTL


(* In the end every server is connected to the one after it on the ring,   *)
(* the step by which a request reaches its owner from anywhere: a small    *)
(* ring is meshed, and in a large one the arithmetic of the skip list      *)
(* finds the next node from every position, the last one included, as long *)
(* as the server has that position right.                                  *)
THEOREM SuccessorsAreConnected == OneNewcomer => (Spec => []SuccessorConnected)
<1> SUFFICES ASSUME OneNewcomer PROVE Spec => []SuccessorConnected
  OBVIOUS
<1>1. RingInv /\ SkipListComplete => SuccessorConnected
  <2> SUFFICES ASSUME RingInv, SkipListComplete, Quiet, Undisturbed, NEW s \in Serving,
                      Serving # {s}, Len(nodeList[s]) <= FullMesh \/ KnowsItsPlace(s)
               PROVE  connMap[s][Successor(Serving \ {s}, s)] = "client"
    BY DEF SuccessorConnected
  <2> DEFINE list == nodeList[s]
             index == nodeIndex[s]
             spot == Reindex(list, s, 0)
             next == Successor(Range(list) \ {s}, s)
             dialled == Range(SkipTargets(list, index, FullMesh))
  <2>1. /\ list \in Seq(Server) /\ list \in Seq(Nat) /\ Increasing(list)
        /\ Range(list) = Serving /\ s \in Server
    BY JoinedAtRest, ListOfNumbers, RingAssumption DEF Roster, Serving
  <2>2. spot \in Nat /\ spot < Len(list) /\ list[spot + 1] = s
    BY <2>1, ReindexFinds
  <2>3. Len(list) > 1
    <3>1. PICK n \in Range(list) : n # s
      BY <2>1
    <3>2. PICK k \in 1..Len(list) : n = list[k]
      BY <2>1, RangeOfList
    <3>3. k # spot + 1
      BY <2>2, <3>1, <3>2
    <3>4. QED
      BY <2>1, <2>2, <3>3
  <2>4. next \in Range(SkipTargets(list, spot, FullMesh))
    BY <2>1, <2>2, <2>3, NextIsDialled, RingAssumption
  <2>5. next \in dialled
    BY <2>4 DEF SkipTargets, KnowsItsPlace
  <2>6. next \in Range(list) \ {s}
    <3>1. Range(list) \ {s} \in SUBSET Nat /\ Range(list) \ {s} # {}
      BY <2>1, RangeOfList
    <3>2. {n \in Range(list) \ {s} : s <= n} \in SUBSET Nat
      BY <3>1
    <3>3. QED
      BY <3>1, <3>2, MinOfNat DEF Successor
  <2>7. next \in Server /\ next \in dialled \ {s}
    BY <2>1, <2>5, <2>6 DEF Serving
  <2>8. connMap[s][next] = "client"
    BY <2>7 DEF SkipListComplete
  <2>9. QED
    BY <2>1, <2>8
<1>2. Spec => []SkipListComplete
  BY SkipListsAreComplete
<1>3. QED
  BY <1>1, <1>2, JoinInvariant, PTL
=============================================================================
