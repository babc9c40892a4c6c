----------------------------- MODULE StorageRing -----------------------------
(***************************************************************************)
(* How a storage server enters the ring, how the others learn of it, how   *)
(* it is handed its part of the data, and how every server rebuilds its    *)
(* skip list meanwhile (storage-impl.go).                                  *)
(*                                                                         *)
(* Actors: the constructor iNewStorageserver of every newcomer, the RPC    *)
(* handlers RegisterServer and TransferData that run for it at a peer, and *)
(* the goroutines that rebuild skip lists and collect dead nodes.  Each    *)
(* action is one critical section, or one blocking dial, of one of them.   *)
(* Servers keep everything in memory: a crash loses it, for good.          *)
(***************************************************************************)
EXTENDS Ring

CONSTANTS
  Server,    \* ids of the storage servers
  Founder,   \* the servers of a ring that is already up
  Buddy,     \* the server each newcomer is told to contact
  Key,       \* ids of the keys stored when the ring is up
  FullMesh,  \* largest list for which the skip list is everybody: 6
  MaxCrash   \* bound on crashes

Newcomer == Server \ Founder

ASSUME RingAssumption ==
  /\ Server \subseteq Nat
  /\ IsFiniteSet(Server)
  /\ Founder \subseteq Server
  /\ Founder # {}
  /\ Buddy \in [Newcomer -> Server]
  /\ Key \subseteq Nat
  /\ FullMesh \in Nat
  /\ MaxCrash \in Nat

VARIABLES
  \* Each storage server.
  life,          \* off, starting (listening, not serving), serving, crashed
  nodeList,      \* the nodes it knows, itself included
  nodeIndex,     \* its 0-based position in nodeList
  deadNodeList,  \* the nodes it failed to reach
  connMap,       \* its skip list: no entry, a nil client or a client
  stored,        \* the keys of userMap and fileMap
  tasks,         \* its goroutines, see Task
  \* Each newcomer: its constructor and the handler of its current call.
  joinPC,        \* where the constructor is
  told,          \* position in nodeList of the node being told; 0: the buddy
  call,          \* where the handler at the peer is
  peer,          \* the server that runs the handler
  transit        \* the keys in the Transfer reply

ringVars == <<nodeList, nodeIndex>>
joinVars == <<joinPC, told, call, peer, transit>>
vars == <<life, nodeList, nodeIndex, deadNodeList, connMap, stored, tasks,
          joinPC, told, call, peer, transit>>

(* A goroutine: iCalculateSkipList, which hands over to collectBodies, in  *)
(* the phases clear, choose, dial, record, recordNil, collect, bury and    *)
(* resort.  by and slot tell apart the goroutines of one server: the       *)
(* newcomer whose registration spawned it and the value of told then, or   *)
(* the server itself and one of the three names below.                     *)
Phase == {"clear", "choose", "dial", "record", "recordNil", "collect", "bury",
          "resort"}
Task == [at : Server, by : Server, slot : Nat, phase : Phase,
         todo : Seq(Server), everybody : BOOLEAN]
MainSlot    == 0   \* collectBodies called by the constructor itself
CleanupSlot == 1   \* go collectBodies at the end of that call
FreshSlot   == 2   \* go iCalculateSkipList at the end of the constructor

TaskIn(phase, s, by, slot, todo) ==
  [at |-> s, by |-> by, slot |-> slot, phase |-> phase, todo |-> todo,
   everybody |-> FALSE]
IsMain(t) == t.by = t.at /\ t.slot = MainSlot

TypeOK ==
  /\ life \in [Server -> {"off", "starting", "serving", "crashed"}]
  /\ nodeList \in [Server -> Seq(Server)]
  /\ nodeIndex \in [Server -> Nat]
  /\ deadNodeList \in [Server -> Seq(Server)]
  /\ connMap \in [Server -> [Server -> {"none", "nil", "client"}]]
  /\ stored \in [Server -> SUBSET Key]
  /\ tasks \subseteq Task
  /\ joinPC \in [Newcomer -> {"off", "register", "tell", "collect", "fetch",
                              "open", "done"}]
  /\ told \in [Newcomer -> Nat]
  /\ call \in [Newcomer -> {"none", "append", "sort", "reply",
                            "index", "scan", "scanAtFront", "adopt"}]
  /\ peer \in [Newcomer -> Server]
  /\ transit \in [Newcomer -> SUBSET Key]

-----------------------------------------------------------------------------
(* The ring the newcomers meet: servers that know and are connected to one *)
(* another, with every key where it belongs.                               *)
Init ==
  /\ life = [s \in Server |-> IF s \in Founder THEN "serving" ELSE "off"]
  /\ \E list \in [1..Cardinality(Founder) -> Founder] :
       /\ Increasing(list) /\ Range(list) = Founder
       /\ nodeList = [s \in Server |-> IF s \in Founder THEN list ELSE << >>]
       /\ nodeIndex = [s \in Server |-> Reindex(list, s, 0)]
       /\ connMap = [s \in Server |->
            [n \in Server |->
               IF /\ s \in Founder /\ n # s
                  /\ n \in Range(SkipTargets(list, Reindex(list, s, 0), FullMesh))
               THEN "client" ELSE "none"]]
  /\ deadNodeList = [s \in Server |-> << >>]
  /\ stored = [s \in Server |->
       {k \in Key : s \in Founder /\ s = Successor(Founder, k)}]
  /\ tasks = {}
  /\ joinPC = [j \in Newcomer |-> "off"]
  /\ told = [j \in Newcomer |-> 0]
  /\ call = [j \in Newcomer |-> "none"]
  /\ peer = Buddy
  /\ transit = [j \in Newcomer |-> {}]

-----------------------------------------------------------------------------
(* Helpers.                                                                *)

NoConnections == [n \in Server |-> "none"]

(* deadNodeListM is held through the whole removal loop of collectBodies.  *)
DeadListFree(s) == \A t \in tasks : t.at = s => t.phase # "bury"

MarkDead(s, n) ==
  /\ DeadListFree(s)
  /\ deadNodeList' = [deadNodeList EXCEPT ![s] = Append(@, n)]

(* The process of s is gone, with its memory, its goroutines and the calls *)
(* it was waiting for; a handler that a peer runs for it goes on.          *)
Halt(s) ==
  /\ life' = [life EXCEPT ![s] = "crashed"]
  /\ nodeList' = [nodeList EXCEPT ![s] = << >>]
  /\ nodeIndex' = [nodeIndex EXCEPT ![s] = 0]
  /\ deadNodeList' = [deadNodeList EXCEPT ![s] = << >>]
  /\ connMap' = [connMap EXCEPT ![s] = NoConnections]
  /\ stored' = [stored EXCEPT ![s] = {}]
  /\ tasks' = {t \in tasks : t.at # s}
  /\ transit' = [j \in Newcomer |-> IF j = s THEN {} ELSE transit[j]]
  /\ call' = [j \in Newcomer |->
                IF j = s /\ call[j] = "adopt" THEN "none" ELSE call[j]]
  /\ UNCHANGED <<joinPC, told, peer>>

Crash(s) ==
  /\ life[s] \in {"starting", "serving"}
  /\ Cardinality({n \in Server : life[n] = "crashed"}) < MaxCrash
  /\ Halt(s)

Joining(j) == j \in Newcomer /\ life[j] = "starting"

(* dialNode(n).  A server that serves answers; one that has crashed does   *)
(* not, and 6 attempts later it is marked dead; one that is starting, the  *)
(* caller itself included, listens and leaves the caller waiting.          *)
Answers(n) == life[n] = "serving"
ImpatientRefuses(n) == life[n] # "serving"
Refuses(n) == life[n] = "crashed"

(* go ss.iCalculateSkipList()                                              *)
NoRecalculation(s, by, slot) == UNCHANGED tasks
Recalculate(s, by, slot) ==
  tasks' = tasks \cup {TaskIn("clear", s, by, slot, << >>)}

-----------------------------------------------------------------------------
(* iNewStorageserver: registration.                                        *)

(* The process is started: it listens, and knows itself only.              *)
Start(j) ==
  /\ life[j] = "off"
  /\ life' = [life EXCEPT ![j] = "starting"]
  /\ nodeList' = [nodeList EXCEPT ![j] = <<j>>]
  /\ joinPC' = [joinPC EXCEPT ![j] = "register"]
  /\ UNCHANGED <<nodeIndex, deadNodeList, connMap, stored, tasks, told, call,
                 peer, transit>>

Calls(j, stage, n) ==
  /\ call[j] = "none" /\ Answers(n)
  /\ call' = [call EXCEPT ![j] = stage]
  /\ peer' = [peer EXCEPT ![j] = n]

CallBuddy(j) ==
  /\ Joining(j) /\ joinPC[j] = "register"
  /\ Calls(j, "append", Buddy[j])
  /\ UNCHANGED <<life, nodeList, nodeIndex, deadNodeList, connMap, stored,
                 tasks, joinPC, told, transit>>

(* The loop that tells all other servers, by position in the live list.    *)
LoopEndsEarly(j) == told[j] >= Len(nodeList[j])
LoopEnds(j) == told[j] > Len(nodeList[j])

InLoop(j) == Joining(j) /\ joinPC[j] = "tell" /\ call[j] = "none"
Telling(j) == InLoop(j) /\ ~LoopEnds(j)

CallNode(j) ==
  /\ Telling(j) /\ nodeList[j][told[j]] # j
  /\ Calls(j, "append", nodeList[j][told[j]])
  /\ UNCHANGED <<life, nodeList, nodeIndex, deadNodeList, connMap, stored,
                 tasks, joinPC, told, transit>>

SkipNode(j) ==
  /\ Telling(j)
  /\ \/ /\ nodeList[j][told[j]] = j
        /\ UNCHANGED deadNodeList
     \/ /\ Refuses(nodeList[j][told[j]])
        /\ MarkDead(j, nodeList[j][told[j]])
  /\ told' = [told EXCEPT ![j] = @ + 1]
  /\ UNCHANGED <<life, nodeList, nodeIndex, connMap, stored, tasks, joinPC,
                 call, peer, transit>>

(* collectBodies called by the constructor: it returns at once when no     *)
(* node was found dead.                                                    *)
EveryoneTold(j) ==
  /\ InLoop(j) /\ LoopEnds(j)
  /\ IF deadNodeList[j] = << >>
     THEN joinPC' = [joinPC EXCEPT ![j] = "fetch"] /\ UNCHANGED tasks
     ELSE /\ joinPC' = [joinPC EXCEPT ![j] = "collect"]
          /\ tasks' = tasks \cup {TaskIn("bury", j, j, MainSlot, deadNodeList[j])}
  /\ UNCHANGED <<life, nodeList, nodeIndex, deadNodeList, connMap, stored,
                 told, call, peer, transit>>

-----------------------------------------------------------------------------
(* RegisterServer at peer[j], for newcomer j.                              *)

Handling(j, stage) == call[j] = stage /\ life[peer[j]] = "serving"

(* The check and the append are two critical sections; nobody else adds j, *)
(* so nothing can come between them that could not come before or after.   *)
RegisterAppend(j) ==
  LET p == peer[j]
  IN /\ Handling(j, "append")
     /\ nodeList' = [nodeList EXCEPT ![p] = Add(@, j)]
     /\ call' = [call EXCEPT ![j] = "sort"]
     /\ UNCHANGED <<life, nodeIndex, deadNodeList, connMap, stored, tasks,
                    joinPC, told, peer, transit>>

SortList(s) ==
  /\ nodeList' = [nodeList EXCEPT ![s] = Sorted(@)]
  /\ nodeIndex' = [nodeIndex EXCEPT ![s] = Reindex(Sorted(nodeList[s]), s, @)]

RegisterSort(j) ==
  /\ Handling(j, "sort")
  /\ SortList(peer[j])
  /\ call' = [call EXCEPT ![j] = "reply"]
  /\ UNCHANGED <<life, deadNodeList, connMap, stored, tasks, joinPC, told,
                 peer, transit>>

(* The list is read after the lock is released, the rebuilding of the skip *)
(* list starts, and the reply reaches the constructor if it still waits.   *)
RegisterReply(j) ==
  LET p     == peer[j]
      reply == nodeList[p]
  IN /\ Handling(j, "reply")
     /\ Recalculate(p, j, told[j])
     /\ call' = [call EXCEPT ![j] = "none"]
     /\ IF ~Joining(j) THEN UNCHANGED <<nodeList, joinPC, told>>
        ELSE /\ nodeList' = [nodeList EXCEPT ![j] =
                  IF joinPC[j] = "register" THEN reply ELSE Overwrite(@, reply)]
             /\ told' = [told EXCEPT ![j] = @ + 1]
             /\ joinPC' = [joinPC EXCEPT ![j] = "tell"]
     /\ UNCHANGED <<life, nodeIndex, deadNodeList, connMap, stored, peer, transit>>

(* The peer crashed before it replied.  The constructor retries its buddy  *)
(* for ever, counts another node as dead, and ignores a failed Transfer.   *)
CallLost(j, pc) ==
  /\ Joining(j) /\ joinPC[j] = pc
  /\ call[j] # "none" /\ life[peer[j]] = "crashed"
  /\ call' = [call EXCEPT ![j] = "none"]

BuddyLost(j) ==
  /\ CallLost(j, "register")
  /\ UNCHANGED <<life, nodeList, nodeIndex, deadNodeList, connMap, stored,
                 tasks, joinPC, told, peer, transit>>

NodeLost(j) ==
  /\ CallLost(j, "tell")
  /\ MarkDead(j, peer[j])
  /\ told' = [told EXCEPT ![j] = @ + 1]
  /\ UNCHANGED <<life, nodeList, nodeIndex, connMap, stored, tasks, joinPC,
                 peer, transit>>

TransferNeverFails(j) == FALSE
TransferLost(j) ==
  /\ CallLost(j, "fetch")
  /\ joinPC' = [joinPC EXCEPT ![j] = "open"]
  /\ transit' = [transit EXCEPT ![j] = {}]
  /\ UNCHANGED <<life, nodeList, nodeIndex, deadNodeList, connMap, stored,
                 tasks, told, peer>>

-----------------------------------------------------------------------------
(* Hand-over of data: the constructor and TransferData at peer[j].         *)

(* The position in nodeList of the node to take data from.                 *)
FetchFromSelf(j) == nodeIndex[j] + 1
FetchFrom(j) ==
  IF nodeIndex[j] + 1 = Len(nodeList[j]) THEN 1 ELSE nodeIndex[j] + 2

Fetching(j) == Joining(j) /\ joinPC[j] = "fetch" /\ call[j] = "none"

CallTransfer(j) ==
  /\ Fetching(j) /\ FetchFrom(j) <= Len(nodeList[j])
  /\ Calls(j, "index", nodeList[j][FetchFrom(j)])
  /\ UNCHANGED <<life, nodeList, nodeIndex, deadNodeList, connMap, stored,
                 tasks, joinPC, told, transit>>

NobodyToFetchFrom(j) ==
  /\ Fetching(j) /\ FetchFrom(j) <= Len(nodeList[j])
  /\ Refuses(nodeList[j][FetchFrom(j)])
  /\ MarkDead(j, nodeList[j][FetchFrom(j)])
  /\ joinPC' = [joinPC EXCEPT ![j] = "open"]
  /\ UNCHANGED <<life, nodeList, nodeIndex, connMap, stored, tasks, told, call,
                 peer, transit>>

(* Indexing beyond the list is a run-time panic: the process dies.         *)
FetchPanics(j) ==
  /\ Fetching(j) /\ FetchFrom(j) > Len(nodeList[j])
  /\ Halt(j)

(* The handler returns at once when it has no data; otherwise it sorts its *)
(* list and looks up its OWN index in it.                                  *)
TransferIndex(j) ==
  LET p == peer[j]
  IN /\ Handling(j, "index")
     /\ IF stored[p] = {}
        THEN /\ call' = [call EXCEPT ![j] = "adopt"]
             /\ UNCHANGED nodeList
        ELSE /\ nodeList' = [nodeList EXCEPT ![p] = Sorted(@)]
             /\ call' = [call EXCEPT ![j] =
                  IF Reindex(Sorted(nodeList[p]), p, 0) = 0
                  THEN "scanAtFront" ELSE "scan"]
     /\ UNCHANGED <<life, nodeIndex, deadNodeList, connMap, stored, tasks,
                    joinPC, told, peer, transit>>

(* The keys that match leave the giver's maps before the reply is sent.    *)
CopyKeys(p, j, given) ==
  /\ transit' = [transit EXCEPT ![j] = IF Joining(j) THEN given ELSE {}]
  /\ UNCHANGED stored
EmptyMaps(p, j, given) ==
  /\ stored' = [stored EXCEPT ![p] = {}]
  /\ transit' = [transit EXCEPT ![j] = IF Joining(j) THEN given ELSE {}]
PushKeys(p, j, given) ==
  /\ stored' = [stored EXCEPT ![p] = @ \ given, ![j] = @ \cup given]
  /\ UNCHANGED transit
GiveKeys(p, j, given) ==
  /\ stored' = [stored EXCEPT ![p] = @ \ given]
  /\ transit' = [transit EXCEPT ![j] = IF Joining(j) THEN given ELSE {}]

TransferScan(j) ==
  LET p     == peer[j]
      given == {k \in stored[p] :
                  Moves(nodeList[p], call[j] = "scanAtFront", j, k)}
  IN /\ Handling(j, "scan") \/ Handling(j, "scanAtFront")
     /\ IF nodeList[p] = << >> /\ \E k \in stored[p] : k > j
        THEN Halt(p)
        ELSE /\ GiveKeys(p, j, given)
             /\ call' = [call EXCEPT ![j] = IF Joining(j) THEN "adopt" ELSE "none"]
             /\ UNCHANGED <<life, nodeList, nodeIndex, deadNodeList, connMap,
                            tasks, joinPC, told, peer>>

Adopt(j) ==
  /\ Joining(j) /\ call[j] = "adopt"
  /\ stored' = [stored EXCEPT ![j] = @ \cup transit[j]]
  /\ transit' = [transit EXCEPT ![j] = {}]
  /\ call' = [call EXCEPT ![j] = "none"]
  /\ joinPC' = [joinPC EXCEPT ![j] = "open"]
  /\ UNCHANGED <<life, nodeList, nodeIndex, deadNodeList, connMap, tasks, told,
                 peer>>

(* The constructor ends by spawning its own skip list calculation; main    *)
(* then serves.                                                            *)
Open(j) ==
  /\ Joining(j) /\ joinPC[j] = "open"
  /\ life' = [life EXCEPT ![j] = "serving"]
  /\ Recalculate(j, j, FreshSlot)
  /\ joinPC' = [joinPC EXCEPT ![j] = "done"]
  /\ UNCHANGED <<nodeList, nodeIndex, deadNodeList, connMap, stored, told, call,
                 peer, transit>>

-----------------------------------------------------------------------------
(* iCalculateSkipList and collectBodies, goroutine t of server t.at.       *)

Become(t, u) == tasks' = (tasks \ {t}) \cup {u}

ClearSkipList(t) ==
  /\ t.phase = "clear"
  /\ connMap' = [connMap EXCEPT ![t.at] = NoConnections]
  /\ Become(t, [t EXCEPT !.phase = "choose"])
  /\ UNCHANGED <<life, ringVars, deadNodeList, stored, joinVars>>

(* The nodes to dial are read off nodeList without its lock.               *)
ChooseNodes(t) ==
  /\ t.phase = "choose"
  /\ Become(t, [t EXCEPT
       !.phase = "dial",
       !.todo = SkipTargets(nodeList[t.at], nodeIndex[t.at], FullMesh),
       !.everybody = Len(nodeList[t.at]) <= FullMesh])
  /\ UNCHANGED <<life, ringVars, deadNodeList, connMap, stored, joinVars>>

Dialling(t) == t.phase = "dial" /\ t.todo # << >>

(* Where all nodes are dialled the code does not look whether it succeeded *)
(* and records the nil client it got.                                      *)
AfterRefusal(t) ==
  IF t.everybody THEN [t EXCEPT !.phase = "recordNil"]
                 ELSE [t EXCEPT !.todo = Tail(@)]

DialNode(t) ==
  LET node == Head(t.todo)
  IN /\ Dialling(t)
     /\ \/ /\ node = t.at
           /\ Become(t, [t EXCEPT !.todo = Tail(@)])
           /\ UNCHANGED deadNodeList
        \/ /\ node # t.at /\ Answers(node)
           /\ Become(t, [t EXCEPT !.phase = "record"])
           /\ UNCHANGED deadNodeList
        \/ /\ node # t.at /\ Refuses(node)
           /\ MarkDead(t.at, node)
           /\ Become(t, AfterRefusal(t))
     /\ UNCHANGED <<life, ringVars, connMap, stored, joinVars>>

RecordConnection(t) ==
  /\ t.phase \in {"record", "recordNil"} /\ t.todo # << >>
  /\ connMap' = [connMap EXCEPT ![t.at][Head(t.todo)] =
                   IF t.phase = "record" THEN "client" ELSE "nil"]
  /\ Become(t, [t EXCEPT !.phase = "dial", !.todo = Tail(@)])
  /\ UNCHANGED <<life, ringVars, deadNodeList, stored, joinVars>>

(* go collectBodies: in the constructor the caller goes on beside it.      *)
EndSkipList(t) ==
  /\ t.phase = "dial" /\ t.todo = << >>
  /\ Become(t, IF IsMain(t)
               THEN TaskIn("collect", t.at, t.by, CleanupSlot, << >>)
               ELSE [t EXCEPT !.phase = "collect"])
  /\ joinPC' = [j \in Newcomer |->
                  IF IsMain(t) /\ j = t.at THEN "fetch" ELSE joinPC[j]]
  /\ UNCHANGED <<life, ringVars, deadNodeList, connMap, stored, told, call,
                 peer, transit>>

CollectNothing(t) ==
  /\ t.phase = "collect"
  /\ tasks' = tasks \ {t}
  /\ UNCHANGED <<life, ringVars, deadNodeList, connMap, stored, joinVars>>
CollectWithoutUnlock(t) ==
  /\ t.phase = "collect" /\ DeadListFree(t.at)
  /\ Become(t, [t EXCEPT !.phase = "bury", !.todo = deadNodeList[t.at]])
  /\ UNCHANGED <<life, ringVars, deadNodeList, connMap, stored, joinVars>>
CollectBodies(t) ==
  /\ t.phase = "collect" /\ DeadListFree(t.at)
  /\ IF deadNodeList[t.at] = << >>
     THEN tasks' = tasks \ {t}
     ELSE Become(t, [t EXCEPT !.phase = "bury", !.todo = deadNodeList[t.at]])
  /\ UNCHANGED <<life, ringVars, deadNodeList, connMap, stored, joinVars>>

(* One dead node leaves the list; the last one empties deadNodeList.       *)
Bury(t) ==
  LET last == Tail(t.todo) = << >>
  IN /\ t.phase = "bury" /\ t.todo # << >>
     /\ nodeList' = [nodeList EXCEPT ![t.at] = RemoveDead(@, Head(t.todo))]
     /\ deadNodeList' = [deadNodeList EXCEPT ![t.at] =
                           IF last THEN << >> ELSE @]
     /\ Become(t, [t EXCEPT !.phase = IF last THEN "resort" ELSE "bury",
                            !.todo = Tail(@)])
     /\ UNCHANGED <<life, nodeIndex, connMap, stored, joinVars>>

Resort(t) ==
  /\ t.phase = "resort"
  /\ SortList(t.at)
  /\ Become(t, [t EXCEPT !.phase = "clear"])
  /\ UNCHANGED <<life, deadNodeList, connMap, stored, joinVars>>

RunTask(t) ==
  \/ ClearSkipList(t) \/ ChooseNodes(t) \/ DialNode(t) \/ RecordConnection(t)
  \/ EndSkipList(t) \/ CollectBodies(t) \/ Bury(t) \/ Resort(t)

-----------------------------------------------------------------------------
(* What runs by itself once started: the constructor of j and its call ... *)
Join(j) ==
  \/ CallBuddy(j) \/ CallNode(j) \/ SkipNode(j) \/ EveryoneTold(j)
  \/ RegisterAppend(j) \/ RegisterSort(j) \/ RegisterReply(j)
  \/ BuddyLost(j) \/ NodeLost(j) \/ TransferLost(j)
  \/ CallTransfer(j) \/ NobodyToFetchFrom(j) \/ FetchPanics(j)
  \/ TransferIndex(j) \/ TransferScan(j) \/ Adopt(j) \/ Open(j)

(* ... and the goroutines of s.                                            *)
Background(s) == \E t \in tasks : t.at = s /\ RunTask(t)

Next ==
  \/ \E j \in Newcomer : Start(j) \/ Join(j)
  \/ \E s \in Server : Background(s) \/ Crash(s)

Spec == Init /\ [][Next]_vars

(* The Go scheduler runs every goroutine that is not blocked.              *)
Fairness ==
  /\ \A j \in Newcomer : WF_vars(Join(j))
  /\ \A s \in Server : WF_vars(Background(s))

FairSpec == Spec /\ Fairness

-----------------------------------------------------------------------------
(* Properties.                                                             *)

Serving == {s \in Server : life[s] = "serving"}
Crashed == {s \in Server : life[s] = "crashed"}

Undisturbed == Crashed = {}
Settled     == \A s \in Server : life[s] # "starting"
Quiet       == Settled /\ tasks = {}

HeldBy(k)   == {s \in Server : k \in stored[s]}
MovingTo(k) == {j \in Newcomer : k \in transit[j]}

(* A key is in one place at most: in the maps of one server or in one      *)
(* Transfer reply on its way to one newcomer, whatever crashes meanwhile.  *)
(* TransferData deletes at the giver, iNewStorageserver adds at the        *)
(* newcomer.                                                               *)
NeverDuplicated ==
  \A k \in Key :
    /\ \A s, t \in HeldBy(k) : s = t
    /\ \A i, j \in MovingTo(k) : i = j
    /\ HeldBy(k) = {} \/ MovingTo(k) = {}

(* As long as no process dies, no hand-over loses a key, although the      *)
(* giver deletes it before the newcomer has it.                            *)
NothingLost ==
  Undisturbed => \A k \in Key : HeldBy(k) \cup MovingTo(k) # {}

(* Once the newcomers serve and the goroutines have ended, every server    *)
(* has the same sorted list of all servers.                                *)
RingKnown ==
  Quiet /\ Undisturbed =>
    \A s \in Serving : Increasing(nodeList[s]) /\ Range(nodeList[s]) = Serving

(* Goroutines that clear and refill connMap in turn leave a connection to  *)
(* each node their calculation asks for, and to no other.                  *)
SkipListComplete ==
  Quiet /\ Undisturbed =>
    \A s \in Serving, n \in Server :
      LET targets == Range(SkipTargets(nodeList[s], nodeIndex[s], FullMesh)) \ {s}
      IN connMap[s][n] = IF n \in targets THEN "client" ELSE "none"

(* Whatever they ask for, they leave each server connected to the one      *)
(* after it on the ring, the step by which any request can be passed on to *)
(* its owner.  In a large ring a skip list is a matter of positions, so    *)
(* that the server has to have its own one right, as a newcomer need not.  *)
KnowsItsPlace(s) == nodeIndex[s] = Reindex(nodeList[s], s, 0)
SuccessorConnected ==
  Quiet /\ Undisturbed =>
    \A s \in Serving :
      Serving # {s} /\ (Len(nodeList[s]) <= FullMesh \/ KnowsItsPlace(s))
        => connMap[s][Successor(Serving \ {s}, s)] = "client"

(* What a newcomer takes over is all that "may now hash into our range":   *)
(* in the ring of all servers, checkServer looks for a key where it is.    *)
KeysAtOwner ==
  Quiet /\ Undisturbed =>
    \A s \in Serving : \A k \in stored[s] : s = Successor(Serving, k)

(* A nil client, which makes a server answer requests with nothing done,   *)
(* stands for a node that is dead, never for one that is slow to serve.    *)
NilOnlyForDead ==
  \A s, n \in Server : connMap[s][n] = "nil" => n \in Crashed

(* Joining counts nobody as dead that is alive.                            *)
OnlyTheDeadMarked == \A s \in Server : Range(deadNodeList[s]) \subseteq Crashed

(* A node marked dead, by whichever goroutine and at whatever moment, has  *)
(* been collected when the last goroutine of the server ends.              *)
BodiesCollected == Quiet => \A s \in Server : deadNodeList[s] = << >>

(* Every server that is started comes to serve, when nothing crashes.      *)
NewcomerServes == \A j \in Newcomer : life[j] = "starting" ~> life[j] = "serving"

(* A newcomer its buddy has registered comes to the end of its constructor *)
(* although another server crashes under it.                               *)
RegisteredServes ==
  [](Cardinality(Crashed) <= 1) =>
    \A j \in Newcomer :
      (life[j] = "starting" /\ joinPC[j] # "register") ~> life[j] # "starting"

(* Rebuilding skip lists and collecting dead nodes, each of which starts   *)
(* the other, come to an end.                                              *)
GoroutinesEnd == <>[](tasks = {})

(* The placement of the keys, as KeyPlacement describes it.                *)
place == [k \in Key |->
  IF MovingTo(k) # {} THEN [is |-> "moving", at |-> CHOOSE j \in MovingTo(k) : TRUE]
  ELSE IF HeldBy(k) # {} THEN [is |-> "held", at |-> CHOOSE s \in HeldBy(k) : TRUE]
  ELSE [is |-> "lost"]]

Placement == INSTANCE KeyPlacement WITH place <- place

(* Key by key, joining, handing over and crashing is what KeyPlacement     *)
(* allows: a key leaves a server only towards one newcomer, arrives there  *)
(* together with the others, and never reappears once lost.                *)
PlacementSpec == Placement!Spec
=============================================================================
