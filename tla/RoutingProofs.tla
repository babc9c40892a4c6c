---------------------------- MODULE RoutingProofs ----------------------------
(***************************************************************************)
(* Requests on a ring nobody joins and that has lost nobody yet: whatever  *)
(* the servers, their number and the threshold of the skip lists, a        *)
(* request is served by the owner of its key.                              *)
(***************************************************************************)
EXTENDS StorageRouting, RingProofs

-----------------------------------------------------------------------------
(* The lists and the skip lists of such a ring.                            *)

(* The list of server s is in order and s finds itself in it.              *)
ListOf(s, list, index) ==
  /\ list \in Seq(Server)
  /\ Increasing(list)
  /\ Range(list) = Server
  /\ index \in Nat
  /\ index < Len(list)
  /\ list[index + 1] = s

(* A server that is not alone has somebody in its skip list, and a client  *)
(* for everybody in it.                                                    *)
Connected(s) ==
  /\ \A n \in Server : connMap[s][n] # "nil"
  /\ Server # {s} => Entries(s) # {}

RingAtRest ==
  /\ life = [s \in Server |-> "serving"]
  /\ tasks = {}
  /\ nodeList \in [Server -> Seq(Server)]
  /\ nodeIndex \in [Server -> Nat]
  /\ \A s \in Server : ListOf(s, nodeList[s], nodeIndex[s]) /\ Connected(s)

(* A request has not met an error, looks for another server only where it  *)
(* does not belong and is served only where it does.                       *)
OnItsWay(c) ==
  /\ c \in Chain
  /\ c.hops # << >>
  /\ c.phase \notin {"failed", "collect", "await"}
  /\ c.phase \in {"above", "wrap"} => Here(c) # Successor(Server, c.key)
  /\ c.phase = "serve" => Here(c) = Successor(Server, c.key)

RouteInv ==
  Newcomer = {} =>
    /\ life \in [Server -> {"serving", "crashed"}]
    /\ Undisturbed => RingAtRest /\ \A c \in chains : OnItsWay(c)

-----------------------------------------------------------------------------
(* Lists.                                                                  *)

(* A server finds itself in a list of all servers.                         *)
LEMMA FindsItself ==
  ASSUME NEW s \in Server, NEW list \in Seq(Server), NEW index,
         Increasing(list), Range(list) = Server
  PROVE  ListOf(s, list, Reindex(list, s, index))
  BY ReindexFinds DEF ListOf

(* Sorting the list of a server and looking the server up again.           *)
LEMMA SortedList ==
  ASSUME NEW s \in Server, NEW list, NEW index, ListOf(s, list, index)
  PROVE  ListOf(s, Sorted(list), Reindex(Sorted(list), s, index))
<1>1. list \in Seq(Nat) /\ list \in Seq(Server) /\ Server \in SUBSET Nat
  BY ListOfNumbers, RingAssumption DEF ListOf
<1>2. Sorted(list) \in Seq(Server)
  BY <1>1, SortedType
<1>3. Range(Sorted(list)) = Server /\ Increasing(Sorted(list))
  BY <1>1, SortedSorts, IncreasingIsDifferent DEF ListOf, Different
<1>4. QED
  BY <1>2, <1>3, FindsItself

(* The ownership test of a server at rest.                                 *)
LEMMA ClaimsItsOwn ==
  ASSUME NEW s \in Server, NEW list, NEW index, ListOf(s, list, index),
         NEW key \in Nat
  PROVE  Claims(list, index, key) <=> s = Successor(Server, key)
<1>1. list \in Seq(Nat)
  BY ListOfNumbers, RingAssumption DEF ListOf
<1>2. index \in Nat /\ index + 1 \in 1..Len(list) /\ (index + 1) - 1 = index
  BY <1>1 DEF ListOf
<1>3. Claims(list, (index + 1) - 1, key)
        <=> list[index + 1] = Successor(Range(list), key)
  BY <1>1, <1>2, ClaimsIsSuccessor DEF ListOf
<1>4. QED
  BY <1>2, <1>3 DEF ListOf

(* Whatever the threshold, the skip list calculation of a server that is   *)
(* not alone finds another server.                                         *)
LEMMA SomebodyToDial ==
  ASSUME NEW s \in Server, NEW list, NEW index, ListOf(s, list, index),
         Server # {s}
  PROVE  \E n \in Server : n # s /\ n \in Range(SkipTargets(list, index, FullMesh))
<1>1. list \in Seq(Nat) /\ list \in Seq(Server) /\ Len(list) \in Nat
  BY ListOfNumbers, RingAssumption DEF ListOf
<1>2. CASE Len(list) <= FullMesh
  <2>1. SkipTargets(list, index, FullMesh) = list
    BY <1>2 DEF SkipTargets
  <2>2. QED
    BY <2>1 DEF ListOf
<1>3. CASE ~(Len(list) <= FullMesh)
  <2> DEFINE n == Len(list)
             next == list[((index + 1) % n) + 1]
  <2>1. /\ \A i \in 1..n : list[i] \in Server
        /\ \A x \in Server : \E i \in 1..n : x = list[i]
    BY <1>1, RangeOfList DEF ListOf
  <2>2. index \in Nat /\ index + 1 \in 1..n /\ list[index + 1] = s
    BY <1>1 DEF ListOf
  <2>3. n > 1
    BY <1>1, <2>1, <2>2
  <2>4. ((index + 1) % n) + 1 \in 1..n /\ ((index + 1) % n) + 1 # index + 1
    <3>1. CASE index + 1 < n
      BY <1>1, <2>2, <2>3, <3>1
    <3>2. CASE index + 1 = n
      BY <1>1, <2>2, <2>3, <3>2
    <3>3. QED
      BY <1>1, <2>2, <3>1, <3>2
  <2>5. next \in Server /\ next # s
    BY <1>1, <2>1, <2>2, <2>4, IncreasingIsDifferent DEF ListOf, Different
  <2>6. SkipTargets(list, index, FullMesh)[2] = next
    BY <1>3 DEF SkipTargets
  <2>7. 2 \in DOMAIN SkipTargets(list, index, FullMesh)
    BY <1>3 DEF SkipTargets
  <2>8. next \in Range(SkipTargets(list, index, FullMesh))
    BY <2>6, <2>7 DEF Range
  <2>9. QED
    BY <2>5, <2>8
<1>4. QED
  BY <1>2, <1>3

(* A server a key does not belong to is not alone.                         *)
LEMMA NotAlone ==
  ASSUME NEW s \in Server, NEW key \in Nat, s # Successor(Server, key)
  PROVE  Server # {s}
<1> SUFFICES ASSUME Server = {s} PROVE FALSE
  OBVIOUS
<1> DEFINE above == {n \in Server : key <= n}
<1>1. Server \in SUBSET Nat /\ above \in SUBSET Server
  BY RingAssumption
<1>2. CASE above # {}
  BY <1>1, <1>2, MinOfNat DEF Successor
<1>3. CASE above = {}
  BY <1>1, <1>3, MinOfNat DEF Successor
<1>4. QED
  BY <1>2, <1>3

(* The lowest entry of a skip list, wherever the map is not empty: no      *)
(* entry is above the last node of the list.                               *)
LEMMA LowestIsEntry ==
  ASSUME NEW s \in Server, ListOf(s, nodeList[s], nodeIndex[s]), Entries(s) # {}
  PROVE  Lowest(s) \in Entries(s)
<1> DEFINE list == nodeList[s]
           last == list[Len(list)]
           nodes == Entries(s) \cup {last}
<1>1. list \in Seq(Nat) /\ list \in Seq(Server) /\ Len(list) \in Nat /\ Len(list) > 0
  BY ListOfNumbers, RingAssumption DEF ListOf
<1>2. last \in Server /\ \A n \in Server : n <= last
  <2>1. /\ DOMAIN list = 1..Len(list)
        /\ \A i \in 1..Len(list) : list[i] \in Server /\ list[i] \in Nat
        /\ \A n \in Server : \E i \in 1..Len(list) : n = list[i]
    BY <1>1, RangeOfList DEF ListOf
  <2>2. ASSUME NEW i \in 1..Len(list) PROVE list[i] <= list[Len(list)]
    <3>1. CASE i = Len(list)
      BY <1>1, <2>1, <3>1
    <3>2. CASE i < Len(list)
      <4>1. Increasing(list)
        BY DEF ListOf
      <4>2. Len(list) \in DOMAIN list /\ i \in DOMAIN list
        BY <1>1, <2>1
      <4> HIDE DEF list
      <4>3. list[i] < list[Len(list)]
        BY <3>2, <4>1, <4>2 DEF Increasing
      <4>4. QED
        BY <1>1, <2>1, <4>3
    <3>3. QED
      BY <1>1, <3>1, <3>2
  <2>3. QED
    BY <1>1, <2>1, <2>2
<1>3. nodes \in SUBSET Nat /\ nodes # {}
  BY <1>2, RingAssumption DEF Entries
<1>4. Lowest(s) = Min(nodes)
  BY DEF Lowest
<1>5. Min(nodes) \in nodes /\ \A n \in nodes : Min(nodes) <= n
  BY <1>3, MinOfNat
<1>6. CASE Min(nodes) = last
  <2>1. PICK n \in Entries(s) : TRUE
    OBVIOUS
  <2>2. n <= last /\ last <= n /\ n \in Nat /\ last \in Nat
    BY <1>2, <1>3, <1>5, <1>6 DEF Entries
  <2>3. n = last
    BY <2>2
  <2>4. QED
    BY <1>4, <1>6, <2>3
<1>7. QED
  BY <1>4, <1>5, <1>6

-----------------------------------------------------------------------------
(* The invariant.                                                          *)

LEMMA RouteInit == RoutingInit => RouteInv
<1> SUFFICES ASSUME RoutingInit, Newcomer = {}
             PROVE  /\ life \in [Server -> {"serving", "crashed"}]
                    /\ RingAtRest /\ \A c \in chains : OnItsWay(c)
  BY DEF RouteInv
<1>1. Founder = Server
  BY RingAssumption DEF Newcomer
<1>2. life = [s \in Server |-> "serving"] /\ tasks = {} /\ chains = {}
  BY <1>1 DEF RoutingInit, Init
<1>3. PICK list \in [1..Cardinality(Server) -> Server] :
        /\ Increasing(list) /\ Range(list) = Server
        /\ nodeList = [s \in Server |-> list]
        /\ nodeIndex = [s \in Server |-> Reindex(list, s, 0)]
        /\ connMap = [s \in Server |->
             [n \in Server |->
               IF /\ n # s
                  /\ n \in Range(SkipTargets(list, Reindex(list, s, 0), FullMesh))
               THEN "client" ELSE "none"]]
  BY <1>1 DEF RoutingInit, Init
<1>4. list \in Seq(Server)
  <2>1. Cardinality(Server) \in Nat
    BY RingAssumption, FS_CardinalityType
  <2>2. QED
    BY <2>1
<1>5. \A s \in Server : ListOf(s, list, Reindex(list, s, 0))
  BY <1>3, <1>4, FindsItself
<1>6. nodeIndex \in [Server -> Nat]
  BY <1>3, <1>5 DEF ListOf
<1>7. ASSUME NEW s \in Server
      PROVE  ListOf(s, nodeList[s], nodeIndex[s]) /\ Connected(s)
  <2>1. ListOf(s, nodeList[s], nodeIndex[s])
    BY <1>3, <1>5
  <2>2. \A n \in Server : connMap[s][n] \in {"client", "none"}
    BY <1>3
  <2>3. ASSUME Server # {s} PROVE Entries(s) # {}
    <3>1. PICK n \in Server :
            n # s /\ n \in Range(SkipTargets(list, Reindex(list, s, 0), FullMesh))
      BY <1>5, <2>3, SomebodyToDial
    <3>2. connMap[s][n] = "client"
      BY <1>3, <3>1
    <3>3. QED
      BY <3>2 DEF Entries
  <2>4. QED
    BY <2>1, <2>2, <2>3 DEF Connected
<1>8. QED
  BY <1>2, <1>3, <1>4, <1>6, <1>7 DEF RingAtRest

(* The running handler of a request takes it somewhere.                    *)
LEMMA GoesOn ==
  ASSUME \A c \in chains : OnItsWay(c), NEW c, NEW d, Goes(c, d), OnItsWay(d)
  PROVE  \A e \in chains' : OnItsWay(e)
  BY DEF Goes

LEMMA HopTypes ==
  ASSUME NEW c, OnItsWay(c)
  PROVE  /\ c \in Chain
         /\ c.hops \in Seq(Hop) /\ Len(c.hops) \in Nat /\ Len(c.hops) > 0
         /\ c.hops[Len(c.hops)] \in Hop
         /\ Here(c) \in Server
         /\ c.key \in Nat
<1>1. c \in Chain /\ c.hops \in Seq(Hop) /\ c.hops # << >>
  BY DEF OnItsWay, Chain
<1>2. Len(c.hops) \in Nat /\ Len(c.hops) > 0 /\ c.hops[Len(c.hops)] \in Hop
  BY <1>1
<1>3. Here(c) \in Server
  BY <1>2 DEF Here, Hop
<1>4. c.key \in Nat
  BY <1>1, RingAssumption DEF Chain
<1>5. QED
  BY <1>1, <1>2, <1>3, <1>4

(* Another phase of the same handler.                                      *)
LEMMA EntersOnItsWay ==
  ASSUME NEW c, OnItsWay(c), NEW phase \in Stage,
         phase \notin {"failed", "collect", "await"},
         phase \in {"above", "wrap"} => Here(c) # Successor(Server, c.key),
         phase = "serve" => Here(c) = Successor(Server, c.key)
  PROVE  OnItsWay([c EXCEPT !.phase = phase])
<1> DEFINE d == [c EXCEPT !.phase = phase]
<1>1. c \in Chain
  BY DEF OnItsWay
<1>2. d \in Chain /\ d.hops = c.hops /\ d.key = c.key /\ d.phase = phase
  BY <1>1 DEF Chain
<1>3. Here(d) = Here(c)
  BY <1>2 DEF Here
<1> HIDE DEF d
<1>4. OnItsWay(d)
  BY <1>2, <1>3 DEF OnItsWay
<1>5. QED
  BY <1>4 DEF d

(* Any handler, on the way back or about to check.                         *)
LEMMA MovesOnItsWay ==
  ASSUME NEW c, OnItsWay(c), NEW hops \in Seq(Hop), hops # << >>,
         NEW phase \in {"check", "call", "return"}
  PROVE  OnItsWay([c EXCEPT !.hops = hops, !.phase = phase])
<1> DEFINE d == [c EXCEPT !.hops = hops, !.phase = phase]
<1>1. c \in Chain
  BY DEF OnItsWay
<1>2. d \in Chain /\ d.hops = hops /\ d.phase = phase
  BY <1>1 DEF Chain, Stage
<1> HIDE DEF d
<1>3. OnItsWay(d)
  BY <1>2 DEF OnItsWay
<1>4. QED
  BY <1>3 DEF d

(* The handler that leaves checkServer with a client calls through it.     *)
LEMMA LeaveOnItsWay ==
  ASSUME \A c \in chains : OnItsWay(c), NEW c, OnItsWay(c),
         NEW n \in Server, NEW node \in Server \cup {NoNode}, Leave(c, n, node)
  PROVE  \A e \in chains' : OnItsWay(e)
<1>1. CASE connMap[Here(c)][n] = "nil"
  <2>1. OnItsWay([c EXCEPT !.phase = "return"])
    BY EntersOnItsWay DEF Stage
  <2>2. QED
    BY <1>1, <2>1, GoesOn DEF Leave, Enters
<1>2. CASE connMap[Here(c)][n] # "nil"
  <2> DEFINE hop  == [Arrive(Here(c)) EXCEPT !.node = node, !.to = n, !.link = "open"]
             hops == Front(c.hops) \o <<hop>>
  <2>1. hop \in Hop
    BY HopTypes DEF Arrive, Hop
  <2>2. Front(c.hops) \in Seq(Hop)
    BY HopTypes DEF Front
  <2> HIDE DEF hop
  <2>3. hops \in Seq(Hop) /\ hops # << >>
    BY <2>1, <2>2
  <2>4. OnItsWay([c EXCEPT !.hops = hops, !.phase = "call"])
    <3> HIDE DEF hops
    <3>1. QED
      BY <2>3, MovesOnItsWay
  <2>5. Goes(c, [c EXCEPT !.hops = hops, !.phase = "call"])
    <3>1. c \in Chain
      BY HopTypes
    <3>2. WithLast(c, hop, "call") = [c EXCEPT !.hops = hops, !.phase = "call"]
      BY <3>1 DEF WithLast, Chain
    <3>3. QED
      BY <1>2, <3>2 DEF Leave, hop
  <2>6. QED
    BY <2>4, <2>5, GoesOn
<1>3. QED
  BY <1>1, <1>2

-----------------------------------------------------------------------------
(* The steps.                                                              *)

(* Nobody starts, and crashes are final.                                   *)
LEMMA LifeStep ==
  ASSUME Newcomer = {}, life \in [Server -> {"serving", "crashed"}],
         [RoutingNext]_allVars
  PROVE  life' \in [Server -> {"serving", "crashed"}] /\ Crashed \subseteq Crashed'
<1>1. ASSUME NEW s, Halt(s)
      PROVE  life' \in [Server -> {"serving", "crashed"}] /\ Crashed \subseteq Crashed'
  BY <1>1 DEF Halt, Crashed
<1>2. ASSUME UNCHANGED life
      PROVE  life' \in [Server -> {"serving", "crashed"}] /\ Crashed \subseteq Crashed'
  BY <1>2 DEF Crashed
<1>3. CASE RingStep
  <2>1. ASSUME NEW s \in Server, Crash(s) PROVE Halt(s)
    BY <2>1 DEF Crash
  <2>2. ASSUME NEW t \in tasks, RunTask(t) PROVE UNCHANGED life
    BY <2>2 DEF RunTask, ClearSkipList, ChooseNodes, DialNode, RecordConnection,
                EndSkipList, CollectBodies, Bury, Resort
  <2>3. QED
    BY <1>1, <1>2, <1>3, <2>1, <2>2 DEF RingStep, Next, Background
<1>4. ASSUME NEW c \in Client, Ask(c) PROVE UNCHANGED life
  BY <1>4 DEF Ask, vars
<1>5. ASSUME NEW c \in chains, Run(c) PROVE (\E s : Halt(s)) \/ UNCHANGED life
  <2>1. CASE TestClaim(c)
    BY <2>1 DEF TestClaim, vars
  <2>2. CASE SeekLowest(c)
    BY <2>2 DEF SeekLowest, vars
  <2>3. CASE ~(TestClaim(c) \/ SeekLowest(c))
    BY <1>5, <2>3
       DEF Run, Seek, SortAndIndex, NoneAbove, SeekAbove, Forward, CallFails,
           Blame, Collect, Retry, Serve, Return, vars
  <2>4. QED
    BY <2>1, <2>2, <2>3
<1>6. QED
  BY <1>1, <1>2, <1>3, <1>4, <1>5 DEF RoutingNext, allVars, vars

(* No goroutine runs: the ring only crashes.                               *)
LEMMA OnlyCrashes ==
  ASSUME Newcomer = {}, RingAtRest, RingStep
  PROVE  Crashed' # {}
<1>1. PICK s \in Server : Crash(s)
  BY DEF RingStep, Next, Background, RingAtRest
<1>2. life'[s] = "crashed"
  BY <1>1 DEF Crash, Halt, RingAtRest
<1>3. QED
  BY <1>2 DEF Crashed

LEMMA RestUnchanged ==
  ASSUME RingAtRest, UNCHANGED <<life, nodeList, nodeIndex, connMap, tasks>>
  PROVE  RingAtRest'
  BY DEF RingAtRest, Connected, Entries

(* Sorting its list, a server finds itself where it was.                   *)
LEMMA SortRests ==
  ASSUME RingAtRest, NEW s \in Server, SortList(s),
         UNCHANGED <<life, connMap, tasks>>
  PROVE  RingAtRest' /\ nodeIndex'[s] < Len(nodeList'[s])
<1>1. /\ nodeList \in [Server -> Seq(Server)] /\ nodeIndex \in [Server -> Nat]
      /\ \A n \in Server : ListOf(n, nodeList[n], nodeIndex[n]) /\ Connected(n)
  BY DEF RingAtRest
<1>2. /\ nodeList'[s] = Sorted(nodeList[s])
      /\ nodeIndex'[s] = Reindex(Sorted(nodeList[s]), s, nodeIndex[s])
      /\ \A n \in Server \ {s} :
           nodeList'[n] = nodeList[n] /\ nodeIndex'[n] = nodeIndex[n]
  BY <1>1 DEF SortList
<1>3. ListOf(s, nodeList'[s], nodeIndex'[s])
  BY <1>1, <1>2, SortedList
<1>4. \A n \in Server : ListOf(n, nodeList'[n], nodeIndex'[n])
  BY <1>1, <1>2, <1>3
<1>5. nodeList' \in [Server -> Seq(Server)] /\ nodeIndex' \in [Server -> Nat]
  BY <1>1, <1>2, <1>3 DEF SortList, ListOf
<1>6. \A n \in Server : Connected(n)'
  BY <1>1 DEF Connected, Entries
<1>7. RingAtRest'
  BY <1>4, <1>5, <1>6 DEF RingAtRest
<1>8. QED
  BY <1>3, <1>7 DEF ListOf

(* A request of a client starts at a server of the ring.                   *)
LEMMA AskRests ==
  ASSUME RingAtRest, \A e \in chains : OnItsWay(e), NEW c \in Client, Ask(c)
  PROVE  RingAtRest' /\ \A e \in chains' : OnItsWay(e)
<1>1. RingAtRest'
  BY RestUnchanged DEF Ask, vars
<1>2. Contact[c] \in Server
  BY RingAssumption, RoutingAssumption
<1>3. ASSUME NEW op \in Op, NEW k \in Key
      PROVE  OnItsWay([client |-> c, awaited |-> TRUE, op |-> op, key |-> k,
                       hops |-> <<Arrive(Contact[c])>>, phase |-> "check",
                       status |-> "zero"])
  <2>1. <<Arrive(Contact[c])>> \in Seq(Hop)
    BY <1>2 DEF Arrive, Hop
  <2>2. QED
    BY <2>1 DEF OnItsWay, Chain, Stage, Status
<1>4. QED
  BY <1>1, <1>3 DEF Ask

LEMMA RunRests ==
  ASSUME RingAtRest, \A e \in chains : OnItsWay(e), NEW c \in chains, Run(c)
  PROVE  RingAtRest' /\ \A e \in chains' : OnItsWay(e)
<1>1. OnItsWay(c) /\ c.phase \notin {"failed", "collect", "await"}
  BY DEF OnItsWay
<1>2. /\ c \in Chain /\ c.hops \in Seq(Hop)
      /\ Len(c.hops) \in Nat /\ Len(c.hops) > 0
      /\ c.hops[Len(c.hops)] \in Hop
      /\ Here(c) \in Server /\ c.key \in Nat
  BY <1>1, HopTypes
<1>3. /\ \A s \in Server : life[s] = "serving"
      /\ ListOf(Here(c), nodeList[Here(c)], nodeIndex[Here(c)])
      /\ Connected(Here(c))
  BY <1>2 DEF RingAtRest
<1>4. UNCHANGED vars => RingAtRest'
  BY RestUnchanged DEF vars
<1>5. ASSUME NEW phase \in {"check", "serve", "above", "wrap", "return"},
             phase \in {"above", "wrap"} => Here(c) # Successor(Server, c.key),
             phase = "serve" => Here(c) = Successor(Server, c.key),
             Enters(c, phase)
      PROVE  \A e \in chains' : OnItsWay(e)
  <2>1. OnItsWay([c EXCEPT !.phase = phase])
    BY <1>1, <1>5, EntersOnItsWay DEF Stage
  <2>2. QED
    BY <1>5, <2>1, GoesOn DEF Enters
<1>6. CASE SortAndIndex(c)
  <2>1. SortList(Here(c)) /\ UNCHANGED <<life, connMap, tasks>>
    BY <1>6 DEF SortAndIndex
  <2>2. RingAtRest' /\ nodeIndex'[Here(c)] < Len(nodeList'[Here(c)])
    BY <1>2, <2>1, SortRests
  <2>3. ~(Len(nodeList'[Here(c)]) < nodeIndex'[Here(c)])
    <3>1. Len(nodeList'[Here(c)]) \in Nat /\ nodeIndex'[Here(c)] \in Nat
      BY <1>2, <2>2 DEF RingAtRest
    <3>2. QED
      BY <2>2, <3>1
  <2>4. Enters(c, "claim")
    BY <1>6, <2>3 DEF SortAndIndex
  <2>5. OnItsWay([c EXCEPT !.phase = "claim"])
    BY <1>1, EntersOnItsWay DEF Stage
  <2>6. QED
    BY <2>2, <2>4, <2>5, GoesOn DEF Enters
<1>7. CASE TestClaim(c)
  <2>1. ~(nodeIndex[Here(c)] >= Len(nodeList[Here(c)]))
    <3>1. Len(nodeList[Here(c)]) \in Nat
      BY <1>2 DEF RingAtRest
    <3>2. QED
      BY <1>3, <3>1 DEF ListOf
  <2>2. Claims(nodeList[Here(c)], nodeIndex[Here(c)], c.key)
          <=> Here(c) = Successor(Server, c.key)
    BY <1>2, <1>3, ClaimsItsOwn
  <2>3. CASE Here(c) = Successor(Server, c.key)
    <3>1. Enters(c, "serve") /\ UNCHANGED vars
      BY <1>7, <2>1, <2>2, <2>3 DEF TestClaim
    <3>2. QED
      BY <1>4, <1>5, <2>3, <3>1
  <2>4. CASE Here(c) # Successor(Server, c.key)
    <3>1. Enters(c, "above") /\ UNCHANGED vars
      BY <1>7, <2>1, <2>2, <2>4 DEF TestClaim
    <3>2. QED
      BY <1>4, <1>5, <2>4, <3>1
  <2>5. QED
    BY <2>3, <2>4
<1>8. CASE NoneAbove(c)
  <2>1. Here(c) # Successor(Server, c.key)
    BY <1>1, <1>8 DEF NoneAbove, OnItsWay
  <2>2. QED
    BY <1>4, <1>5, <1>8, <2>1 DEF NoneAbove
<1>9. ASSUME NEW n \in Server, SeekAbove(c, n)
      PROVE  RingAtRest' /\ \A e \in chains' : OnItsWay(e)
  <2> DEFINE above == {m \in Entries(Here(c)) : c.key < m}
             node  == Listed(Here(c), Min(above))
  <2>1. n \in above /\ Leave(c, n, node) /\ UNCHANGED vars
    BY <1>9 DEF SeekAbove
  <2>2. above \in SUBSET Nat /\ above \subseteq Server /\ above # {}
    BY <2>1, RingAssumption DEF Entries
  <2>3. Min(above) \in Server
    BY <2>2, MinOfNat
  <2>4. node \in Server \cup {NoNode}
    BY <2>3 DEF Listed
  <2> HIDE DEF node
  <2>5. \A e \in chains' : OnItsWay(e)
    BY <1>1, <2>1, <2>4, LeaveOnItsWay
  <2>6. QED
    BY <1>4, <2>1, <2>5
<1>10. CASE SeekLowest(c)
  <2>1. Here(c) # Successor(Server, c.key)
    BY <1>1, <1>10 DEF SeekLowest, OnItsWay
  <2>2. Entries(Here(c)) # {}
    BY <1>2, <1>3, <2>1, NotAlone DEF Connected
  <2>3. Lowest(Here(c)) \in Entries(Here(c))
    BY <1>2, <1>3, <2>2, LowestIsEntry
  <2>4. nodeList[Here(c)] # << >>
    BY <1>3 DEF ListOf
  <2>5. /\ Leave(c, Lowest(Here(c)), Listed(Here(c), Lowest(Here(c))))
        /\ UNCHANGED vars
    BY <1>10, <2>3, <2>4 DEF SeekLowest
  <2>6. Lowest(Here(c)) \in Server
    BY <2>3 DEF Entries
  <2>7. Listed(Here(c), Lowest(Here(c))) \in Server \cup {NoNode}
    BY <2>6 DEF Listed
  <2>8. \A e \in chains' : OnItsWay(e)
    BY <1>1, <2>5, <2>6, <2>7, LeaveOnItsWay
  <2>9. QED
    BY <1>4, <2>5, <2>8
<1>11. CASE Forward(c)
  <2> DEFINE to   == c.hops[Len(c.hops)].to
             hops == Append(IF Len(c.hops) = MaxHops THEN Tail(c.hops) ELSE c.hops,
                            Arrive(to))
  <2>1. Arrive(to) \in Hop
    BY <1>2 DEF Arrive, Hop
  <2>2. hops \in Seq(Hop) /\ hops # << >>
    BY <1>2, <2>1
  <2>3. Goes(c, [c EXCEPT !.hops = hops, !.phase = "check"]) /\ UNCHANGED vars
    <3>1. [c EXCEPT !.phase = "check", !.hops = hops]
            = [c EXCEPT !.hops = hops, !.phase = "check"]
      BY <1>2 DEF Chain
    <3>2. QED
      BY <1>11, <3>1 DEF Forward
  <2> HIDE DEF hops
  <2>4. OnItsWay([c EXCEPT !.hops = hops, !.phase = "check"])
    BY <1>1, <2>2, MovesOnItsWay
  <2>5. QED
    BY <1>4, <2>3, <2>4, GoesOn
<1>12. CASE CallFails(c)
  BY <1>2, <1>3, <1>12 DEF CallFails, Refuses, Hop
<1>13. CASE Serve(c)
  <2>1. RingAtRest'
    BY <1>13, RestUnchanged DEF Serve, ringVars
  <2>2. ASSUME NEW status \in Status
        PROVE  OnItsWay([c EXCEPT !.phase = "return", !.status = status])
    <3> DEFINE d == [c EXCEPT !.phase = "return", !.status = status]
    <3>1. d \in Chain /\ d.hops = c.hops /\ d.phase = "return"
      BY <1>2 DEF Chain, Stage
    <3> HIDE DEF d
    <3>2. OnItsWay(d)
      BY <1>2, <3>1 DEF OnItsWay
    <3>3. QED
      BY <3>2 DEF d
  <2>3. \E status \in Status : Replies(c, status)
    BY <1>13 DEF Serve, Status
  <2>4. QED
    BY <2>1, <2>2, <2>3, GoesOn DEF Replies
<1>14. CASE Return(c)
  <2>1. CASE Len(c.hops) > 1
    <3>1. Front(c.hops) \in Seq(Hop) /\ Front(c.hops) # << >>
      <4>1. Front(c.hops) \in Seq(Hop)
        BY <1>2 DEF Front
      <4>2. Len(Front(c.hops)) = Len(c.hops) - 1
        BY <1>2, <2>1 DEF Front
      <4>3. Len(Front(c.hops)) # 0
        BY <1>2, <2>1, <4>2
      <4>4. Front(c.hops) # << >>
        BY <4>1, <4>3
      <4>5. QED
        BY <4>1, <4>4
    <3>2. [c EXCEPT !.hops = Front(c.hops)]
            = [c EXCEPT !.hops = Front(c.hops), !.phase = "return"]
      BY <1>2, <1>14 DEF Return, Chain
    <3>3. OnItsWay([c EXCEPT !.hops = Front(c.hops)])
      BY <1>1, <3>1, <3>2, MovesOnItsWay
    <3>4. QED
      BY <1>4, <1>14, <2>1, <3>3, GoesOn DEF Return
  <2>2. CASE ~(Len(c.hops) > 1)
    BY <1>4, <1>14, <2>2 DEF Return
  <2>3. QED
    BY <2>1, <2>2
<1>15. CASE Blame(c) \/ Collect(c) \/ Retry(c)
  BY <1>1, <1>15 DEF Blame, Collect, Retry
<1>16. QED
  BY <1>6, <1>7, <1>8, <1>9, <1>10, <1>11, <1>12, <1>13, <1>14, <1>15
     DEF Run, Seek

LEMMA RouteStep == RouteInv /\ [RoutingNext]_allVars => RouteInv'
<1> SUFFICES ASSUME RouteInv, [RoutingNext]_allVars, Newcomer = {}
             PROVE  /\ life' \in [Server -> {"serving", "crashed"}]
                    /\ Undisturbed' => RingAtRest' /\ \A c \in chains' : OnItsWay(c)
  BY DEF RouteInv, Newcomer
<1>1. life' \in [Server -> {"serving", "crashed"}] /\ Crashed \subseteq Crashed'
  BY LifeStep DEF RouteInv
<1>2. SUFFICES ASSUME Undisturbed'
               PROVE  RingAtRest' /\ \A c \in chains' : OnItsWay(c)
  BY <1>1
<1>3. Crashed' = {}
  BY <1>2 DEF Undisturbed
<1>4. RingAtRest /\ \A c \in chains : OnItsWay(c)
  BY <1>1, <1>3 DEF RouteInv, Undisturbed
<1>5. CASE RingStep
  BY <1>3, <1>4, <1>5, OnlyCrashes
<1>6. ASSUME NEW c \in Client, Ask(c)
      PROVE  RingAtRest' /\ \A e \in chains' : OnItsWay(e)
  BY <1>4, <1>6, AskRests
<1>7. ASSUME NEW c \in chains, Run(c)
      PROVE  RingAtRest' /\ \A e \in chains' : OnItsWay(e)
  BY <1>4, <1>7, RunRests
<1>8. CASE UNCHANGED allVars
  BY <1>4, <1>8, RestUnchanged DEF allVars, vars, routingVars
<1>9. QED
  BY <1>5, <1>6, <1>7, <1>8 DEF RoutingNext

(* checkServer and the skip lists, on a ring of any number of servers that *)
(* nobody joins or has left: however a request is passed on, the handler   *)
(* of iGet, iPut or iDelete that ends up serving it runs at the server the *)
(* key belongs to.                                                         *)
THEOREM RequestsReachTheOwner == RoutingSpec => []ServedByOwner
<1>1. RouteInv => ServedByOwner
  <2> SUFFICES ASSUME RouteInv, Newcomer = {}, Undisturbed,
                      NEW c \in chains, c.phase = "serve"
               PROVE  Here(c) = Successor(Serving, c.key)
    BY DEF ServedByOwner
  <2>1. Serving = Server
    BY DEF RouteInv, RingAtRest, Serving
  <2>2. QED
    BY <2>1 DEF RouteInv, OnItsWay
<1>2. QED
  BY <1>1, RouteInit, RouteStep, PTL DEF RoutingSpec
=============================================================================
