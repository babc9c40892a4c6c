---------------------------- MODULE RequestProofs ----------------------------
(***************************************************************************)
(* Requests on any ring: with any number of joins, crashes and clients, a  *)
(* chain of handlers keeps its shape when it is passed on, when it returns *)
(* and when a crash or a closed client breaks it, each client waits for    *)
(* one chain, and the nodes that requests mark dead are collected.         *)
(***************************************************************************)
EXTENDS RoutingProofs, StorageRingProofs

(* Every handler runs at a server that is up.                              *)
Alive(c) == \A i \in 1..Len(c.hops) : life[c.hops[i].at] # "crashed"

(* Each handler but the last waits on a client that leads to the next one, *)
(* and the first handler of a chain somebody waits for is at the server    *)
(* the client is connected to.                                             *)
Linked(c) ==
  /\ \A i \in 1..(Len(c.hops) - 1) :
       c.hops[i].link # "none" /\ c.hops[i].to = c.hops[i + 1].at
  /\ c.phase = "call" => c.hops[Len(c.hops)].link # "none"
  /\ c.awaited => c.hops[1].at = Contact[c.client]

(* Where nothing breaks, Forward forgets the oldest handler.               *)
ChainInv(c) ==
  /\ c \in Chain
  /\ c.hops # << >> /\ Len(c.hops) <= MaxHops
  /\ Alive(c)
  /\ NothingBreaks \/ Linked(c)

(* One chain for each client that waits, none for the others.              *)
AwaitedOnce ==
  \A k \in Client : /\ answer[k] = "waiting" => \E h : Awaited(k) = {h}
                    /\ answer[k] # "waiting" => Awaited(k) = {}

(* The dead of a server wait for a constructor, a goroutine or a request.  *)
Blaming(s) == \E c \in chains : Here(c) = s /\ c.phase \in {"failed", "collect"}
CollectorThere ==
  \A s \in Server : deadNodeList[s] # << >> => Collecting(s) \/ Blaming(s)

AnswerType ==
  /\ asked \in [Client -> 0..MaxCalls]
  /\ answer \in [Client -> Status \cup {"idle", "waiting", "error"}]

RequestInv ==
  /\ RouteInv
  /\ NothingBreaks => Undisturbed
  /\ Places
  /\ IsFiniteSet(tasks)
  /\ \A c \in chains : ChainInv(c)
  /\ AwaitedOnce
  /\ CollectorThere
  /\ AnswerType

-----------------------------------------------------------------------------
(* Hops.                                                                   *)

LEMMA ArriveType ==
  ASSUME NEW s \in Server
  PROVE  Arrive(s) \in Hop /\ Arrive(s).at = s
  BY DEF Arrive, Hop

LEMMA UnlinkedType ==
  ASSUME NEW h \in Hop
  PROVE  Unlinked(h) \in Hop /\ Unlinked(h).at = h.at
  BY DEF Unlinked, Arrive, Hop

(* What a break leaves of a handler that waited.                           *)
LEMMA AfterType ==
  ASSUME NEW h \in Hop
  PROVE  /\ After(h) \in Hop /\ After(h).at = h.at
         /\ ~ Broken(h) => /\ After(h).to = h.to
                           /\ h.link # "none" => After(h).link # "none"
<1>1. CASE Broken(h)
  BY <1>1, UnlinkedType DEF After
<1>2. CASE ~ Broken(h) /\ h.link = "open" /\ Replaced(h.at, h.to)
  <2> DEFINE g == [h EXCEPT !.link = "loose"]
  <2>1. After(h) = g
    BY <1>2 DEF After
  <2>2. g \in Hop /\ g.at = h.at /\ g.to = h.to /\ g.link = "loose"
    BY DEF Hop
  <2>3. QED
    BY <1>2, <2>1, <2>2
<1>3. CASE ~ Broken(h) /\ ~ (h.link = "open" /\ Replaced(h.at, h.to))
  BY <1>3 DEF After
<1>4. QED
  BY <1>1, <1>2, <1>3

LEMMA ChainFacts ==
  ASSUME NEW c, ChainInv(c)
  PROVE  /\ c \in Chain /\ c.hops \in Seq(Hop)
         /\ Len(c.hops) \in Nat /\ Len(c.hops) > 0
         /\ \A i \in 1..Len(c.hops) : c.hops[i] \in Hop /\ c.hops[i].at \in Server
         /\ Here(c) \in Server /\ life[Here(c)] # "crashed"
<1>1. c \in Chain /\ c.hops \in Seq(Hop) /\ c.hops # << >>
  BY DEF ChainInv, Chain
<1>2. Len(c.hops) \in Nat /\ Len(c.hops) > 0
  BY <1>1
<1>3. \A i \in 1..Len(c.hops) : c.hops[i] \in Hop /\ c.hops[i].at \in Server
  <2>1. \A i \in 1..Len(c.hops) : c.hops[i] \in Hop
    BY <1>1
  <2>2. \A h \in Hop : h.at \in Server
    BY DEF Hop
  <2>3. QED
    BY <2>1, <2>2
<1>4. Len(c.hops) \in 1..Len(c.hops)
  BY <1>2
<1>5. QED
  BY <1>1, <1>2, <1>3, <1>4 DEF Here, ChainInv, Alive

LEMMA FrontType ==
  ASSUME NEW S, NEW list \in Seq(S), list # << >>
  PROVE  /\ Front(list) \in Seq(S) /\ Len(Front(list)) = Len(list) - 1
         /\ \A i \in 1..(Len(list) - 1) : Front(list)[i] = list[i]
<1>1. Len(list) \in Nat /\ Len(list) > 0
  OBVIOUS
<1> DEFINE n == Len(list) - 1
<1>2. n \in Int /\ 1 \in Int /\ \A i \in 1..n : list[i] \in S
  BY <1>1
<1> HIDE DEF n
<1>3. /\ SubSeq(list, 1, n) \in Seq(S)
      /\ Len(SubSeq(list, 1, n)) = IF 1 <= n THEN n - 1 + 1 ELSE 0
      /\ \A i \in 1..n - 1 + 1 : SubSeq(list, 1, n)[i] = list[1 + i - 1]
  BY <1>2, SubSeqProperties
<1>4. n \in Nat
  BY <1>1 DEF n
<1>5. Len(SubSeq(list, 1, n)) = n /\ \A i \in 1..n : SubSeq(list, 1, n)[i] = list[i]
  BY <1>3, <1>4
<1>6. Front(list) = SubSeq(list, 1, n)
  BY DEF Front, n
<1>7. Len(Front(list)) = n /\ \A i \in 1..n : Front(list)[i] = list[i]
  BY <1>5, <1>6
<1>8. Front(list) \in Seq(S)
  BY <1>3, <1>6
<1>9. QED
  BY <1>7, <1>8 DEF n

(* Another last handler in place of the one there is.                      *)
LEMMA LastReplaced ==
  ASSUME NEW S, NEW list \in Seq(S), list # << >>, NEW x \in S
  PROVE  /\ Front(list) \o <<x>> \in Seq(S)
         /\ Len(Front(list) \o <<x>>) = Len(list)
         /\ \A i \in 1..(Len(list) - 1) : (Front(list) \o <<x>>)[i] = list[i]
         /\ (Front(list) \o <<x>>)[Len(list)] = x
<1>1. Len(list) \in Nat /\ Len(list) > 0
  OBVIOUS
<1> DEFINE front == Front(list)
<1> HIDE DEF front
<1>3. /\ front \in Seq(S) /\ Len(front) = Len(list) - 1
      /\ \A i \in 1..(Len(list) - 1) : front[i] = list[i]
  BY FrontType DEF front
<1>4. /\ front \o <<x>> \in Seq(S) /\ Len(front \o <<x>>) = Len(list)
      /\ \A i \in 1..(Len(list) - 1) : (front \o <<x>>)[i] = list[i]
      /\ (front \o <<x>>)[Len(list)] = x
  BY <1>1, <1>3
<1>5. QED
  BY <1>4 DEF front

-----------------------------------------------------------------------------
(* What the running handler makes of its chain.                            *)

Follows(c, d) == ChainInv(d) /\ d.client = c.client /\ d.awaited = c.awaited

LEMMA EntersFollows ==
  ASSUME NEW c, ChainInv(c), NEW phase \in Stage, phase # "call",
         NEW status \in Status
  PROVE  /\ Follows(c, [c EXCEPT !.phase = phase])
         /\ Follows(c, [c EXCEPT !.phase = phase, !.status = status])
<1>1. c \in Chain
  BY DEF ChainInv
<1>2. ASSUME NEW d \in Chain, d.hops = c.hops, d.phase = phase,
             d.client = c.client, d.awaited = c.awaited
      PROVE  Follows(c, d)
  BY <1>2 DEF Follows, ChainInv, Alive, Linked
<1> DEFINE d == [c EXCEPT !.phase = phase]
           e == [c EXCEPT !.phase = phase, !.status = status]
<1>3. /\ d \in Chain /\ d.hops = c.hops /\ d.phase = phase
      /\ d.client = c.client /\ d.awaited = c.awaited
  BY <1>1 DEF Chain
<1>4. /\ e \in Chain /\ e.hops = c.hops /\ e.phase = phase
      /\ e.client = c.client /\ e.awaited = c.awaited
  BY <1>1 DEF Chain
<1> HIDE DEF d, e
<1>5. Follows(c, d) /\ Follows(c, e)
  BY <1>2, <1>3, <1>4
<1>6. QED
  BY <1>5 DEF d, e

(* The handlers of a chain, another list of them.                          *)
LEMMA MovesTo ==
  ASSUME NEW c, ChainInv(c), NEW hops \in Seq(Hop), NEW phase \in Stage,
         hops # << >>, Len(hops) <= MaxHops,
         \A i \in 1..Len(hops) : life[hops[i].at] # "crashed",
         \/ NothingBreaks
         \/ /\ \A i \in 1..(Len(hops) - 1) :
                 hops[i].link # "none" /\ hops[i].to = hops[i + 1].at
            /\ phase = "call" => hops[Len(hops)].link # "none"
            /\ hops[1].at = c.hops[1].at
  PROVE  Follows(c, [c EXCEPT !.hops = hops, !.phase = phase])
<1> DEFINE d == [c EXCEPT !.hops = hops, !.phase = phase]
<1>1. /\ d \in Chain /\ d.hops = hops /\ d.phase = phase
      /\ d.client = c.client /\ d.awaited = c.awaited
  BY DEF Chain, ChainInv
<1> HIDE DEF d
<1>2. Follows(c, d)
  BY <1>1 DEF Follows, ChainInv, Alive, Linked
<1>3. QED
  BY <1>2 DEF d

LEMMA LastFollows ==
  ASSUME NEW c, ChainInv(c), NEW hop \in Hop, hop.at = Here(c),
         NEW phase \in Stage, phase = "call" => hop.link # "none"
  PROVE  Follows(c, WithLast(c, hop, phase))
<1> DEFINE n == Len(c.hops)
           hops == Front(c.hops) \o <<hop>>
<1>1. /\ c \in Chain /\ c.hops \in Seq(Hop) /\ c.hops # << >>
      /\ n \in Nat /\ n > 0 /\ n <= MaxHops
      /\ \A i \in 1..n : life[c.hops[i].at] # "crashed"
      /\ c.hops[n].at = hop.at
  BY ChainFacts DEF ChainInv, Alive, Here
<1>2. /\ hops \in Seq(Hop) /\ Len(hops) = n
      /\ \A i \in 1..(n - 1) : hops[i] = c.hops[i]
      /\ hops[n] = hop
  <2> DEFINE list == c.hops
  <2>1. list \in Seq(Hop) /\ list # << >> /\ n = Len(list)
    BY <1>1
  <2>2. hops = Front(list) \o <<hop>>
    OBVIOUS
  <2> HIDE DEF list, n, hops
  <2>3. /\ Front(list) \o <<hop>> \in Seq(Hop)
        /\ Len(Front(list) \o <<hop>>) = Len(list)
        /\ \A i \in 1..(Len(list) - 1) : (Front(list) \o <<hop>>)[i] = list[i]
        /\ (Front(list) \o <<hop>>)[Len(list)] = hop
    BY <2>1, LastReplaced
  <2>4. /\ hops \in Seq(Hop) /\ Len(hops) = n
        /\ \A i \in 1..(n - 1) : hops[i] = list[i]
        /\ hops[n] = hop
    BY <2>1, <2>2, <2>3
  <2>5. QED
    BY <2>4 DEF list
<1>3. WithLast(c, hop, phase) = [c EXCEPT !.hops = hops, !.phase = phase]
  BY <1>1 DEF WithLast, Chain
<1> HIDE DEF n, hops
<1>4. hops # << >> /\ Len(hops) <= MaxHops
  BY <1>1, <1>2
<1>5. \A i \in 1..n : hops[i].at = c.hops[i].at
  BY <1>1, <1>2
<1>6. \A i \in 1..n : life[hops[i].at] # "crashed"
  BY <1>1, <1>5
<1>7. ASSUME Linked(c)
      PROVE  /\ \A i \in 1..(n - 1) :
                  hops[i].link # "none" /\ hops[i].to = hops[i + 1].at
             /\ phase = "call" => hops[n].link # "none"
             /\ hops[1].at = c.hops[1].at
  <2>1. \A i \in 1..(n - 1) : i + 1 \in 1..n
    BY <1>1
  <2>2. \A i \in 1..(n - 1) :
          c.hops[i].link # "none" /\ c.hops[i].to = c.hops[i + 1].at
    BY <1>7 DEF Linked, n
  <2>3. 1 \in 1..n
    BY <1>1
  <2>4. QED
    BY <1>2, <1>5, <2>1, <2>2, <2>3
<1>8. Follows(c, [c EXCEPT !.hops = hops, !.phase = phase])
  BY <1>2, <1>4, <1>6, <1>7, MovesTo DEF ChainInv
<1>9. QED
  BY <1>3, <1>8

(* Return to the handler that called this one.                             *)
LEMMA FrontFollows ==
  ASSUME NEW c, ChainInv(c), Len(c.hops) > 1, c.phase = "return"
  PROVE  Follows(c, [c EXCEPT !.hops = Front(@)])
<1> DEFINE n == Len(c.hops)
           hops == Front(c.hops)
<1>1. /\ c \in Chain /\ c.hops \in Seq(Hop) /\ c.hops # << >>
      /\ n \in Nat /\ n > 1 /\ n <= MaxHops /\ MaxHops \in Nat
      /\ \A i \in 1..n : life[c.hops[i].at] # "crashed"
  BY ChainFacts, RoutingAssumption DEF ChainInv, Alive
<1>2. /\ hops \in Seq(Hop) /\ Len(hops) = n - 1
      /\ \A i \in 1..(n - 1) : hops[i] = c.hops[i]
  BY <1>1, FrontType
<1>3. [c EXCEPT !.hops = Front(@)] = [c EXCEPT !.hops = hops, !.phase = "return"]
  BY <1>1 DEF Chain
<1>4. Linked(c) => \A i \in 1..(n - 1) :
          c.hops[i].link # "none" /\ c.hops[i].to = c.hops[i + 1].at
  BY DEF Linked
<1> HIDE DEF n, hops
<1>5. hops # << >> /\ Len(hops) <= MaxHops
  BY <1>1, <1>2
<1>6. \A i \in 1..Len(hops) : life[hops[i].at] # "crashed"
  BY <1>1, <1>2
<1>7. ASSUME Linked(c)
      PROVE  /\ \A i \in 1..(Len(hops) - 1) :
                  hops[i].link # "none" /\ hops[i].to = hops[i + 1].at
             /\ hops[1].at = c.hops[1].at
  <2>1. \A i \in 1..(Len(hops) - 1) : i \in 1..(n - 1) /\ i + 1 \in 1..(n - 1)
    BY <1>1, <1>2
  <2>2. 1 \in 1..(n - 1)
    BY <1>1
  <2>3. QED
    BY <1>2, <1>4, <1>7, <2>1, <2>2
<1>8. "return" \in Stage
  BY DEF Stage
<1>9. Follows(c, [c EXCEPT !.hops = hops, !.phase = "return"])
  BY <1>2, <1>5, <1>6, <1>7, <1>8, MovesTo DEF ChainInv
<1>10. QED
  BY <1>3, <1>9

(* Forward, to a server that serves.                                       *)
LEMMA ForwardFollows ==
  ASSUME NEW c, ChainInv(c), c.phase = "call", Answers(c.hops[Len(c.hops)].to),
         Len(c.hops) < MaxHops \/ NothingBreaks
  PROVE  Follows(c, [c EXCEPT !.phase = "check",
                      !.hops = Append(IF Len(@) = MaxHops THEN Tail(@) ELSE @,
                                      Arrive(c.hops[Len(c.hops)].to))])
<1> DEFINE n == Len(c.hops)
           to == c.hops[n].to
           kept == IF n = MaxHops THEN Tail(c.hops) ELSE c.hops
           hops == Append(kept, Arrive(to))
<1>1. /\ c \in Chain /\ c.hops \in Seq(Hop) /\ c.hops # << >>
      /\ n \in Nat /\ n > 0 /\ n <= MaxHops /\ MaxHops \in Nat /\ MaxHops > 1
      /\ \A i \in 1..n : life[c.hops[i].at] # "crashed"
      /\ c.hops[n] \in Hop
  BY ChainFacts, RoutingAssumption DEF ChainInv, Alive
<1>2. to \in Server /\ Arrive(to) \in Hop /\ Arrive(to).at = to
  BY <1>1, ArriveType DEF Hop
<1>3. life[to] # "crashed"
  BY DEF Answers
<1>4. [c EXCEPT !.phase = "check",
          !.hops = Append(IF Len(@) = MaxHops THEN Tail(@) ELSE @, Arrive(to))]
        = [c EXCEPT !.hops = hops, !.phase = "check"]
  BY <1>1 DEF Chain
<1>5. Linked(c) => /\ \A i \in 1..(n - 1) :
                         c.hops[i].link # "none" /\ c.hops[i].to = c.hops[i + 1].at
                   /\ c.hops[n].link # "none" /\ c.hops[n].to = to
  BY DEF Linked
<1>6. /\ kept \in Seq(Hop) /\ Len(kept) < MaxHops
      /\ \A i \in 1..Len(kept) : life[kept[i].at] # "crashed"
  <2>1. CASE n = MaxHops
    <3>1. /\ kept \in Seq(Hop) /\ Len(kept) = n - 1
          /\ \A i \in 1..(n - 1) : kept[i] = c.hops[i + 1]
      BY <1>1, <2>1, HeadTailProperties
    <3>2. \A i \in 1..(n - 1) : i + 1 \in 1..n
      BY <1>1
    <3> HIDE DEF kept, n
    <3>3. QED
      BY <1>1, <2>1, <3>1, <3>2
  <2>2. CASE n # MaxHops
    <3>1. kept = c.hops
      BY <2>2
    <3> HIDE DEF kept
    <3>2. QED
      BY <1>1, <2>2, <3>1
  <2>3. QED
    BY <2>1, <2>2
<1>7. n < MaxHops => kept = c.hops
  BY <1>1
<1> HIDE DEF kept
<1>8. /\ hops \in Seq(Hop) /\ Len(hops) = Len(kept) + 1
      /\ \A i \in 1..Len(kept) : hops[i] = kept[i]
      /\ hops[Len(hops)] = Arrive(to)
      /\ Len(kept) \in Nat
  BY <1>2, <1>6
<1> HIDE DEF hops
<1>9. hops # << >> /\ Len(hops) <= MaxHops
  BY <1>1, <1>6, <1>8
<1>10. \A i \in 1..Len(hops) : life[hops[i].at] # "crashed"
  BY <1>2, <1>3, <1>6, <1>8
<1>11. ASSUME Linked(c), n < MaxHops
       PROVE  /\ \A i \in 1..(Len(hops) - 1) :
                   hops[i].link # "none" /\ hops[i].to = hops[i + 1].at
              /\ hops[1].at = c.hops[1].at
  <2>1. /\ Len(hops) = n + 1 /\ \A i \in 1..n : hops[i] = c.hops[i]
        /\ hops[n + 1].at = to
    BY <1>2, <1>7, <1>8, <1>11
  <2>2. ASSUME NEW i \in 1..n
        PROVE  hops[i].link # "none" /\ hops[i].to = hops[i + 1].at
    <3>1. CASE i = n
      BY <1>1, <1>5, <1>11, <2>1, <3>1
    <3>2. CASE i # n
      <4>1. i \in 1..(n - 1) /\ i + 1 \in 1..n
        BY <1>1, <3>2
      <4>2. QED
        BY <1>5, <1>11, <2>1, <4>1
    <3>3. QED
      BY <3>1, <3>2
  <2>3. 1 \in 1..n /\ Len(hops) - 1 = n
    BY <1>1, <2>1
  <2>4. QED
    BY <2>1, <2>2, <2>3
<1>12. "check" \in Stage
  BY DEF Stage
<1>13. Follows(c, [c EXCEPT !.hops = hops, !.phase = "check"])
  BY <1>8, <1>9, <1>10, <1>11, <1>12, MovesTo DEF ChainInv
<1>14. QED
  BY <1>4, <1>13

-----------------------------------------------------------------------------
(* Collect finds a name for its goroutine: there is one name more than     *)
(* there are goroutines.                                                   *)
LEMMA FreeSlotType ==
  ASSUME IsFiniteSet(tasks), NEW s
  PROVE  FreeSlot(s) \in Nat
<1> DEFINE n == Cardinality(tasks)
           names == FreshSlot + 1..FreshSlot + 1 + n
           free == {i \in names : \A t \in tasks : t.at = s /\ t.by = s => t.slot # i}
<1>1. n \in Nat
  BY FS_CardinalityType
<1>2. free # {}
  <2> SUFFICES ASSUME free = {} PROVE FALSE
    OBVIOUS
  <2> DEFINE f == [i \in names |-> CHOOSE t \in tasks : t.slot = i]
  <2>1. \A i \in names : \E t \in tasks : t.slot = i
    OBVIOUS
  <2>2. \A i \in names : f[i] \in tasks /\ f[i].slot = i
    BY <2>1
  <2>3. f \in [names -> tasks]
    BY <2>2
  <2>4. IsFiniteSet(names) /\ Cardinality(names) = n + 1
    BY <1>1, FS_Interval DEF FreshSlot
  <2> HIDE DEF f, names
  <2>5. n < Cardinality(names)
    BY <1>1, <2>4
  <2>6. \E x, y \in names : x # y /\ f[x] = f[y]
    BY <2>3, <2>4, <2>5, FS_PigeonHole
  <2>7. QED
    BY <2>2, <2>6
<1>3. free \in SUBSET Nat
  BY <1>1 DEF FreshSlot
<1>4. FreeSlot(s) = Min(free)
  BY DEF FreeSlot
<1> HIDE DEF free
<1>5. QED
  BY <1>2, <1>3, <1>4, MinOfNat

-----------------------------------------------------------------------------
(* A break.                                                                *)

LEMMA PieceFields ==
  ASSUME NEW c, ChainInv(c), NEW a \in 1..Len(c.hops), NEW b \in 1..Len(c.hops),
         a <= b
  PROVE  LET d == Piece(c, a, b)
         IN
         /\ d \in Chain
         /\ d.client = c.client /\ d.awaited = (c.awaited /\ a = 1)
         /\ d.phase = IF Broken(c.hops[b]) THEN "failed" ELSE c.phase
         /\ Len(d.hops) = b - a + 1
         /\ \A i \in 1..(b - a + 1) : d.hops[i] = After(c.hops[a + i - 1])
<1>1. /\ c \in Chain /\ Len(c.hops) \in Nat
      /\ \A i \in 1..Len(c.hops) : c.hops[i] \in Hop
  BY ChainFacts
<1> DEFINE d == Piece(c, a, b)
           n == b - a + 1
           hops == [i \in 1..n |-> After(c.hops[a + i - 1])]
           phase == IF Broken(c.hops[b]) THEN "failed" ELSE c.phase
           awaited == c.awaited /\ a = 1
<1>2. n \in Nat /\ \A i \in 1..n : a + i - 1 \in 1..Len(c.hops)
  BY <1>1
<1>3. \A i \in 1..n : After(c.hops[a + i - 1]) \in Hop
  BY <1>1, <1>2, AfterType
<1>4. phase \in Stage
  BY <1>1 DEF Chain, Stage
<1>5. d = [c EXCEPT !.awaited = awaited, !.hops = hops, !.phase = phase]
  <2>1. [c EXCEPT !.awaited = @ /\ a = 1,
                  !.hops = [i \in 1..(b - a + 1) |-> After(c.hops[a + i - 1])],
                  !.phase = IF Broken(c.hops[b]) THEN "failed" ELSE @]
          = [c EXCEPT !.awaited = awaited, !.hops = hops, !.phase = phase]
    <3> HIDE DEF d
    <3>1. c \in [client : Client, awaited : BOOLEAN, op : Op, key : Key,
                 hops : Seq(Hop), phase : Stage, status : Status]
      BY <1>1 DEF Chain
    <3>2. QED
      BY <3>1
  <2>2. QED
    BY <2>1 DEF Piece
<1> HIDE DEF phase, d
<1>6. awaited \in BOOLEAN
  OBVIOUS
<1> HIDE DEF awaited, n
<1>7. hops \in Seq(Hop) /\ Len(hops) = n
  BY <1>2, <1>3
<1>8. \A i \in 1..n : hops[i] = After(c.hops[a + i - 1])
  OBVIOUS
<1> HIDE DEF hops
<1>9. /\ d \in Chain /\ d.client = c.client /\ d.awaited = awaited
      /\ d.phase = phase /\ d.hops = hops
  BY <1>1, <1>4, <1>5, <1>6, <1>7 DEF Chain
<1>10. Len(d.hops) = n /\ \A i \in 1..n : d.hops[i] = After(c.hops[a + i - 1])
  BY <1>7, <1>8, <1>9
<1>11. /\ d \in Chain
       /\ d.client = c.client /\ d.awaited = (c.awaited /\ a = 1)
       /\ d.phase = IF Broken(c.hops[b]) THEN "failed" ELSE c.phase
       /\ Len(d.hops) = b - a + 1
       /\ \A i \in 1..(b - a + 1) : d.hops[i] = After(c.hops[a + i - 1])
  BY <1>9, <1>10 DEF n, phase, awaited
<1>12. QED
  BY <1>11 DEF d

LEMMA PiecesOf ==
  ASSUME NEW c, ChainInv(c)
  PROVE  /\ \A d \in Pieces(c) :
              \E a, b \in 1..Len(c.hops) : IsPiece(c.hops, a, b) /\ d = Piece(c, a, b)
         /\ \A a, b \in 1..Len(c.hops) :
              IsPiece(c.hops, a, b) => Piece(c, a, b) \in Pieces(c)
<1> DEFINE D == 1..Len(c.hops)
           P == {q \in D \X D : IsPiece(c.hops, q[1], q[2])}
<1>1. DOMAIN c.hops = D
  BY ChainFacts
<1>2. Pieces(c) = {Piece(c, p[1], p[2]) : p \in P}
  BY <1>1 DEF Pieces
<1> HIDE DEF D
<1>3. ASSUME NEW d \in Pieces(c)
      PROVE  \E a, b \in D : IsPiece(c.hops, a, b) /\ d = Piece(c, a, b)
  BY <1>2
<1>4. ASSUME NEW a \in D, NEW b \in D, IsPiece(c.hops, a, b)
      PROVE  Piece(c, a, b) \in Pieces(c)
  <2>1. <<a, b>> \in P /\ <<a, b>>[1] = a /\ <<a, b>>[2] = b
    BY <1>4
  <2> HIDE DEF P
  <2>2. QED
    BY <1>2, <2>1
<1>5. QED
  BY <1>3, <1>4 DEF D

(* A piece is a chain again: its handlers are up, and each waits on a      *)
(* client that leads to the next.                                          *)
LEMMA PieceInv ==
  ASSUME ~ NothingBreaks, NEW c, ChainInv(c), NEW d \in Pieces(c)
  PROVE  ChainInv(d)'
<1>1. PICK a \in 1..Len(c.hops), b \in 1..Len(c.hops) :
        IsPiece(c.hops, a, b) /\ d = Piece(c, a, b)
  BY PiecesOf
<1> DEFINE n == Len(c.hops)
           m == b - a + 1
<1>2. /\ n \in Nat /\ n <= MaxHops /\ MaxHops \in Nat
      /\ \A i \in 1..n : c.hops[i] \in Hop
      /\ Linked(c)
  BY ChainFacts, RoutingAssumption DEF ChainInv
<1>3. /\ a \in 1..n /\ b \in 1..n /\ a <= b
      /\ \A i \in a..b : ~ Gone(c.hops[i].at)
      /\ \A i \in a..b - 1 : ~ Broken(c.hops[i])
      /\ b = n \/ Broken(c.hops[b])
  BY <1>1 DEF IsPiece
<1>4. /\ d \in Chain
      /\ d.client = c.client /\ d.awaited = (c.awaited /\ a = 1)
      /\ d.phase = IF Broken(c.hops[b]) THEN "failed" ELSE c.phase
      /\ Len(d.hops) = m
      /\ \A i \in 1..m : d.hops[i] = After(c.hops[a + i - 1])
  BY <1>1, <1>3, PieceFields
<1>5. m \in Nat /\ m > 0 /\ m <= n
  BY <1>2, <1>3
<1>6. \A i \in 1..m : a + i - 1 \in a..b /\ a + i - 1 \in 1..n
  BY <1>2, <1>3
<1>7. ASSUME NEW i \in 1..m
      PROVE  d.hops[i].at = c.hops[a + i - 1].at /\ life'[d.hops[i].at] # "crashed"
  <2>1. After(c.hops[a + i - 1]).at = c.hops[a + i - 1].at
    BY <1>2, <1>6, AfterType
  <2>2. ~ Gone(c.hops[a + i - 1].at)
    BY <1>3, <1>6
  <2>3. QED
    BY <1>4, <2>1, <2>2 DEF Gone
<1>8. ASSUME NEW i \in 1..(m - 1)
      PROVE  d.hops[i].link # "none" /\ d.hops[i].to = d.hops[i + 1].at
  <2>1. /\ a + i - 1 \in a..b - 1 /\ a + i - 1 \in 1..(n - 1)
        /\ i \in 1..m /\ i + 1 \in 1..m
        /\ a + (i + 1) - 1 = (a + i - 1) + 1
    <3> HIDE DEF n
    <3>1. i \in Nat /\ i >= 1 /\ i <= b - a /\ a >= 1 /\ a \in Nat /\ b \in Nat /\ b <= n
      BY <1>2, <1>3
    <3>2. QED
      BY <1>2, <3>1
  <2> DEFINE h == c.hops[a + i - 1]
  <2>2. h \in Hop /\ ~ Broken(h) /\ h.link # "none"
    BY <1>2, <1>3, <1>6, <2>1 DEF Linked
  <2>3. h.to = c.hops[(a + i - 1) + 1].at
    BY <1>2, <2>1 DEF Linked
  <2>4. d.hops[i] = After(h)
    BY <1>4, <2>1
  <2>5. d.hops[i + 1].at = c.hops[a + (i + 1) - 1].at
    BY <1>7, <2>1
  <2> HIDE DEF h
  <2>6. d.hops[i].link # "none" /\ d.hops[i].to = h.to
    BY <2>2, <2>4, AfterType
  <2>7. QED
    BY <2>1, <2>3, <2>5, <2>6
<1>9. ASSUME d.phase = "call"
      PROVE  d.hops[m].link # "none"
  <2>1. ~ Broken(c.hops[b]) /\ c.phase = "call"
    BY <1>4, <1>9
  <2>2. b = n /\ a + m - 1 = n /\ m \in 1..m /\ n \in 1..n
    BY <1>2, <1>3, <1>5, <2>1
  <2>3. c.hops[n].link # "none" /\ c.hops[n] \in Hop
    BY <1>2, <2>1, <2>2 DEF Linked
  <2>4. d.hops[m] = After(c.hops[n])
    BY <1>4, <2>2
  <2>5. QED
    BY <2>1, <2>2, <2>3, <2>4, AfterType
<1>10. ASSUME d.awaited
       PROVE  d.hops[1].at = Contact[d.client]
  <2>1. a = 1 /\ c.awaited
    BY <1>4, <1>10
  <2>2. 1 \in 1..m /\ a + 1 - 1 = 1
    BY <1>5, <2>1
  <2>3. c.hops[1].at = Contact[c.client]
    BY <1>2, <2>1 DEF Linked
  <2>4. QED
    BY <1>4, <1>7, <2>2, <2>3
<1>11. Linked(d)'
  BY <1>4, <1>8, <1>9, <1>10 DEF Linked
<1>12. Alive(d)'
  BY <1>4, <1>7 DEF Alive
<1>13. d.hops # << >> /\ Len(d.hops) <= MaxHops
  BY <1>2, <1>4, <1>5
<1>14. QED
  BY <1>4, <1>11, <1>12, <1>13 DEF ChainInv

(* The piece somebody still waits for: there is one unless the contact of  *)
(* the client is gone.                                                     *)
LEMMA FirstPiece ==
  ASSUME ~ NothingBreaks, NEW c, ChainInv(c), c.awaited
  PROVE  IF Gone(Contact[c.client]) THEN \A d \in Pieces(c) : ~ d.awaited
         ELSE \E h : {d \in Pieces(c) : d.awaited} = {h}
<1> DEFINE n == Len(c.hops)
           ends == {i \in 1..n : i = n \/ Broken(c.hops[i])}
           end == Min(ends)
<1>1. n \in Nat /\ n > 0 /\ Linked(c) /\ c.hops[1].at = Contact[c.client]
  BY ChainFacts DEF ChainInv, Linked
<1>2. ends \in SUBSET Nat /\ n \in ends /\ ends \subseteq 1..n
  BY <1>1
<1>3. end \in ends /\ \A i \in ends : end <= i
  <2> HIDE DEF ends
  <2>1. QED
    BY <1>2, MinOfNat
<1>4. ASSUME NEW d \in Pieces(c), d.awaited
      PROVE  ~ Gone(Contact[c.client]) /\ d = Piece(c, 1, end)
  <2>1. PICK x \in 1..n, y \in 1..n : IsPiece(c.hops, x, y) /\ d = Piece(c, x, y)
    BY PiecesOf
  <2>2. x <= y /\ x = 1
    <3> HIDE DEF end, ends
    <3>1. x <= y
      BY <2>1 DEF IsPiece
    <3>2. Piece(c, x, y).awaited = (c.awaited /\ x = 1)
      BY <3>1, PieceFields
    <3>3. QED
      BY <1>4, <2>1, <3>1, <3>2
  <2>3. /\ \A i \in 1..y : ~ Gone(c.hops[i].at)
        /\ \A i \in 1..y - 1 : ~ Broken(c.hops[i])
        /\ y = n \/ Broken(c.hops[y])
    BY <2>1, <2>2 DEF IsPiece
  <2>4. y \in ends
    BY <2>3
  <2>5. end \in 1..n /\ end <= y /\ (end = n \/ Broken(c.hops[end]))
    BY <1>2, <1>3, <2>4
  <2> HIDE DEF end, ends
  <2>6. end = y
    BY <1>1, <2>3, <2>5
  <2>7. QED
    BY <1>1, <2>1, <2>2, <2>3, <2>6
<1>5. ASSUME ~ Gone(Contact[c.client])
      PROVE  LET d == Piece(c, 1, end) IN d \in Pieces(c) /\ d.awaited
  <2>1. end \in 1..n /\ (end = n \/ Broken(c.hops[end]))
    BY <1>2, <1>3
  <2>2. \A i \in 1..end - 1 : ~ Broken(c.hops[i])
    <3>1. \A i \in 1..end - 1 : i \in 1..n /\ ~(end <= i)
      BY <1>1, <2>1
    <3>2. QED
      BY <1>3, <3>1
  <2>3. ASSUME NEW i \in 1..end PROVE ~ Gone(c.hops[i].at)
    <3>1. CASE i = 1
      BY <1>1, <1>5, <3>1
    <3>2. CASE i # 1
      <4>1. i - 1 \in 1..(n - 1) /\ i - 1 \in 1..end - 1 /\ (i - 1) + 1 = i
        <5> HIDE DEF n, end
        <5>1. QED
          BY <1>1, <2>1, <3>2
      <4>2. c.hops[i - 1].link # "none" /\ c.hops[i - 1].to = c.hops[(i - 1) + 1].at
        BY <1>1, <4>1 DEF Linked
      <4>3. ~ Broken(c.hops[i - 1])
        BY <2>2, <4>1
      <4>4. QED
        BY <4>1, <4>2, <4>3 DEF Broken
    <3>3. QED
      BY <3>1, <3>2
  <2>4. IsPiece(c.hops, 1, end)
    BY <2>1, <2>2, <2>3 DEF IsPiece
  <2>5. 1 \in 1..n /\ 1 <= end
    BY <1>1, <2>1
  <2> HIDE DEF end
  <2>6. Piece(c, 1, end) \in Pieces(c)
    BY <2>1, <2>4, <2>5, PiecesOf
  <2>7. Piece(c, 1, end).awaited
    BY <2>1, <2>5, PieceFields
  <2>8. QED
    BY <2>6, <2>7
<1>6. CASE Gone(Contact[c.client])
  BY <1>4, <1>6
<1>7. CASE ~ Gone(Contact[c.client])
  <2> DEFINE h == Piece(c, 1, end)
  <2> HIDE DEF end
  <2>1. h \in Pieces(c) /\ h.awaited
    BY <1>5, <1>7
  <2>2. \A d \in Pieces(c) : d.awaited => d = h
    BY <1>4
  <2> HIDE DEF h
  <2>3. {d \in Pieces(c) : d.awaited} = {h}
    BY <2>1, <2>2
  <2>4. QED
    BY <1>7, <2>3
<1>8. QED
  BY <1>6, <1>7

(* The running handler, at a server that stays up, is still the last of a  *)
(* piece.                                                                  *)
LEMMA LastPiece ==
  ASSUME NEW c, ChainInv(c), ~ Gone(Here(c))
  PROVE  \E d \in Pieces(c) :
           Here(d) = Here(c) /\ (d.phase = c.phase \/ d.phase = "failed")
<1> DEFINE n == Len(c.hops)
           starts == {i \in 1..n : \/ i = 1 \/ Gone(c.hops[i - 1].at)
                                   \/ Broken(c.hops[i - 1])}
           start == Max(starts)
<1>1. /\ n \in Nat /\ n > 0 /\ Here(c) = c.hops[n].at
      /\ \A i \in 1..n : c.hops[i] \in Hop
  BY ChainFacts DEF Here
<1>2. 1 \in starts /\ starts \in SUBSET (1..n)
  BY <1>1
<1>3. start \in starts /\ \A i \in starts : i <= start
  <2> HIDE DEF starts
  <2>1. QED
    BY <1>1, <1>2, MaxOfInterval
<1>4. start \in 1..n /\ (start = 1 \/ Gone(c.hops[start - 1].at) \/ Broken(c.hops[start - 1]))
  BY <1>3
<1>5. ASSUME NEW i \in start..n - 1
      PROVE  ~ Gone(c.hops[i].at) /\ ~ Broken(c.hops[i])
  <2>1. i + 1 \in 1..n /\ ~(i + 1 <= start) /\ (i + 1) - 1 = i
    BY <1>1, <1>4
  <2>2. i + 1 \notin starts
    BY <1>3, <2>1
  <2>3. QED
    BY <2>1, <2>2
<1>6. ASSUME NEW i \in start..n PROVE ~ Gone(c.hops[i].at)
  <2>1. i = n \/ i \in start..n - 1
    BY <1>1, <1>4
  <2>2. QED
    BY <1>1, <1>5, <2>1
<1>7. PICK a \in 1..n, b \in 1..n : IsPiece(c.hops, a, b) /\ a <= b /\ b = n
  <2> HIDE DEF start
  <2>1. IsPiece(c.hops, start, n) /\ n \in 1..n /\ start <= n
    BY <1>1, <1>4, <1>5, <1>6 DEF IsPiece
  <2>2. QED
    BY <1>4, <2>1
<1> HIDE DEF start, starts
<1> DEFINE piece == Piece(c, a, b)
           m == b - a + 1
<1>8. piece \in Pieces(c)
  BY <1>7, PiecesOf
<1>9. /\ piece.phase = IF Broken(c.hops[b]) THEN "failed" ELSE c.phase
      /\ Len(piece.hops) = m
      /\ \A i \in 1..m : piece.hops[i] = After(c.hops[a + i - 1])
  <2>1. a <= b
    BY <1>7
  <2>2. QED
    BY <2>1, PieceFields
<1> HIDE DEF piece
<1>10. m \in 1..m /\ a + m - 1 = b
  BY <1>1, <1>7
<1>11. piece.hops[m] = After(c.hops[b])
  BY <1>9, <1>10
<1>12. piece.hops[m].at = c.hops[b].at
  BY <1>1, <1>7, <1>11, AfterType
<1>13. Here(piece) = Here(c)
  BY <1>1, <1>7, <1>9, <1>12 DEF Here
<1>14. QED
  BY <1>8, <1>9, <1>13

(* A break keeps every client waiting for one chain or tells it that its   *)
(* contact is gone.                                                        *)
LEMMA BreakAwaited ==
  ASSUME ~ NothingBreaks, \A c \in chains : ChainInv(c), AwaitedOnce, AnswerType,
         Break
  PROVE  AwaitedOnce' /\ AnswerType'
<1>1. AnswerType'
  BY DEF Break, AnswerType
<1>2. ASSUME NEW k \in Client
      PROVE  /\ answer'[k] = "waiting" => \E h : Awaited(k)' = {h}
             /\ answer'[k] # "waiting" => Awaited(k)' = {}
  <2>1. /\ chains' = UNION {Pieces(c) : c \in chains}
        /\ answer'[k] = IF Disconnected(k) THEN "error" ELSE answer[k]
    BY DEF Break
  <2>2. ASSUME NEW c \in chains, NEW d \in Pieces(c)
        PROVE  d.client = c.client /\ (d.awaited => c.awaited)
    <3>1. PICK a \in 1..Len(c.hops), b \in 1..Len(c.hops) :
            IsPiece(c.hops, a, b) /\ d = Piece(c, a, b)
      BY PiecesOf
    <3>2. a <= b
      BY <3>1 DEF IsPiece
    <3>3. d.client = c.client /\ d.awaited = (c.awaited /\ a = 1)
      BY <3>1, <3>2, PieceFields
    <3>4. QED
      BY <3>3
  <2>3. Awaited(k)' = UNION {{d \in Pieces(c) : d.awaited} : c \in Awaited(k)}
    <3>1. ASSUME NEW d \in Awaited(k)'
          PROVE  \E c \in Awaited(k) : d \in Pieces(c) /\ d.awaited
      BY <2>1, <2>2 DEF Awaited
    <3>2. ASSUME NEW c \in Awaited(k), NEW d \in Pieces(c), d.awaited
          PROVE  d \in Awaited(k)'
      BY <2>1, <2>2, <3>2 DEF Awaited
    <3>3. QED
      BY <3>1, <3>2
  <2>4. CASE answer[k] # "waiting"
    <3>1. Awaited(k) = {}
      BY <2>4 DEF AwaitedOnce
    <3>2. Awaited(k)' = {}
      BY <2>3, <3>1
    <3>3. QED
      BY <2>1, <2>4, <3>2 DEF Disconnected
  <2>5. CASE answer[k] = "waiting"
    <3>1. PICK c : Awaited(k) = {c}
      BY <2>5 DEF AwaitedOnce
    <3>2. c \in chains /\ c.client = k /\ c.awaited
      BY <3>1 DEF Awaited
    <3>3. Awaited(k)' = {d \in Pieces(c) : d.awaited}
      BY <2>3, <3>1
    <3>4. IF Gone(Contact[k]) THEN \A d \in Pieces(c) : ~ d.awaited
          ELSE \E h : {d \in Pieces(c) : d.awaited} = {h}
      BY <3>2, FirstPiece
    <3>5. answer'[k] = IF Gone(Contact[k]) THEN "error" ELSE "waiting"
      BY <2>1, <2>5 DEF Disconnected
    <3>6. QED
      BY <3>3, <3>4, <3>5
  <2>6. QED
    BY <2>4, <2>5
<1>3. QED
  BY <1>1, <1>2 DEF AwaitedOnce

(* It keeps the handlers that are about to collect, where the server stays *)
(* up.                                                                     *)
LEMMA BreakBlames ==
  ASSUME \A c \in chains : ChainInv(c), Break, NEW s, Blaming(s), ~ Gone(s)
  PROVE  Blaming(s)'
<1>1. PICK c \in chains : Here(c) = s /\ c.phase \in {"failed", "collect"}
  BY DEF Blaming
<1>2. PICK d \in Pieces(c) :
        Here(d) = Here(c) /\ (d.phase = c.phase \/ d.phase = "failed")
  BY <1>1, LastPiece
<1>3. d \in chains'
  BY <1>2 DEF Break
<1>4. Here(d)' = Here(d)
  BY DEF Here
<1>5. QED
  BY <1>1, <1>2, <1>3, <1>4 DEF Blaming

LEMMA BreakKeeps ==
  ASSUME ~ NothingBreaks, \A c \in chains : ChainInv(c), AwaitedOnce, AnswerType,
         CollectorThere, Break,
         \A s \in Server : deadNodeList'[s] # << >> =>
           \/ Collecting(s)'
           \/ deadNodeList[s] # << >> /\ ~ Collecting(s) /\ life'[s] = life[s]
  PROVE  /\ \A c \in chains' : ChainInv(c)'
         /\ AwaitedOnce' /\ AnswerType' /\ CollectorThere'
<1>1. \A c \in chains' : ChainInv(c)'
  BY PieceInv DEF Break
<1>2. AwaitedOnce' /\ AnswerType'
  BY BreakAwaited
<1>3. ASSUME NEW s \in Server, deadNodeList'[s] # << >>, ~ Collecting(s)'
      PROVE  Blaming(s)'
  <2>1. deadNodeList[s] # << >> /\ ~ Collecting(s) /\ life'[s] = life[s]
    BY <1>3
  <2>2. Blaming(s)
    BY <2>1 DEF CollectorThere
  <2>3. life[s] # "crashed"
    BY <2>2, ChainFacts DEF Blaming
  <2>4. QED
    BY <2>1, <2>2, <2>3, BreakBlames DEF Gone
<1>4. QED
  BY <1>1, <1>2, <1>3 DEF CollectorThere

-----------------------------------------------------------------------------
(* A step of a handler.                                                    *)

(* The chain goes on as another one, or has returned to its client.        *)
GoesOnOrReturns(c) ==
  \/ \E d : Goes(c, d) /\ Follows(c, d)
  \/ /\ chains' = chains \ {c}
     /\ answer' = [k \in Client |-> IF k = c.client /\ c.awaited THEN c.status
                                    ELSE answer[k]]
     /\ UNCHANGED asked

LEMMA ChainsGoOn ==
  ASSUME \A c \in chains : ChainInv(c), AwaitedOnce, AnswerType, UNCHANGED life,
         NEW c \in chains, GoesOnOrReturns(c)
  PROVE  (\A e \in chains' : ChainInv(e)') /\ AwaitedOnce' /\ AnswerType'
<1>1. \A e : ChainInv(e) <=> ChainInv(e)'
  BY DEF ChainInv, Alive, Linked
<1>2. ASSUME NEW d, Goes(c, d), Follows(c, d)
      PROVE  (\A e \in chains' : ChainInv(e)') /\ AwaitedOnce' /\ AnswerType'
  <2>1. /\ chains' = (chains \ {c}) \cup {d} /\ UNCHANGED <<asked, answer>>
        /\ ChainInv(d) /\ d.client = c.client /\ d.awaited = c.awaited
    BY <1>2 DEF Goes, Follows
  <2>2. \A e \in chains' : ChainInv(e)'
    BY <1>1, <2>1
  <2>3. ASSUME NEW k \in Client
        PROVE  /\ answer'[k] = "waiting" => \E h : Awaited(k)' = {h}
               /\ answer'[k] # "waiting" => Awaited(k)' = {}
    <3>1. CASE c \in Awaited(k)
      <4>1. Awaited(k) = {c} /\ answer[k] = "waiting"
        BY <3>1 DEF AwaitedOnce
      <4>2. \A h \in chains \ {c} : ~(h.client = k /\ h.awaited)
        BY <4>1 DEF Awaited
      <4>3. d.client = k /\ d.awaited
        BY <2>1, <3>1 DEF Awaited
      <4>4. Awaited(k)' = {d}
        BY <2>1, <4>2, <4>3 DEF Awaited
      <4>5. QED
        BY <2>1, <4>1, <4>4
    <3>2. CASE c \notin Awaited(k)
      <4>1. ~(c.client = k /\ c.awaited) /\ ~(d.client = k /\ d.awaited)
        BY <2>1, <3>2 DEF Awaited
      <4>2. Awaited(k)' = Awaited(k)
        BY <2>1, <4>1 DEF Awaited
      <4>3. QED
        BY <2>1, <4>2 DEF AwaitedOnce
    <3>3. QED
      BY <3>1, <3>2
  <2>4. QED
    BY <2>1, <2>2, <2>3 DEF AwaitedOnce, AnswerType
<1>3. ASSUME chains' = chains \ {c},
             answer' = [k \in Client |-> IF k = c.client /\ c.awaited THEN c.status
                                        ELSE answer[k]],
             UNCHANGED asked
      PROVE  (\A e \in chains' : ChainInv(e)') /\ AwaitedOnce' /\ AnswerType'
  <2>1. c.status \in Status /\ "waiting" \notin Status
    BY DEF ChainInv, Chain, Status
  <2>2. ASSUME NEW k \in Client
        PROVE  /\ answer'[k] = "waiting" => \E h : Awaited(k)' = {h}
               /\ answer'[k] # "waiting" => Awaited(k)' = {}
    <3>1. CASE c \in Awaited(k)
      <4>1. Awaited(k) = {c}
        BY <3>1 DEF AwaitedOnce
      <4>2. Awaited(k)' = {}
        BY <1>3, <4>1 DEF Awaited
      <4>3. answer'[k] = c.status
        BY <1>3, <3>1 DEF Awaited
      <4>4. QED
        BY <2>1, <4>2, <4>3
    <3>2. CASE c \notin Awaited(k)
      <4>1. ~(c.client = k /\ c.awaited)
        BY <3>2 DEF Awaited
      <4>2. Awaited(k)' = Awaited(k) /\ answer'[k] = answer[k]
        BY <1>3, <4>1 DEF Awaited
      <4>3. QED
        BY <4>2 DEF AwaitedOnce
    <3>3. QED
      BY <3>1, <3>2
  <2>3. AnswerType'
    BY <1>3, <2>1 DEF AnswerType
  <2>4. QED
    BY <1>1, <1>3, <2>2, <2>3 DEF AwaitedOnce
<1>4. QED
  BY <1>2, <1>3 DEF GoesOnOrReturns

(* What a step of a handler does beside that: a break where its server     *)
(* dies, a node marked dead that it will collect, a goroutine that does.   *)
Breaks == ~ NothingBreaks /\ Break /\ \E s \in Server : Halt(s)
StepsOn(c) ==
  /\ c.phase \notin {"failed", "collect"}
  /\ UNCHANGED <<life, deadNodeList, tasks>> /\ GoesOnOrReturns(c)
Blames(c) ==
  /\ \E n : MarkDead(Here(c), n)
  /\ UNCHANGED <<life, tasks>>
  /\ \E d : /\ Goes(c, d) /\ Follows(c, d)
           /\ Here(d) = Here(c) /\ d.phase = "collect"
Collects(c) ==
  /\ UNCHANGED <<life, deadNodeList>> /\ GoesOnOrReturns(c)
  /\ \/ deadNodeList[Here(c)] = << >> /\ UNCHANGED tasks
     \/ \E u : "at" \in DOMAIN u /\ u.at = Here(c) /\ tasks' = tasks \cup {u}

LEMMA NothingHalts ==
  ASSUME RequestInv, NothingBreaks, NEW s \in Server
  PROVE  nodeIndex[s] < Len(nodeList[s]) /\ nodeList[s] # << >>
         /\ Len(nodeList[s]) \in Nat /\ nodeIndex[s] \in Nat
<1>1. ListOf(s, nodeList[s], nodeIndex[s])
  BY DEF RequestInv, RouteInv, NothingBreaks, RingAtRest
<1>2. QED
  BY <1>1 DEF ListOf

LEMMA LeaveMoves ==
  ASSUME NEW c, ChainInv(c), NEW n \in Server, NEW node \in Server \cup {NoNode},
         Leave(c, n, node)
  PROVE  \E d : Goes(c, d) /\ Follows(c, d)
<1>1. CASE connMap[Here(c)][n] = "nil"
  <2>1. Follows(c, [c EXCEPT !.phase = "return"])
    BY EntersFollows DEF Stage, Status
  <2>2. QED
    BY <1>1, <2>1 DEF Leave, Enters
<1>2. CASE connMap[Here(c)][n] # "nil"
  <2> DEFINE hop == [Arrive(Here(c)) EXCEPT !.node = node, !.to = n, !.link = "open"]
  <2>1. hop \in Hop /\ hop.at = Here(c) /\ hop.link # "none"
    BY ChainFacts DEF Arrive, Hop
  <2>2. Goes(c, WithLast(c, hop, "call"))
    BY <1>2 DEF Leave
  <2> HIDE DEF hop
  <2>3. Follows(c, WithLast(c, hop, "call"))
    BY <2>1, LastFollows DEF Stage
  <2>4. QED
    BY <2>2, <2>3
<1>3. QED
  BY <1>1, <1>2

LEMMA SeekMoves ==
  ASSUME RequestInv, NEW c \in chains, Seek(c)
  PROVE  Breaks \/ StepsOn(c)
<1>1. ChainInv(c) /\ Here(c) \in Server
  BY ChainFacts DEF RequestInv
<1>2. CASE NoneAbove(c)
  <2>1. Follows(c, [c EXCEPT !.phase = "wrap"])
    BY <1>1, EntersFollows DEF Stage, Status
  <2>2. QED
    BY <1>2, <2>1 DEF NoneAbove, Enters, StepsOn, GoesOnOrReturns, vars
<1>3. ASSUME NEW n \in Server, SeekAbove(c, n)
      PROVE  StepsOn(c)
  <2> DEFINE above == {m \in Entries(Here(c)) : c.key < m}
             node  == Listed(Here(c), Min(above))
  <2>1. n \in above /\ Leave(c, n, node) /\ UNCHANGED vars /\ c.phase = "above"
    BY <1>3 DEF SeekAbove
  <2>2. above \in SUBSET Nat /\ above \subseteq Server /\ above # {}
    BY <2>1, RingAssumption DEF Entries
  <2>3. Min(above) \in Server
    BY <2>2, MinOfNat
  <2>4. node \in Server \cup {NoNode}
    BY <2>3 DEF Listed
  <2> HIDE DEF node
  <2>5. \E d : Goes(c, d) /\ Follows(c, d)
    BY <1>1, <2>1, <2>4, LeaveMoves
  <2>6. QED
    BY <2>1, <2>5 DEF StepsOn, GoesOnOrReturns, vars
<1>4. CASE SeekLowest(c)
  <2>1. CASE nodeList[Here(c)] = << >>
    <3>1. Halt(Here(c)) /\ Break
      BY <1>4, <2>1 DEF SeekLowest
    <3>2. ~ NothingBreaks
      BY <1>1, <2>1, NothingHalts
    <3>3. QED
      BY <1>1, <3>1, <3>2 DEF Breaks
  <2>2. CASE nodeList[Here(c)] # << >>
    <3>1. c.phase = "wrap" /\ UNCHANGED vars
      BY <1>4, <2>2 DEF SeekLowest
    <3>2. CASE Lowest(Here(c)) \in Entries(Here(c))
      <4> DEFINE n == Lowest(Here(c))
                 node == Listed(Here(c), n)
      <4>1. n \in Server
        BY <3>2 DEF Entries
      <4>2. node \in Server \cup {NoNode}
        BY <4>1 DEF Listed
      <4>3. Leave(c, n, node)
        BY <1>4, <2>2, <3>2 DEF SeekLowest
      <4> HIDE DEF n, node
      <4>4. \E d : Goes(c, d) /\ Follows(c, d)
        BY <1>1, <4>1, <4>2, <4>3, LeaveMoves
      <4>5. QED
        BY <3>1, <4>4 DEF StepsOn, GoesOnOrReturns, vars
    <3>3. CASE Lowest(Here(c)) \notin Entries(Here(c))
      <4>1. KeepIt(c)
        BY <1>4, <2>2, <3>3 DEF SeekLowest
      <4>2. Follows(c, [c EXCEPT !.phase = "serve"])
        BY <1>1, EntersFollows DEF Stage, Status
      <4>3. QED
        BY <3>1, <4>1, <4>2 DEF KeepIt, Enters, StepsOn, GoesOnOrReturns, vars
    <3>4. QED
      BY <3>2, <3>3
  <2>3. QED
    BY <2>1, <2>2
<1>5. QED
  BY <1>2, <1>3, <1>4 DEF Seek

LEMMA RunOutcome ==
  ASSUME RequestInv, NEW c \in chains, Run(c)
  PROVE  Breaks \/ StepsOn(c) \/ Blames(c) \/ Collects(c)
<1>1. /\ ChainInv(c) /\ Here(c) \in Server /\ c \in Chain
      /\ c.hops \in Seq(Hop) /\ Len(c.hops) \in Nat /\ Len(c.hops) > 0
      /\ c.hops[Len(c.hops)] \in Hop /\ IsFiniteSet(tasks)
  <2>1. ChainInv(c) /\ IsFiniteSet(tasks)
    BY DEF RequestInv
  <2>2. QED
    BY <2>1, ChainFacts
<1>2. ASSUME NEW phase \in Stage, phase # "call", Enters(c, phase)
      PROVE  \E d : Goes(c, d) /\ Follows(c, d)
  <2>1. "zero" \in Status
    BY DEF Status
  <2>2. Follows(c, [c EXCEPT !.phase = phase])
    BY <1>1, <1>2, <2>1, EntersFollows
  <2>3. QED
    BY <1>2, <2>2 DEF Enters
<1>3. Follows(c, StartOver(c))
  <2>1. Arrive(Here(c)) \in Hop /\ Arrive(Here(c)).at = Here(c)
    BY <1>1, ArriveType
  <2>2. QED
    BY <1>1, <2>1, LastFollows DEF StartOver, Stage
<1>4. CASE SortAndIndex(c)
  <2>1. Enters(c, "serve") \/ Enters(c, "claim")
    BY <1>4 DEF SortAndIndex
  <2>2. \E d : Goes(c, d) /\ Follows(c, d)
    BY <1>2, <2>1 DEF Stage
  <2>3. QED
    BY <1>4, <2>2 DEF SortAndIndex, StepsOn, GoesOnOrReturns
<1>5. CASE TestClaim(c)
  <2>1. CASE nodeIndex[Here(c)] >= Len(nodeList[Here(c)])
    <3>1. Halt(Here(c)) /\ Break
      BY <1>5, <2>1 DEF TestClaim
    <3>2. ASSUME NothingBreaks PROVE FALSE
      <4>1. /\ nodeIndex[Here(c)] < Len(nodeList[Here(c)])
            /\ Len(nodeList[Here(c)]) \in Nat /\ nodeIndex[Here(c)] \in Nat
        BY <1>1, <3>2, NothingHalts
      <4>2. QED
        BY <2>1, <4>1
    <3>3. QED
      BY <1>1, <3>1, <3>2 DEF Breaks
  <2>2. CASE ~ (nodeIndex[Here(c)] >= Len(nodeList[Here(c)]))
    <3>1. (Enters(c, "serve") \/ Enters(c, "above")) /\ UNCHANGED vars
      BY <1>5, <2>2 DEF TestClaim
    <3>2. \E d : Goes(c, d) /\ Follows(c, d)
      BY <1>2, <3>1 DEF Stage
    <3>3. QED
      BY <1>5, <3>1, <3>2 DEF TestClaim, StepsOn, GoesOnOrReturns, vars
  <2>3. QED
    BY <2>1, <2>2
<1>6. CASE Seek(c)
  BY <1>6, SeekMoves
<1>7. CASE Forward(c)
  <2> DEFINE d == [c EXCEPT !.phase = "check",
                     !.hops = Append(IF Len(@) = MaxHops THEN Tail(@) ELSE @,
                                     Arrive(c.hops[Len(c.hops)].to))]
  <2>1. Goes(c, d) /\ UNCHANGED vars /\ c.phase = "call"
    BY <1>7 DEF Forward
  <2>2. Follows(c, d)
    BY <1>1, <1>7, ForwardFollows DEF Forward
  <2> HIDE DEF d
  <2>3. QED
    BY <2>1, <2>2 DEF StepsOn, GoesOnOrReturns, vars
<1>8. CASE CallFails(c)
  <2> DEFINE hop == Unlinked(c.hops[Len(c.hops)])
  <2>1. hop \in Hop /\ hop.at = Here(c)
    BY <1>1, UnlinkedType DEF Here
  <2>2. Goes(c, WithLast(c, hop, "failed")) /\ UNCHANGED vars /\ c.phase = "call"
    BY <1>8 DEF CallFails
  <2> HIDE DEF hop
  <2>3. Follows(c, WithLast(c, hop, "failed"))
    BY <1>1, <2>1, LastFollows DEF Stage
  <2>4. QED
    BY <2>2, <2>3 DEF StepsOn, GoesOnOrReturns, vars
<1>9. CASE Blame(c)
  <2> DEFINE d == [c EXCEPT !.phase = "collect"]
  <2>1. "zero" \in Status /\ "collect" \in Stage
    BY DEF Status, Stage
  <2>2. Follows(c, d)
    BY <1>1, <2>1, EntersFollows
  <2>3. d.hops = c.hops /\ d.phase = "collect"
    BY <1>1 DEF Chain
  <2>4. Goes(c, d)
    BY <1>9 DEF Blame, Enters
  <2>5. UNCHANGED <<life, tasks>> /\ \E n : MarkDead(Here(c), n)
    BY <1>9 DEF Blame
  <2> HIDE DEF d
  <2>6. Here(d) = Here(c)
    BY <2>3 DEF Here
  <2>7. QED
    BY <2>2, <2>3, <2>4, <2>5, <2>6 DEF Blames
<1>10. CASE Collect(c)
  <2>1. UNCHANGED <<life, deadNodeList>>
    BY <1>10 DEF Collect
  <2>2. CASE deadNodeList[Here(c)] = << >>
    <3>1. Goes(c, StartOver(c)) /\ UNCHANGED tasks
      BY <1>10, <2>2 DEF Collect
    <3>2. QED
      BY <1>3, <2>1, <2>2, <3>1 DEF Collects, GoesOnOrReturns
  <2>3. CASE deadNodeList[Here(c)] # << >>
    <3> DEFINE s == Here(c)
               slot == FreeSlot(s)
               u == TaskIn("bury", s, s, slot, deadNodeList[s])
               hop == [Arrive(s) EXCEPT !.slot = slot]
    <3>1. tasks' = tasks \cup {u} /\ Goes(c, WithLast(c, hop, "await"))
      BY <1>10, <2>3 DEF Collect
    <3>2. "at" \in DOMAIN u /\ u.at = s
      BY NewTaskStays
    <3>3. slot \in Nat
      BY <1>1, FreeSlotType
    <3> HIDE DEF slot, u
    <3>4. hop \in Hop /\ hop.at = Here(c)
      BY <1>1, <3>3 DEF Arrive, Hop
    <3> HIDE DEF hop
    <3>5. Follows(c, WithLast(c, hop, "await"))
      BY <1>1, <3>4, LastFollows DEF Stage
    <3>6. QED
      BY <2>1, <3>1, <3>2, <3>5 DEF Collects, GoesOnOrReturns
  <2>4. QED
    BY <2>2, <2>3
<1>11. CASE Retry(c)
  BY <1>3, <1>11 DEF Retry, StepsOn, GoesOnOrReturns, vars
<1>12. CASE Serve(c)
  <2>1. PICK status \in Status : Replies(c, status)
    BY <1>12 DEF Serve, Status
  <2>2. Follows(c, [c EXCEPT !.phase = "return", !.status = status])
    BY <1>1, EntersFollows DEF Stage
  <2>3. UNCHANGED <<life, deadNodeList, tasks>> /\ c.phase = "serve"
    BY <1>12 DEF Serve
  <2>4. QED
    BY <2>1, <2>2, <2>3 DEF Replies, StepsOn, GoesOnOrReturns
<1>13. CASE Return(c)
  <2>1. c.phase = "return" /\ UNCHANGED vars
    BY <1>13 DEF Return
  <2>2. CASE Len(c.hops) > 1
    <3>1. Follows(c, [c EXCEPT !.hops = Front(@)])
      BY <1>1, <2>1, <2>2, FrontFollows
    <3>2. Goes(c, [c EXCEPT !.hops = Front(@)])
      BY <1>13, <2>2 DEF Return
    <3>3. GoesOnOrReturns(c)
      BY <3>1, <3>2 DEF GoesOnOrReturns
    <3>4. QED
      BY <2>1, <3>3 DEF StepsOn, vars
  <2>3. CASE ~ (Len(c.hops) > 1)
    <3>1. GoesOnOrReturns(c)
      BY <1>13, <2>3 DEF Return, GoesOnOrReturns
    <3>2. QED
      BY <2>1, <3>1 DEF StepsOn, vars
  <2>4. QED
    BY <2>2, <2>3
<1>14. QED
  BY <1>4, <1>5, <1>6, <1>7, <1>8, <1>9, <1>10, <1>11, <1>12, <1>13 DEF Run

-----------------------------------------------------------------------------
(* The invariant.                                                          *)

LEMMA RequestInit == RoutingInit => RequestInv
<1> SUFFICES ASSUME RoutingInit PROVE RequestInv
  OBVIOUS
<1>1. RouteInv
  BY RouteInit
<1>2. /\ life = [s \in Server |-> IF s \in Founder THEN "serving" ELSE "off"]
      /\ deadNodeList = [s \in Server |-> << >>] /\ tasks = {} /\ chains = {}
      /\ asked = [c \in Client |-> 0] /\ answer = [c \in Client |-> "idle"]
  BY DEF RoutingInit, Init
<1>3. Places /\ Undisturbed
  BY <1>2 DEF Places, Undisturbed, Crashed
<1>4. IsFiniteSet(tasks)
  BY <1>2, FS_EmptySet
<1>5. AwaitedOnce
  BY <1>2 DEF AwaitedOnce, Awaited
<1>6. CollectorThere
  BY <1>2 DEF CollectorThere
<1>7. AnswerType
  <2>1. 0 \in 0..MaxCalls
    BY RoutingAssumption
  <2>2. QED
    BY <1>2, <2>1 DEF AnswerType
<1>8. QED
  BY <1>1, <1>2, <1>3, <1>4, <1>5, <1>6, <1>7 DEF RequestInv

(* What is left of the invariant when RouteInv is known to hold again.     *)
RestOfInv ==
  /\ NothingBreaks => Undisturbed
  /\ Places
  /\ IsFiniteSet(tasks)
  /\ \A c \in chains : ChainInv(c)
  /\ AwaitedOnce
  /\ CollectorThere
  /\ AnswerType

(* Where nothing breaks, the ring does not move at all.                    *)
LEMMA NoRingStep ==
  ASSUME RequestInv, NothingBreaks
  PROVE  ~ Next
<1>1. Newcomer = {} /\ MaxCrash = 0 /\ RingAtRest
  BY DEF NothingBreaks, RequestInv, RouteInv
<1> SUFFICES ASSUME Next PROVE FALSE
  OBVIOUS
<1>2. PICK s \in Server : Crash(s)
  BY <1>1 DEF Next, Background, RingAtRest
<1>3. Cardinality({n \in Server : life[n] = "crashed"}) < 0
  BY <1>1, <1>2 DEF Crash
<1>4. Cardinality({n \in Server : life[n] = "crashed"}) \in Nat
  <2>1. IsFiniteSet({n \in Server : life[n] = "crashed"})
    BY RingAssumption, FS_Subset
  <2>2. QED
    BY <2>1, FS_CardinalityType
<1>5. QED
  BY <1>3, <1>4

LEMMA RingStepKeeps ==
  ASSUME RequestInv, RingStep
  PROVE  RestOfInv'
<1>1. Next /\ Break
  BY DEF RingStep
<1>2. ~ NothingBreaks
  BY <1>1, NoRingStep
<1>3. Places /\ [Next]_vars
  BY <1>1 DEF RequestInv
<1>4. Places'
  BY <1>3, PlacesStep
<1>5. IsFiniteSet(tasks')
  <2>1. PICK u : tasks' \subseteq tasks \cup {u}
    BY <1>3, OneMoreTask
  <2>2. IsFiniteSet(tasks \cup {u})
    BY FS_AddElement DEF RequestInv
  <2>3. QED
    BY <2>1, <2>2, FS_Subset
<1>6. \A s \in Server : deadNodeList'[s] # << >> =>
        \/ Collecting(s)'
        \/ deadNodeList[s] # << >> /\ ~ Collecting(s) /\ life'[s] = life[s]
  BY <1>3, CollectorStep
<1>7. /\ \A c \in chains' : ChainInv(c)'
      /\ AwaitedOnce' /\ AnswerType' /\ CollectorThere'
  BY <1>1, <1>2, <1>6, BreakKeeps DEF RequestInv
<1>8. NothingBreaks' = NothingBreaks
  BY DEF NothingBreaks
<1>9. QED
  BY <1>2, <1>4, <1>5, <1>7, <1>8 DEF RestOfInv

(* A request of a client: one chain, at a server that serves.              *)
LEMMA AskKeeps ==
  ASSUME RequestInv, NEW k \in Client, Ask(k)
  PROVE  RestOfInv'
<1>1. PICK op \in Op, key \in Key :
        chains' = chains \cup
          {[client |-> k, awaited |-> TRUE, op |-> op, key |-> key,
            hops |-> <<Arrive(Contact[k])>>, phase |-> "check", status |-> "zero"]}
  BY DEF Ask
<1> DEFINE new == [client |-> k, awaited |-> TRUE, op |-> op, key |-> key,
                   hops |-> <<Arrive(Contact[k])>>, phase |-> "check",
                   status |-> "zero"]
<1>2. /\ answer[k] # "waiting" /\ asked[k] < MaxCalls /\ Answers(Contact[k])
      /\ asked' = [asked EXCEPT ![k] = @ + 1]
      /\ answer' = [answer EXCEPT ![k] = "waiting"]
      /\ UNCHANGED <<life, deadNodeList, tasks>>
  BY DEF Ask, vars
<1>3. Contact[k] \in Server
  BY RingAssumption, RoutingAssumption
<1>4. /\ new \in Chain /\ new.client = k /\ new.awaited /\ new.phase = "check"
      /\ new.hops = <<Arrive(Contact[k])>>
  <2>1. <<Arrive(Contact[k])>> \in Seq(Hop)
    BY <1>3, ArriveType
  <2>2. QED
    BY <2>1 DEF Chain, Stage, Status
<1> HIDE DEF new
<1>5. ChainInv(new)'
  <2>1. /\ new.hops # << >> /\ Len(new.hops) = 1
        /\ new.hops[1].at = Contact[k]
    BY <1>3, <1>4, ArriveType
  <2>2. life'[Contact[k]] # "crashed"
    BY <1>2 DEF Answers
  <2>3. Alive(new)'
    BY <2>1, <2>2 DEF Alive
  <2>4. Linked(new)'
    BY <1>4, <2>1 DEF Linked
  <2>5. 1 <= MaxHops
    BY RoutingAssumption
  <2>6. QED
    BY <1>4, <2>1, <2>3, <2>4, <2>5 DEF ChainInv
<1>6. \A c \in chains' : ChainInv(c)'
  <2>1. \A c \in chains : ChainInv(c)'
    BY <1>2 DEF RequestInv, ChainInv, Alive, Linked
  <2>2. QED
    BY <1>1, <1>5, <2>1 DEF new
<1>7. AnswerType'
  <2>1. asked \in [Client -> 0..MaxCalls] /\ MaxCalls \in Nat
    BY RoutingAssumption DEF RequestInv, AnswerType
  <2>2. asked[k] + 1 \in 0..MaxCalls
    BY <1>2, <2>1
  <2>3. asked' \in [Client -> 0..MaxCalls]
    BY <1>2, <2>1, <2>2
  <2>4. answer' \in [Client -> Status \cup {"idle", "waiting", "error"}]
    BY <1>2 DEF RequestInv, AnswerType
  <2>5. QED
    BY <2>3, <2>4 DEF AnswerType
<1>8. ASSUME NEW j \in Client
      PROVE  /\ answer'[j] = "waiting" => \E h : Awaited(j)' = {h}
             /\ answer'[j] # "waiting" => Awaited(j)' = {}
  <2>1. /\ answer[j] = "waiting" => \E h : Awaited(j) = {h}
        /\ answer[j] # "waiting" => Awaited(j) = {}
        /\ DOMAIN answer = Client
    BY DEF RequestInv, AwaitedOnce, AnswerType
  <2>2. chains' = chains \cup {new}
    BY <1>1 DEF new
  <2>3. CASE j = k
    <3>1. Awaited(j)' = {new}
      BY <1>2, <1>4, <2>1, <2>2, <2>3 DEF Awaited
    <3>2. answer'[j] = "waiting"
      BY <1>2, <2>1, <2>3
    <3>3. QED
      BY <3>1, <3>2
  <2>4. CASE j # k
    <3>1. Awaited(j)' = Awaited(j)
      BY <1>4, <2>2, <2>4 DEF Awaited
    <3>2. answer'[j] = answer[j]
      BY <1>2, <2>4
    <3>3. QED
      BY <2>1, <3>1, <3>2
  <2>5. QED
    BY <2>3, <2>4
<1>9. CollectorThere'
  <2>1. \A s : Collecting(s)' <=> Collecting(s)
    BY <1>2 DEF Collecting
  <2>2. \A s : Blaming(s) => Blaming(s)'
    BY <1>1 DEF Blaming, Here
  <2>3. QED
    BY <1>2, <2>1, <2>2 DEF RequestInv, CollectorThere
<1>10. Places' /\ IsFiniteSet(tasks') /\ (NothingBreaks => Undisturbed)'
  BY <1>2 DEF RequestInv, Places, NothingBreaks, Undisturbed, Crashed
<1>11. QED
  BY <1>6, <1>7, <1>8, <1>9, <1>10 DEF RestOfInv, AwaitedOnce

(* A break where a handler brings its server down.                         *)
LEMMA BreaksKeep ==
  ASSUME RequestInv, Breaks
  PROVE  RestOfInv'
<1>1. PICK r \in Server : Halt(r)
  BY DEF Breaks
<1>2. /\ Places'
      /\ deadNodeList'[r] = << >>
      /\ \A s \in Server \ {r} :
           /\ deadNodeList'[s] = deadNodeList[s] /\ life'[s] = life[s]
           /\ Collecting(s) => Collecting(s)'
  BY <1>1, HaltPlaces DEF RequestInv
<1>3. \A s \in Server : deadNodeList'[s] # << >> =>
        \/ Collecting(s)'
        \/ deadNodeList[s] # << >> /\ ~ Collecting(s) /\ life'[s] = life[s]
  BY <1>2
<1>4. IsFiniteSet(tasks')
  <2>1. tasks' \subseteq tasks
    BY <1>1 DEF Halt
  <2>2. QED
    BY <2>1, FS_Subset DEF RequestInv
<1>5. /\ \A c \in chains' : ChainInv(c)'
      /\ AwaitedOnce' /\ AnswerType' /\ CollectorThere'
  BY <1>3, BreakKeeps DEF RequestInv, Breaks
<1>6. NothingBreaks' = NothingBreaks
  BY DEF NothingBreaks
<1>7. QED
  BY <1>2, <1>4, <1>5, <1>6 DEF RestOfInv, Breaks

LEMMA StepKeeps ==
  ASSUME RequestInv, NEW c \in chains, StepsOn(c) \/ Blames(c) \/ Collects(c)
  PROVE  RestOfInv'
<1>1. UNCHANGED life /\ GoesOnOrReturns(c)
  BY DEF StepsOn, Blames, Collects, GoesOnOrReturns
<1>2. (\A e \in chains' : ChainInv(e)') /\ AwaitedOnce' /\ AnswerType'
  BY <1>1, ChainsGoOn DEF RequestInv
<1>3. (NothingBreaks => Undisturbed)'
  BY <1>1 DEF RequestInv, NothingBreaks, Undisturbed, Crashed
<1>4. Places'
  BY DEF RequestInv, Places, StepsOn, Blames, Collects, MarkDead
<1>5. IsFiniteSet(tasks')
  BY FS_AddElement DEF RequestInv, StepsOn, Blames, Collects
<1>6. chains \ {c} \subseteq chains'
  BY <1>1 DEF GoesOnOrReturns, Goes
<1>7. \A e : Here(e)' = Here(e)
  BY DEF Here
<1>8. \A s : Collecting(s) => Collecting(s)'
  BY DEF StepsOn, Blames, Collects, Collecting
<1>9. ASSUME NEW s \in Server, deadNodeList'[s] # << >>
      PROVE  Collecting(s)' \/ Blaming(s)'
  <2>1. CASE StepsOn(c)
    <3>1. Collecting(s) \/ Blaming(s)
      BY <1>9, <2>1 DEF StepsOn, RequestInv, CollectorThere
    <3>2. Blaming(s) => Blaming(s)'
      BY <1>6, <1>7, <2>1 DEF StepsOn, Blaming
    <3>3. QED
      BY <1>8, <3>1, <3>2
  <2>2. CASE Blames(c)
    <3>1. PICK d \in chains' : Here(d) = Here(c) /\ d.phase = "collect"
      BY <2>2 DEF Blames, Goes
    <3>2. CASE s = Here(c)
      BY <1>7, <3>1, <3>2 DEF Blaming
    <3>3. CASE s # Here(c)
      <4>1. deadNodeList[s] # << >>
        BY <1>9, <2>2, <3>3 DEF Blames, MarkDead, RequestInv, Places
      <4>2. Blaming(s) => Blaming(s)'
        BY <1>6, <1>7, <3>3 DEF Blaming
      <4>3. QED
        BY <1>8, <4>1, <4>2 DEF RequestInv, CollectorThere
    <3>4. QED
      BY <3>2, <3>3
  <2>3. CASE Collects(c)
    <3>1. deadNodeList[s] # << >>
      BY <1>9, <2>3 DEF Collects
    <3>2. CASE s = Here(c)
      BY <2>3, <3>1, <3>2 DEF Collects, Collecting
    <3>3. CASE s # Here(c)
      <4>1. Blaming(s) => Blaming(s)'
        BY <1>6, <1>7, <3>3 DEF Blaming
      <4>2. QED
        BY <1>8, <3>1, <4>1 DEF RequestInv, CollectorThere
    <3>4. QED
      BY <3>2, <3>3
  <2>4. QED
    BY <2>1, <2>2, <2>3
<1>10. QED
  BY <1>2, <1>3, <1>4, <1>5, <1>9 DEF RestOfInv, CollectorThere

LEMMA RequestStep == RequestInv /\ [RoutingNext]_allVars => RequestInv'
<1> SUFFICES ASSUME RequestInv, [RoutingNext]_allVars PROVE RequestInv'
  OBVIOUS
<1>1. RouteInv'
  BY RouteStep DEF RequestInv
<1>2. ASSUME RingStep PROVE RestOfInv'
  BY <1>2, RingStepKeeps
<1>3. ASSUME NEW k \in Client, Ask(k) PROVE RestOfInv'
  BY <1>3, AskKeeps
<1>4. ASSUME NEW c \in chains, Run(c) PROVE RestOfInv'
  BY <1>4, RunOutcome, BreaksKeep, StepKeeps
<1>5. ASSUME UNCHANGED allVars PROVE RestOfInv'
  <2>1. UNCHANGED <<life, deadNodeList, tasks, chains, asked, answer>>
    BY <1>5 DEF allVars, vars, routingVars
  <2>2. (NothingBreaks => Undisturbed)' /\ Places' /\ IsFiniteSet(tasks')
    BY <2>1 DEF RequestInv, NothingBreaks, Undisturbed, Crashed, Places
  <2>3. \A c \in chains' : ChainInv(c)'
    BY <2>1 DEF RequestInv, ChainInv, Alive, Linked
  <2>4. AwaitedOnce' /\ AnswerType'
    BY <2>1 DEF RequestInv, AwaitedOnce, Awaited, AnswerType
  <2>5. CollectorThere'
    BY <2>1 DEF RequestInv, CollectorThere, Collecting, Blaming, Here
  <2>6. QED
    BY <2>2, <2>3, <2>4, <2>5 DEF RestOfInv
<1>6. RestOfInv'
  BY <1>2, <1>3, <1>4, <1>5 DEF RoutingNext
<1>7. QED
  BY <1>1, <1>6 DEF RequestInv, RestOfInv

LEMMA RequestInvariant == RoutingSpec => []RequestInv
  BY RequestInit, RequestStep, PTL DEF RoutingSpec

-----------------------------------------------------------------------------
(* The chains of handlers that iGet, iPut and iDelete form are well formed *)
(* at any moment, and a client waits for exactly one of them while its     *)
(* call is out, whatever crashes or is rebuilt under them.                 *)
THEOREM RoutingTypes == RoutingSpec => []RoutingTypeOK
<1>1. RequestInv => RoutingTypeOK
  <2> SUFFICES ASSUME RequestInv PROVE RoutingTypeOK
    OBVIOUS
  <2>1. /\ chains \subseteq Chain
        /\ \A c \in chains : c.hops # << >> /\ Len(c.hops) <= MaxHops
    BY DEF RequestInv, ChainInv
  <2>2. ASSUME NEW k \in Client, answer[k] = "waiting"
        PROVE  Cardinality({h \in chains : h.client = k /\ h.awaited}) = 1
    <3>1. PICK h : Awaited(k) = {h}
      BY <2>2 DEF RequestInv, AwaitedOnce
    <3>2. Cardinality(Awaited(k)) = 1
      BY <3>1, FS_Singleton
    <3>3. QED
      BY <3>2 DEF Awaited
  <2>3. QED
    BY <2>1, <2>2 DEF RoutingTypeOK, RequestInv, AnswerType
<1>2. QED
  BY <1>1, RequestInvariant, PTL

(* A node that a request, a constructor or a goroutine has marked dead is  *)
(* collected before the last of them ends, whichever of them collects.     *)
THEOREM RequestsAreCollected == RoutingSpec => []RequestsCollect
<1>1. RequestInv => RequestsCollect
  BY DEF RequestInv, CollectorThere, Collecting, Blaming, RequestsCollect, Quiet,
         Settled
<1>2. QED
  BY <1>1, RequestInvariant, PTL
=============================================================================
