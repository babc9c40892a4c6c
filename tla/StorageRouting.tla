--------------------------- MODULE StorageRouting ---------------------------
(***************************************************************************)
(* How a request of a client finds the server its key belongs to: iGet,    *)
(* iPut and iDelete of storage-impl.go with checkServer, on top of the     *)
(* ring of StorageRing, whose goroutines they share lists, skip lists and  *)
(* the collection of dead nodes with.                                      *)
(*                                                                         *)
(* A handler that is not at the right server calls the same operation at   *)
(* another one and waits, so a request is a chain of handlers: only the    *)
(* last one runs.  When a link of the chain breaks, the handler before it  *)
(* sees an error, and the handlers after it go on with nobody waiting.     *)
(***************************************************************************)
EXTENDS StorageRing, SequencesExt

CONSTANTS
  Client,    \* the midclients
  Contact,   \* the server each of them is connected to
  MaxCalls,  \* bound on the requests of one client
  MaxHops    \* bound on the handlers of one chain

(* A node that is not in the list is the zero storageproto.Node.           *)
NoNode == 0

ASSUME RoutingAssumption ==
  /\ Contact \in [Client -> Founder]
  /\ NoNode \notin Server
  /\ MaxCalls \in Nat
  /\ MaxHops \in Nat \ {0, 1}

VARIABLES
  chains,  \* the requests being handled
  asked,   \* how many requests each client has made
  answer   \* idle, waiting, or what the client was told last

routingVars == <<chains, asked, answer>>
allVars == <<vars, routingVars>>

(* One handler.  node is the node it will blame when its call fails, to    *)
(* the server the client it calls through is connected to, link whether    *)
(* connMap still has that client (open) or has another one in its place    *)
(* (loose); slot is the name of the collectBodies it runs.                 *)
Hop == [at : Server, node : Server \cup {NoNode}, to : Server,
        link : {"none", "open", "loose"}, slot : Nat]
Arrive(s) == [at |-> s, node |-> NoNode, to |-> s, link |-> "none", slot |-> 0]

(* phase is where the last handler is, awaited whether the client still    *)
(* waits for this chain, status what the reply says: zero is OK as well,   *)
(* but nothing was done.                                                   *)
Op    == {"Get", "Put", "Delete"}
Stage == {"check", "claim", "above", "wrap", "serve", "call", "failed",
          "collect", "await", "return"}
Status == {"zero", "OK", "EKEYNOTFOUND", "ENOPERMISSION"}
Chain == [client : Client, awaited : BOOLEAN, op : Op, key : Key,
          hops : Seq(Hop), phase : Stage, status : Status]

RoutingTypeOK ==
  /\ chains \subseteq Chain
  /\ \A c \in chains : c.hops # << >> /\ Len(c.hops) <= MaxHops
  /\ asked \in [Client -> 0..MaxCalls]
  /\ answer \in [Client -> Status \cup {"idle", "waiting", "error"}]
  /\ \A c \in Client :
       answer[c] = "waiting" =>
         Cardinality({h \in chains : h.client = c /\ h.awaited}) = 1

RoutingInit ==
  /\ Init
  /\ chains = {}
  /\ asked = [c \in Client |-> 0]
  /\ answer = [c \in Client |-> "idle"]

-----------------------------------------------------------------------------
(* What a step of the ring does to the chains.  iCalculateSkipList closes  *)
(* every client of connMap, whoever is waiting on it; a client that was    *)
(* replaced in connMap is closed by nobody.                                *)

Closed(s) ==
  \E t \in tasks : t \notin tasks' /\ t.at = s /\ t.phase = "clear"
Replaced(s, n) ==
  /\ connMap[s][n] = "client"
  /\ \E t \in tasks : /\ t \notin tasks' /\ t.at = s
                      /\ t.phase \in {"record", "recordNil"} /\ Head(t.todo) = n

(* What is left of a call that failed: the node to blame.                  *)
Unlinked(h) == [Arrive(h.at) EXCEPT !.node = h.node]

Gone(s)   == life'[s] = "crashed"
Broken(h) == \/ h.link # "none" /\ Gone(h.to)
             \/ h.link = "open" /\ Closed(h.at)
After(h) ==
  IF Broken(h) THEN Unlinked(h)
  ELSE IF h.link = "open" /\ Replaced(h.at, h.to) THEN [h EXCEPT !.link = "loose"]
  ELSE h

(* The pieces of a chain between its breaks.                               *)
IsPiece(hops, a, b) ==
  /\ a <= b
  /\ \A i \in a..b : ~Gone(hops[i].at)
  /\ \A i \in a..b - 1 : ~Broken(hops[i])
  /\ a = 1 \/ Gone(hops[a - 1].at) \/ Broken(hops[a - 1])
  /\ b = Len(hops) \/ Broken(hops[b])
PieceStillAwaited(c, a, b) ==
  [c EXCEPT !.hops = [i \in 1..(b - a + 1) |-> After(c.hops[a + i - 1])],
            !.phase = IF Broken(c.hops[b]) THEN "failed" ELSE @]
Piece(c, a, b) ==
  [c EXCEPT !.awaited = @ /\ a = 1,
            !.hops = [i \in 1..(b - a + 1) |-> After(c.hops[a + i - 1])],
            !.phase = IF Broken(c.hops[b]) THEN "failed" ELSE @]
Pieces(c) ==
  {Piece(c, p[1], p[2]) :
     p \in {q \in (DOMAIN c.hops) \X (DOMAIN c.hops) : IsPiece(c.hops, q[1], q[2])}}

(* A client whose contact crashes gets an error.                           *)
Disconnected(c) == answer[c] = "waiting" /\ Gone(Contact[c])

Break ==
  /\ chains' = UNION {Pieces(c) : c \in chains}
  /\ answer' = [c \in Client |-> IF Disconnected(c) THEN "error" ELSE answer[c]]
  /\ UNCHANGED asked

RingStep == Next /\ Break

-----------------------------------------------------------------------------
(* A midclient makes one call at a time, to its contact.                   *)
Ask(c) ==
  /\ answer[c] # "waiting" /\ asked[c] < MaxCalls /\ Answers(Contact[c])
  /\ \E op \in Op, k \in Key :
       chains' = chains \cup
         {[client |-> c, awaited |-> TRUE, op |-> op, key |-> k,
           hops |-> <<Arrive(Contact[c])>>, phase |-> "check", status |-> "zero"]}
  /\ asked' = [asked EXCEPT ![c] = @ + 1]
  /\ answer' = [answer EXCEPT ![c] = "waiting"]
  /\ UNCHANGED vars

-----------------------------------------------------------------------------
(* The running handler of chain c.                                         *)

Here(c) == c.hops[Len(c.hops)].at
Goes(c, d) == chains' = (chains \ {c}) \cup {d} /\ UNCHANGED <<asked, answer>>
Enters(c, phase) == Goes(c, [c EXCEPT !.phase = phase])
WithLast(c, hop, phase) ==
  [c EXCEPT !.hops = Front(@) \o <<hop>>, !.phase = phase]

(* checkServer, under nodeListM.  A server whose index is beyond its list  *)
(* takes every key for its own.                                            *)
SortAndIndex(c) ==
  LET s == Here(c)
  IN /\ c.phase = "check"
     /\ SortList(s)
     /\ Enters(c, IF Len(nodeList'[s]) < nodeIndex'[s] THEN "serve" ELSE "claim")
     /\ UNCHANGED <<life, deadNodeList, connMap, stored, tasks, joinVars>>

(* After the unlock: indexing beyond the list is a run-time panic.         *)
TestClaim(c) ==
  LET s == Here(c)
  IN /\ c.phase = "claim"
     /\ IF nodeIndex[s] >= Len(nodeList[s])
        THEN Halt(s) /\ Break
        ELSE /\ Enters(c, IF Claims(nodeList[s], nodeIndex[s], c.key)
                          THEN "serve" ELSE "above")
             /\ UNCHANGED vars

(* The handler leaves checkServer with a client and a node; when the       *)
(* client is nil it returns with its reply untouched.                      *)
Leave(c, n, node) ==
  IF connMap[Here(c)][n] = "nil" THEN Enters(c, "return")
  ELSE Goes(c, WithLast(c, [Arrive(Here(c)) EXCEPT
                              !.node = node, !.to = n, !.link = "open"], "call"))

Listed(s, n) == IF n \in Range(nodeList[s]) THEN n ELSE NoNode
Entries(s) == {n \in Server : connMap[s][n] # "none"}

(* Some entry above the key, in the order the map is iterated in.  The     *)
(* inner loop lowers the id to that of the lowest such entry, so the node  *)
(* is that one's; the client is still that of the entry found first.       *)
SeekAbove(c, n) ==
  LET s     == Here(c)
      above == {m \in Entries(s) : c.key < m}
  IN /\ c.phase = "above" /\ n \in above
     /\ Leave(c, n, Listed(s, Min(above)))
     /\ UNCHANGED vars

NoneAboveKeeps(c) ==
  /\ c.phase = "above" /\ \A m \in Entries(Here(c)) : c.key >= m
  /\ Enters(c, "serve")
  /\ UNCHANGED vars
NoneAbove(c) ==
  /\ c.phase = "above" /\ \A m \in Entries(Here(c)) : c.key >= m
  /\ Enters(c, "wrap")
  /\ UNCHANGED vars

(* The lowest entry, if it is not above the last node of the list;         *)
(* otherwise the server keeps the request for itself.                      *)
KeepIt(c) == Enters(c, "serve")
Highest(s) == Max(Entries(s) \cup {nodeList[s][1]})
Lowest(s) == Min(Entries(s) \cup {nodeList[s][Len(nodeList[s])]})

SeekLowest(c) ==
  LET s == Here(c)
  IN /\ c.phase = "wrap"
     /\ IF nodeList[s] = << >> THEN Halt(s) /\ Break
        ELSE /\ IF Lowest(s) \in Entries(s)
                THEN Leave(c, Lowest(s), Listed(s, Lowest(s)))
                ELSE KeepIt(c)
             /\ UNCHANGED vars

(* The same operation at the other server.  Where no link ever breaks, a   *)
(* caller only passes the reply on, and the oldest one is forgotten when   *)
(* the bound is reached; elsewhere longer chains are not explored.         *)
NothingBreaks == MaxCrash = 0 /\ Newcomer = {}

Forward(c) ==
  LET to == c.hops[Len(c.hops)].to
  IN /\ c.phase = "call" /\ Answers(to)
     /\ Len(c.hops) < MaxHops \/ NothingBreaks
     /\ Goes(c, [c EXCEPT !.phase = "check",
                   !.hops = Append(IF Len(@) = MaxHops THEN Tail(@) ELSE @,
                                   Arrive(to))])
     /\ UNCHANGED vars

CallFails(c) ==
  /\ c.phase = "call" /\ Refuses(c.hops[Len(c.hops)].to)
  /\ Goes(c, WithLast(c, Unlinked(c.hops[Len(c.hops)]), "failed"))
  /\ UNCHANGED vars

(* The call failed: the node is marked dead, collectBodies is called, and  *)
(* the handler starts over.                                                *)
BlameOnly(c) ==
  /\ c.phase = "failed"
  /\ MarkDead(Here(c), c.hops[Len(c.hops)].node)
  /\ Enters(c, "check")
  /\ UNCHANGED <<life, ringVars, connMap, stored, tasks, joinVars>>
Blame(c) ==
  /\ c.phase = "failed"
  /\ MarkDead(Here(c), c.hops[Len(c.hops)].node)
  /\ Enters(c, "collect")
  /\ UNCHANGED <<life, ringVars, connMap, stored, tasks, joinVars>>

(* A name for the collection of this handler that no goroutine has.        *)
FreeSlot(s) ==
  Min({i \in FreshSlot + 1..FreshSlot + 1 + Cardinality(tasks) :
         \A t \in tasks : t.at = s /\ t.by = s => t.slot # i})

StartOver(c) == WithLast(c, Arrive(Here(c)), "check")

Collect(c) ==
  LET s == Here(c)
  IN /\ c.phase = "collect" /\ DeadListFree(s)
     /\ IF deadNodeList[s] = << >>
        THEN Goes(c, StartOver(c)) /\ UNCHANGED tasks
        ELSE /\ tasks' = tasks \cup
                  {TaskIn("bury", s, s, FreeSlot(s), deadNodeList[s])}
             /\ Goes(c, WithLast(c, [Arrive(s) EXCEPT !.slot = FreeSlot(s)], "await"))
     /\ UNCHANGED <<life, ringVars, deadNodeList, connMap, stored, joinVars>>

(* collectBodies returns when iCalculateSkipList does, which leaves a new  *)
(* collectBodies running beside the caller.                                *)
Retry(c) ==
  LET s == Here(c)
  IN /\ c.phase = "await"
     /\ \A t \in tasks :
          t.at = s /\ t.by = s /\ t.slot = c.hops[Len(c.hops)].slot
            => t.phase = "collect"
     /\ Goes(c, StartOver(c))
     /\ UNCHANGED vars

(* The data: whether the key is in userMap or fileMap.  The permission     *)
(* check of a file may refuse anything but what is not there.              *)
Replies(c, status) == Goes(c, [c EXCEPT !.phase = "return", !.status = status])

Serve(c) ==
  LET s     == Here(c)
      found == c.key \in stored[s]
  IN /\ c.phase = "serve"
     /\ \/ /\ c.op = "Get" /\ ~found
           /\ Replies(c, "EKEYNOTFOUND") /\ UNCHANGED stored
        \/ /\ c.op = "Get" /\ found
           /\ Replies(c, "OK") /\ UNCHANGED stored
        \/ /\ c.op = "Put"
           /\ Replies(c, "OK")
           /\ stored' = [stored EXCEPT ![s] = @ \cup {c.key}]
        \/ /\ c.op = "Delete"
           /\ Replies(c, "OK")
           /\ stored' = [stored EXCEPT ![s] = @ \ {c.key}]
        \/ /\ found \/ c.op = "Put"
           /\ Replies(c, "ENOPERMISSION") /\ UNCHANGED stored
     /\ UNCHANGED <<life, ringVars, deadNodeList, connMap, tasks, joinVars>>

(* The handler returns to the one that called it, or to the client.        *)
Return(c) ==
  /\ c.phase = "return"
  /\ IF Len(c.hops) > 1 THEN Goes(c, [c EXCEPT !.hops = Front(@)])
     ELSE /\ chains' = chains \ {c}
          /\ answer' = [d \in Client |-> IF d = c.client /\ c.awaited
                                         THEN c.status ELSE answer[d]]
          /\ UNCHANGED asked
  /\ UNCHANGED vars

Seek(c) == NoneAbove(c) \/ SeekLowest(c) \/ \E n \in Server : SeekAbove(c, n)

Run(c) ==
  \/ SortAndIndex(c) \/ TestClaim(c) \/ Seek(c) \/ Forward(c) \/ CallFails(c)
  \/ Blame(c) \/ Collect(c) \/ Retry(c) \/ Serve(c) \/ Return(c)

RoutingNext ==
  \/ RingStep
  \/ \E c \in Client : Ask(c)
  \/ \E c \in chains : Run(c)

RoutingSpec == RoutingInit /\ [][RoutingNext]_allVars

(* Handlers run; a map is iterated from a random entry on, so none is left *)
(* out for ever.                                                           *)
Awaited(c)  == {h \in chains : h.client = c /\ h.awaited}
Orphans     == {h \in chains : ~h.awaited}
RoutingFairness ==
  /\ \A c \in Client :
       /\ WF_allVars(\E h \in Awaited(c) : Run(h))
       /\ \A n \in Server : SF_allVars(\E h \in Awaited(c) : SeekAbove(h, n))
  /\ WF_allVars(\E h \in Orphans : Run(h))
  /\ \A j \in Newcomer : WF_allVars(Join(j) /\ Break)
  /\ \A s \in Server : WF_allVars(Background(s) /\ Break)

FairRoutingSpec == RoutingSpec /\ RoutingFairness

-----------------------------------------------------------------------------
(* Properties.                                                             *)

(* A request is served by the server its key belongs to, whichever server  *)
(* it came in at and whichever it went through.                            *)
ServedByOwner ==
  Newcomer = {} /\ Undisturbed =>
    \A c \in chains : c.phase = "serve" => Here(c) = Successor(Serving, c.key)

(* Every call of a client comes back, with an answer or an error.          *)
RequestAnswered == \A c \in Client : answer[c] = "waiting" ~> answer[c] # "waiting"

(* A node a failed request marked dead, or a goroutine of its server, has  *)
(* been collected when both have ended.                                    *)
RequestsCollect ==
  Quiet /\ chains = {} => \A s \in Server : deadNodeList[s] = << >>

(* No request makes a server index beyond its list, which would end its    *)
(* process: only as many servers die as crash.                             *)
NoPanic == Cardinality(Crashed) <= MaxCrash
=============================================================================
