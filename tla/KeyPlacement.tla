----------------------------- MODULE KeyPlacement -----------------------------
(***************************************************************************)
(* Where each key is while servers join and crash, and nothing else: what  *)
(* the hand-over of data in storage-impl.go promises key by key.           *)
(***************************************************************************)
EXTENDS Naturals

CONSTANTS Server, Key

VARIABLE place   \* held at a server, moving to a newcomer, or lost

Held(s)   == [is |-> "held", at |-> s]
Moving(j) == [is |-> "moving", at |-> j]
Lost      == [is |-> "lost"]

AllAt(q) == {k \in Key : place[k] = q}

PlaceInit == place \in [Key -> {Held(s) : s \in Server}]

Put(keys, q) == place' = [k \in Key |-> IF k \in keys THEN q ELSE place[k]]

(* TransferData: some of the keys of s leave, all for the same newcomer,   *)
(* or for nobody when the newcomer has died.                               *)
HandOver(s, j) ==
  \E given \in SUBSET AllAt(Held(s)) : Put(given, Moving(j)) \/ Put(given, Lost)

(* The newcomer takes over everything that was on its way to it ...        *)
Arrive(j) == Put(AllAt(Moving(j)), Held(j))

(* ... or none of it.                                                      *)
Drop(j) == Put(AllAt(Moving(j)), Lost)

(* A server dies with what it has and what was on its way to it.           *)
Die(s) == Put(AllAt(Held(s)) \cup AllAt(Moving(s)), Lost)

PlaceNext ==
  \/ \E s, j \in Server : HandOver(s, j)
  \/ \E s \in Server : Arrive(s) \/ Drop(s) \/ Die(s)

Spec == PlaceInit /\ [][PlaceNext]_place
===============================================================================
