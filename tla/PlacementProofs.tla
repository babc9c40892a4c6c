--------------------------- MODULE PlacementProofs ---------------------------
(***************************************************************************)
(* StorageRing implements KeyPlacement: the initial states map to initial  *)
(* ones, and every step to a step or a stutter, for every set of servers   *)
(* and keys, any number of concurrent joins and any number of crashes.     *)
(***************************************************************************)
EXTENDS StorageRingProofs

InTransit(k, j) == j \in Newcomer /\ k \in transit[j]

(* The mapping says of each key what stored and transit say.               *)
PlaceRight ==
  /\ place = [k \in Key |-> place[k]]
  /\ \A k \in Key :
       /\ \A j \in Server : place[k] = Placement!Moving(j) <=> InTransit(k, j)
       /\ \A s \in Server : place[k] = Placement!Held(s) <=> k \in stored[s]
       /\ (\A s \in Server : ~InTransit(k, s) /\ k \notin stored[s])
            => place[k] = Placement!Lost

LEMMA Mapping == TypeInv /\ NeverDuplicated => PlaceRight
<1> SUFFICES ASSUME TypeInv, NeverDuplicated PROVE PlaceRight
  OBVIOUS
<1>0. /\ stored \in [Server -> SUBSET Key] /\ transit \in [Newcomer -> SUBSET Key]
      /\ Newcomer \subseteq Server
  BY DEF TypeInv, TypeOK, Newcomer
<1>1. place = [k \in Key |-> place[k]]
  BY DEF place
<1>2. ASSUME NEW k \in Key
      PROVE  /\ \A j \in Server : place[k] = Placement!Moving(j) <=> InTransit(k, j)
             /\ \A s \in Server : place[k] = Placement!Held(s) <=> k \in stored[s]
             /\ (\A s \in Server : ~InTransit(k, s) /\ k \notin stored[s])
                  => place[k] = Placement!Lost
  <2> DEFINE where == place[k]
  <2>1. /\ \A s, t \in HeldBy(k) : s = t
        /\ \A i, j \in MovingTo(k) : i = j
        /\ HeldBy(k) = {} \/ MovingTo(k) = {}
    BY DEF NeverDuplicated
  <2>2. /\ \A s \in Server : s \in HeldBy(k) <=> k \in stored[s]
        /\ \A j \in Server : j \in MovingTo(k) <=> InTransit(k, j)
        /\ HeldBy(k) \subseteq Server /\ MovingTo(k) \subseteq Server
    BY <1>0 DEF HeldBy, MovingTo, InTransit
  <2>3. \A i, j \in Server :
          /\ Placement!Moving(i) # Placement!Held(j)
          /\ Placement!Moving(i) # Placement!Lost /\ Placement!Held(i) # Placement!Lost
          /\ Placement!Moving(i) = Placement!Moving(j) => i = j
          /\ Placement!Held(i) = Placement!Held(j) => i = j
    <3> SUFFICES ASSUME NEW i \in Server, NEW j \in Server
                 PROVE  /\ Placement!Moving(i) # Placement!Held(j)
                        /\ Placement!Moving(i) # Placement!Lost
                        /\ Placement!Held(i) # Placement!Lost
                        /\ Placement!Moving(i) = Placement!Moving(j) => i = j
                        /\ Placement!Held(i) = Placement!Held(j) => i = j
      OBVIOUS
    <3>1. /\ Placement!Moving(i).is = "moving" /\ Placement!Held(j).is = "held"
          /\ Placement!Held(i).is = "held" /\ Placement!Lost.is = "lost"
          /\ Placement!Moving(i).at = i /\ Placement!Moving(j).at = j
          /\ Placement!Held(i).at = i /\ Placement!Held(j).at = j
      BY DEF Placement!Moving, Placement!Held, Placement!Lost
    <3>2. QED
      BY <3>1
  <2>4. CASE MovingTo(k) # {}
    <3>1. PICK j \in MovingTo(k) : place[k] = Placement!Moving(j)
      BY <2>4 DEF place, Placement!Moving
    <3>2. QED
      BY <2>1, <2>2, <2>3, <2>4, <3>1
  <2>5. CASE MovingTo(k) = {} /\ HeldBy(k) # {}
    <3>1. PICK s \in HeldBy(k) : place[k] = Placement!Held(s)
      BY <2>5 DEF place, Placement!Held
    <3>2. QED
      BY <2>1, <2>2, <2>3, <2>5, <3>1
  <2>6. CASE MovingTo(k) = {} /\ HeldBy(k) = {}
    <3>1. place[k] = Placement!Lost
      BY <2>6 DEF place, Placement!Lost
    <3>2. QED
      BY <2>2, <2>3, <2>6, <3>1
  <2>7. QED
    BY <2>4, <2>5, <2>6
<1>3. QED
  BY <1>1, <1>2 DEF PlaceRight

LEMMA MappingAfter == (TypeInv /\ NeverDuplicated)' => PlaceRight'
  BY Mapping, PTL

-----------------------------------------------------------------------------
(* A step that moves the keys of a set to one place and no other key is a  *)
(* Put of KeyPlacement.                                                    *)
LEMMA PutStep ==
  ASSUME PlaceRight, PlaceRight', NEW keys, NEW q,
         \A k \in Key : place'[k] = IF k \in keys THEN q ELSE place[k]
  PROVE  Placement!Put(keys, q)
  BY DEF PlaceRight, Placement!Put

(* A key that is where it was, after the step as before it.                *)
LEMMA Stays ==
  ASSUME PlaceRight, PlaceRight', NEW k \in Key,
         \A s \in Server : InTransit(k, s)' <=> InTransit(k, s),
         \A s \in Server : k \in stored'[s] <=> k \in stored[s]
  PROVE  place'[k] = place[k]
<1>1. CASE \E s \in Server : InTransit(k, s)
  BY <1>1 DEF PlaceRight, Placement!Moving
<1>2. CASE \E s \in Server : k \in stored[s]
  BY <1>2 DEF PlaceRight, Placement!Held
<1>3. CASE \A s \in Server : ~InTransit(k, s) /\ k \notin stored[s]
  BY <1>3 DEF PlaceRight, Placement!Lost
<1>4. QED
  BY <1>1, <1>2, <1>3

LEMMA GivesStep ==
  ASSUME TypeInv, CallInv, PlaceRight, PlaceRight',
         NEW p \in Server, NEW j \in Newcomer, Gives(p, j)
  PROVE  Placement!HandOver(p, j)
<1>0. /\ stored \in [Server -> SUBSET Key] /\ transit \in [Newcomer -> SUBSET Key]
      /\ Newcomer \subseteq Server /\ transit[j] = {}
  BY DEF TypeInv, TypeOK, Newcomer, CallInv, Carrying, Gives
<1>1. PICK given \in SUBSET stored[p] : GiveKeys(p, j, given)
  BY DEF Gives
<1>2. given \in SUBSET Placement!AllAt(Placement!Held(p))
  BY <1>0 DEF PlaceRight, Placement!AllAt
<1> DEFINE q == IF Joining(j) THEN Placement!Moving(j) ELSE Placement!Lost
           arriving == IF Joining(j) THEN given ELSE {}
<1>3. /\ stored' = [stored EXCEPT ![p] = @ \ given]
      /\ transit' = [transit EXCEPT ![j] = arriving]
  BY <1>1 DEF GiveKeys
<1>4. ASSUME NEW k \in Key
      PROVE  place'[k] = IF k \in given THEN q ELSE place[k]
  <2>1. CASE k \notin given
    <3>1. \A s \in Server : k \in stored'[s] <=> k \in stored[s]
      BY <1>0, <1>3, <2>1
    <3>2. k \notin arriving /\ k \notin transit[j]
      BY <1>0, <2>1
    <3>3. \A s \in Server : InTransit(k, s)' <=> InTransit(k, s)
      BY <1>0, <1>3, <3>2 DEF InTransit
    <3>4. QED
      BY <2>1, <3>1, <3>3, Stays
  <2>2. CASE k \in given /\ Joining(j)
    <3>1. InTransit(k, j)'
      BY <1>0, <1>3, <2>2 DEF InTransit
    <3>2. QED
      BY <1>0, <2>2, <3>1 DEF PlaceRight, Placement!Moving
  <2>3. CASE k \in given /\ ~Joining(j)
    <3>1. /\ \A s \in Server : ~InTransit(k, s)
          /\ \A s \in Server : k \in stored[s] => s = p
      <4>1. k \in stored[p]
        BY <2>3
      <4>2. place[k] = Placement!Held(p)
        BY <4>1 DEF PlaceRight
      <4>3. Placement!Held(p).is = "held" /\ Placement!Held(p).at = p
        BY DEF Placement!Held
      <4>4. \A s \in Server : Placement!Moving(s).is = "moving" /\ Placement!Held(s).at = s
        BY DEF Placement!Moving, Placement!Held
      <4>5. QED
        BY <4>2, <4>3, <4>4 DEF PlaceRight
    <3>2. \A s \in Server : ~InTransit(k, s)' /\ k \notin stored'[s]
      BY <1>0, <1>3, <2>3, <3>1 DEF InTransit
    <3>3. QED
      BY <2>3, <3>2 DEF PlaceRight, Placement!Lost
  <2>4. QED
    BY <2>1, <2>2, <2>3
<1>5. Placement!Put(given, q)
  BY <1>4, PutStep
<1>6. Placement!Put(given, Placement!Moving(j)) \/ Placement!Put(given, Placement!Lost)
  BY <1>5
<1>7. QED
  BY <1>2, <1>6 DEF Placement!HandOver

LEMMA ArriveStep ==
  ASSUME TypeInv, PlaceRight, PlaceRight', NEW j \in Newcomer, Takes(j)
  PROVE  Placement!Arrive(j)
<1>0. /\ stored \in [Server -> SUBSET Key] /\ transit \in [Newcomer -> SUBSET Key]
      /\ Newcomer \subseteq Server
  BY DEF TypeInv, TypeOK, Newcomer
<1> DEFINE keys == Placement!AllAt(Placement!Moving(j))
<1>1. ASSUME NEW k \in Key
      PROVE  place'[k] = IF k \in keys THEN Placement!Held(j) ELSE place[k]
  <2>1. k \in keys <=> k \in transit[j]
    BY <1>0 DEF PlaceRight, InTransit, Placement!AllAt
  <2>2. CASE k \in transit[j]
    <3>1. k \in stored'[j]
      BY <1>0, <2>2 DEF Takes
    <3>2. QED
      BY <1>0, <2>1, <2>2, <3>1 DEF PlaceRight, Placement!Held
  <2>3. CASE k \notin transit[j]
    <3>1. /\ \A s \in Server : k \in stored'[s] <=> k \in stored[s]
          /\ \A s \in Server : InTransit(k, s)' <=> InTransit(k, s)
      BY <1>0, <2>3 DEF Takes, InTransit
    <3>2. QED
      BY <2>1, <2>3, <3>1, Stays
  <2>4. QED
    BY <2>2, <2>3
<1>2. QED
  BY <1>1, PutStep DEF Placement!Arrive

(* Keys with nowhere to be are lost.                                       *)
LEMMA Vanishes ==
  ASSUME PlaceRight', NEW k \in Key,
         \A s \in Server : ~InTransit(k, s)' /\ k \notin stored'[s]
  PROVE  place'[k] = Placement!Lost
  BY DEF PlaceRight, Placement!Lost

(* A key is in one place.                                                  *)
LEMMA OnePlace ==
  ASSUME PlaceRight, NEW k \in Key, NEW s \in Server, NEW t \in Server
  PROVE  /\ ~(InTransit(k, s) /\ k \in stored[t])
         /\ InTransit(k, s) /\ InTransit(k, t) => s = t
         /\ k \in stored[s] /\ k \in stored[t] => s = t
<1>1. /\ Placement!Moving(s).is = "moving" /\ Placement!Held(t).is = "held"
      /\ Placement!Moving(s).at = s /\ Placement!Moving(t).at = t
      /\ Placement!Held(s).at = s /\ Placement!Held(t).at = t
  BY DEF Placement!Moving, Placement!Held
<1>2. QED
  BY <1>1 DEF PlaceRight

LEMMA DropStep ==
  ASSUME TypeInv, PlaceRight, PlaceRight', NEW j \in Newcomer, Forgets(j)
  PROVE  Placement!Drop(j)
<1>0. /\ transit \in [Newcomer -> SUBSET Key] /\ Newcomer \subseteq Server
      /\ stored' = stored
  BY DEF TypeInv, TypeOK, Newcomer, Forgets
<1> DEFINE keys == Placement!AllAt(Placement!Moving(j))
<1>1. ASSUME NEW k \in Key
      PROVE  place'[k] = IF k \in keys THEN Placement!Lost ELSE place[k]
  <2>1. k \in keys <=> InTransit(k, j)
    BY <1>0 DEF PlaceRight, Placement!AllAt
  <2>2. CASE InTransit(k, j)
    <3>1. \A s \in Server : k \notin stored[s] /\ (InTransit(k, s) => s = j)
      BY <1>0, <2>2, OnePlace
    <3>2. \A s \in Server : ~InTransit(k, s)' /\ k \notin stored'[s]
      BY <1>0, <3>1 DEF Forgets, InTransit
    <3>3. QED
      BY <2>1, <2>2, <3>2, Vanishes
  <2>3. CASE ~InTransit(k, j)
    <3>1. /\ \A s \in Server : k \in stored'[s] <=> k \in stored[s]
          /\ \A s \in Server : InTransit(k, s)' <=> InTransit(k, s)
      BY <1>0, <2>3 DEF Forgets, InTransit
    <3>2. QED
      BY <2>1, <2>3, <3>1, Stays
  <2>4. QED
    BY <2>2, <2>3
<1>2. QED
  BY <1>1, PutStep DEF Placement!Drop

LEMMA DieStep ==
  ASSUME TypeInv, PlaceRight, PlaceRight', NEW s \in Server, Dies(s)
  PROVE  Placement!Die(s)
<1>0. /\ stored \in [Server -> SUBSET Key] /\ transit \in [Newcomer -> SUBSET Key]
      /\ Newcomer \subseteq Server
  BY DEF TypeInv, TypeOK, Newcomer
<1> DEFINE keys == Placement!AllAt(Placement!Held(s)) \cup
                   Placement!AllAt(Placement!Moving(s))
<1>1. ASSUME NEW k \in Key
      PROVE  place'[k] = IF k \in keys THEN Placement!Lost ELSE place[k]
  <2>1. k \in keys <=> k \in stored[s] \/ InTransit(k, s)
    BY DEF PlaceRight, Placement!AllAt
  <2>2. /\ \A t \in Server : k \in stored'[t] <=> k \in stored[t] /\ t # s
        /\ \A t \in Server : InTransit(k, t)' <=> InTransit(k, t) /\ t # s
    BY <1>0 DEF Dies, InTransit
  <2>3. CASE k \in keys
    <3>1. \A t \in Server : (k \in stored[t] => t = s) /\ (InTransit(k, t) => t = s)
      BY <2>1, <2>3, OnePlace
    <3>2. QED
      BY <2>2, <2>3, <3>1, Vanishes
  <2>4. CASE k \notin keys
    BY <2>1, <2>2, <2>4, Stays
  <2>5. QED
    BY <2>3, <2>4
<1>2. QED
  BY <1>1, PutStep DEF Placement!Die

-----------------------------------------------------------------------------
LEMMA StepMaps ==
  TypeInv /\ CallInv /\ PlaceRight /\ PlaceRight' /\ KeyStep
    => [Placement!PlaceNext]_place
<1> SUFFICES ASSUME TypeInv, CallInv, PlaceRight, PlaceRight', KeyStep
             PROVE  [Placement!PlaceNext]_place
  OBVIOUS
<1>0. Newcomer \subseteq Server
  BY DEF Newcomer
<1>1. CASE UNCHANGED <<stored, transit>>
  BY <1>1 DEF place, HeldBy, MovingTo
<1>2. ASSUME NEW j \in Newcomer, NEW p \in Server, Gives(p, j)
      PROVE  Placement!PlaceNext
  BY <1>0, <1>2, GivesStep DEF Placement!PlaceNext
<1>3. ASSUME NEW j \in Newcomer, Takes(j) PROVE Placement!PlaceNext
  BY <1>0, <1>3, ArriveStep DEF Placement!PlaceNext
<1>4. ASSUME NEW j \in Newcomer, Forgets(j) PROVE Placement!PlaceNext
  BY <1>0, <1>4, DropStep DEF Placement!PlaceNext
<1>5. ASSUME NEW s \in Server, Dies(s) PROVE Placement!PlaceNext
  BY <1>5, DieStep DEF Placement!PlaceNext
<1>6. QED
  BY <1>1, <1>2, <1>3, <1>4, <1>5 DEF KeyStep

(* Before anybody joins each key is held by its successor on the ring.     *)
LEMMA InitMaps == Init => Placement!PlaceInit
<1> SUFFICES ASSUME Init PROVE Placement!PlaceInit
  OBVIOUS
<1>1. TypeInv /\ NeverDuplicated /\ NothingLost
  BY TypeInit, UniqueInit, LossInit
<1>2. PlaceRight
  BY <1>1, Mapping
<1>3. ASSUME NEW k \in Key PROVE place[k] \in {Placement!Held(s) : s \in Server}
  <2>1. MovingTo(k) = {} /\ Undisturbed
    BY DEF Init, MovingTo, Undisturbed, Crashed
  <2>2. PICK s \in Server : k \in stored[s]
    BY <1>1, <2>1 DEF NothingLost, HeldBy
  <2>3. QED
    BY <1>2, <2>2 DEF PlaceRight
<1>4. QED
  BY <1>2, <1>3 DEF PlaceRight, Placement!PlaceInit

(* Key by key, joining, handing over and crashing is what KeyPlacement     *)
(* allows: a key leaves a server only towards one newcomer, arrives there  *)
(* together with the others, and never reappears once lost.                *)
THEOREM ImplementsPlacement == Spec => PlacementSpec
<1> DEFINE Inv == TypeInv /\ NeverDuplicated /\ CallInv
<1>1. Init => Inv
  BY TypeInit, UniqueInit, CallInit
<1>2. Inv /\ [Next]_vars => Inv'
  BY TypeStep, KeySteps, UniqueStep, CallStep
<1>3. Inv /\ Inv' /\ [Next]_vars => [Placement!PlaceNext]_place
  BY Mapping, MappingAfter, KeySteps, StepMaps
<1>4. QED
  BY <1>1, <1>2, <1>3, InitMaps, PTL DEF Spec, PlacementSpec, Placement!Spec
=============================================================================
