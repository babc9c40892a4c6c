------------------------------ MODULE RingProofs ------------------------------
(***************************************************************************)
(* What the operators of Ring compute, for every list of node ids.         *)
(***************************************************************************)
EXTENDS Ring, SequenceTheorems, FiniteSetTheorems, WellFoundedInduction, TLAPS

(* Every non-empty set of natural numbers has a least element, which Min   *)
(* is.                                                                     *)
LEMMA MinOfNat ==
  ASSUME NEW S \in SUBSET Nat, S # {}
  PROVE  Min(S) \in S /\ \A x \in S : Min(S) <= x
<1> DEFINE R == OpToRel(<, Nat)
<1>1. IsWellFoundedOn(R, Nat)
  BY NatLessThanWellFounded
<1>2. \A x, y \in Nat : <<y, x>> \in R <=> y < x
  BY DEF OpToRel
<1> HIDE DEF R
<1>3. PICK m \in S : \A y \in S : ~ (<<y, m>> \in R)
  BY <1>1, WFMin
<1>4. ASSUME NEW y \in S PROVE m =< y
  <2>1. m \in Nat /\ y \in Nat
    OBVIOUS
  <2>2. ~ (y < m)
    BY <1>2, <1>3, <2>1, Zenon
  <2>3. QED
    BY <2>1, <2>2
<1>5. QED
  BY <1>3, <1>4 DEF Min

(* Every non-empty set of positions of a list has a greatest element,      *)
(* which Max is.                                                           *)
LEMMA MaxOfInterval ==
  ASSUME NEW n \in Nat, NEW S \in SUBSET (1..n), S # {}
  PROVE  Max(S) \in S /\ \A x \in S : x <= Max(S)
<1> DEFINE T == {n - x : x \in S}
<1>1. T \in SUBSET Nat /\ T # {}
  <2>1. \A x \in S : n - x \in Nat
    OBVIOUS
  <2>2. T \subseteq Nat
    BY <2>1
  <2>3. QED
    BY <2>2
<1> HIDE DEF T
<1>2. Min(T) \in T /\ \A x \in T : Min(T) <= x
  BY <1>1, MinOfNat
<1>3. PICK m \in S : Min(T) = n - m
  BY <1>2 DEF T
<1>4. \A x \in S : m >= x
  <2>1. ASSUME NEW x \in S PROVE m >= x
    <3>1. n - x \in T
      BY DEF T
    <3>2. n - m <= n - x
      BY <1>2, <1>3, <3>1
    <3>3. QED
      BY <3>2
  <2>2. QED
    BY <2>1
<1>5. QED
  BY <1>3, <1>4 DEF Max

-----------------------------------------------------------------------------
LEMMA RangeOfList ==
  ASSUME NEW S, NEW list \in Seq(S)
  PROVE  /\ DOMAIN list = 1..Len(list)
         /\ Range(list) \subseteq S
         /\ \A i \in 1..Len(list) : list[i] \in Range(list)
         /\ \A n \in Range(list) : \E i \in 1..Len(list) : n = list[i]
  BY DEF Range

(* In a sorted list without repetition the test checkServer makes at       *)
(* position i holds exactly if the server there is the key's successor: of *)
(* the servers that share the list, one and only one claims a key.         *)
THEOREM ClaimsIsSuccessor ==
  ASSUME NEW list \in Seq(Nat), Increasing(list),
         NEW key \in Nat, NEW i \in 1..Len(list)
  PROVE  Claims(list, i - 1, key) <=> list[i] = Successor(Range(list), key)
<1> DEFINE nodes == Range(list)
           above == {n \in nodes : key <= n}
<1>1. /\ nodes \subseteq Nat /\ nodes # {}
      /\ \A j \in 1..Len(list) : list[j] \in nodes
      /\ \A n \in nodes : \E j \in 1..Len(list) : n = list[j]
  BY RangeOfList
<1>2. \A j, k \in 1..Len(list) : j < k => list[j] < list[k]
  BY RangeOfList DEF Increasing
<1>3. Len(list) \in Nat /\ 1 \in 1..Len(list) /\ Len(list) \in 1..Len(list)
  OBVIOUS
<1>4. Min(nodes) = list[1]
  <2>1. Min(nodes) \in nodes /\ \A n \in nodes : Min(nodes) <= n
    BY <1>1, MinOfNat
  <2>2. PICK j \in 1..Len(list) : Min(nodes) = list[j]
    BY <1>1, <2>1
  <2>3. j = 1
    <3>1. list[j] <= list[1] /\ list[1] \in Nat /\ list[j] \in Nat
      BY <1>1, <1>3, <2>1, <2>2
    <3>2. CASE j # 1
      BY <1>2, <1>3, <3>1, <3>2
    <3>3. QED
      BY <3>2
  <2>4. QED
    BY <2>2, <2>3
<1>5. CASE above = {}
  <2>1. Successor(nodes, key) = list[1]
    BY <1>4, <1>5 DEF Successor
  <2>2. \A j \in 1..Len(list) : list[j] < key /\ list[j] \in Nat
    BY <1>1, <1>5
  <2>3. list[i] = list[1] <=> i = 1
    BY <1>2, <1>3, <2>2
  <2>4. QED
    BY <1>3, <2>1, <2>2, <2>3 DEF Claims
<1>6. CASE above # {}
  <2>1. /\ Min(above) \in above
        /\ \A n \in above : Min(above) <= n
    BY <1>1, <1>6, MinOfNat
  <2>2. Successor(nodes, key) = Min(above)
    BY <1>6 DEF Successor
  <2>3. PICK o \in 1..Len(list) : Min(above) = list[o]
    BY <1>1, <2>1
  <2>4. \A j \in 1..Len(list) : list[j] \in Nat
    BY <1>1
  <2>5. /\ key <= list[o]
        /\ \A j \in 1..Len(list) : key <= list[j] => list[o] <= list[j]
    BY <1>1, <2>1, <2>3
  <2>6. \A j \in 1..Len(list) : j < o => list[j] < key
    BY <1>2, <2>4, <2>5
  <2>7. \A j \in 1..Len(list) : o < j => key < list[j]
    BY <1>2, <2>4, <2>5
  <2>8. list[i] = list[o] <=> i = o
    BY <1>2, <2>4
  <2>9. Claims(list, i - 1, key) <=> i = o
    <3>1. CASE i = 1
      <4>1. Claims(list, i - 1, key) <=>
              \/ key <= list[1] \/ key > list[Len(list)]
              \/ key > list[Len(list)] /\ key <= list[1]
        BY <3>1 DEF Claims
      <4>2. ~ (key > list[Len(list)])
        <5>1. CASE o = Len(list)
          BY <2>4, <2>5, <5>1
        <5>2. CASE o # Len(list)
          BY <1>3, <2>4, <2>7, <5>2
        <5>3. QED
          BY <5>1, <5>2
      <4>3. key <= list[1] <=> o = 1
        BY <1>3, <2>4, <2>5, <2>6
      <4>4. QED
        BY <3>1, <4>1, <4>2, <4>3
    <3>2. CASE i # 1
      <4>1. i - 1 \in 1..Len(list) /\ i - 1 # 0
        BY <3>2
      <4>2. Claims(list, i - 1, key) <=> key > list[i - 1] /\ key <= list[i]
        BY <4>1 DEF Claims
      <4>3. CASE i = o
        BY <2>4, <2>5, <2>6, <4>1, <4>2, <4>3
      <4>4. CASE i < o
        BY <2>4, <2>6, <4>1, <4>2, <4>4
      <4>5. CASE o < i
        <5>1. key <= list[i - 1]
          <6>1. CASE i - 1 = o
            BY <2>5, <6>1
          <6>2. CASE o < i - 1
            BY <2>4, <2>7, <4>1, <6>2
          <6>3. QED
            BY <4>1, <4>5, <6>1, <6>2
        <5>2. QED
          BY <2>4, <4>1, <4>2, <4>5, <5>1
      <4>6. QED
        BY <4>3, <4>4, <4>5
    <3>3. QED
      BY <3>1, <3>2
  <2>10. QED
    BY <2>2, <2>3, <2>8, <2>9
<1>7. QED
  BY <1>5, <1>6

-----------------------------------------------------------------------------
(* Every operator on lists yields a list of the same nodes, and every      *)
(* index is a natural number.                                              *)
LEMMA AddType ==
  ASSUME NEW S, NEW list \in Seq(S), NEW n \in S
  PROVE  Add(list, n) \in Seq(S)
  BY DEF Add

(* The ranks of the positions of a list are its positions again, one each. *)
LEMMA RankBijective ==
  ASSUME NEW list \in Seq(Nat)
  PROVE  /\ \A i \in 1..Len(list) : Rank(list, i) \in 1..Len(list)
         /\ \A i, j \in 1..Len(list) :
              Before(list, i, j) => Rank(list, i) < Rank(list, j)
         /\ \A i, j \in 1..Len(list) : Rank(list, i) = Rank(list, j) => i = j
         /\ \A r \in 1..Len(list) : \E i \in 1..Len(list) : Rank(list, i) = r
<1> DEFINE D == 1..Len(list)
           Lower(i) == {j \in D : Before(list, j, i)}
<1>1. DOMAIN list = D /\ Len(list) \in Nat /\ \A i \in D : list[i] \in Nat
  OBVIOUS
<1>2. IsFiniteSet(D) /\ Cardinality(D) = Len(list)
  BY <1>1, FS_Interval
<1>3. \A i \in D : Rank(list, i) = Cardinality(Lower(i)) + 1
  BY <1>1 DEF Rank
<1>4. \A i \in D : IsFiniteSet(Lower(i)) /\ Cardinality(Lower(i)) \in Nat
  BY <1>2, FS_Subset, FS_CardinalityType
<1>5. \A i, j \in D : i # j => Before(list, i, j) \/ Before(list, j, i)
  BY <1>1 DEF Before
<1>6. \A i, j, k \in D :
        Before(list, i, j) /\ Before(list, j, k) => Before(list, i, k)
  BY <1>1 DEF Before
<1>7. \A i \in D : ~ Before(list, i, i)
  BY <1>1 DEF Before
<1>8. ASSUME NEW i \in D PROVE Rank(list, i) \in D
  <2>1. Lower(i) \subseteq D \ {i}
    BY <1>7
  <2>2. IsFiniteSet(D \ {i}) /\ Cardinality(D \ {i}) = Len(list) - 1
    BY <1>2, FS_RemoveElement
  <2>3. Cardinality(Lower(i)) <= Len(list) - 1
    BY <2>1, <2>2, FS_Subset
  <2>4. /\ Rank(list, i) = Cardinality(Lower(i)) + 1
        /\ Cardinality(Lower(i)) \in Nat
    BY <1>3, <1>4
  <2> HIDE DEF Lower
  <2>5. QED
    BY <1>1, <2>3, <2>4
<1>9. ASSUME NEW i \in D, NEW j \in D, Before(list, i, j)
      PROVE  Rank(list, i) < Rank(list, j)
  <2>1. Lower(i) \subseteq Lower(j)
    BY <1>6, <1>9
  <2>2. i \in Lower(j) /\ i \notin Lower(i)
    BY <1>7, <1>9
  <2>3. Lower(i) # Lower(j)
    BY <2>2
  <2> HIDE DEF Lower
  <2>4. Cardinality(Lower(i)) < Cardinality(Lower(j))
    <3>1. Cardinality(Lower(i)) <= Cardinality(Lower(j))
      BY <1>4, <2>1, FS_Subset
    <3>2. Cardinality(Lower(i)) # Cardinality(Lower(j))
      BY <1>4, <2>1, <2>3, FS_Subset
    <3>3. QED
      BY <1>4, <3>1, <3>2
  <2>5. QED
    BY <1>3, <1>4, <2>4
<1>10. ASSUME NEW i \in D, NEW j \in D, Rank(list, i) = Rank(list, j)
       PROVE  i = j
  <2>1. Rank(list, i) \in Nat
    BY <1>8
  <2>2. ~ Before(list, i, j) /\ ~ Before(list, j, i)
    BY <1>9, <1>10, <2>1
  <2>3. QED
    BY <1>5, <2>2
<1> HIDE DEF Lower
<1>11. \A r \in D : \E i \in D : Rank(list, i) = r
  <2> DEFINE f == [i \in D |-> Rank(list, i)]
  <2>1. f \in Injection(D, D)
    BY <1>8, <1>10 DEF Injection, IsInjective
  <2>2. f \in Surjection(D, D)
    BY <1>2, <2>1, FS_Injection
  <2>3. QED
    BY <2>2 DEF Surjection
<1>12. QED
  BY <1>8, <1>9, <1>10, <1>11

(* Sorting rearranges: each position of the result shows another position  *)
(* of the list, and all are shown.                                         *)
LEMMA SortedRearranges ==
  ASSUME NEW list \in Seq(Nat)
  PROVE  \E p \in [1..Len(list) -> 1..Len(list)] :
           /\ \A r \in 1..Len(list) : Rank(list, p[r]) = r
           /\ \A i \in 1..Len(list) : p[Rank(list, i)] = i
           /\ Sorted(list) = [r \in 1..Len(list) |-> list[p[r]]]
<1> DEFINE D == 1..Len(list)
           p == [r \in D |-> CHOOSE i \in D : Rank(list, i) = r]
<1>1. DOMAIN list = D
  OBVIOUS
<1>2. \A r \in D : p[r] \in D /\ Rank(list, p[r]) = r
  BY RankBijective
<1>3. \A i \in D : Rank(list, i) \in D
  BY RankBijective
<1>4. \A i \in D : p[Rank(list, i)] = i
  BY <1>2, <1>3, RankBijective
<1>5. Sorted(list) = [r \in D |-> list[p[r]]]
  BY <1>1 DEF Sorted
<1>6. p \in [D -> D]
  BY <1>2
<1> HIDE DEF p
<1>7. QED
  BY <1>2, <1>4, <1>5, <1>6

LEMMA SortedType ==
  ASSUME NEW S \in SUBSET Nat, NEW list \in Seq(S)
  PROVE  Sorted(list) \in Seq(S) /\ Len(Sorted(list)) = Len(list)
<1>1. list \in Seq(Nat) /\ Len(list) \in Nat /\ \A i \in 1..Len(list) : list[i] \in S
  <2>1. Len(list) \in Nat /\ \A i \in 1..Len(list) : list[i] \in S
    OBVIOUS
  <2>2. \A i \in 1..Len(list) : list[i] \in Nat
    BY <2>1
  <2>3. list \in Seq(Nat)
    BY <2>1, <2>2
  <2>4. QED
    BY <2>1, <2>3
<1>2. PICK p \in [1..Len(list) -> 1..Len(list)] :
        Sorted(list) = [r \in 1..Len(list) |-> list[p[r]]]
  BY <1>1, SortedRearranges
<1>3. Sorted(list) \in [1..Len(list) -> S]
  BY <1>1, <1>2
<1>4. QED
  BY <1>1, <1>3

(* Sorting keeps the nodes, and puts a list without repetition in          *)
(* increasing order.                                                       *)
THEOREM SortedSorts ==
  ASSUME NEW list \in Seq(Nat)
  PROVE  /\ Range(Sorted(list)) = Range(list)
         /\ (\A i, j \in 1..Len(list) : list[i] = list[j] => i = j)
              => Increasing(Sorted(list))
<1> DEFINE D == 1..Len(list)
<1>1. PICK p \in [D -> D] :
        /\ \A r \in D : Rank(list, p[r]) = r
        /\ \A i \in D : p[Rank(list, i)] = i
        /\ Sorted(list) = [r \in D |-> list[p[r]]]
  BY SortedRearranges
<1>2. DOMAIN list = D /\ DOMAIN Sorted(list) = D /\ \A i \in D : list[i] \in Nat
  BY <1>1
<1>3. \A r \in D : Sorted(list)[r] = list[p[r]] /\ p[r] \in D
  BY <1>1
<1>4. \A i \in D : Rank(list, i) \in D
  BY RankBijective
<1>5. Range(Sorted(list)) = Range(list)
  <2>1. ASSUME NEW r \in D PROVE \E i \in D : Sorted(list)[r] = list[i]
    BY <1>3
  <2>2. ASSUME NEW i \in D PROVE \E r \in D : Sorted(list)[r] = list[i]
    <3>1. Rank(list, i) \in D /\ p[Rank(list, i)] = i
      BY <1>1, <1>4
    <3>2. Sorted(list)[Rank(list, i)] = list[i]
      BY <1>3, <3>1
    <3>3. QED
      BY <3>1, <3>2
  <2>3. /\ Range(list) = {list[i] : i \in D}
        /\ Range(Sorted(list)) = {Sorted(list)[i] : i \in D}
    BY <1>2 DEF Range
  <2>4. Range(Sorted(list)) \subseteq Range(list)
    BY <2>1, <2>3
  <2>5. Range(list) \subseteq Range(Sorted(list))
    BY <2>2, <2>3
  <2>6. QED
    BY <2>4, <2>5
<1>6. ASSUME \A i, j \in D : list[i] = list[j] => i = j,
             NEW r \in D, NEW q \in D, r < q
      PROVE  Sorted(list)[r] < Sorted(list)[q]
  <2>1. p[r] \in D /\ p[q] \in D /\ Rank(list, p[r]) = r /\ Rank(list, p[q]) = q
    BY <1>1
  <2>2. ~ Before(list, p[q], p[r])
    <3>1. \A i, j \in D : Before(list, i, j) => Rank(list, i) < Rank(list, j)
      BY RankBijective
    <3>2. Before(list, p[q], p[r]) => Rank(list, p[q]) < Rank(list, p[r])
      BY <2>1, <3>1
    <3>3. Before(list, p[q], p[r]) => q < r
      BY <2>1, <3>2
    <3>4. QED
      BY <1>6, <3>3
  <2>3. p[r] # p[q]
    BY <1>6, <2>1
  <2>4. list[p[r]] # list[p[q]]
    BY <1>6, <2>1, <2>3
  <2>5. list[p[r]] < list[p[q]]
    BY <1>2, <2>1, <2>2, <2>4 DEF Before
  <2>6. QED
    BY <1>3, <2>5
<1>7. QED
  BY <1>2, <1>5, <1>6 DEF Increasing

LEMMA OccurrencesType ==
  ASSUME NEW S, NEW list \in Seq(S), NEW n \in Range(list)
  PROVE  /\ Occurrences(list, n) \subseteq 1..Len(list)
         /\ Occurrences(list, n) # {}
  BY RangeOfList DEF Occurrences

LEMMA ReindexType ==
  ASSUME NEW S, NEW list \in Seq(S), NEW n, NEW old \in Nat
  PROVE  Reindex(list, n, old) \in Nat
<1>1. CASE n \in Range(list)
  <2>1. Min(Occurrences(list, n)) \in 1..Len(list)
    BY <1>1, OccurrencesType, MinOfNat
  <2>2. QED
    BY <1>1, <2>1 DEF Reindex
<1>2. CASE n \notin Range(list)
  BY <1>2 DEF Reindex
<1>3. QED
  BY <1>1, <1>2

-----------------------------------------------------------------------------
(* Lists without repetition, and lists in order.                           *)

Different(list) == \A i, j \in 1..Len(list) : list[i] = list[j] => i = j

LEMMA IncreasingIsDifferent ==
  ASSUME NEW list \in Seq(Nat), Increasing(list)
  PROVE  Different(list)
<1> SUFFICES ASSUME NEW i \in 1..Len(list), NEW j \in 1..Len(list),
                    list[i] = list[j], i # j
             PROVE  FALSE
  BY DEF Different
<1>1. /\ i < j => list[i] < list[j]
      /\ j < i => list[j] < list[i]
      /\ list[i] \in Nat /\ list[j] \in Nat
  BY DEF Increasing
<1>2. QED
  BY <1>1

LEMMA ListOfNumbers ==
  ASSUME NEW S \in SUBSET Nat, NEW list \in Seq(S)
  PROVE  list \in Seq(Nat)
<1>1. Len(list) \in Nat /\ \A i \in 1..Len(list) : list[i] \in S
  OBVIOUS
<1>2. \A i \in 1..Len(list) : list[i] \in Nat
  BY <1>1
<1>3. QED
  BY <1>1, <1>2

LEMMA AddKeepsDifferent ==
  ASSUME NEW list \in Seq(Nat), Different(list), NEW n \in Nat
  PROVE  Different(Add(list, n))
<1>1. CASE n \in Range(list)
  BY <1>1 DEF Add
<1>2. CASE n \notin Range(list)
  <2>1. \A i \in 1..Len(list) : list[i] # n
    BY <1>2, RangeOfList
  <2>2. Add(list, n) = Append(list, n)
    BY <1>2 DEF Add
  <2>3. QED
    BY <2>1, <2>2 DEF Different
<1>3. QED
  BY <1>1, <1>2

(* Of two lists in order with the same nodes, neither differs from the     *)
(* other first by a smaller node.                                          *)
LEMMA NoSmallerNode ==
  ASSUME NEW list \in Seq(Nat), NEW other \in Seq(Nat),
         Increasing(list), Increasing(other), Range(list) \subseteq Range(other),
         NEW d \in 1..Len(list), d \in 1..Len(other),
         \A i \in 1..(d - 1) : list[i] = other[i]
  PROVE  list[d] >= other[d]
<1> SUFFICES ASSUME list[d] < other[d] PROVE FALSE
  BY RangeOfList
<1>1. /\ \A i, j \in 1..Len(list) : i < j => list[i] < list[j]
      /\ \A i, j \in 1..Len(other) : i < j => other[i] < other[j]
      /\ \A i \in 1..Len(list) : list[i] \in Nat
      /\ \A i \in 1..Len(other) : other[i] \in Nat
  BY RangeOfList DEF Increasing
<1>2. PICK e \in 1..Len(other) : list[d] = other[e]
  BY RangeOfList
<1>3. e < d
  <2>1. d # e
    BY <1>1, <1>2
  <2>2. ~ (d < e)
    BY <1>1, <1>2
  <2>3. QED
    BY <2>1, <2>2
<1>4. e \in 1..(d - 1) /\ e \in 1..Len(list)
  BY <1>3
<1>5. list[e] = list[d] /\ list[e] < list[d]
  BY <1>1, <1>2, <1>3, <1>4
<1>6. QED
  BY <1>1, <1>4, <1>5

(* The nodes of a list in order determine the list.                        *)
LEMMA IncreasingIsUnique ==
  ASSUME NEW list \in Seq(Nat), NEW other \in Seq(Nat),
         Increasing(list), Increasing(other), Range(list) = Range(other)
  PROVE  list = other
<1> DEFINE both == {i \in 1..Len(list) : i \in 1..Len(other)}
           differ == {i \in both : list[i] # other[i]}
<1>1. /\ Len(list) \in Nat /\ Len(other) \in Nat
      /\ \A i \in 1..Len(list) : list[i] \in Nat
      /\ \A i \in 1..Len(other) : other[i] \in Nat
  OBVIOUS
<1>2. differ = {}
  <2> SUFFICES ASSUME differ # {} PROVE FALSE
    OBVIOUS
  <2>1. differ \in SUBSET Nat
    OBVIOUS
  <2>2. PICK d \in differ : \A i \in differ : d <= i
    BY <2>1, MinOfNat
  <2>3. d \in 1..Len(list) /\ d \in 1..Len(other) /\ list[d] # other[d]
    OBVIOUS
  <2>4. \A i \in 1..(d - 1) : list[i] = other[i]
    <3>1. ASSUME NEW i \in 1..(d - 1) PROVE list[i] = other[i]
      <4> HIDE DEF differ, both
      <4>0. i \in 1..Len(list) /\ i \in 1..Len(other) /\ i < d
        <5>1. d \in Nat /\ d <= Len(list) /\ d <= Len(other)
          BY <1>1, <2>3
        <5>2. i \in Nat /\ 1 <= i /\ i <= d - 1
          BY <5>1
        <5>3. QED
          BY <1>1, <5>1, <5>2
      <4> USE DEF differ, both
      <4>1. i \in both /\ i < d
        BY <4>0
      <4>2. i \notin differ
        BY <2>2, <4>1
      <4>3. QED
        BY <4>1, <4>2
    <3>2. QED
      BY <3>1
  <2> HIDE DEF differ, both
  <2>5. list[d] >= other[d] /\ other[d] >= list[d]
    BY <2>3, <2>4, NoSmallerNode
  <2>6. QED
    BY <1>1, <2>3, <2>5
<1>3. \A i \in 1..Len(list) : i \in 1..Len(other) => list[i] = other[i]
  BY <1>2
<1> HIDE DEF differ, both
<1>4. ~ (Len(list) < Len(other))
  <2> SUFFICES ASSUME Len(list) < Len(other) PROVE FALSE
    OBVIOUS
  <2>1. Len(list) + 1 \in 1..Len(other)
    BY <1>1
  <2>2. PICK e \in 1..Len(list) : other[Len(list) + 1] = list[e]
    <3>1. other[Len(list) + 1] \in Range(list)
      BY <2>1, RangeOfList
    <3>2. QED
      BY <3>1, RangeOfList
  <2>3. e \in 1..Len(other) /\ other[e] = other[Len(list) + 1]
    BY <1>1, <1>3, <2>2
  <2>4. e = Len(list) + 1
    BY <2>1, <2>3, IncreasingIsDifferent DEF Different
  <2>5. QED
    BY <1>1, <2>4
<1>5. ~ (Len(other) < Len(list))
  <2> SUFFICES ASSUME Len(other) < Len(list) PROVE FALSE
    OBVIOUS
  <2>1. Len(other) + 1 \in 1..Len(list)
    BY <1>1
  <2>2. PICK e \in 1..Len(other) : list[Len(other) + 1] = other[e]
    <3>1. list[Len(other) + 1] \in Range(other)
      BY <2>1, RangeOfList
    <3>2. QED
      BY <3>1, RangeOfList
  <2>3. e \in 1..Len(list) /\ list[e] = list[Len(other) + 1]
    BY <1>1, <1>3, <2>2
  <2>4. e = Len(other) + 1
    BY <2>1, <2>3, IncreasingIsDifferent DEF Different
  <2>5. QED
    BY <1>1, <2>4
<1>6. Len(list) = Len(other)
  BY <1>1, <1>4, <1>5
<1>7. \A i \in 1..Len(list) : list[i] = other[i]
  BY <1>3, <1>6
<1>8. QED
  BY <1>6, <1>7

(* A server in a list finds its position, whatever its index was before.   *)
LEMMA ReindexFinds ==
  ASSUME NEW S, NEW list \in Seq(S), NEW n \in Range(list), NEW old
  PROVE  /\ Reindex(list, n, old) \in Nat
         /\ Reindex(list, n, old) < Len(list)
         /\ list[Reindex(list, n, old) + 1] = n
<1>1. /\ Occurrences(list, n) \subseteq 1..Len(list)
      /\ Occurrences(list, n) # {}
  BY OccurrencesType
<1>2. Min(Occurrences(list, n)) \in Occurrences(list, n)
  <2>1. Occurrences(list, n) \in SUBSET Nat
    BY <1>1
  <2>2. QED
    BY <1>1, <2>1, MinOfNat
<1> DEFINE m == Min(Occurrences(list, n))
<1>3. m \in 1..Len(list) /\ Len(list) \in Nat /\ list[m] = n
  BY <1>1, <1>2 DEF Occurrences
<1>4. Reindex(list, n, old) = m - 1
  BY DEF Reindex
<1> HIDE DEF m
<1>5. m - 1 \in Nat /\ m - 1 < Len(list) /\ (m - 1) + 1 = m
  BY <1>3
<1>6. QED
  BY <1>3, <1>4, <1>5

LEMMA RemoveDeadType ==
  ASSUME NEW S, NEW list \in Seq(S), NEW dead
  PROVE  RemoveDead(list, dead) \in Seq(S)
<1> DEFINE at == Occurrences(list, dead)
           first == Min(at)
           last == Max(at)
           shifted == IF first < Len(list)
                      THEN [list EXCEPT ![first] = list[first + 1]] ELSE list
<1>1. CASE at = {}
  BY <1>1 DEF RemoveDead
<1>2. CASE at # {}
  <2>1. at \subseteq 1..Len(list) /\ Len(list) \in Nat
    BY DEF Occurrences
  <2>2. first \in 1..Len(list)
    BY <1>2, <2>1, MinOfNat
  <2>3. last \in 1..Len(list)
    BY <1>2, <2>1, MaxOfInterval
  <2> HIDE DEF at, first, last
  <2>4. shifted \in Seq(S) /\ Len(shifted) = Len(list)
    BY <2>2
  <2> HIDE DEF shifted
  <2>5. \A i \in 1..Len(list) : shifted[i] \in S
    BY <2>4
  <2>6. SubSeq(shifted, 1, first) \in Seq(S)
    BY <2>2, <2>5, SubSeqProperties
  <2>7. SubSeq(shifted, 1, last - 1) \in Seq(S)
    BY <2>3, <2>5, SubSeqProperties
  <2>8. QED
    BY <2>6, <2>7, <1>2 DEF RemoveDead, at, first, last, shifted
<1>3. QED
  BY <1>1, <1>2

LEMMA OverwriteType ==
  ASSUME NEW S, NEW list \in Seq(S), NEW reply \in Seq(S)
  PROVE  Overwrite(list, reply) \in Seq(S)
<1>1. CASE Len(reply) > Len(list)
  BY <1>1 DEF Overwrite
<1>2. CASE ~ (Len(reply) > Len(list))
  <2>1. Overwrite(list, reply) =
          [i \in 1..Len(list) |-> IF i <= Len(reply) THEN reply[i] ELSE list[i]]
    BY <1>2 DEF Overwrite
  <2>2. \A i \in 1..Len(list) :
          (IF i <= Len(reply) THEN reply[i] ELSE list[i]) \in S
    OBVIOUS
  <2>3. QED
    BY <2>1, <2>2
<1>3. QED
  BY <1>1, <1>2

LEMMA SkipTargetsType ==
  ASSUME NEW S, NEW list \in Seq(S), NEW index \in Nat, NEW fullMesh \in Nat
  PROVE  SkipTargets(list, index, fullMesh) \in Seq(S)
<1> DEFINE n == Len(list)
           jump == n \div 4
           first == IF index = 0 THEN 1 ELSE index - 1
           At(i) == list[(i % n) + 1]
<1>1. CASE n <= fullMesh
  BY <1>1 DEF SkipTargets
<1>2. CASE ~ (n <= fullMesh)
  <2>1. n \in Nat \ {0}
    BY <1>2
  <2>2. \A i \in Nat : At(i) \in S
    <3>1. ASSUME NEW i \in Nat PROVE At(i) \in S
      <4>1. (i % n) \in 0..(n - 1)
        BY <2>1
      <4>2. (i % n) + 1 \in 1..n
        BY <2>1, <4>1
      <4>3. QED
        BY <4>2
    <3>2. QED
      BY <3>1
  <2>3. /\ first \in Nat /\ index + 1 \in Nat /\ jump \in Nat
        /\ index + jump \in Nat /\ index + 2 * jump \in Nat
        /\ index + 3 * jump \in Nat
    BY <2>1
  <2> HIDE DEF At, first, jump, n
  <2>4. << At(first), At(index + 1), At(index + jump),
           At(index + 2 * jump), At(index + 3 * jump) >> \in Seq(S)
    BY <2>2, <2>3
  <2>5. QED
    BY <1>2, <2>4 DEF SkipTargets, At, first, jump, n
<1>3. QED
  BY <1>1, <1>2

LEMMA MinIs ==
  ASSUME NEW S \in SUBSET Nat, NEW x \in S, \A y \in S : x <= y
  PROVE  Min(S) = x
<1>1. Min(S) \in S /\ Min(S) <= x /\ x <= Min(S) /\ Min(S) \in Nat /\ x \in Nat
  BY MinOfNat
<1>2. QED
  BY <1>1

(* In a sorted list the node that follows a node on the ring is at the     *)
(* next position, and at the first one after the last.                     *)
LEMMA NextOnTheRing ==
  ASSUME NEW list \in Seq(Nat), Increasing(list), NEW i \in 1..Len(list), Len(list) > 1
  PROVE  Successor(Range(list) \ {list[i]}, list[i]) =
           list[IF i < Len(list) THEN i + 1 ELSE 1]
<1> DEFINE own    == list[i]
           others == Range(list) \ {own}
           above  == {n \in others : own <= n}
<1>1. /\ Len(list) \in Nat /\ i \in Nat /\ own \in Nat
      /\ others \in SUBSET Nat /\ above \in SUBSET Nat
      /\ \A k \in 1..Len(list) : list[k] \in Nat
  BY RangeOfList
<1>2. \A j, k \in 1..Len(list) : j < k => list[j] < list[k]
  BY DEF Increasing
<1>3. \A n \in others : \E k \in 1..Len(list) : n = list[k] /\ k # i
  BY RangeOfList
<1>4. \A k \in 1..Len(list) : k # i => list[k] \in others
  BY <1>1, <1>2, RangeOfList
<1>5. CASE i < Len(list)
  <2>1. i + 1 \in 1..Len(list) /\ i + 1 # i /\ i < i + 1
    BY <1>1, <1>5
  <2>2. list[i + 1] \in above
    BY <1>1, <1>2, <1>4, <2>1
  <2>3. ASSUME NEW n \in above PROVE list[i + 1] <= n
    <3>1. PICK k \in 1..Len(list) : n = list[k] /\ k # i
      BY <1>3
    <3>2. ~ k < i
      BY <1>1, <1>2, <3>1
    <3>3. k = i + 1 \/ i + 1 < k
      BY <1>1, <3>1, <3>2
    <3>4. QED
      BY <1>1, <1>2, <2>1, <3>1, <3>3
  <2> HIDE DEF above
  <2>4. Min(above) = list[i + 1]
    BY <1>1, <2>2, <2>3, MinIs
  <2>5. QED
    BY <1>5, <2>2, <2>4 DEF Successor, above
<1>6. CASE ~ i < Len(list)
  <2>1. 1 \in 1..Len(list) /\ 1 # i /\ i = Len(list)
    BY <1>1, <1>6
  <2>2. above = {}
    BY <1>1, <1>2, <1>3, <2>1
  <2>3. list[1] \in others
    BY <1>4, <2>1
  <2>4. ASSUME NEW n \in others PROVE list[1] <= n
    <3>1. PICK k \in 1..Len(list) : n = list[k] /\ k # i
      BY <1>3
    <3>2. k = 1 \/ 1 < k
      BY <1>1, <3>1
    <3>3. QED
      BY <1>1, <1>2, <2>1, <3>1, <3>2
  <2> HIDE DEF others
  <2>5. Min(others) = list[1]
    BY <1>1, <2>3, <2>4, MinIs
  <2>6. QED
    BY <1>6, <2>2, <2>5 DEF Successor, others
<1>7. QED
  BY <1>5, <1>6

(* The second of the five positions a server dials in a large ring is the  *)
(* one after its own; in a small one it dials everybody.                   *)
LEMMA NextIsDialled ==
  ASSUME NEW list \in Seq(Nat), Increasing(list), NEW index \in Nat,
         index < Len(list), Len(list) > 1, NEW fullMesh \in Nat
  PROVE  Successor(Range(list) \ {list[index + 1]}, list[index + 1])
           \in Range(SkipTargets(list, index, fullMesh))
<1> DEFINE n     == Len(list)
           jump  == n \div 4
           first == IF index = 0 THEN 1 ELSE index - 1
           At(i) == list[(i % n) + 1]
           dialled == SkipTargets(list, index, fullMesh)
<1>1. index + 1 \in 1..n /\ n \in Nat
  OBVIOUS
<1>2. (index + 1) % n = IF index + 1 < n THEN index + 1 ELSE 0
  <2>1. CASE index + 1 < n
    BY <1>1, <2>1
  <2>2. CASE index + 1 = n
    BY <1>1, <2>2
  <2>3. QED
    BY <1>1, <2>1, <2>2
<1>3. Successor(Range(list) \ {list[index + 1]}, list[index + 1]) = At(index + 1)
  <2>1. Successor(Range(list) \ {list[index + 1]}, list[index + 1]) =
          list[IF index + 1 < Len(list) THEN (index + 1) + 1 ELSE 1]
    BY <1>1, NextOnTheRing
  <2>2. (IF index + 1 < Len(list) THEN (index + 1) + 1 ELSE 1) =
          ((index + 1) % n) + 1
    BY <1>1, <1>2
  <2>3. QED
    BY <2>1, <2>2
<1>4. CASE n <= fullMesh
  <2>1. ((index + 1) % n) + 1 \in 1..n
    BY <1>1, <1>2
  <2>2. QED
    BY <1>3, <1>4, <2>1, RangeOfList DEF SkipTargets
<1>5. CASE ~ n <= fullMesh
  <2>1. dialled = << At(first), At(index + 1), At(index + jump),
                     At(index + 2 * jump), At(index + 3 * jump) >>
    BY <1>5 DEF SkipTargets
  <2>2. 2 \in DOMAIN dialled /\ dialled[2] = At(index + 1)
    BY <2>1
  <2>3. QED
    BY <1>3, <2>2 DEF Range
<1>6. QED
  BY <1>4, <1>5
===============================================================================
