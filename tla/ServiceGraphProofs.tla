------------------------- MODULE ServiceGraphProofs -------------------------
(***************************************************************************)
(* Proofs about ServiceGraph for any number of services and any            *)
(* dependencies.  A cycle is stated as a set of services that are stuck on *)
(* each other: no member of such a set is ever placed or visited, because  *)
(* one of its dependencies would have to be before it.  Conversely the     *)
(* services that the sort leaves over are such a set, and so is the cycle  *)
(* that the search reports.                                                *)
(***************************************************************************)
EXTENDS ServiceGraph, FiniteSetTheorems, SequenceTheorems, TLAPS

SpecTypes ==
  /\ kind \in [Services -> Kinds]
  /\ declared \in [Services -> SUBSET (Services \cup {Unknown})]
  /\ dependsOn \in [Services -> SUBSET (Services \cup {Unknown})]

SortTypes ==
  /\ inDegree \in [Services -> 0..N]
  /\ queue \subseteq Services
  /\ order \in Seq(Services) /\ Len(order) <= N

SearchTypes ==
  /\ root \in 1..(N + 1)
  /\ path \in Seq(Services) /\ Len(path) <= N
  /\ left \in Seq(SUBSET Services) /\ Len(left) = Len(path)
  /\ visited \subseteq Services
  /\ cycle \in Seq(Services)

Phases == {"draft", "count", "sort", "search", "done"}

LEMMA TypeParts == TypeOK <=> pc \in Phases /\ SpecTypes /\ SortTypes /\ SearchTypes
  BY DEF TypeOK, Phases, SpecTypes, SortTypes, SearchTypes

LEMMA InvPartsNext ==
  ASSUME (pc \in Phases)', SpecTypes', SortTypes', SearchTypes',
         SpecInv', DependenciesFirst', SortInv', SearchInv'
  PROVE  IInv'
  BY DEF IInv, TypeOK, Phases, SpecTypes, SortTypes, SearchTypes

(* Sets of services are finite.                                            *)
LEMMA Finite ==
  /\ N \in Nat /\ Services \subseteq Nat \ {0}
  /\ IsFiniteSet(Services) /\ Cardinality(Services) = N
  /\ \A T \in SUBSET Services :
       /\ IsFiniteSet(T) /\ Cardinality(T) \in 0..N
       /\ Cardinality(T) = N => T = Services
       /\ Cardinality(T) = 0 <=> T = {}
       /\ \A s \in Services \ T : Cardinality(T \cup {s}) = Cardinality(T) + 1
       /\ \A s \in T : Cardinality(T \ {s}) = Cardinality(T) - 1
  <1>1. N \in Nat /\ Services \subseteq Nat \ {0}
    BY GraphAssumption DEF GraphAssumption, Services
  <1>2. IsFiniteSet(Services) /\ Cardinality(Services) = N
    BY <1>1, FS_Interval DEF Services
  <1>3. ASSUME NEW T \in SUBSET Services
        PROVE  /\ IsFiniteSet(T) /\ Cardinality(T) \in 0..N
               /\ Cardinality(T) = N => T = Services
               /\ Cardinality(T) = 0 <=> T = {}
               /\ \A s \in Services \ T : Cardinality(T \cup {s}) = Cardinality(T) + 1
               /\ \A s \in T : Cardinality(T \ {s}) = Cardinality(T) - 1
    <2>1. /\ IsFiniteSet(T) /\ Cardinality(T) <= N
          /\ Cardinality(T) = N => T = Services
      BY <1>2, FS_Subset
    <2>2. Cardinality(T) \in Nat
      BY <2>1, FS_CardinalityType
    <2>3. Cardinality(T) = 0 <=> T = {}
      BY <2>1, FS_EmptySet
    <2>4. \A s \in Services \ T : Cardinality(T \cup {s}) = Cardinality(T) + 1
      BY <2>1, FS_AddElement
    <2>5. \A s \in T : Cardinality(T \ {s}) = Cardinality(T) - 1
      BY <2>1, FS_RemoveElement
    <2>. QED
      BY <1>1, <2>1, <2>2, <2>3, <2>4, <2>5
  <1>. QED
    BY <1>1, <1>2, <1>3

LEMMA OneMore ==
  ASSUME NEW T \in SUBSET Services, NEW s \in Services \ T
  PROVE  Cardinality(T \cup {s}) = Cardinality(T) + 1 /\ Cardinality(T) \in 0..N
  BY Finite

LEMMA DepsFacts ==
  \A s \in Services : Deps(s) \subseteq Services /\ s \notin Deps(s)
  BY DEF Deps

(* As long as the specification stays, so do its dependencies.             *)
LEMMA SameGraph ==
  ASSUME dependsOn' = dependsOn
  PROVE  /\ \A s \in Services : Deps(s)' = Deps(s)
         /\ \A s \in Services : Dependents(s)' = Dependents(s)
         /\ \A S \in SUBSET Services : Stuck(S)' <=> Stuck(S)
  BY DEF Deps, Dependents, Stuck

(* The elements of a sequence of services that gets one more.              *)
LEMMA Extended ==
  ASSUME NEW q \in Seq(Services), NEW s \in Services
  PROVE  /\ Append(q, s) \in Seq(Services)
         /\ Len(q) \in Nat /\ Len(Append(q, s)) = Len(q) + 1
         /\ DOMAIN q = 1..Len(q) /\ DOMAIN Append(q, s) = 1..(Len(q) + 1)
         /\ \A i \in 1..Len(q) : Append(q, s)[i] = q[i] /\ q[i] \in Services
         /\ Append(q, s)[Len(q) + 1] = s
         /\ {Append(q, s)[i] : i \in DOMAIN Append(q, s)}
              = {q[i] : i \in DOMAIN q} \cup {s}
  <1>1. /\ Append(q, s) \in Seq(Services)
        /\ Len(Append(q, s)) = Len(q) + 1
        /\ \A i \in 1..Len(q) : Append(q, s)[i] = q[i]
        /\ Append(q, s)[Len(q) + 1] = s
    BY AppendProperties
  <1>2. /\ Len(q) \in Nat /\ DOMAIN q = 1..Len(q)
        /\ \A i \in 1..Len(q) : q[i] \in Services
    BY LenProperties
  <1>3. DOMAIN Append(q, s) = 1..(Len(q) + 1)
    BY <1>1, LenProperties
  <1>4. 1..(Len(q) + 1) = (1..Len(q)) \cup {Len(q) + 1}
    BY <1>2
  <1>5. {Append(q, s)[i] : i \in DOMAIN Append(q, s)}
          = {q[i] : i \in DOMAIN q} \cup {s}
    BY <1>1, <1>2, <1>3, <1>4
  <1>. QED
    BY <1>1, <1>2, <1>3, <1>5

LEMMA Front ==
  ASSUME NEW T, NEW q, NEW n \in Nat, \A i \in 1..n : q[i] \in T, NEW r, r = SubSeq(q, 1, n)
  PROVE  r \in Seq(T) /\ Len(r) = n /\ \A i \in 1..n : r[i] = q[i]
  BY SubSeqProperties

LEMMA ExtendedSets ==
  ASSUME NEW q \in Seq(SUBSET Services), NEW e \in SUBSET Services, NEW r, r = Append(q, e)
  PROVE  /\ r \in Seq(SUBSET Services) /\ Len(r) = Len(q) + 1
         /\ \A i \in 1..Len(q) : r[i] = q[i]
         /\ r[Len(q) + 1] = e
  BY AppendProperties

-----------------------------------------------------------------------------
(* A step that leaves specification and sort alone, or the search.         *)
LEMMA SortStands ==
  ASSUME SortTypes, DependenciesFirst, SortInv, UNCHANGED <<dependsOn, sort>>,
         pc' = pc \/ (pc = "sort" /\ pc' = "search" /\ queue = {})
                  \/ (pc = "search" /\ pc' = "done")
                  \/ (pc = "draft" /\ pc' = "count")
  PROVE  SortTypes' /\ DependenciesFirst' /\ SortInv'
  <1>. USE DEF sort
  <1>1. SortTypes'
    BY DEF SortTypes
  <1>2. /\ Placed' = Placed
        /\ \A i \in DOMAIN order : Before(i)' = Before(i) /\ order[i] \in Services
    BY DEF Placed, Before, SortTypes
  <1>3. DependenciesFirst'
    BY <1>2, SameGraph DEF DependenciesFirst
  <1>4. SortInv'
    BY <1>2, SameGraph DEF SortInv
  <1>. QED
    BY <1>1, <1>3, <1>4

LEMMA SearchStands ==
  ASSUME SearchTypes, SearchInv, UNCHANGED <<dependsOn, search>>,
         \/ pc' = pc
         \/ pc \in {"draft", "count", "sort"} /\ pc' \in {"count", "sort", "search"}
         \/ pc = "search" /\ pc' = "done" /\ path = <<>> /\ root = N + 1
  PROVE  SearchTypes' /\ SearchInv'
  <1>. USE DEF search
  <1>1. SearchTypes'
    BY DEF SearchTypes
  <1>2. /\ OnPath' = OnPath
        /\ \A i \in DOMAIN path : path[i] \in Services
        /\ \A i \in DOMAIN cycle : cycle[i] \in Services
        /\ DOMAIN path = 1..Len(path) /\ Len(path) \in Nat
        /\ DOMAIN cycle = 1..Len(cycle) /\ Len(cycle) \in Nat
    BY LenProperties DEF OnPath, SearchTypes
  <1>3. SearchInv'
    BY <1>2, SameGraph DEF SearchInv
  <1>. QED
    BY <1>1, <1>3

-----------------------------------------------------------------------------
LEMMA InitIInv == Init => IInv
  <1>. SUFFICES ASSUME Init PROVE IInv
    OBVIOUS
  <1>1. TypeOK
    <2>1. SpecTypes /\ pc \in Phases
      BY DEF Init, SpecTypes, Phases
    <2>2. SortTypes /\ SearchTypes
      BY Finite, EmptySeq DEF Init, SortTypes, SearchTypes
    <2>. QED
      BY <2>1, <2>2, TypeParts
  <1>2. SpecInv
    BY DEF Init, SpecInv
  <1>3. /\ Placed = {} /\ OnPath = {} /\ Cardinality({}) = 0
        /\ DOMAIN order = {} /\ DOMAIN path = {} /\ Len(order) = 0 /\ Len(path) = 0
    BY FS_EmptySet DEF Init, Placed, OnPath
  <1>4. DependenciesFirst
    BY <1>3 DEF DependenciesFirst
  <1>5. SortInv
    BY <1>3 DEF SortInv, Init
  <1>6. SearchInv
    BY <1>3 DEF SearchInv, Init
  <1>. QED
    BY <1>1, <1>2, <1>4, <1>5, <1>6 DEF IInv

LEMMA InferStep == IInv /\ Infer => IInv'
  <1>. SUFFICES ASSUME IInv, Infer PROVE IInv'
    OBVIOUS
  <1>. USE DEF Infer, sort, search
  <1>1. /\ pc = "draft" /\ pc' = "count"
        /\ order = <<>> /\ order' = <<>> /\ path = <<>> /\ path' = <<>>
        /\ visited = {} /\ visited' = {} /\ root = 1 /\ root' = 1 /\ cycle = <<>> /\ cycle' = <<>>
    BY DEF IInv, SortInv, SearchInv
  <1>2. SpecTypes' /\ (pc \in Phases)'
    BY <1>1, TypeParts DEF IInv, SpecTypes, Inferred, Phases
  <1>3. SortTypes' /\ SearchTypes'
    BY TypeParts DEF IInv, SortTypes, SearchTypes
  <1>4. SpecInv'
    BY DEF SpecInv, Inferred, Needs, OfKind
  <1>5. /\ Placed' = {} /\ OnPath' = {} /\ Cardinality({}) = 0
        /\ DOMAIN order' = {} /\ DOMAIN path' = {} /\ Len(order') = 0 /\ Len(path') = 0
    BY <1>1, FS_EmptySet DEF Placed, OnPath
  <1>6. DependenciesFirst'
    BY <1>5 DEF DependenciesFirst
  <1>7. SortInv'
    BY <1>1, <1>5 DEF SortInv
  <1>8. SearchInv'
    BY <1>1, <1>5 DEF SearchInv
  <1>. QED
    BY <1>2, <1>3, <1>4, <1>6, <1>7, <1>8, InvPartsNext

(* Every step but Infer leaves the specification as it is.                 *)
LEMMA SpecStands ==
  ASSUME SpecTypes, SpecInv, UNCHANGED spec
  PROVE  SpecTypes' /\ SpecInv'
  <1>1. SpecTypes'
    BY DEF spec, SpecTypes
  <1>2. SpecInv'
    <2>1. /\ kind' = kind /\ declared' = declared /\ dependsOn' = dependsOn
      BY DEF spec
    <2>2. \A s : Needs(s)' = Needs(s)
      BY <2>1, Zenon DEF Needs, OfKind
    <2>. QED
      BY <2>1, <2>2, Zenon DEF SpecInv, Inferred
  <1>. QED
    BY <1>1, <1>2

LEMMA TakeAsIsStep == IInv /\ TakeAsIs => IInv'
  <1>. SUFFICES ASSUME IInv, TakeAsIs PROVE IInv'
    OBVIOUS
  <1>1. /\ SpecTypes /\ SortTypes /\ SearchTypes
        /\ SpecInv /\ DependenciesFirst /\ SortInv /\ SearchInv
    BY TypeParts DEF IInv
  <1>2. /\ pc = "draft" /\ pc' = "count" /\ UNCHANGED spec /\ UNCHANGED dependsOn
        /\ UNCHANGED sort /\ UNCHANGED search
    BY DEF TakeAsIs, spec
  <1>3. SpecTypes' /\ SpecInv'
    BY <1>1, <1>2, SpecStands
  <1>4. SortTypes' /\ DependenciesFirst' /\ SortInv'
    BY <1>1, <1>2, SortStands
  <1>5. SearchTypes' /\ SearchInv'
    BY <1>1, <1>2, SearchStands
  <1>6. (pc \in Phases)'
    BY <1>2 DEF Phases
  <1>. QED
    BY <1>3, <1>4, <1>5, <1>6, InvPartsNext

LEMMA CountStep == IInv /\ Count => IInv'
  <1>. SUFFICES ASSUME IInv, Count PROVE IInv'
    OBVIOUS
  <1>1. /\ SpecTypes /\ SortTypes /\ SearchTypes
        /\ SpecInv /\ DependenciesFirst /\ SortInv /\ SearchInv
    BY TypeParts DEF IInv
  <1>2. /\ pc = "count" /\ pc' = "sort" /\ UNCHANGED spec /\ UNCHANGED dependsOn
        /\ UNCHANGED search /\ order = <<>> /\ order' = <<>>
        /\ inDegree' = [s \in Services |-> Cardinality(Deps(s))]
        /\ queue' = {s \in Services : Deps(s) = {}}
    BY <1>1 DEF Count, spec, SortInv
  <1>3. SpecTypes' /\ SpecInv'
    BY <1>1, <1>2, SpecStands
  <1>4. SearchTypes' /\ SearchInv'
    BY <1>1, <1>2, SearchStands
  <1>5. SortTypes'
    BY <1>1, <1>2, Finite, DepsFacts DEF SortTypes
  <1>6. /\ Placed' = {} /\ Cardinality({}) = 0 /\ DOMAIN order' = {} /\ Len(order') = 0
    BY <1>2, FS_EmptySet DEF Placed
  <1>7. DependenciesFirst'
    BY <1>6 DEF DependenciesFirst
  <1>8. SortInv'
    <2>1. \A s \in Services : Deps(s)' \ {} = Deps(s)
      BY <1>2, SameGraph
    <2>2. \A s \in Services : inDegree'[s] = Cardinality(Deps(s)' \ Placed')
      BY <1>2, <1>6, <2>1
    <2>3. queue' = {s \in Services \ Placed' : Deps(s)' \subseteq Placed'}
      BY <1>2, <1>6, <2>1
    <2>. QED
      BY <1>2, <1>6, <2>2, <2>3 DEF SortInv
  <1>9. (pc \in Phases)'
    BY <1>2 DEF Phases
  <1>. QED
    BY <1>3, <1>4, <1>5, <1>7, <1>8, <1>9, InvPartsNext

LEMMA EndSortStep == IInv /\ EndSort => IInv'
  <1>. SUFFICES ASSUME IInv, EndSort PROVE IInv'
    OBVIOUS
  <1>1. /\ SpecTypes /\ SortTypes /\ SearchTypes
        /\ SpecInv /\ DependenciesFirst /\ SortInv /\ SearchInv
    BY TypeParts DEF IInv
  <1>2. /\ pc = "sort" /\ queue = {} /\ pc' = "search"
        /\ UNCHANGED spec /\ UNCHANGED dependsOn /\ UNCHANGED sort /\ UNCHANGED search
    BY DEF EndSort, spec
  <1>3. SpecTypes' /\ SpecInv'
    BY <1>1, <1>2, SpecStands
  <1>4. SortTypes' /\ DependenciesFirst' /\ SortInv'
    BY <1>1, <1>2, SortStands
  <1>5. SearchTypes' /\ SearchInv'
    BY <1>1, <1>2, SearchStands
  <1>6. (pc \in Phases)'
    BY <1>2 DEF Phases
  <1>. QED
    BY <1>3, <1>4, <1>5, <1>6, InvPartsNext

-----------------------------------------------------------------------------
(* Placing s, which waits for nothing that has not been placed.            *)
LEMMA PlaceStep ==
  ASSUME IInv, NEW s \in Services, Place(s)
  PROVE  IInv'
  <1>1. /\ SpecTypes /\ SortTypes /\ SearchTypes
        /\ SpecInv /\ DependenciesFirst /\ SortInv /\ SearchInv
    BY TypeParts DEF IInv
  <1>2. /\ pc = "sort" /\ pc' = pc /\ UNCHANGED spec /\ UNCHANGED dependsOn
        /\ UNCHANGED search /\ order' = Append(order, s)
        /\ inDegree' = [d \in Services |-> IF d \in Dependents(s)
                                           THEN inDegree[d] - 1 ELSE inDegree[d]]
        /\ queue' = (queue \ {s}) \cup Releases(s)
        /\ s \in queue /\ \A t \in queue : s <= t
    BY DEF Place, spec, Shifts
  <1>3. SpecTypes' /\ SpecInv'
    BY <1>1, <1>2, SpecStands
  <1>4. SearchTypes' /\ SearchInv'
    BY <1>1, <1>2, SearchStands
  <1>5. (pc \in Phases)'
    BY <1>2 DEF Phases
  <1>6. /\ \A d \in Services : inDegree[d] = Cardinality(Deps(d) \ Placed)
        /\ queue = {d \in Services \ Placed : Deps(d) \subseteq Placed}
        /\ Cardinality(Placed) = Len(order)
    BY <1>1, <1>2 DEF SortInv
  <1>7. /\ s \notin Placed /\ Deps(s) \subseteq Placed /\ s \notin Deps(s)
    BY <1>2, <1>6, DepsFacts
  <1>8. /\ order' \in Seq(Services) /\ Len(order) \in Nat /\ Len(order') = Len(order) + 1
        /\ DOMAIN order = 1..Len(order) /\ DOMAIN order' = 1..(Len(order) + 1)
        /\ \A i \in 1..Len(order) : order'[i] = order[i] /\ order[i] \in Services
        /\ order'[Len(order) + 1] = s
        /\ Placed' = Placed \cup {s}
    BY <1>1, <1>2, Extended DEF SortTypes, Placed
  <1>9. Placed \subseteq Services /\ Placed' \subseteq Services
    BY <1>8 DEF Placed
  <1>10. Cardinality(Placed') = Len(order') /\ Len(order') <= N
    BY <1>6, <1>7, <1>8, <1>9, Finite
  <1>11. /\ \A i \in 1..Len(order) : Before(i)' = Before(i) /\ Before(i) \subseteq Placed
         /\ \A k \in Nat : k = Len(order) + 1 => Before(k)' = Placed
    <2>1. ASSUME NEW i \in 1..Len(order)
          PROVE  Before(i)' = Before(i) /\ Before(i) \subseteq Placed
      <3>1. \A j \in 1..(i - 1) : j \in 1..Len(order)
        BY <1>8
      <3>2. Before(i)' = {order'[j] : j \in 1..(i - 1)}
        BY DEF Before
      <3>. QED
        BY <1>8, <3>1, <3>2 DEF Before, Placed
    <2>2. ASSUME NEW k \in Nat, k = Len(order) + 1
          PROVE  Before(k)' = Placed
      <3>1. Before(k)' = {order'[j] : j \in 1..(k - 1)} /\ k - 1 = Len(order)
        BY <1>8, <2>2 DEF Before
      <3>. QED
        BY <1>8, <3>1 DEF Placed
    <2>. QED
      BY <2>1, <2>2
  <1>12. \A d \in Placed : Deps(d) \subseteq Placed
    BY <1>1, <1>8, <1>11 DEF DependenciesFirst, Placed
  <1>13. /\ \A d \in Services : Deps(d)' = Deps(d)
         /\ \A S \in SUBSET Services : Stuck(S)' <=> Stuck(S)
         /\ \A d \in Services : d \in Dependents(s) <=> s \in Deps(d)
    BY <1>2, SameGraph DEF Dependents
  <1>14. \A d \in Services :
           /\ s \in Deps(d) => /\ inDegree[d] >= 1
                               /\ Cardinality(Deps(d) \ Placed') = inDegree[d] - 1
           /\ s \notin Deps(d) => Cardinality(Deps(d) \ Placed') = inDegree[d]
    <2>. TAKE d \in Services
    <2>1. Deps(d) \ Placed \in SUBSET Services
      BY DepsFacts
    <2>2. CASE s \in Deps(d)
      <3>1. Deps(d) \ Placed' = (Deps(d) \ Placed) \ {s} /\ s \in Deps(d) \ Placed
        BY <1>7, <1>8, <2>2
      <3>2. Cardinality((Deps(d) \ Placed) \ {s}) = Cardinality(Deps(d) \ Placed) - 1
        BY <2>1, <3>1, Finite
      <3>3. (Deps(d) \ Placed) \ {s} \in SUBSET Services
        BY <2>1
      <3>4. Cardinality((Deps(d) \ Placed) \ {s}) \in Nat /\ Cardinality(Deps(d) \ Placed) \in Nat
        BY <2>1, <3>3, Finite
      <3>. QED
        <4>1. inDegree[d] = Cardinality(Deps(d) \ Placed)
          BY <1>6
        <4>2. Cardinality(Deps(d) \ Placed') = Cardinality((Deps(d) \ Placed) \ {s})
          BY <3>1, Zenon
        <4>. QED
          BY <2>2, <3>2, <3>4, <4>1, <4>2
    <2>3. CASE s \notin Deps(d)
      <3>1. Deps(d) \ Placed' = Deps(d) \ Placed
        BY <1>8, <2>3
      <3>. QED
        BY <1>6, <2>3, <3>1
    <2>. QED
      BY <2>2, <2>3
  <1>15. inDegree' \in [Services -> 0..N]
         /\ \A d \in Services : inDegree'[d] = Cardinality(Deps(d)' \ Placed')
    <2>1. \A d \in Services : inDegree[d] \in 0..N /\ N \in Nat
      BY <1>1, Finite DEF SortTypes
    <2>2. ASSUME NEW d \in Services
          PROVE  inDegree'[d] \in 0..N /\ inDegree'[d] = Cardinality(Deps(d) \ Placed')
      <3>1. inDegree'[d] = IF s \in Deps(d) THEN inDegree[d] - 1 ELSE inDegree[d]
        BY <1>2, <1>13
      <3>2. inDegree[d] \in 0..N /\ N \in Nat
        BY <2>1
      <3>3. CASE s \in Deps(d)
        <4>1. inDegree[d] >= 1 /\ Cardinality(Deps(d) \ Placed') = inDegree[d] - 1
          BY <1>14, <3>3
        <4>. QED
          BY <3>1, <3>2, <3>3, <4>1
      <3>4. CASE s \notin Deps(d)
        <4>1. Cardinality(Deps(d) \ Placed') = inDegree[d]
          BY <1>14, <3>4
        <4>. QED
          BY <3>1, <3>2, <3>4, <4>1
      <3>. QED
        BY <3>3, <3>4
    <2>3. \A d \in Services : Cardinality(Deps(d)' \ Placed') = Cardinality(Deps(d) \ Placed')
      BY <1>13, Zenon
    <2>4. inDegree' \in [Services -> 0..N]
      BY <1>2, <2>2
    <2>. QED
      BY <2>2, <2>3, <2>4
  <1>16. queue' = {d \in Services \ Placed' : Deps(d)' \subseteq Placed'}
    <2>1. \A d \in Services : s \in Deps(d) =>
            (inDegree[d] = 1 <=> Deps(d) \subseteq Placed')
      <3>. TAKE d \in Services
      <3>. HAVE s \in Deps(d)
      <3>1. inDegree[d] = 1 <=> Cardinality(Deps(d) \ Placed') = 0
        BY <1>1, <1>14, Finite DEF SortTypes
      <3>2. Cardinality(Deps(d) \ Placed') = 0 <=> Deps(d) \ Placed' = {}
        <4>1. Deps(d) \ Placed' \in SUBSET Services
          BY DepsFacts
        <4>. QED
          BY <4>1, Finite
      <3>. QED
        BY <3>1, <3>2
    <2>2. ASSUME NEW d \in Services, s \in Deps(d)
          PROVE  d \in queue' <=> d \notin Placed' /\ Deps(d) \subseteq Placed'
      <3>1. d \notin Placed' /\ d \notin queue
        BY <1>6, <1>7, <1>8, <1>12, <2>2
      <3>. QED
        BY <1>2, <1>13, <2>1, <2>2, <3>1 DEF Releases
    <2>3. ASSUME NEW d \in Services, s \notin Deps(d)
          PROVE  d \in queue' <=> d \notin Placed' /\ Deps(d) \subseteq Placed'
      <3>1. d \notin Releases(s)
        BY <1>13, <2>3 DEF Releases
      <3>2. Deps(d) \subseteq Placed' <=> Deps(d) \subseteq Placed
        BY <1>8, <2>3
      <3>. QED
        BY <1>2, <1>6, <1>8, <3>1, <3>2
    <2>4. queue' \subseteq Services
      BY <1>2, <1>6 DEF Releases, Dependents
    <2>. QED
      BY <1>13, <2>2, <2>3, <2>4
  <1>17. SortTypes'
    BY <1>8, <1>10, <1>15, <1>16 DEF SortTypes
  <1>18. DependenciesFirst'
    <2>1. ASSUME NEW i \in DOMAIN order'
          PROVE  Deps(order[i])' \subseteq Before(i)' /\ order'[i] \notin Before(i)'
      <3>1. CASE i \in 1..Len(order)
        <4>1. /\ order'[i] = order[i] /\ order[i] \in Services
              /\ Before(i)' = Before(i)
          BY <1>8, <1>11, <3>1
        <4>2. Deps(order[i])' = Deps(order[i])
          BY <1>2, <4>1 DEF Deps
        <4>. QED
          BY <1>1, <1>8, <3>1, <4>1, <4>2 DEF DependenciesFirst
      <3>2. CASE i = Len(order) + 1
        <4>1. order'[i] = s /\ Before(i)' = Placed
          BY <1>8, <1>11, <3>2
        <4>2. Deps(order[i])' = Deps(s)
          BY <1>2, <4>1 DEF Deps
        <4>. QED
          BY <1>7, <4>1, <4>2
      <3>. QED
        BY <1>8, <2>1, <3>1, <3>2
    <2>. QED
      BY <2>1 DEF DependenciesFirst
  <1>19. \A S \in SUBSET Services : Stuck(S) => S \cap Placed' = {}
    BY <1>1, <1>7, <1>8 DEF SortInv, Stuck
  <1>20. \A i \in DOMAIN order' : \A t \in Services :
           t < order'[i] /\ Deps(t)' \subseteq Before(i)' => t \in Before(i)'
    <2>1. \A i \in 1..Len(order) : \A t \in Services :
            t < order'[i] /\ Deps(t)' \subseteq Before(i)' => t \in Before(i)'
      BY <1>1, <1>8, <1>11, <1>13 DEF SortInv
    <2>2. \A t \in Services : t < s /\ Deps(t) \subseteq Placed => t \in Placed
      BY <1>2, <1>6, Finite
    <2>3. ASSUME NEW i \in DOMAIN order', NEW t \in Services,
                 i = Len(order) + 1, t < order'[i], Deps(t)' \subseteq Before(i)'
          PROVE  t \in Before(i)'
      <3>1. order'[i] = s /\ Deps(t)' = Deps(t) /\ Before(i)' = Placed
        BY <1>8, <1>11, <1>13, <2>3
      <3>. QED
        BY <2>2, <2>3, <3>1
    <2>4. \A i \in DOMAIN order' : i \in 1..Len(order) \/ i = Len(order) + 1
      BY <1>8
    <2>. QED
      BY <2>1, <2>3, <2>4
  <1>21. SortInv'
    BY <1>2, <1>10, <1>13, <1>15, <1>16, <1>19, <1>20 DEF SortInv
  <1>. QED
    BY <1>3, <1>4, <1>5, <1>17, <1>18, <1>21, InvPartsNext

-----------------------------------------------------------------------------
(* What path and left have in common, and in terms of their elements.      *)
LEMMA PathFacts ==
  ASSUME SearchTypes
  PROVE  /\ Len(path) \in Nat /\ DOMAIN path = 1..Len(path)
         /\ DOMAIN left = 1..Len(path) /\ Len(left) = Len(path)
         /\ \A i \in 1..Len(path) : path[i] \in Services /\ left[i] \in SUBSET Services
         /\ OnPath \subseteq Services
         /\ path # <<>> <=> Len(path) # 0
  <1>1. /\ path \in Seq(Services) /\ left \in Seq(SUBSET Services) /\ Len(left) = Len(path)
    BY DEF SearchTypes
  <1>2. /\ Len(path) \in Nat /\ DOMAIN path = 1..Len(path)
        /\ DOMAIN left = 1..Len(path)
        /\ \A i \in 1..Len(path) : path[i] \in Services /\ left[i] \in SUBSET Services
    BY <1>1, LenProperties
  <1>3. path # <<>> <=> Len(path) # 0
    BY <1>1, EmptySeq
  <1>. QED
    BY <1>1, <1>2, <1>3 DEF OnPath

LEMMA EnterStep ==
  ASSUME IInv, Enter
  PROVE  IInv'
  <1>1. /\ SpecTypes /\ SortTypes /\ SearchTypes
        /\ SpecInv /\ DependenciesFirst /\ SortInv /\ SearchInv
    BY TypeParts DEF IInv
  <1>2. /\ pc = "search" /\ pc' = pc /\ UNCHANGED spec /\ UNCHANGED dependsOn
        /\ UNCHANGED sort /\ path = <<>> /\ root \in Services
        /\ root' = root + 1 /\ visited' = visited /\ cycle' = cycle
        /\ IF root \in visited THEN path' = path /\ left' = left ELSE Push(root)
    BY DEF Enter, spec
  <1>3. SpecTypes' /\ SpecInv'
    BY <1>1, <1>2, SpecStands
  <1>4. SortTypes' /\ DependenciesFirst' /\ SortInv'
    BY <1>1, <1>2, SortStands
  <1>5. (pc \in Phases)'
    BY <1>2 DEF Phases
  <1>6. /\ \A d \in Services : Deps(d)' = Deps(d) /\ Deps(d) \subseteq Services
        /\ \A S \in SUBSET Services : Stuck(S)' <=> Stuck(S)
    BY <1>2, SameGraph, DepsFacts
  <1>7. root' \in 1..(N + 1) /\ N \in Nat /\ 1 <= N
    BY <1>2, Finite DEF Services
  <1>8. /\ Len(path) = 0 /\ left = <<>> /\ OnPath = {} /\ cycle = <<>>
    <2>1. Len(path) = 0 /\ OnPath = {}
      BY <1>2 DEF OnPath
    <2>2. left = <<>>
      BY <1>1, <2>1, EmptySeq DEF SearchTypes
    <2>. QED
      BY <1>1, <1>2, <2>1, <2>2 DEF SearchInv
  <1>9. \A s \in 1..(root' - 1) : s \in visited \/ s = root
    BY <1>1, <1>2, <1>8, Finite DEF SearchInv
  <1>10. CASE root \in visited
    <2>1. path' = <<>> /\ left' = <<>> /\ OnPath' = {} /\ cycle' = <<>>
      BY <1>2, <1>8, <1>10 DEF OnPath
    <2>2. SearchTypes'
      BY <1>1, <1>2, <1>7, <1>8, <1>10 DEF SearchTypes
    <2>3. SearchInv'
      BY <1>1, <1>2, <1>6, <1>8, <1>9, <1>10, <2>1, FS_EmptySet DEF SearchInv
    <2>. QED
      BY <1>3, <1>4, <1>5, <2>2, <2>3, InvPartsNext
  <1>11. CASE root \notin visited
    <2>1. /\ path' = <<root>> /\ left' = <<Deps(root)>> /\ cycle' = <<>>
          /\ Len(path') = 1 /\ DOMAIN path' = {1} /\ path'[1] = root /\ left'[1] = Deps(root)
      BY <1>2, <1>8, <1>11 DEF Push
    <2>2. OnPath' = {root} /\ Cardinality({root}) = 1
      <3>1. OnPath' = {path'[i] : i \in {1}}
        BY <2>1 DEF OnPath
      <3>2. Cardinality({root}) = 1
        BY FS_Singleton, Zenon
      <3>. QED
        BY <2>1, <3>1, <3>2
    <2>3. SearchTypes'
      <3>1. path' \in Seq(Services) /\ left' \in Seq(SUBSET Services) /\ Len(left') = 1
        BY <1>2, <1>6, <2>1
      <3>2. visited' \subseteq Services /\ cycle' \in Seq(Services)
        BY <1>1, <1>2 DEF SearchTypes
      <3>. QED
        BY <1>7, <2>1, <3>1, <3>2 DEF SearchTypes
    <2>4. SearchInv'
      <3>1. \A i \in DOMAIN path' :
              /\ left'[i] = Deps(root) /\ Deps(path[i])' = Deps(root)
        BY <1>2, <2>1 DEF Deps
      <3>2. \A i \in 1..(Len(path') - 1) : FALSE
        BY <2>1
      <3>. QED
        BY <1>1, <1>2, <1>6, <1>8, <1>9, <1>11, <2>1, <2>2, <3>1, <3>2 DEF SearchInv
    <2>. QED
      BY <1>3, <1>4, <1>5, <2>3, <2>4, InvPartsNext
  <1>. QED
    BY <1>10, <1>11

LEMMA NoCycleStep == IInv /\ NoCycle => IInv'
  <1>. SUFFICES ASSUME IInv, NoCycle PROVE IInv'
    OBVIOUS
  <1>1. /\ SpecTypes /\ SortTypes /\ SearchTypes
        /\ SpecInv /\ DependenciesFirst /\ SortInv /\ SearchInv
    BY TypeParts DEF IInv
  <1>2. /\ pc = "search" /\ pc' = "done" /\ path = <<>> /\ root = N + 1
        /\ UNCHANGED spec /\ UNCHANGED dependsOn /\ UNCHANGED sort /\ UNCHANGED search
    BY DEF NoCycle, spec
  <1>3. SpecTypes' /\ SpecInv'
    BY <1>1, <1>2, SpecStands
  <1>4. SortTypes' /\ DependenciesFirst' /\ SortInv'
    BY <1>1, <1>2, SortStands
  <1>5. SearchTypes' /\ SearchInv'
    BY <1>1, <1>2, SearchStands
  <1>6. (pc \in Phases)'
    BY <1>2 DEF Phases
  <1>. QED
    BY <1>3, <1>4, <1>5, <1>6, InvPartsNext

LEMMA StutterStep == IInv /\ UNCHANGED vars => IInv'
  <1>. SUFFICES ASSUME IInv, UNCHANGED vars PROVE IInv'
    OBVIOUS
  <1>1. /\ SpecTypes /\ SortTypes /\ SearchTypes
        /\ SpecInv /\ DependenciesFirst /\ SortInv /\ SearchInv
        /\ pc \in Phases
    BY TypeParts DEF IInv
  <1>2. /\ pc' = pc /\ UNCHANGED spec /\ UNCHANGED dependsOn
        /\ UNCHANGED sort /\ UNCHANGED search
    BY DEF vars, spec
  <1>3. SpecTypes' /\ SpecInv'
    BY <1>1, <1>2, SpecStands
  <1>4. SortTypes' /\ DependenciesFirst' /\ SortInv'
    BY <1>1, <1>2, SortStands
  <1>5. SearchTypes' /\ SearchInv'
    BY <1>1, <1>2, SearchStands
  <1>. QED
    BY <1>1, <1>2, <1>3, <1>4, <1>5, InvPartsNext

-----------------------------------------------------------------------------
(* The edge from the service at the end of the path to d.                  *)
LEMMA FollowFacts ==
  ASSUME SearchTypes, SearchInv, NEW d \in Services, path # <<>>, d \in left[Top]
  PROVE  /\ Top \in 1..Len(path) /\ d \in Deps(path[Top]) /\ (cycle = <<>> \/ pc = "done")
  BY PathFacts DEF SearchInv, Top

(* It closes a cycle ...                                                   *)
LEMMA FollowClosing ==
  ASSUME IInv, NEW d \in Services, NEW k \in DOMAIN path,
         pc = "search", path # <<>>, d \in left[Top], path[k] = d,
         cycle' = Closing(d, k), pc' = "done",
         UNCHANGED <<spec, sort, root, path, left, visited>>
  PROVE  IInv'
  <1>1. /\ SpecTypes /\ SortTypes /\ SearchTypes
        /\ SpecInv /\ DependenciesFirst /\ SortInv /\ SearchInv
    BY TypeParts DEF IInv
  <1>2. UNCHANGED spec /\ UNCHANGED dependsOn /\ UNCHANGED sort
    BY DEF spec
  <1>3. SpecTypes' /\ SpecInv'
    BY <1>1, <1>2, SpecStands
  <1>4. SortTypes' /\ DependenciesFirst' /\ SortInv'
    BY <1>1, <1>2, SortStands
  <1>5. (pc \in Phases)'
    BY DEF Phases
  <1>6. /\ Len(path) \in Nat /\ DOMAIN path = 1..Len(path) /\ k \in 1..Len(path)
        /\ \A i \in 1..Len(path) : path[i] \in Services
        /\ d \in Deps(path[Len(path)])
    BY <1>1, PathFacts, FollowFacts DEF Top
  <1>. DEFINE tail == SubSeq(path, k, Len(path))
              m    == Len(path) - k + 1
  <1>7. /\ tail \in Seq(Services) /\ Len(tail) = m /\ m \in Nat /\ m >= 1
        /\ \A i \in 1..m : tail[i] = path[k + i - 1]
    BY <1>6, SubSeqProperties
  <1>8. cycle' = Append(tail, d)
    BY DEF Closing, Top
  <1>9. /\ cycle' \in Seq(Services) /\ Len(cycle') = m + 1 /\ cycle'[m + 1] = d
        /\ \A i \in 1..m : cycle'[i] = path[k + i - 1]
    BY <1>7, <1>8, AppendProperties
  <1>. HIDE DEF tail
  <1>10. cycle' # <<>> /\ Len(cycle') > 1 /\ cycle'[1] = cycle'[Len(cycle')]
    BY <1>6, <1>7, <1>9
  <1>11. \A i \in 1..(Len(cycle') - 1) : cycle'[i + 1] \in Deps(cycle'[i])
    <2>. SUFFICES ASSUME NEW i \in 1..m PROVE cycle'[i + 1] \in Deps(cycle'[i])
      BY <1>7, <1>9
    <2>1. CASE i = m
      <3>1. cycle'[i] = path[Len(path)]
        BY <1>6, <1>7, <1>9, <2>1
      <3>. QED
        BY <1>6, <1>9, <2>1, <3>1
    <2>2. CASE i # m
      <3>1. /\ k + i - 1 \in 1..(Len(path) - 1) /\ (k + i - 1) + 1 = k + (i + 1) - 1
            /\ i + 1 \in 1..m
        BY <1>6, <1>7, <2>2
      <3>2. path[(k + i - 1) + 1] \in Deps(path[k + i - 1])
        BY <1>1, <3>1 DEF SearchInv
      <3>. QED
        BY <1>9, <3>1, <3>2
    <2>. QED
      BY <2>1, <2>2
  <1>12. SearchTypes'
    BY <1>1, <1>9 DEF SearchTypes
  <1>13. /\ OnPath' = OnPath
         /\ \A s \in Services : Deps(s)' = Deps(s)
         /\ \A S \in SUBSET Services : Stuck(S)' <=> Stuck(S)
         /\ \A i \in 1..Len(path) : Deps(path[i])' = Deps(path[i])
         /\ \A i \in 1..(Len(cycle') - 1) : Deps(cycle[i])' = Deps(cycle'[i])
    BY <1>2, <1>6, SameGraph DEF OnPath, Deps
  <1>14. SearchInv'
    <2>1. \A i \in DOMAIN path :
            /\ left[i] \subseteq Deps(path[i])'
            /\ Deps(path[i])' \ left[i] \subseteq
                 visited \cup (IF i < Len(path) THEN {path[i + 1]} ELSE {})
      BY <1>1, <1>6, <1>13 DEF SearchInv
    <2>2. \A i \in 1..(Len(path) - 1) : path[i + 1] \in Deps(path[i])'
      BY <1>1, <1>6, <1>13 DEF SearchInv
    <2>3. \A i \in 1..(Len(cycle') - 1) : cycle'[i + 1] \in Deps(cycle[i])'
      BY <1>11, <1>13
    <2>. QED
      BY <1>1, <1>10, <1>13, <2>1, <2>2, <2>3 DEF SearchInv
  <1>. QED
    BY <1>3, <1>4, <1>5, <1>12, <1>14, InvPartsNext

(* ... it leads to a service that was visited ...                          *)
LEMMA FollowVisited ==
  ASSUME IInv, NEW d \in Services,
         pc = "search", path # <<>>, d \in left[Top], d \in visited,
         left' = [left EXCEPT ![Top] = @ \ {d}],
         UNCHANGED <<pc, spec, sort, root, path, visited, cycle>>
  PROVE  IInv'
  <1>1. /\ SpecTypes /\ SortTypes /\ SearchTypes
        /\ SpecInv /\ DependenciesFirst /\ SortInv /\ SearchInv
    BY TypeParts DEF IInv
  <1>2. UNCHANGED spec /\ UNCHANGED dependsOn /\ UNCHANGED sort
    BY DEF spec
  <1>3. SpecTypes' /\ SpecInv'
    BY <1>1, <1>2, SpecStands
  <1>4. SortTypes' /\ DependenciesFirst' /\ SortInv'
    BY <1>1, <1>2, SortStands
  <1>5. (pc \in Phases)'
    BY DEF Phases
  <1>6. /\ Len(path) \in Nat /\ DOMAIN path = 1..Len(path)
        /\ left \in Seq(SUBSET Services) /\ Len(left) = Len(path)
        /\ \A i \in 1..Len(path) : path[i] \in Services /\ left[i] \in SUBSET Services
        /\ Top \in 1..Len(path)
    BY <1>1, PathFacts, FollowFacts DEF SearchTypes
  <1>7. left[Top] \ {d} \in SUBSET Services
    BY <1>6
  <1>8. /\ left' \in Seq(SUBSET Services) /\ Len(left') = Len(path)
        /\ \A i \in 1..Len(path) :
             left'[i] = IF i = Top THEN left[Top] \ {d} ELSE left[i]
    BY <1>6, <1>7, ExceptSeq
  <1>9. SearchTypes'
    BY <1>1, <1>8 DEF SearchTypes
  <1>10. /\ OnPath' = OnPath
         /\ \A S \in SUBSET Services : Stuck(S)' <=> Stuck(S)
         /\ \A i \in 1..Len(path) : Deps(path[i])' = Deps(path[i])
    BY <1>2, <1>6, SameGraph DEF OnPath, Deps
  <1>11. \A i \in 1..Len(path) :
           /\ left'[i] \subseteq Deps(path[i])
           /\ Deps(path[i]) \ left'[i] \subseteq
                visited \cup (IF i < Len(path) THEN {path[i + 1]} ELSE {})
    BY <1>1, <1>6, <1>8 DEF SearchInv
  <1>12. cycle = <<>>
    BY <1>1 DEF SearchInv
  <1>13. SearchInv'
    BY <1>1, <1>6, <1>10, <1>11, <1>12 DEF SearchInv
  <1>. QED
    BY <1>3, <1>4, <1>5, <1>9, <1>13, InvPartsNext

(* ... or it is new, and the path gets longer.                             *)
LEMMA FollowNew ==
  ASSUME IInv, NEW d \in Services, NEW L \in Nat, L = Len(path),
         pc = "search", path # <<>>, d \in left[L], d \notin OnPath, d \notin visited,
         path' = Append(path, d),
         left' = Append([left EXCEPT ![L] = @ \ {d}], Deps(d)),
         UNCHANGED <<pc, spec, sort, root, visited, cycle>>
  PROVE  IInv'
  <1>1. /\ SpecTypes /\ SortTypes /\ SearchTypes
        /\ SpecInv /\ DependenciesFirst /\ SortInv /\ SearchInv
    BY TypeParts DEF IInv
  <1>2. UNCHANGED spec /\ UNCHANGED dependsOn /\ UNCHANGED sort
    BY DEF spec
  <1>3. SpecTypes' /\ SpecInv'
    BY <1>1, <1>2, SpecStands
  <1>4. SortTypes' /\ DependenciesFirst' /\ SortInv'
    BY <1>1, <1>2, SortStands
  <1>5. (pc \in Phases)'
    BY <1>1, TypeParts DEF IInv, Phases
  <1>6. /\ DOMAIN path = 1..L /\ OnPath \subseteq Services
        /\ path \in Seq(Services) /\ left \in Seq(SUBSET Services) /\ Len(left) = L
        /\ \A i \in 1..L : path[i] \in Services /\ left[i] \in SUBSET Services
        /\ L \in 1..L /\ d \in Deps(path[L])
    BY <1>1, PathFacts, FollowFacts DEF SearchTypes, Top
  <1>7. left[L] \ {d} \in SUBSET Services /\ Deps(d) \in SUBSET Services
    BY <1>6, DepsFacts
  <1>. DEFINE shorter == [left EXCEPT ![L] = left[L] \ {d}]
  <1>8. /\ shorter \in Seq(SUBSET Services) /\ Len(shorter) = L
        /\ \A i \in 1..L : shorter[i] = IF i = L THEN left[L] \ {d} ELSE left[i]
    BY <1>6, <1>7, ExceptSeq
  <1>9. left' = Append(shorter, Deps(d))
    OBVIOUS
  <1>. HIDE DEF shorter
  <1>10. /\ left' \in Seq(SUBSET Services) /\ Len(left') = L + 1
         /\ \A i \in 1..L : left'[i] = shorter[i]
         /\ left'[L + 1] = Deps(d)
    <2>1. /\ left' \in Seq(SUBSET Services) /\ Len(left') = Len(shorter) + 1
          /\ \A i \in 1..Len(shorter) : left'[i] = shorter[i]
          /\ left'[Len(shorter) + 1] = Deps(d)
      BY <1>7, <1>8, <1>9, ExtendedSets, Zenon
    <2>. QED
      BY <1>8, <2>1
  <1>11. /\ path' \in Seq(Services) /\ Len(path') = L + 1
         /\ DOMAIN path' = 1..(L + 1)
         /\ \A i \in 1..L : path'[i] = path[i]
         /\ path'[L + 1] = d
         /\ OnPath' = OnPath \cup {d}
    BY <1>6, Extended DEF OnPath
  <1>12. Cardinality(OnPath') = L + 1 /\ L + 1 <= N
    <2>1. Cardinality(OnPath \cup {d}) = Cardinality(OnPath) + 1 /\ OnPath \cup {d} \in SUBSET Services
      BY <1>6, Finite
    <2>2. Cardinality(OnPath) = L
      BY <1>1 DEF SearchInv
    <2>3. Cardinality(OnPath \cup {d}) <= N
      BY <2>1, Finite
    <2>. QED
      BY <1>11, <2>1, <2>2, <2>3
  <1>13. SearchTypes'
    BY <1>1, <1>10, <1>11, <1>12 DEF SearchTypes
  <1>14. /\ \A S \in SUBSET Services : Stuck(S)' <=> Stuck(S)
         /\ \A i \in 1..L : Deps(path[i])' = Deps(path[i])
         /\ Deps(path[L + 1])' = Deps(d)
    <2>1. \A i \in 1..L : Deps(path[i])' = Deps(path[i])
      BY <1>2, <1>11 DEF Deps
    <2>. QED
      BY <1>2, <1>11, <2>1, SameGraph DEF Deps
  <1>15. \A i \in 1..(Len(path') - 1) : path'[i + 1] \in Deps(path[i])'
    <2>1. \A i \in 1..(L - 1) : path[i + 1] \in Deps(path[i])
      BY <1>1 DEF SearchInv
    <2>2. \A i \in 1..L : i = L \/ (i \in 1..(L - 1) /\ i + 1 \in 1..L)
      OBVIOUS
    <2>. QED
      BY <1>6, <1>11, <1>14, <2>1, <2>2
  <1>16. \A i \in DOMAIN path' :
           /\ left'[i] \subseteq Deps(path[i])'
           /\ Deps(path[i])' \ left'[i] \subseteq
                visited' \cup (IF i < Len(path') THEN {path'[i + 1]} ELSE {})
    <2>. TAKE i \in DOMAIN path'
    <2>1. CASE i = L + 1
      BY <1>10, <1>14, <2>1
    <2>2. CASE i = L
      <3>1. left'[i] = left[L] \ {d} /\ Deps(path[i])' = Deps(path[L])
        BY <1>6, <1>8, <1>10, <1>14, <2>2
      <3>2. left[L] \subseteq Deps(path[L]) /\ Deps(path[L]) \ left[L] \subseteq visited
        BY <1>1, <1>6 DEF SearchInv
      <3>3. i < Len(path') /\ path'[i + 1] = d
        BY <1>11, <2>2
      <3>. QED
        BY <3>1, <3>2, <3>3
    <2>3. CASE i \in 1..(L - 1)
      <3>1. /\ i \in 1..L /\ i + 1 \in 1..L /\ i # L
        BY <2>3
      <3>2. left'[i] = left[i] /\ Deps(path[i])' = Deps(path[i]) /\ path'[i + 1] = path[i + 1]
        BY <1>8, <1>10, <1>11, <1>14, <3>1
      <3>3. /\ left[i] \subseteq Deps(path[i])
            /\ Deps(path[i]) \ left[i] \subseteq visited \cup {path[i + 1]}
        BY <1>1, <1>6, <2>3, <3>1 DEF SearchInv
      <3>4. i < Len(path')
        BY <1>11, <2>3
      <3>. QED
        BY <3>2, <3>3, <3>4
    <2>4. i = L + 1 \/ i = L \/ i \in 1..(L - 1)
      BY <1>11
    <2>. QED
      BY <2>1, <2>2, <2>3, <2>4
  <1>17. cycle = <<>>
    BY <1>1 DEF SearchInv
  <1>18. SearchInv'
    <2>1. /\ pc' = "search" /\ cycle' = <<>> /\ Cardinality(OnPath') = Len(path')
          /\ OnPath' \cap visited' = {}
      BY <1>1, <1>11, <1>12, <1>17 DEF SearchInv
    <2>2. /\ \A S \in SUBSET Services : Stuck(S)' => S \cap visited' = {}
          /\ \A s \in 1..(root' - 1) : s \in visited' \cup OnPath'
      BY <1>1, <1>11, <1>14 DEF SearchInv
    <2>. QED
      BY <1>15, <1>16, <2>1, <2>2 DEF SearchInv
  <1>. QED
    BY <1>3, <1>4, <1>5, <1>13, <1>18, InvPartsNext

LEMMA FollowStep ==
  ASSUME IInv, NEW d \in Services, Follow(d)
  PROVE  IInv'
  <1>1. /\ pc = "search" /\ path # <<>> /\ d \in left[Top]
        /\ UNCHANGED spec /\ UNCHANGED sort /\ root' = root /\ visited' = visited
    BY DEF Follow
  <1>2. Len(path) \in Nat
    BY TypeParts, PathFacts DEF IInv
  <1>3. CASE \E k \in DOMAIN path :
               /\ path[k] = d /\ cycle' = Closing(d, k) /\ pc' = "done"
               /\ UNCHANGED <<path, left>>
    BY <1>1, <1>3, FollowClosing
  <1>4. CASE /\ d \notin OnPath /\ d \in visited
             /\ left' = [left EXCEPT ![Top] = @ \ {d}]
             /\ UNCHANGED <<pc, path, cycle>>
    BY <1>1, <1>4, FollowVisited
  <1>5. CASE /\ d \notin OnPath /\ d \notin visited
             /\ path' = Append(path, d)
             /\ left' = Append([left EXCEPT ![Top] = @ \ {d}], Deps(d))
             /\ UNCHANGED <<pc, cycle>>
    BY <1>1, <1>2, <1>5, FollowNew DEF Top
  <1>. QED
    BY <1>3, <1>4, <1>5 DEF Follow

(* No service is on the path twice.                                        *)
LEMMA Shorter ==
  ASSUME SearchTypes, Cardinality(OnPath) = Len(path), NEW L \in Nat \ {0}, L = Len(path)
  PROVE  LET rest == {path[i] : i \in 1..(L - 1)}
         IN  rest = OnPath \ {path[L]} /\ Cardinality(rest) = L - 1
  <1>. DEFINE rest == {path[i] : i \in 1..(L - 1)}
              f    == [i \in 1..(L - 1) |-> path[i]]
  <1>1. /\ DOMAIN path = 1..L /\ OnPath \subseteq Services
        /\ \A i \in 1..L : path[i] \in Services
    BY PathFacts
  <1>2. OnPath = rest \cup {path[L]} /\ rest \in SUBSET Services
    <2>1. 1..L = (1..(L - 1)) \cup {L}
      OBVIOUS
    <2>. QED
      BY <1>1, <2>1 DEF OnPath
  <1>3. f \in Surjection(1..(L - 1), rest)
    BY DEF Surjection
  <1>4. IsFiniteSet(1..(L - 1)) /\ Cardinality(1..(L - 1)) = L - 1
    <2>1. /\ 1 \in Int /\ L - 1 \in Int /\ 1 <= L - 1 + 1
          /\ (L - 1) - 1 + 1 = L - 1
      OBVIOUS
    <2>2. /\ IsFiniteSet(1..(L - 1))
          /\ Cardinality(1..(L - 1)) = IF 1 > L - 1 THEN 0 ELSE (L - 1) - 1 + 1
      BY <2>1, FS_Interval, Zenon
    <2>. QED
      BY <2>1, <2>2
  <1>5. Cardinality(rest) <= L - 1
    BY <1>3, <1>4, FS_Surjection
  <1>. HIDE DEF rest
  <1>6. path[L] \notin rest
    <2>. SUFFICES ASSUME path[L] \in rest PROVE FALSE
      OBVIOUS
    <2>1. OnPath = rest
      BY <1>2
    <2>2. Cardinality(rest) = L
      BY <2>1
    <2>. QED
      BY <1>5, <2>2
  <1>7. Cardinality(rest \cup {path[L]}) = Cardinality(rest) + 1 /\ Cardinality(rest) \in 0..N
    <2>1. path[L] \in Services \ rest
      BY <1>1, <1>6
    <2>. QED
      BY <1>2, <2>1, OneMore
  <1>8. Cardinality(rest) = L - 1
    BY <1>2, <1>7, Finite
  <1>9. rest = OnPath \ {path[L]}
    BY <1>2, <1>6
  <1>. QED
    BY <1>8, <1>9 DEF rest

(* All that the last service of the path depends on has been visited: so   *)
(* it is in no stuck set, and can be added to the visited.                 *)
LEMMA LeaveFor ==
  ASSUME IInv, Leave, NEW L \in Nat, L = Len(path)
  PROVE  IInv'
  <1>1. /\ SpecTypes /\ SortTypes /\ SearchTypes
        /\ SpecInv /\ DependenciesFirst /\ SortInv /\ SearchInv
    BY TypeParts DEF IInv
  <1>2. /\ pc = "search" /\ pc' = pc /\ path # <<>> /\ left[L] = {}
        /\ visited' = visited \cup {path[L]}
        /\ path' = SubSeq(path, 1, L - 1) /\ left' = SubSeq(left, 1, L - 1)
        /\ root' = root /\ cycle' = cycle
        /\ UNCHANGED spec /\ UNCHANGED dependsOn /\ UNCHANGED sort
    BY DEF Leave, Top, spec
  <1>3. SpecTypes' /\ SpecInv'
    BY <1>1, <1>2, SpecStands
  <1>4. SortTypes' /\ DependenciesFirst' /\ SortInv'
    BY <1>1, <1>2, SortStands
  <1>5. (pc \in Phases)'
    BY <1>2 DEF Phases
  <1>6. /\ DOMAIN path = 1..L /\ OnPath \subseteq Services
        /\ \A i \in 1..L : path[i] \in Services /\ left[i] \in SUBSET Services
        /\ L \in Nat \ {0} /\ Len(left) = L
    BY <1>1, <1>2, PathFacts
  <1>7. Cardinality(OnPath) = Len(path) /\ OnPath \cap visited = {} /\ cycle = <<>>
    BY <1>1, <1>2 DEF SearchInv
  <1>8. /\ path' \in Seq(Services) /\ Len(path') = L - 1 /\ DOMAIN path' = 1..(L - 1)
        /\ \A i \in 1..(L - 1) : path'[i] = path[i]
    <2>1. L - 1 \in Nat /\ \A i \in 1..(L - 1) : path[i] \in Services
      BY <1>6
    <2>2. path' \in Seq(Services) /\ Len(path') = L - 1 /\ \A i \in 1..(L - 1) : path'[i] = path[i]
      <3>. DEFINE n == L - 1
      <3>1. n \in Nat /\ (\A i \in 1..n : path[i] \in Services) /\ path' = SubSeq(path, 1, n)
        BY <1>2, <2>1
      <3>. HIDE DEF n
      <3>2. path' \in Seq(Services) /\ Len(path') = n /\ \A i \in 1..n : path'[i] = path[i]
        BY <3>1, Front
      <3>. QED
        BY <3>2 DEF n
    <2>. QED
      BY <2>2, LenProperties
  <1>9. /\ left' \in Seq(SUBSET Services) /\ Len(left') = L - 1
        /\ \A i \in 1..(L - 1) : left'[i] = left[i]
    <2>1. L - 1 \in Nat /\ \A i \in 1..(L - 1) : left[i] \in SUBSET Services
      BY <1>6
    <2>. DEFINE n == L - 1
                T == SUBSET Services
    <2>2. n \in Nat /\ (\A i \in 1..n : left[i] \in T) /\ left' = SubSeq(left, 1, n)
      BY <1>2, <2>1
    <2>. HIDE DEF n, T
    <2>3. left' \in Seq(T) /\ Len(left') = n /\ \A i \in 1..n : left'[i] = left[i]
      BY <2>2, Front
    <2>. QED
      BY <2>3 DEF n, T
  <1>10. OnPath' = OnPath \ {path[L]} /\ Cardinality(OnPath') = L - 1
    <2>1. OnPath' = {path[i] : i \in 1..(L - 1)}
      BY <1>8 DEF OnPath
    <2>. QED
      BY <1>1, <1>6, <1>7, <2>1, Shorter
  <1>11. path[L] \in OnPath
    BY <1>6 DEF OnPath
  <1>12. SearchTypes'
    <2>1. L - 1 <= N
      BY <1>1, <1>6, Finite DEF SearchTypes
    <2>2. visited' \subseteq Services
      BY <1>1, <1>2, <1>6 DEF SearchTypes
    <2>3. root' \in 1..(N + 1) /\ cycle' \in Seq(Services)
      BY <1>1, <1>2 DEF SearchTypes
    <2>. QED
      BY <1>8, <1>9, <2>1, <2>2, <2>3 DEF SearchTypes
  <1>13. /\ \A S \in SUBSET Services : Stuck(S)' <=> Stuck(S)
         /\ \A i \in 1..(L - 1) : Deps(path[i])' = Deps(path[i])
    BY <1>2, <1>8, SameGraph DEF Deps
  <1>14. Deps(path[L]) \subseteq visited
    BY <1>1, <1>2, <1>6 DEF SearchInv
  <1>15. \A S \in SUBSET Services : Stuck(S) => S \cap visited' = {}
    BY <1>1, <1>2, <1>14 DEF SearchInv, Stuck
  <1>16. \A s \in 1..(root' - 1) : s \in visited' \cup OnPath'
    BY <1>1, <1>2, <1>10 DEF SearchInv
  <1>17. \A i \in 1..(Len(path') - 1) : path'[i + 1] \in Deps(path[i])'
    <2>1. \A i \in 1..(L - 2) : i \in 1..(L - 1) /\ i + 1 \in 1..(L - 1)
      BY <1>6
    <2>2. \A i \in 1..(L - 1) : path[i + 1] \in Deps(path[i])
      BY <1>1 DEF SearchInv
    <2>. QED
      BY <1>6, <1>8, <1>13, <2>1, <2>2
  <1>18. \A i \in DOMAIN path' :
           /\ left'[i] \subseteq Deps(path[i])'
           /\ Deps(path[i])' \ left'[i] \subseteq
                visited' \cup (IF i < Len(path') THEN {path'[i + 1]} ELSE {})
    <2>. TAKE i \in DOMAIN path'
    <2>1. i \in 1..(L - 1) /\ i \in 1..L /\ i < L /\ i + 1 \in 1..L
      BY <1>6, <1>8
    <2>2. left'[i] = left[i] /\ Deps(path[i])' = Deps(path[i])
      BY <1>9, <1>13, <2>1
    <2>3. /\ left[i] \subseteq Deps(path[i])
          /\ Deps(path[i]) \ left[i] \subseteq visited \cup {path[i + 1]}
      BY <1>1, <1>6, <2>1 DEF SearchInv
    <2>4. CASE i = L - 1
      BY <1>2, <1>6, <2>2, <2>3, <2>4
    <2>5. CASE i # L - 1
      <3>1. i < Len(path') /\ path'[i + 1] = path[i + 1]
        BY <1>6, <1>8, <2>1, <2>5
      <3>. QED
        BY <1>2, <2>2, <2>3, <3>1
    <2>. QED
      BY <2>4, <2>5
  <1>19. SearchInv'
    <2>1. /\ pc' = "search" /\ cycle' = <<>> /\ Cardinality(OnPath') = Len(path')
          /\ OnPath' \cap visited' = {}
      BY <1>2, <1>7, <1>8, <1>10
    <2>2. \A S \in SUBSET Services : Stuck(S)' => S \cap visited' = {}
      BY <1>13, <1>15
    <2>. QED
      BY <1>16, <1>17, <1>18, <2>1, <2>2 DEF SearchInv
  <1>. QED
    BY <1>3, <1>4, <1>5, <1>12, <1>19, InvPartsNext

LEMMA LeaveStep == IInv /\ Leave => IInv'
  BY LeaveFor, TypeParts, PathFacts DEF IInv

LEMMA NextIInv == IInv /\ [Next]_vars => IInv'
  BY InferStep, TakeAsIsStep, CountStep, PlaceStep, EndSortStep, EnterStep, FollowStep,
     LeaveStep, NoCycleStep, StutterStep DEF Next

-----------------------------------------------------------------------------
(* The inductive invariant holds for any number of services: in-degrees    *)
(* and queue of Kahn's algorithm are those of what has been placed, the    *)
(* path of the search is a path, and no service of a cycle is ever placed  *)
(* or visited.                                                             *)
THEOREM Invariance == Spec => []IInv
  BY InitIInv, NextIInv, PTL DEF Spec

(* Types; in particular an in-degree never falls below zero.               *)
THEOREM TypeCorrect == Spec => []TypeOK
  BY Invariance, PTL DEF IInv

(* The order, complete or not, has every service at most once and after    *)
(* all services it depends on.                                             *)
THEOREM DependenciesComeFirst == Spec => []DependenciesFirst
  BY Invariance, PTL DEF IInv

(* What the sort leaves over when its queue is empty is stuck, and nothing *)
(* stuck is ever placed.                                                   *)
LEMMA OrderedIffAcyclic ==
  ASSUME IInv, pc \in {"search", "done"}
  PROVE  Ordered <=> Acyclic
  <1>1. SortTypes /\ SortInv
    BY TypeParts DEF IInv
  <1>2. /\ \A s \in Services \ Placed : ~ Deps(s) \subseteq Placed
        /\ Cardinality(Placed) = Len(order)
        /\ \A S \in SUBSET Services : Stuck(S) => S \cap Placed = {}
    BY <1>1 DEF SortInv
  <1>3. Placed \in SUBSET Services
    BY <1>1 DEF SortTypes, Placed
  <1>4. Ordered <=> Placed = Services
    BY <1>2, <1>3, Finite DEF Ordered
  <1>5. Placed = Services => Acyclic
    BY <1>2 DEF Acyclic, Stuck
  <1>6. Placed # Services => ~ Acyclic
    <2>1. Placed # Services => Stuck(Services \ Placed)
      BY <1>2, <1>3, DepsFacts DEF Stuck
    <2>. QED
      BY <2>1 DEF Acyclic
  <1>. QED
    BY <1>4, <1>5, <1>6

(* When the search ends without a cycle it has visited every service;      *)
(* when it names one, its services are stuck.                              *)
LEMMA FoundIffCyclic ==
  ASSUME IInv, pc = "done"
  PROVE  cycle = <<>> <=> Acyclic
  <1>1. SearchTypes /\ SearchInv
    BY TypeParts DEF IInv
  <1>2. CASE cycle = <<>>
    <2>1. path = <<>> /\ root = N + 1
      BY <1>1, <1>2 DEF SearchInv
    <2>2. OnPath = {}
      BY <2>1 DEF OnPath
    <2>3. \A s \in Services : s \in visited
      BY <1>1, <2>1, <2>2, Finite DEF SearchInv, Services
    <2>4. Acyclic
      BY <1>1, <2>3 DEF SearchInv, Acyclic, Stuck
    <2>. QED
      BY <1>2, <2>4
  <1>3. CASE cycle # <<>>
    <2>1. /\ cycle \in Seq(Services) /\ Len(cycle) \in Nat /\ Len(cycle) > 1
          /\ cycle[1] = cycle[Len(cycle)]
          /\ \A i \in 1..(Len(cycle) - 1) : cycle[i + 1] \in Deps(cycle[i])
      BY <1>1, <1>3, LenProperties DEF SearchTypes, SearchInv
    <2>. DEFINE S == {cycle[i] : i \in 1..(Len(cycle) - 1)}
    <2>2. \A i \in 1..(Len(cycle) - 1) : cycle[i] \in Services
      BY <2>1
    <2>3. S \subseteq Services /\ cycle[1] \in S
      BY <2>1, <2>2
    <2>4. \A i \in 1..(Len(cycle) - 1) : cycle[i + 1] \in S
      <3>. TAKE i \in 1..(Len(cycle) - 1)
      <3>1. CASE i + 1 = Len(cycle)
        BY <2>1, <2>3, <3>1
      <3>2. CASE i + 1 # Len(cycle)
        BY <2>1, <3>2
      <3>. QED
        BY <3>1, <3>2
    <2>5. \A i \in 1..(Len(cycle) - 1) : Deps(cycle[i]) \cap S # {}
      BY <2>1, <2>4
    <2>6. Stuck(S)
      BY <2>3, <2>5 DEF Stuck
    <2>. QED
      BY <1>3, <2>3, <2>6 DEF Acyclic
  <1>. QED
    BY <1>2, <1>3

-----------------------------------------------------------------------------
(* Among the services that could come next the order keeps the order of    *)
(* the specification.                                                      *)
THEOREM KeepsSpecOrder == Spec => []SpecOrderKept
  <1>1. IInv => SpecOrderKept
    <2>. SUFFICES ASSUME IInv, NEW i \in DOMAIN order, NEW j \in DOMAIN order,
                         i < j, order[j] < order[i], Deps(order[j]) \subseteq Before(i)
                  PROVE  FALSE
      BY DEF SpecOrderKept
    <2>1. order \in Seq(Services) /\ DOMAIN order = 1..Len(order) /\ order[j] \in Services
      BY TypeParts, LenProperties DEF IInv, SortTypes
    <2>2. order[j] \in Before(i)
      BY <2>1 DEF IInv, SortInv
    <2>3. Before(i) \subseteq Before(j)
      BY <2>1 DEF Before
    <2>. QED
      BY <2>2, <2>3 DEF IInv, DependenciesFirst
  <1>. QED
    BY <1>1, Invariance, PTL

(* The sort throws exactly for the specifications that have a cycle.       *)
THEOREM ThrowsExactly == Spec => []ThrowsIffCyclic
  <1>1. IInv => ThrowsIffCyclic
    BY OrderedIffAcyclic DEF ThrowsIffCyclic
  <1>. QED
    BY <1>1, Invariance, PTL

(* The search names a cycle, a real one, exactly when the sort throws.     *)
THEOREM CycleReported == Spec => []CycleIsReal
  <1>1. IInv => CycleIsReal
    <2>. SUFFICES ASSUME IInv PROVE CycleIsReal
      OBVIOUS
    <2>1. pc = "done" => (cycle = <<>> <=> Ordered)
      BY OrderedIffAcyclic, FoundIffCyclic
    <2>2. cycle # <<>> => /\ Len(cycle) > 1 /\ cycle[1] = cycle[Len(cycle)]
                         /\ \A i \in 1..(Len(cycle) - 1) : cycle[i + 1] \in Deps(cycle[i])
      BY DEF IInv, SearchInv
    <2>. QED
      BY <2>1, <2>2 DEF CycleIsReal
  <1>. QED
    BY <1>1, Invariance, PTL

(* What a service needs is of a lower layer.                               *)
LEMMA NeedsLower ==
  \A s \in Services :
    /\ kind[s] = "database" => Needs(s) = {}
    /\ kind[s] = "backend" => Needs(s) = OfKind("database")
    /\ kind[s] = "reverse-proxy" => Needs(s) = OfKind("database") \/ Needs(s) = OfKind("backend")
  BY Zenon DEF Needs

LEMMA Layers ==
  Layer("database") = 1 /\ Layer("backend") = 2 /\ Layer("reverse-proxy") = 3
  BY Zenon DEF Layer

(* Of services stuck after inference those of the lowest layer are stuck   *)
(* already in the draft: inference never makes a cycle.                    *)
THEOREM InferenceSafe == Spec => []InferenceIsSafe
  <1>1. IInv => InferenceIsSafe
    <2>. SUFFICES ASSUME IInv, pc \in {"search", "done"}, LayeredDraft, AcyclicDraft,
                         NEW S \in SUBSET Services, Stuck(S)
                  PROVE  FALSE
      BY OrderedIffAcyclic DEF InferenceIsSafe, Acyclic
    <2>1. SpecTypes /\ SpecInv
      BY TypeParts DEF IInv
    <2>2. ~ \E T \in SUBSET Services :
            T # {} /\ \A s \in T : \E d \in T : d \in declared[s] /\ d # s
      BY DEF AcyclicDraft
    <2>3. S # {} /\ \A s \in S : \E d \in S : d \in Deps(s)
      BY DEF Stuck
    <2>4. CASE dependsOn = declared
      BY <2>2, <2>3, <2>4 DEF Deps
    <2>5. CASE dependsOn = [s \in Services |-> Inferred(s)]
      <3>1. \A s \in S : \E d \in S : d # s /\ (d \in declared[s] \/ d \in Needs(s))
        BY <2>3, <2>5 DEF Deps, Inferred
      <3>2. \A s \in S, d \in S : d # s /\ d \in declared[s] => Layer(kind[d]) <= Layer(kind[s])
        BY DEF LayeredDraft
      <3>3. \A s \in S : kind[s] \in Kinds
        BY <2>1 DEF SpecTypes
      <3>. DEFINE Of(k) == {s \in S : kind[s] = k}
      <3>4. Of("database") = {}
        <4>1. \A s \in Of("database") : \E d \in Of("database") : d # s /\ d \in declared[s]
          BY <3>1, <3>2, <3>3, NeedsLower, Layers DEF Kinds
        <4>. QED
          BY <2>2, <4>1
      <3>5. Of("backend") = {}
        <4>1. \A s \in Of("backend") : \E d \in Of("backend") : d # s /\ d \in declared[s]
          BY <3>1, <3>2, <3>3, <3>4, NeedsLower, Layers DEF Kinds, OfKind
        <4>. QED
          BY <2>2, <4>1
      <3>6. \A s \in S : \E d \in S : d # s /\ d \in declared[s]
        BY <3>1, <3>3, <3>4, <3>5, NeedsLower DEF Kinds, OfKind
      <3>. QED
        BY <2>2, <2>3, <3>6
    <2>. QED
      BY <2>1, <2>4, <2>5 DEF SpecInv
  <1>. QED
    BY <1>1, Invariance, PTL
=============================================================================
