---------------------------- MODULE ServiceGraph ----------------------------
(***************************************************************************)
(* The start order of a specification's services: topology-graph.ts, and   *)
(* the start and destroy orders that dependency-schedule.ts, the compose   *)
(* renderer and the engine take from it.                                   *)
(*                                                                         *)
(* A planner's draft may get dependencies inferred from the kinds of its   *)
(* services.  buildServiceDependencyGraph orders a specification, or       *)
(* throws; findServiceDependencyCycle names a cycle, for the error message *)
(* and, on its own, for the planner's question to the user.  The search is *)
(* therefore run here after every sort, and the two must agree.            *)
(*                                                                         *)
(* A service is its position in the list of services; a dependency may     *)
(* also name no service at all.  The order in which a service lists its    *)
(* dependencies decides only which cycle is named, so they are a set.      *)
(***************************************************************************)
EXTENDS Naturals, FiniteSets, Sequences

CONSTANT N   \* number of services

ASSUME GraphAssumption == N \in Nat

Services == 1..N
Unknown  == 0
Kinds    == {"database", "backend", "reverse-proxy"}

VARIABLES
  pc,
  kind,        \* kind of every service
  declared,    \* dependsOn as drafted
  dependsOn,   \* dependsOn of the specification
  inDegree,
  queue,       \* services of in-degree zero that are not in the order yet
  order,       \* serviceStartOrder
  root,        \* findServiceDependencyCycle: the next service of its loop
  path,        \* services being visited, outermost first
  left,        \* dependencies each of them has still to visit
  visited,
  cycle        \* the cycle found

spec   == <<kind, declared, dependsOn>>
sort   == <<inDegree, queue, order>>
search == <<root, path, left, visited, cycle>>
vars == <<pc, spec, sort, search>>

(* uniqueKnownDependencies.                                                *)
Deps(s) == (dependsOn[s] \cap Services) \ {s}
Dependents(s) == {d \in Services : s \in Deps(d)}

Placed == {order[i] : i \in DOMAIN order}
OnPath == {path[i] : i \in DOMAIN path}

TypeOK ==
  /\ pc \in {"draft", "count", "sort", "search", "done"}
  /\ kind \in [Services -> Kinds]
  /\ declared \in [Services -> SUBSET (Services \cup {Unknown})]
  /\ dependsOn \in [Services -> SUBSET (Services \cup {Unknown})]
  /\ inDegree \in [Services -> 0..N]
  /\ queue \subseteq Services
  /\ order \in Seq(Services) /\ Len(order) <= N
  /\ root \in 1..(N + 1)
  /\ path \in Seq(Services) /\ Len(path) <= N
  /\ left \in Seq(SUBSET Services) /\ Len(left) = Len(path)
  /\ visited \subseteq Services
  /\ cycle \in Seq(Services)

Init ==
  /\ pc = "draft"
  /\ kind \in [Services -> Kinds]
  /\ declared \in [Services -> SUBSET (Services \cup {Unknown})]
  /\ dependsOn = declared
  /\ inDegree = [s \in Services |-> 0] /\ queue = {} /\ order = <<>>
  /\ root = 1 /\ path = <<>> /\ left = <<>> /\ visited = {} /\ cycle = <<>>

-----------------------------------------------------------------------------
(* inferMissingServiceDependencies: a backend needs every database, a      *)
(* proxy every backend, or every database if there is no backend.          *)

OfKind(k) == {s \in Services : kind[s] = k}

(* (Mutant: the databases need the backends as well.)                      *)
NeedsBothWays(s) ==
  CASE kind[s] = "backend" -> OfKind("database")
    [] kind[s] = "reverse-proxy" -> OfKind("backend")
    [] kind[s] = "database" -> OfKind("backend")

Needs(s) ==
  CASE kind[s] = "backend" -> OfKind("database")
    [] kind[s] = "reverse-proxy" ->
         IF OfKind("backend") = {} THEN OfKind("database") ELSE OfKind("backend")
    [] kind[s] = "database" -> {}

Inferred(s) == ((declared[s] \cup Needs(s)) \cap Services) \ {s}

Infer ==
  /\ pc = "draft"
  /\ dependsOn' = [s \in Services |-> Inferred(s)]
  /\ pc' = "count"
  /\ UNCHANGED <<kind, declared, sort, search>>

(* A specification that comes from elsewhere is taken as it is.            *)
TakeAsIs ==
  /\ pc = "draft"
  /\ pc' = "count"
  /\ UNCHANGED <<spec, sort, search>>

-----------------------------------------------------------------------------
(* buildServiceDependencyGraph.                                            *)

Count ==
  /\ pc = "count"
  /\ inDegree' = [s \in Services |-> Cardinality(Deps(s))]
  /\ queue' = {s \in Services : Deps(s) = {}}
  /\ pc' = "sort"
  /\ UNCHANGED <<spec, order, search>>

(* The queue is kept in the order of the specification.                    *)
Shifts(s) == s \in queue /\ \A t \in queue : s <= t

(* Dependents whose in-degree the placing of s brings to zero.  (Mutants:  *)
(* one dependency may be missing; the count is tested before it is reduced.)*)
ReleasesEarly(s) == {d \in Dependents(s) : inDegree[d] \in {1, 2}}
ReleasesLate(s)  == {d \in Dependents(s) : inDegree[d] = 0}
Releases(s)      == {d \in Dependents(s) : inDegree[d] = 1}

Place(s) ==
  /\ pc = "sort"
  /\ Shifts(s)
  /\ order' = Append(order, s)
  /\ inDegree' = [d \in Services |-> IF d \in Dependents(s)
                                     THEN inDegree[d] - 1 ELSE inDegree[d]]
  /\ queue' = (queue \ {s}) \cup Releases(s)
  /\ UNCHANGED <<pc, spec, search>>

EndSort ==
  /\ pc = "sort" /\ queue = {}
  /\ pc' = "search"
  /\ UNCHANGED <<spec, sort, search>>

(* Whether the sort returns an order or throws.                            *)
Ordered == Len(order) = N

-----------------------------------------------------------------------------
(* findServiceDependencyCycle: visit, depth first.                         *)

Push(s) ==
  /\ path' = Append(path, s)
  /\ left' = Append(left, Deps(s))

Enter ==
  /\ pc = "search" /\ path = <<>> /\ root \in Services
  /\ IF root \in visited THEN UNCHANGED <<path, left>> ELSE Push(root)
  /\ root' = root + 1
  /\ UNCHANGED <<pc, spec, sort, visited, cycle>>

Top == Len(path)

(* The path from the first visit of d on, and d again.  (Mutant: the whole *)
(* path.)                                                                  *)
ClosingWhole(d, k) == Append(path, d)
Closing(d, k) == Append(SubSeq(path, k, Top), d)

Follow(d) ==
  /\ pc = "search" /\ path # <<>> /\ d \in left[Top]
  /\ \/ \E k \in DOMAIN path :
          /\ path[k] = d
          /\ cycle' = Closing(d, k)
          /\ pc' = "done"
          /\ UNCHANGED <<path, left>>
     \/ /\ d \notin OnPath /\ d \in visited
        /\ left' = [left EXCEPT ![Top] = @ \ {d}]
        /\ UNCHANGED <<pc, path, cycle>>
     \/ /\ d \notin OnPath /\ d \notin visited
        /\ path' = Append(path, d)
        /\ left' = Append([left EXCEPT ![Top] = @ \ {d}], Deps(d))
        /\ UNCHANGED <<pc, cycle>>
  /\ UNCHANGED <<spec, sort, root, visited>>

Leave ==
  /\ pc = "search" /\ path # <<>> /\ left[Top] = {}
  /\ visited' = visited \cup {path[Top]}
  /\ path' = SubSeq(path, 1, Top - 1)
  /\ left' = SubSeq(left, 1, Top - 1)
  /\ UNCHANGED <<pc, spec, sort, root, cycle>>

NoCycle ==
  /\ pc = "search" /\ path = <<>> /\ root = N + 1
  /\ pc' = "done"
  /\ UNCHANGED <<spec, sort, search>>

-----------------------------------------------------------------------------
Next == \/ Infer \/ TakeAsIs \/ Count \/ EndSort
        \/ \E s \in Services : Place(s) \/ Follow(s)
        \/ Enter \/ Leave \/ NoCycle

Spec == Init /\ [][Next]_vars

-----------------------------------------------------------------------------
(* A cycle, without saying which: services that all wait for one another.  *)
Stuck(S) == S # {} /\ \A s \in S : Deps(s) \cap S # {}

Acyclic == ~ \E S \in SUBSET Services : Stuck(S)

Before(i) == {order[j] : j \in 1..(i - 1)}

(* Every service comes once and after all it depends on; the reverse, the  *)
(* destroy order, takes dependents first.                                  *)
DependenciesFirst ==
  \A i \in DOMAIN order :
    Deps(order[i]) \subseteq Before(i) /\ order[i] \notin Before(i)

(* Among the services that could come next the order keeps the order of    *)
(* the specification: the same specification always starts the same way.   *)
SpecOrderKept ==
  \A i, j \in DOMAIN order : i < j /\ order[j] < order[i] =>
    ~ Deps(order[j]) \subseteq Before(i)

(* The sort throws exactly for the specifications that have a cycle ...    *)
ThrowsIffCyclic == pc \in {"search", "done"} => (Ordered <=> Acyclic)

(* ... the search finds one exactly for the same, and what it names is     *)
(* one: each service depends on the next, and the last is the first.       *)
CycleIsReal ==
  /\ pc = "done" => (cycle = <<>> <=> Ordered)
  /\ cycle # <<>> => /\ Len(cycle) > 1 /\ cycle[1] = cycle[Len(cycle)]
                     /\ \A i \in 1..(Len(cycle) - 1) : cycle[i + 1] \in Deps(cycle[i])

(* Inference never makes a cycle for a draft that has none and in which no *)
(* service depends on one of a higher layer (getServiceLevel).             *)
Layer(k) == CASE k = "database" -> 1 [] k = "backend" -> 2 [] k = "reverse-proxy" -> 3

LayeredDraft ==
  \A s \in Services : \A d \in declared[s] \cap Services :
    d # s => Layer(kind[d]) <= Layer(kind[s])

AcyclicDraft ==
  ~ \E S \in (SUBSET Services) \ {{}} :
      \A s \in S : (declared[s] \cap S) \ {s} # {}

InferenceIsSafe ==
  pc \in {"search", "done"} /\ LayeredDraft /\ AcyclicDraft => Ordered

-----------------------------------------------------------------------------
(* What the properties rest on: an inductive invariant.                    *)

SpecInv == dependsOn = declared \/ dependsOn = [s \in Services |-> Inferred(s)]

(* In-degrees and queue follow from what has been placed; nothing that is  *)
(* part of a cycle ever is, and nothing that could have come earlier is    *)
(* left out.                                                               *)
SortInv ==
  /\ pc \in {"draft", "count"} => order = <<>>
  /\ pc \in {"sort", "search", "done"} =>
       /\ \A s \in Services : inDegree[s] = Cardinality(Deps(s) \ Placed)
       /\ queue = {s \in Services \ Placed : Deps(s) \subseteq Placed}
  /\ pc \in {"search", "done"} => queue = {}
  /\ Cardinality(Placed) = Len(order)
  /\ \A S \in SUBSET Services : Stuck(S) => S \cap Placed = {}
  /\ \A i \in DOMAIN order : \A s \in Services :
       s < order[i] /\ Deps(s) \subseteq Before(i) => s \in Before(i)

(* The path is one; what it has passed is visited or still ahead on it;    *)
(* nothing that is part of a cycle is visited; and no root is forgotten.   *)
SearchInv ==
  /\ pc \in {"draft", "count", "sort"} => path = <<>> /\ visited = {} /\ root = 1
  /\ Cardinality(OnPath) = Len(path)
  /\ OnPath \cap visited = {}
  /\ \A i \in 1..(Len(path) - 1) : path[i + 1] \in Deps(path[i])
  /\ \A i \in DOMAIN path :
       /\ left[i] \subseteq Deps(path[i])
       /\ Deps(path[i]) \ left[i] \subseteq
            visited \cup (IF i < Len(path) THEN {path[i + 1]} ELSE {})
  /\ \A S \in SUBSET Services : Stuck(S) => S \cap visited = {}
  /\ \A s \in 1..(root - 1) : s \in visited \cup OnPath
  /\ cycle # <<>> => /\ pc = "done"
                     /\ Len(cycle) > 1 /\ cycle[1] = cycle[Len(cycle)]
                     /\ \A i \in 1..(Len(cycle) - 1) : cycle[i + 1] \in Deps(cycle[i])
  /\ pc = "done" /\ cycle = <<>> => path = <<>> /\ root = N + 1

IInv == TypeOK /\ SpecInv /\ DependenciesFirst /\ SortInv /\ SearchInv
=============================================================================
