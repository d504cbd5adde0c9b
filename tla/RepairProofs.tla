----------------------------- MODULE RepairProofs -----------------------------
(***************************************************************************)
(* Theorems about Repair, for any services, networks, volumes and images,  *)
(* any specification and state of Docker to begin with, any faults and     *)
(* other users: what is removed is reported, what is saved was verified,   *)
(* a sync accounts for the containers it saw, and repairing again and again*)
(* brings about what is wanted.                                            *)
(***************************************************************************)
EXTENDS Repair, FiniteSetTheorems, TLAPS

-----------------------------------------------------------------------------
(* Types of the operators of Drift.                                        *)

(* Names of a service's containers.                                        *)
LEMMA ExpectedType ==
  ASSUME NEW k \in Keys, NEW def \in Service
  PROVE  Expected(k, def) \subseteq Names /\ Expected(k, def) # {}
<1>1. CASE def.replicas = 1
  BY <1>1 DEF Expected, Keys, Names
<1>2. CASE def.replicas # 1
  <2>1. \A i \in 1..def.replicas : i \in 0..MaxOrdinal
    BY DriftAssumption DEF Service
  <2>2. 1 \in 1..def.replicas
    BY DriftAssumption DEF Service
  <2>3. Expected(k, def) = {[own |-> "ours", base |-> k.base, nr |-> i] : i \in 1..def.replicas}
    BY <1>2 DEF Expected
  <2>4. \A i \in 1..def.replicas : [own |-> "ours", base |-> k.base, nr |-> i] \in Names
    BY <2>1 DEF Keys, Names
  <2>5. [own |-> "ours", base |-> k.base, nr |-> 1] \in Expected(k, def)
    BY <2>2, <2>3
  <2> QED BY <2>3, <2>4, <2>5
<1> QED BY <1>1, <1>2

LEMMA ThereType ==
  ASSUME NEW w \in Worlds
  PROVE  /\ There(w) \subseteq Names
         /\ \A n \in There(w) : w.conts[n] \in Container
BY DEF There, Worlds, Nothing

(* The record of a service.                                                *)
LEMMA SpecService ==
  ASSUME NEW spec, IsSpec(spec), NEW k \in DOMAIN spec.svc
  PROVE  k \in Keys /\ spec.svc[k] \in Service
BY DEF IsSpec

(* A report names containers, networks, volumes and images.                *)
LEMMA ReportType ==
  ASSUME NEW spec, IsSpec(spec), NEW w \in Worlds, NEW blind,
         NEW first \in Firsts(spec, w)
  PROVE  Report(spec, w, blind, first) \in Reports
<1> DEFINE r == Report(spec, w, blind, first)
<1>1. \A k \in DOMAIN first : first[k] \in Names
  BY ThereType DEF Firsts
<1>2. DOMAIN first \subseteq DOMAIN spec.svc
  BY DEF Firsts
<1>3. \A k \in DOMAIN spec.svc : Missing(k, spec.svc[k], w) \subseteq Names
  BY SpecService, ExpectedType DEF Missing
<1>4. /\ r.start \subseteq Names /\ r.stop \subseteq Names /\ r.unsure \subseteq Names
  BY <1>1 DEF Report
<1>5. r.recreate \subseteq Names
  <2>1. AllMissing(spec, w) \subseteq Names
    BY <1>3 DEF AllMissing
  <2>2. AllDiffering(spec, w, first) \subseteq Names
    BY <1>1 DEF AllDiffering
  <2>3. r.recreate = AllMissing(spec, w) \cup AllDiffering(spec, w, first)
    BY DEF Report
  <2> QED BY <2>1, <2>2, <2>3
<1>6. r.nets \subseteq Labels(Networks)
  BY DEF Report, IsSpec
<1>7. \A k \in DOMAIN spec.svc : spec.svc[k].mounts \subseteq Labels(Volumes)
  BY SpecService DEF Service
<1>8. r.vols \subseteq Labels(Volumes)
  BY <1>7 DEF Report
<1>9. \A k \in DOMAIN spec.svc : spec.svc[k].image \in Images
  BY SpecService DEF Service
<1>10. r.imgs \subseteq Images
  BY <1>9 DEF Report
<1>11. r = [start |-> r.start, stop |-> r.stop, recreate |-> r.recreate, nets |-> r.nets,
           vols |-> r.vols, imgs |-> r.imgs, unsure |-> r.unsure]
  BY DEF Report
<1> QED
  <2> HIDE DEF r
  <2>1. r \in Reports
    BY <1>4, <1>5, <1>6, <1>8, <1>10, <1>11 DEF Reports
  <2> QED BY <2>1 DEF r

LEMMA NoReportType == NoReport \in Reports
BY DEF NoReport, Reports

(* Reports stay reports when something is noted or dropped.                *)
LEMMA NoteType ==
  ASSUME NEW r \in Reports, NEW class \in {"start", "stop", "recreate"}, NEW n \in Names
  PROVE  /\ [r EXCEPT ![class] = @ \cup {n}] \in Reports
         /\ [r EXCEPT ![class] = @ \ {n}] \in Reports
BY DEF Reports

LEMMA NoteLabelType ==
  ASSUME NEW r \in Reports
  PROVE  /\ \A x \in Labels(Networks) :
              [r EXCEPT !["nets"] = @ \cup {x}] \in Reports /\ [r EXCEPT !["nets"] = @ \ {x}] \in Reports
         /\ \A x \in Labels(Volumes) :
              [r EXCEPT !["vols"] = @ \cup {x}] \in Reports /\ [r EXCEPT !["vols"] = @ \ {x}] \in Reports
         /\ \A x \in Images :
              [r EXCEPT !["imgs"] = @ \cup {x}] \in Reports /\ [r EXCEPT !["imgs"] = @ \ {x}] \in Reports
BY DEF Reports

-----------------------------------------------------------------------------
(* What the calls do to the daemon.                                        *)

LEMMA UnseenType == Unseen \in Worlds
BY DEF Unseen, Worlds, Nothing

(* A change of one container's state.                                      *)
LEMMA SetStatusType ==
  ASSUME docker \in Worlds, NEW n \in Names, Present(n), NEW s \in {"up", "down"}
  PROVE  /\ SetStatus(n, s) \in Worlds
         /\ \A m \in Names : SetStatus(n, s).conts[m].status # "absent" <=> Present(m)
<1>1. docker.conts[n] \in Container
  BY DEF Worlds, Present, Nothing
<1>2. [docker.conts[n] EXCEPT !.status = s] \in Container
  BY <1>1 DEF Container
<1>3. SetStatus(n, s) = [docker EXCEPT !.conts = [docker.conts EXCEPT ![n] = [docker.conts[n] EXCEPT !.status = s]]]
  BY DEF SetStatus, Worlds
<1>4. [docker.conts EXCEPT ![n] = [docker.conts[n] EXCEPT !.status = s]] \in [Names -> Container \cup {Nothing}]
  BY <1>2 DEF Worlds
<1>5. SetStatus(n, s) \in Worlds
  BY <1>3, <1>4 DEF Worlds
<1>6. \A m \in Names : SetStatus(n, s).conts[m] =
         IF m = n THEN [docker.conts[n] EXCEPT !.status = s] ELSE docker.conts[m]
  BY <1>3 DEF Worlds
<1>7. [docker.conts[n] EXCEPT !.status = s].status = s
  BY <1>1 DEF Container
<1> QED BY <1>5, <1>6, <1>7 DEF Present

LEMMA WithoutType ==
  ASSUME docker \in Worlds, NEW n \in Names
  PROVE  /\ Without(n) \in Worlds
         /\ \A m \in Names \ {n} : Without(n).conts[m] = docker.conts[m]
BY DEF Without, Worlds

(* A new container is there, and the others stay as they are.              *)
LEMMA CreatedType ==
  ASSUME docker \in Worlds, NEW n \in Names, NEW def \in Service
  PROVE  /\ Created(n, def) \in Worlds /\ LeftDown(n, def) \in Worlds
         /\ \A m \in Names \ {n} : /\ Created(n, def).conts[m] = docker.conts[m]
                                   /\ LeftDown(n, def).conts[m] = docker.conts[m]
         /\ Created(n, def).conts[n].status # "absent"
         /\ LeftDown(n, def).conts[n].status # "absent"
BY DEF Created, LeftDown, Worlds, Service, Container

-----------------------------------------------------------------------------
(* What a sync derives.                                                    *)

LEMMA KeyType ==
  ASSUME NEW spec, NEW w \in Worlds, NEW n \in Ours(spec, w)
  PROVE  /\ n \in Names /\ n \in There(w)
         /\ KeyOf(n) \in Keys /\ Plain(n.base) \in Keys
         /\ ParsedKey(spec, n) \in Keys /\ DerivedKey(spec, w, n) \in Keys
         /\ Ordinal(spec, n) \in 0..MaxOrdinal
<1>1. n \in Names /\ n \in There(w)
  BY ThereType DEF Ours
<1>2. KeyOf(n) \in Keys /\ Plain(n.base) \in Keys
  BY <1>1, DriftAssumption DEF KeyOf, Plain, Names, Keys
<1>3. ParsedKey(spec, n) \in Keys
  BY <1>2 DEF ParsedKey
<1>4. DerivedKey(spec, w, n) \in Keys
  BY <1>2, <1>3 DEF DerivedKey
<1>5. Ordinal(spec, n) \in 0..MaxOrdinal
  BY <1>1, DriftAssumption DEF Ordinal, Names
<1> QED BY <1>1, <1>2, <1>3, <1>4, <1>5

(* There are no more replicas than numbers.                                *)
LEMMA OrdinalsType ==
  ASSUME NEW spec, NEW w \in Worlds, NEW k
  PROVE  /\ Ordinals(spec, w, k) \subseteq 1..MaxOrdinal
         /\ Cardinality(Ordinals(spec, w, k)) \in 0..MaxOrdinal
<1>1. Ordinals(spec, w, k) \subseteq 1..MaxOrdinal
  <2> SUFFICES ASSUME NEW i \in Ordinals(spec, w, k) PROVE i \in 1..MaxOrdinal
    OBVIOUS
  <2>1. PICK n \in Ours(spec, w) : i = Ordinal(spec, n) /\ i # 0
    BY DEF Ordinals
  <2> QED BY <2>1, KeyType, DriftAssumption
<1>2. IsFiniteSet(1..MaxOrdinal) /\ Cardinality(1..MaxOrdinal) = MaxOrdinal
  BY FS_Interval, DriftAssumption
<1>3. /\ IsFiniteSet(Ordinals(spec, w, k))
      /\ Cardinality(Ordinals(spec, w, k)) <= MaxOrdinal
  BY <1>1, <1>2, FS_Subset
<1>4. Cardinality(Ordinals(spec, w, k)) \in Nat
  BY <1>3, FS_CardinalityType
<1> QED BY <1>1, <1>3, <1>4, DriftAssumption

LEMMA PickType ==
  ASSUME NEW spec, NEW w, NEW pick \in Picks(spec, w), NEW k \in DOMAIN pick
  PROVE  pick[k] \in Ours(spec, w) /\ DerivedKey(spec, w, pick[k]) = k
BY DEF Picks

LEMMA DerivedServiceType ==
  ASSUME NEW spec, IsSpec(spec), NEW w \in Worlds, NEW k, NEW n \in Ours(spec, w)
  PROVE  DerivedService(spec, w, k, n) \in Service
<1> DEFINE s == DerivedService(spec, w, k, n)
<1>1. w.conts[n] \in Container
  BY KeyType, ThereType
<1>2. s.image \in Images /\ s.lifecycle \in {"up", "down"}
  BY <1>1 DEF DerivedService, Container
<1>3. s.replicas \in 1..MaxOrdinal
  <2>1. CASE Compact(spec, w, n)
    <3>1. Cardinality(Ordinals(spec, w, ParsedKey(spec, n))) > 1
      BY <2>1 DEF Compact, Several
    <3>2. s.replicas = Cardinality(Ordinals(spec, w, ParsedKey(spec, n)))
      BY <2>1 DEF DerivedService
    <3> QED BY <3>1, <3>2, OrdinalsType, DriftAssumption
  <2>2. CASE ~Compact(spec, w, n)
    BY <2>2, DriftAssumption DEF DerivedService
  <2> QED BY <2>1, <2>2
<1>4. s.ports \in {"open", "none"}
  BY <1>1 DEF DerivedService, Container
<1>5. \A j \in DOMAIN spec.svc : spec.svc[j].mounts \subseteq Labels(Volumes)
  BY SpecService DEF Service
<1>6. s.mounts \subseteq Labels(Volumes)
  BY <1>5 DEF DerivedService
<1>7. s = [image |-> s.image, replicas |-> s.replicas, lifecycle |-> s.lifecycle,
           ports |-> s.ports, mounts |-> s.mounts]
  BY DEF DerivedService
<1> HIDE DEF s
<1>8. s \in Service
  BY <1>2, <1>3, <1>4, <1>6, <1>7 DEF Service
<1> QED BY <1>8 DEF s

LEMMA LabelType ==
  ASSUME NEW S, NEW l \in Labels(S)
  PROVE  Stripped(l) \in Labels(S) /\ Prefixed(l) \in Labels(S)
BY DEF Stripped, Prefixed, Labels

(* What is derived and saved is a specification.                           *)
LEMMA DerivedType ==
  ASSUME NEW spec, IsSpec(spec), NEW w \in Worlds, NEW pick \in Picks(spec, w)
  PROVE  IsSpec(Derived(spec, w, pick))
<1> DEFINE d == Derived(spec, w, pick)
           nets == {Stripped(l) : l \in OursOf(spec.nets, w.nets)}
           vols == {Stripped(l) : l \in OursOf(spec.vols, w.vols)}
<1>1. nets \subseteq Labels(Networks) /\ vols \subseteq Labels(Volumes)
  BY LabelType DEF OursOf, Worlds
<1>2. spec.nets \subseteq Labels(Networks)
  BY DEF IsSpec
<1>3. d = [svc |-> d.svc, nets |-> d.nets, vols |-> d.vols]
  BY DEF Derived
<1>4. d.nets \subseteq Labels(Networks) /\ d.vols \subseteq Labels(Volumes)
  BY <1>1, <1>2 DEF Derived
<1>5. d.svc = [k \in DOMAIN pick |->
                 [DerivedService(spec, w, k, pick[k]) EXCEPT !.mounts = @ \cap vols]]
  BY DEF Derived
<1>6. DOMAIN d.svc = DOMAIN pick
  BY <1>5
<1>7. DOMAIN pick \subseteq Keys
  <2> SUFFICES ASSUME NEW k \in DOMAIN pick PROVE k \in Keys
    OBVIOUS
  <2> QED BY PickType, KeyType
<1>8. \A k \in DOMAIN pick : d.svc[k] \in Service
  <2> SUFFICES ASSUME NEW k \in DOMAIN pick PROVE d.svc[k] \in Service
    OBVIOUS
  <2>1. DerivedService(spec, w, k, pick[k]) \in Service
    BY PickType, DerivedServiceType
  <2>2. \A s \in Service : [s EXCEPT !.mounts = @ \cap vols] \in Service
    BY DEF Service
  <2> QED BY <1>5, <2>1, <2>2
<1> HIDE DEF d, nets, vols
<1>9. d.svc \in [DOMAIN d.svc -> Service]
  BY <1>5, <1>6, <1>8
<1>10. IsSpec(d)
  BY <1>3, <1>4, <1>6, <1>7, <1>9 DEF IsSpec
<1> QED BY <1>10 DEF d

LEMMA CanonicalType ==
  ASSUME NEW spec, IsSpec(spec)
  PROVE  IsSpec(Canonical(spec))
<1> DEFINE c == Canonical(spec)
<1>1. \A s \in Service : [s EXCEPT !.mounts = {Prefixed(l) : l \in @}] \in Service
  <2> SUFFICES ASSUME NEW s \in Service
               PROVE  [s EXCEPT !.mounts = {Prefixed(l) : l \in @}] \in Service
    OBVIOUS
  <2>1. {Prefixed(l) : l \in s.mounts} \subseteq Labels(Volumes)
    BY LabelType DEF Service
  <2> QED BY <2>1 DEF Service
<1>2. c.svc = [k \in DOMAIN spec.svc |-> [spec.svc[k] EXCEPT !.mounts = {Prefixed(l) : l \in @}]]
  BY DEF Canonical
<1>3. c.svc \in [DOMAIN spec.svc -> Service]
  BY <1>1, <1>2, SpecService
<1>4. c.nets \subseteq Labels(Networks) /\ c.vols \subseteq Labels(Volumes)
  BY LabelType DEF Canonical, IsSpec
<1>5. c = [svc |-> c.svc, nets |-> c.nets, vols |-> c.vols]
  BY DEF Canonical
<1>6. DOMAIN spec.svc \subseteq Keys
  BY DEF IsSpec
<1> HIDE DEF c
<1>7. IsSpec(c)
  BY <1>3, <1>4, <1>5, <1>6 DEF IsSpec
<1> QED BY <1>7 DEF c

(* Its services and their replicas.                                        *)
LEMMA SyncedServices ==
  ASSUME NEW spec, IsSpec(spec), NEW w \in Worlds, NEW pick \in Picks(spec, w)
  PROVE  LET new == Canonical(Derived(spec, w, pick))
         IN /\ DOMAIN new.svc = DOMAIN pick
            /\ DOMAIN pick = {DerivedKey(spec, w, n) : n \in Ours(spec, w)}
            /\ \A k \in DOMAIN pick :
                 new.svc[k].replicas = DerivedService(spec, w, k, pick[k]).replicas
<1> DEFINE d == Derived(spec, w, pick)
           new == Canonical(d)
           vols == {Stripped(l) : l \in OursOf(spec.vols, w.vols)}
<1>1. d.svc = [k \in DOMAIN pick |->
                 [DerivedService(spec, w, k, pick[k]) EXCEPT !.mounts = @ \cap vols]]
  BY DEF Derived
<1>2. new.svc = [k \in DOMAIN d.svc |-> [d.svc[k] EXCEPT !.mounts = {Prefixed(l) : l \in @}]]
  BY DEF Canonical
<1>3. DOMAIN new.svc = DOMAIN pick
  BY <1>1, <1>2
<1>4. DOMAIN pick = {DerivedKey(spec, w, n) : n \in Ours(spec, w)}
  BY DEF Picks
<1>5. ASSUME NEW k \in DOMAIN pick
      PROVE  new.svc[k].replicas = DerivedService(spec, w, k, pick[k]).replicas
  <2>1. DerivedService(spec, w, k, pick[k]) \in Service
    BY PickType, DerivedServiceType
  <2>2. d.svc[k].replicas = DerivedService(spec, w, k, pick[k]).replicas /\ d.svc[k] \in Service
    <3>1. d.svc[k] = [DerivedService(spec, w, k, pick[k]) EXCEPT !.mounts = @ \cap vols]
      BY <1>1
    <3> HIDE DEF d, vols
    <3>2. \A s \in Service : /\ [s EXCEPT !.mounts = @ \cap vols].replicas = s.replicas
                             /\ [s EXCEPT !.mounts = @ \cap vols] \in Service
      BY DEF Service
    <3> QED BY <2>1, <3>1, <3>2
  <2>3. new.svc[k] = [d.svc[k] EXCEPT !.mounts = {Prefixed(l) : l \in @}]
    BY <1>1, <1>2
  <2> HIDE DEF d, new, vols
  <2>4. \A s \in Service : [s EXCEPT !.mounts = {Prefixed(l) : l \in @}].replicas = s.replicas
    BY DEF Service
  <2> QED BY <2>2, <2>3, <2>4
<1> QED BY <1>3, <1>4, <1>5

(* A container with the prefix belongs to the service made of its name; it *)
(* is overlooked if it has no number and the service numbered replicas.    *)
LEMMA CoveredByService ==
  ASSUME NEW spec, NEW w, NEW n \in There(w), n \in Names, n.own = "ours", n \in Ours(spec, w),
         NEW m, NEW several, several = Cardinality(Ordinals(spec, w, ParsedKey(spec, m))),
         NEW svc, NEW k \in DOMAIN svc, k = DerivedKey(spec, w, n), k = DerivedKey(spec, w, m),
         svc[k].replicas = IF Compact(spec, w, m) THEN several ELSE 1
  PROVE  \/ n.nr = 0 /\ KeyOf(n) \in DOMAIN svc /\ svc[KeyOf(n)].replicas > 1
         \/ n \in Matching(k, svc[k], w)
<1>1. k \in {KeyOf(n), Plain(n.base)}
  BY DEF DerivedKey, ParsedKey
<1>2. CASE ~Compact(spec, w, m)
  <2>1. svc[k].replicas = 1
    BY <1>2
  <2>2. CASE k = Plain(n.base)
    BY <2>1, <2>2 DEF Matching, Alias
  <2>3. CASE k = KeyOf(n)
    <3>1. n = [own |-> "ours", base |-> k.base, nr |-> k.nr]
      BY <2>3 DEF KeyOf, Names
    <3>2. n \in Expected(k, svc[k])
      BY <2>1, <3>1 DEF Expected
    <3> QED BY <3>2 DEF Matching
  <2> QED BY <1>1, <2>2, <2>3
<1>3. CASE Compact(spec, w, m)
  <2>1. Ordinal(spec, m) # 0 /\ several > 1 /\ ~Sparse(spec, w, m)
    BY <1>3 DEF Compact, Several, Sparse
  <2>2. Ordinals(spec, w, ParsedKey(spec, m)) = 1..several
    BY <1>3 DEF Compact, Dense
  <2>3. k = ParsedKey(spec, m)
    BY <2>1 DEF DerivedKey
  <2>4. k = Plain(m.base)
    BY <2>1, <2>3 DEF Ordinal, ParsedKey
  <2>5. svc[k].replicas = several
    BY <1>3
  <2>6. k.nr = 0
    BY <2>4 DEF Plain
  <2>7. k.base = n.base /\ k = Plain(n.base)
    BY <1>1, <2>4 DEF KeyOf, Plain
  <2>8. CASE n.nr = 0
    <3>1. KeyOf(n) = k
      BY <2>7, <2>8 DEF KeyOf, Plain
    <3> QED BY <2>1, <2>5, <2>8, <3>1
  <2>9. CASE n.nr # 0
    <3>0. KeyOf(n) # k
      BY <2>6, <2>9 DEF KeyOf
    <3>1. KeyOf(n) \notin DOMAIN spec.svc
      BY <3>0 DEF DerivedKey, ParsedKey
    <3>2. Ordinal(spec, n) = n.nr /\ ParsedKey(spec, n) = k
      BY <2>7, <3>1 DEF Ordinal, ParsedKey
    <3>3. n.nr \in Ordinals(spec, w, k)
      BY <2>9, <3>2 DEF Ordinals
    <3>4. n.nr \in 1..several
      BY <2>2, <2>3, <3>3
    <3>5. n = [own |-> "ours", base |-> k.base, nr |-> n.nr]
      BY <2>7 DEF Names
    <3>6. Expected(k, svc[k]) = {[own |-> "ours", base |-> k.base, nr |-> i] : i \in 1..several}
      BY <2>1, <2>5 DEF Expected
    <3>7. n \in Expected(k, svc[k])
      BY <3>4, <3>5, <3>6
    <3> QED BY <3>7 DEF Matching
  <2> QED BY <2>8, <2>9
<1> QED BY <1>2, <1>3

LEMMA SyncCovers ==
  ASSUME NEW spec, IsSpec(spec), NEW w \in Worlds, NEW pick \in Picks(spec, w),
         NEW n \in There(w), n.own = "ours"
  PROVE  LET new == Canonical(Derived(spec, w, pick))
         IN \/ n.nr = 0 /\ KeyOf(n) \in DOMAIN new.svc /\ new.svc[KeyOf(n)].replicas > 1
            \/ \E k \in DOMAIN new.svc : n \in Matching(k, new.svc[k], w)
<1> DEFINE new == Canonical(Derived(spec, w, pick))
           k == DerivedKey(spec, w, n)
           m == pick[k]
           several == Cardinality(Ordinals(spec, w, ParsedKey(spec, m)))
<1>1. n \in Ours(spec, w) /\ n \in Names
  BY ThereType DEF Ours
<1>2. DOMAIN new.svc = DOMAIN pick /\ k \in DOMAIN pick
  <2>1. DOMAIN new.svc = DOMAIN pick
    BY SyncedServices
  <2>2. DOMAIN pick = {DerivedKey(spec, w, o) : o \in Ours(spec, w)}
    BY DEF Picks
  <2> QED BY <1>1, <2>1, <2>2
<1>3. DerivedKey(spec, w, m) = k
  BY <1>2, PickType
<1>4. new.svc[k].replicas = DerivedService(spec, w, k, m).replicas
  BY <1>2, SyncedServices
<1>5. DerivedService(spec, w, k, m).replicas = IF Compact(spec, w, m) THEN several ELSE 1
  BY DEF DerivedService
<1>6. \/ n.nr = 0 /\ KeyOf(n) \in DOMAIN new.svc /\ new.svc[KeyOf(n)].replicas > 1
      \/ n \in Matching(k, new.svc[k], w)
  <2> HIDE DEF new, m, several
  <2>1. several = Cardinality(Ordinals(spec, w, ParsedKey(spec, m)))
    BY DEF several
  <2> HIDE DEF k
  <2>2. k = DerivedKey(spec, w, n)
    BY DEF k
  <2> QED BY <1>1, <1>2, <1>3, <1>4, <1>5, <2>1, <2>2, CoveredByService
<1> QED BY <1>2, <1>6

-----------------------------------------------------------------------------
(* A clean report: everything is there, and a container of each service is *)
(* as the specification wants it.                                          *)
LEMMA CleanIsGood ==
  ASSUME IsSpec(saved), NEW w \in Worlds, NEW first \in Firsts(saved, w),
         Clean(Report(saved, w, {}, first))
  PROVE  (\A k \in DOMAIN saved.svc : Good(k, saved.svc[k], w)) /\ Provided(w)
<1> DEFINE r == Report(saved, w, {}, first)
<1>1. /\ r.start = {first[k] : k \in {j \in DOMAIN first : ToStart(saved.svc[j], w.conts[first[j]])}}
      /\ r.stop = {first[k] : k \in {j \in DOMAIN first : ToStop(saved.svc[j], w.conts[first[j]])}}
  BY DEF Report
<1>2. r.recreate = AllMissing(saved, w) \cup AllDiffering(saved, w, first)
  BY DEF Report
<1>3. /\ r.nets = {l \in saved.nets : ~Known(l, w.nets)}
      /\ r.vols = {l \in UNION {saved.svc[k].mounts : k \in DOMAIN saved.svc} : ~Known(l, w.vols)}
  BY DEF Report
<1>4. r.start = {} /\ r.stop = {} /\ r.recreate = {} /\ r.nets = {} /\ r.vols = {}
  BY DEF Clean
<1> HIDE DEF r
<1>5. Provided(w)
  <2>1. \A l \in saved.nets : Known(l, w.nets)
    BY <1>3, <1>4
  <2>2. \A k \in DOMAIN saved.svc : \A l \in saved.svc[k].mounts : Known(l, w.vols)
    BY <1>3, <1>4
  <2> QED BY <2>1, <2>2 DEF Provided
<1>6. ASSUME NEW k \in DOMAIN saved.svc
      PROVE  Good(k, saved.svc[k], w)
  <2>1. k \in Keys /\ saved.svc[k] \in Service
    BY SpecService
  <2>2. Missing(k, saved.svc[k], w) = {}
    BY <1>2, <1>4 DEF AllMissing
  <2>3. Expected(k, saved.svc[k]) \subseteq There(w)
          \/ (saved.svc[k].replicas = 1 /\ Matching(k, saved.svc[k], w) # {})
    BY <2>2 DEF Missing
  <2>4. Matching(k, saved.svc[k], w) # {}
    BY <2>1, <2>3, ExpectedType DEF Matching
  <2>5. k \in DOMAIN first /\ first[k] \in Matching(k, saved.svc[k], w)
    BY <2>4 DEF Firsts
  <2>6. w.conts[first[k]] \in Container
    BY <2>5, ThereType DEF Matching
  <2>7. /\ ~ToStart(saved.svc[k], w.conts[first[k]])
        /\ ~ToStop(saved.svc[k], w.conts[first[k]])
    BY <1>1, <1>4, <2>5
  <2>8. w.conts[first[k]].status = saved.svc[k].lifecycle
    BY <2>1, <2>6, <2>7 DEF ToStart, ToStop, Container, Service
  <2>9. ~Differs(saved.svc[k], w.conts[first[k]])
    BY <1>2, <1>4, <2>5 DEF AllDiffering
  <2> QED BY <2>3, <2>5, <2>8, <2>9 DEF Good
<1> QED BY <1>5, <1>6

-----------------------------------------------------------------------------
(* The steps.                                                              *)

Recreations == [name : SUBSET Names, service : SUBSET Keys,
                step : {"none", "stop", "remove", "create", "start"}]

LEMMA IdleType == Idle \in Recreations /\ Idle.step = "none" /\ Idle.name = {} /\ Idle.service = {}
BY DEF Idle, Recreations

(* The count of calm commands.                                             *)
LEMMA CalmType ==
  /\ 0 \in Calms /\ Disturbed \in Calms
  /\ \A c \in Calms : Calmer(c) \in Calms
  /\ calm \in Calms => CalmSoFar \in Calms
BY RepairAssumption DEF Calms, Calmer, CalmSoFar, Disturbed

LEMMA FaultType ==
  ASSUME TypeOK, NoFault \/ Fault
  PROVE  faults' \in Nat /\ calm' \in Calms
BY CalmType DEF TypeOK, NoFault, Fault

(* The properties at the end of a command are about other states than      *)
(* those in which its actions run.                                         *)
LEMMA Unfinished ==
  ASSUME IInv, UNCHANGED <<outcome, saved>>,
         outcome \in {"none", "clean", "rejected", "nothing", "refused", "incomplete", "error", "died"}
           \/ UNCHANGED <<seen, verified>>
  PROVE  VerifiedIsGood' /\ SyncCoversSeen'
<1>1. VerifiedIsGood /\ SyncCoversSeen
  BY DEF IInv
<1>2. CASE outcome \in {"none", "clean", "rejected", "nothing", "refused", "incomplete", "error", "died"}
  BY <1>2 DEF VerifiedIsGood, SyncCoversSeen
<1>3. CASE UNCHANGED <<seen, verified>>
  BY <1>1, <1>3 DEF VerifiedIsGood, SyncCoversSeen, Provided, Overlooked
<1> QED BY <1>2, <1>3

(* A step of the actions.                                                  *)
LEMMA ActKeeps ==
  ASSUME IInv, pc = "act",
         UNCHANGED <<pc, gate, saved, seen, hidden, outcome, verified, commands, outside>>,
         docker' \in Worlds, todo' \in Reports, failed' \in Reports, at' \in Recreations,
         removed' \subseteq Names, NoFault \/ Fault,
         at' = Idle \/ (/\ at'.step # "none" /\ \A n, m \in at'.name : n = m
                        /\ at'.service \subseteq DOMAIN saved.svc),
         (\A n \in removed : Accounted(n)) => \A n \in removed' : Accounted(n)'
  PROVE  IInv'
<1>1. TypeOK'
  <2>1. TypeOK
    BY DEF IInv
  <2>2. faults' \in Nat /\ calm' \in Calms
    BY <2>1, FaultType
  <2> QED BY <2>1, <2>2 DEF TypeOK, Recreations
<1>2. outcome = "none"
  BY DEF IInv, PlaceInv
<1>3. PlaceInv'
  BY <1>2, IdleType DEF PlaceInv
<1>4. RemovedInv'
  BY <1>2 DEF IInv, RemovedInv
<1>5. VerifiedIsGood' /\ SyncCoversSeen'
  BY <1>2, Unfinished
<1> QED BY <1>1, <1>3, <1>4, <1>5 DEF IInv

(* The end of a command that saves nothing.                                *)
LEMMA EndKeeps ==
  ASSUME IInv, NEW result \in {"clean", "rejected", "nothing", "refused", "incomplete", "error", "died"},
         End(result), docker' \in Worlds, IsSpec(saved'), seen' \in Worlds, hidden' \subseteq Names,
         failed' \in Reports, verified' \in Worlds \cup {Nothing}, calm' \in Calms,
         commands' \in Nat, faults' \in Nat, outside' \in Nat, removed' \subseteq Names,
         result \in {"error", "died"} \/ removed' = {} \/ (pc \in {"ask", "check"} /\ UNCHANGED <<docker, failed, removed>>)
  PROVE  IInv'
<1>1. TypeOK'
  BY NoReportType, IdleType DEF End, TypeOK, Recreations
<1>2. PlaceInv'
  BY IdleType DEF End, PlaceInv
<1>3. RemovedInv'
  <2>1. CASE result \in {"error", "died"}
    BY <2>1 DEF End, RemovedInv
  <2>2. CASE removed' = {}
    BY <2>2 DEF RemovedInv
  <2>3. CASE pc \in {"ask", "check"} /\ UNCHANGED <<docker, failed, removed>>
    <3>1. outcome = "none" /\ at = Idle
      BY <2>3 DEF IInv, PlaceInv
    <3>2. \A n \in removed : Accounted(n)
      BY <3>1 DEF IInv, RemovedInv
    <3>3. \A n \in removed : Accounted(n) => Accounted(n)'
      BY <2>3, <3>1, IdleType DEF Accounted, Present
    <3> QED BY <2>3, <3>2, <3>3 DEF RemovedInv
  <2> QED BY <2>1, <2>2, <2>3
<1>4. VerifiedIsGood' /\ SyncCoversSeen'
  BY DEF End, VerifiedIsGood, SyncCoversSeen
<1> QED BY <1>1, <1>2, <1>3, <1>4 DEF IInv

LEMMA InitInv == ASSUME Init PROVE IInv
<1>1. TypeOK
  BY RepairAssumption, UnseenType, NoReportType, IdleType, CalmType DEF Init, TypeOK, Recreations
<1>2. PlaceInv
  BY IdleType DEF Init, PlaceInv
<1> QED BY <1>1, <1>2 DEF Init, IInv, RemovedInv, VerifiedIsGood, SyncCoversSeen

LEMMA StutterKeeps == ASSUME IInv, UNCHANGED vars PROVE IInv'
BY DEF vars, ghosts, counts, IInv, TypeOK, PlaceInv, RemovedInv, Accounted, Present,
       VerifiedIsGood, Provided, SyncCoversSeen, Overlooked

LEMMA DetectKeeps == ASSUME IInv, Detect PROVE IInv'
<1>1. /\ docker \in Worlds /\ IsSpec(saved) /\ saved' = saved /\ calm \in Calms
      /\ gate = FALSE /\ at = Idle /\ pc = "idle"
      /\ commands \in Nat /\ faults \in Nat /\ outside \in Nat
  BY DEF Detect, IInv, TypeOK, PlaceInv
<1>2. /\ failed' = NoReport /\ removed' = {} /\ verified' = Nothing /\ commands' = commands + 1
      /\ saved' = saved
  BY DEF Detect
<1>3. CASE Fault /\ End("error") /\ Forget /\ UNCHANGED <<docker, outside>>
  <2>1. faults' \in Nat /\ calm' \in Calms
    BY <1>3, FaultType DEF IInv
  <2> QED BY <1>1, <1>2, <1>3, <2>1, EndKeeps, NoReportType, UnseenType DEF Forget
<1>4. ASSUME NEW blind \in {{}} \cup {{n} : n \in There(docker)},
             docker' = [docker EXCEPT !.conts = [n \in Names |-> IF n \in blind THEN Nothing ELSE @[n]]],
             outside' = IF blind = {} THEN outside ELSE outside + 1,
             faults' = faults,
             NEW first \in Firsts(saved, docker),
             NEW r, r = Report(saved, docker, blind, first),
             \/ /\ End("clean") /\ Forget /\ calm' = IF blind = {} THEN Calmer(CalmSoFar) ELSE Disturbed
             \/ /\ pc' = "ask" /\ todo' = r /\ seen' = docker /\ hidden' = blind
                /\ calm' = IF blind = {} THEN CalmSoFar ELSE Disturbed
                /\ outcome' = "none" /\ UNCHANGED <<gate, at>>
      PROVE  IInv'
  <2>1. docker' \in Worlds
    BY <1>1, <1>4 DEF Worlds
  <2>2. calm' \in Calms
    BY <1>1, <1>4, CalmType
  <2>3. blind \subseteq Names
    BY <1>1, <1>4, ThereType
  <2>4. outside' \in Nat /\ faults' \in Nat /\ commands' \in Nat
    BY <1>1, <1>2, <1>4
  <2>5. CASE End("clean") /\ Forget
    BY <1>1, <1>2, <2>1, <2>2, <2>4, <2>5, EndKeeps, NoReportType, UnseenType DEF Forget
  <2>6. CASE /\ pc' = "ask" /\ todo' = r /\ seen' = docker /\ hidden' = blind
             /\ outcome' = "none" /\ UNCHANGED <<gate, at>>
    <3>1. r \in Reports
      BY <1>1, <1>4, ReportType
    <3>2. TypeOK'
      BY <1>1, <1>2, <2>1, <2>2, <2>3, <2>4, <2>6, <3>1, NoReportType, IdleType DEF TypeOK, Recreations
    <3>3. PlaceInv'
      BY <1>1, <1>2, <2>6, IdleType DEF PlaceInv
    <3> QED BY <1>2, <2>6, <3>2, <3>3 DEF IInv, RemovedInv, VerifiedIsGood, SyncCoversSeen
  <2> QED BY <1>4, <2>5, <2>6
<1>5. CASE ~(Fault /\ End("error") /\ Forget /\ UNCHANGED <<docker, outside>>)
  <2>1. PICK blind \in {{}} \cup {{n} : n \in There(docker)} :
          /\ docker' = [docker EXCEPT !.conts = [n \in Names |-> IF n \in blind THEN Nothing ELSE @[n]]]
          /\ outside' = IF blind = {} THEN outside ELSE outside + 1
          /\ faults' = faults
          /\ \E first \in Firsts(saved, docker) :
               LET r == Report(saved, docker, blind, first)
               IN IF Clean(r)
                    THEN End("clean") /\ Forget /\ calm' = IF blind = {} THEN Calmer(CalmSoFar) ELSE Disturbed
                    ELSE /\ pc' = "ask" /\ todo' = r
                         /\ seen' = docker /\ hidden' = blind
                         /\ calm' = IF blind = {} THEN CalmSoFar ELSE Disturbed
                         /\ outcome' = "none" /\ UNCHANGED <<gate, at>>
    BY <1>5, Zenon DEF Detect
  <2>2. PICK first \in Firsts(saved, docker) :
               LET r == Report(saved, docker, blind, first)
               IN IF Clean(r)
                    THEN End("clean") /\ Forget /\ calm' = IF blind = {} THEN Calmer(CalmSoFar) ELSE Disturbed
                    ELSE /\ pc' = "ask" /\ todo' = r
                         /\ seen' = docker /\ hidden' = blind
                         /\ calm' = IF blind = {} THEN CalmSoFar ELSE Disturbed
                         /\ outcome' = "none" /\ UNCHANGED <<gate, at>>
    BY <2>1
  <2> QED BY <2>1, <2>2, <1>4
<1> QED BY <1>3, <1>5

LEMMA RejectKeeps == ASSUME IInv, Reject PROVE IInv'
BY EndKeeps, UnseenType DEF Reject, Forget, IInv, TypeOK, PlaceInv, ghosts, counts

LEMMA AcceptKeeps == ASSUME IInv, Accept PROVE IInv'
<1>1. TypeOK /\ PlaceInv /\ pc = "ask" /\ removed = {} /\ outcome = "none" /\ at = Idle
  BY DEF IInv, PlaceInv, Accept
<1>2. /\ UNCHANGED <<docker, saved, failed, removed, verified, commands, outside>>
      /\ seen' = Unseen /\ hidden' = {} /\ (NoFault \/ Fault)
  BY DEF Accept, Forget
<1>3. faults' \in Nat /\ calm' \in Calms
  BY <1>1, <1>2, FaultType
<1>4. CASE End("nothing") \/ End("error")
  BY <1>1, <1>2, <1>3, <1>4, EndKeeps, UnseenType DEF TypeOK
<1>5. CASE pc' = "act" /\ gate' = TRUE /\ UNCHANGED <<todo, at, outcome>>
  <2>1. TypeOK'
    BY <1>1, <1>2, <1>3, <1>5, UnseenType DEF TypeOK
  <2>2. PlaceInv'
    BY <1>1, <1>2, <1>5, IdleType DEF PlaceInv
  <2> QED BY <1>1, <1>2, <1>5, <2>1, <2>2 DEF IInv, RemovedInv, VerifiedIsGood, SyncCoversSeen
<1> QED BY <1>4, <1>5 DEF Accept

LEMMA DieKeeps == ASSUME IInv, Die PROVE IInv'
BY EndKeeps, CalmType DEF Die, IInv, TypeOK, counts

LEMMA SyncKeeps == ASSUME IInv, Sync PROVE IInv'
<1>1. /\ TypeOK /\ PlaceInv /\ pc = "ask" /\ removed = {} /\ IsSpec(saved) /\ seen \in Worlds
  BY DEF IInv, TypeOK, PlaceInv, Sync
<1>2. UNCHANGED <<docker, seen, hidden, failed, removed, verified, commands, outside>>
  BY DEF Sync
<1>3. CASE Fault /\ End("error") /\ UNCHANGED saved
  BY <1>1, <1>2, <1>3, FaultType, EndKeeps DEF TypeOK
<1>4. ASSUME End("refused"), UNCHANGED saved, NoFault PROVE IInv'
  BY <1>1, <1>2, <1>4, FaultType, EndKeeps DEF TypeOK
<1>5. ASSUME NEW pick \in Picks(saved, seen), End("synced"),
             saved' = Canonical(Derived(saved, seen, pick)), calm' = Disturbed, UNCHANGED faults
      PROVE  IInv'
  <2>1. IsSpec(saved')
    BY <1>1, <1>5, DerivedType, CanonicalType
  <2>2. TypeOK'
    BY <1>1, <1>2, <1>5, <2>1, NoReportType, IdleType, CalmType DEF End, TypeOK, Recreations
  <2>3. PlaceInv'
    BY <1>1, <1>5, IdleType DEF End, PlaceInv
  <2>4. RemovedInv'
    BY <1>1, <1>2 DEF RemovedInv
  <2>5. VerifiedIsGood'
    BY <1>5 DEF End, VerifiedIsGood
  <2>6. ASSUME NEW n \in There(seen), n.own = "ours"
        PROVE  \/ n.nr = 0 /\ KeyOf(n) \in DOMAIN saved'.svc /\ saved'.svc[KeyOf(n)].replicas > 1
               \/ \E k \in DOMAIN saved'.svc : n \in Matching(k, saved'.svc[k], seen)
    BY <1>1, <1>5, <2>6, SyncCovers
  <2>7. SyncCoversSeen'
    BY <1>2, <2>6 DEF SyncCoversSeen, Overlooked
  <2> QED BY <2>2, <2>3, <2>4, <2>5, <2>7 DEF IInv
<1>6. CASE ~(Fault /\ End("error") /\ UNCHANGED saved)
  <2>1. PICK pick \in Picks(saved, seen) :
          LET spec == Derived(saved, seen, pick)
          IN \E first \in Firsts(spec, seen) :
               IF Clean(Report(spec, seen, hidden, first))
                 THEN End("synced") /\ saved' = Canonical(spec) /\ calm' = Disturbed /\ UNCHANGED faults
                 ELSE End("refused") /\ UNCHANGED saved /\ NoFault
    BY <1>6 DEF Sync
  <2> QED BY <2>1, <1>4, <1>5
<1> QED BY <1>3, <1>6

LEMMA CheckKeeps == ASSUME IInv, Check PROVE IInv'
<1>1. /\ TypeOK /\ PlaceInv /\ pc = "check" /\ outcome = "none" /\ at = Idle
      /\ IsSpec(saved) /\ docker \in Worlds
  BY DEF IInv, TypeOK, PlaceInv, Check
<1>2. UNCHANGED <<docker, saved, seen, hidden, removed, commands, outside>>
  BY DEF Check
<1>3. CASE Fault /\ End("error") /\ failed' = NoReport /\ UNCHANGED verified
  BY <1>1, <1>2, <1>3, FaultType, NoReportType, EndKeeps DEF TypeOK
<1>4. ASSUME End("incomplete"), UNCHANGED verified, calm' = Calmer(calm), UNCHANGED <<failed, faults>>
      PROVE  IInv'
  BY <1>1, <1>2, <1>4, EndKeeps, CalmType DEF TypeOK
<1>5. ASSUME NEW first \in Firsts(saved, docker), Repaired(Report(saved, docker, {}, first)),
             End("repaired"), verified' = docker, calm' = Calmer(calm), UNCHANGED <<failed, faults>>
      PROVE  IInv'
  <2>1. TypeOK'
    BY <1>1, <1>2, <1>5, NoReportType, IdleType, CalmType DEF End, TypeOK, Recreations
  <2>2. PlaceInv'
    BY <1>5, IdleType DEF End, PlaceInv
  <2>3. RemovedInv'
    BY <1>1, <1>2, <1>5, IdleType DEF IInv, RemovedInv, Accounted, Present
  <2>4. (\A k \in DOMAIN saved.svc : Good(k, saved.svc[k], docker)) /\ Provided(docker)
    BY <1>1, <1>5, CleanIsGood DEF Repaired
  <2>5. VerifiedIsGood'
    BY <1>2, <1>5, <2>4 DEF VerifiedIsGood, Provided
  <2>6. SyncCoversSeen'
    BY <1>5 DEF End, SyncCoversSeen
  <2> QED BY <2>1, <2>2, <2>3, <2>5, <2>6 DEF IInv
<1>6. CASE ~(Fault /\ End("error") /\ failed' = NoReport /\ UNCHANGED verified)
  <2>1. PICK first \in Firsts(saved, docker) :
          LET r == Report(saved, docker, {}, first)
          IN /\ End(IF Repaired(r) THEN "repaired" ELSE "incomplete")
             /\ verified' = IF Repaired(r) THEN docker ELSE verified
             /\ calm' = Calmer(calm)
             /\ UNCHANGED <<failed, faults>>
    BY <1>6 DEF Check
  <2> QED BY <2>1, <1>4, <1>5
<1> QED BY <1>3, <1>6

(* Others leave the program alone.                                         *)
LEMMA OutsideKeeps == ASSUME IInv, Outside PROVE IInv'
<1>1. TypeOK /\ PlaceInv /\ docker \in Worlds /\ outside \in Nat
  BY DEF IInv, TypeOK
<1>2. docker' \in Worlds
  <2>1. ASSUME NEW n \in There(docker) PROVE {Without(n), SetStatus(n, "up"), SetStatus(n, "down")} \subseteq Worlds
    <3>1. n \in Names /\ Present(n)
      BY DEF There, Present
    <3> QED BY <1>1, <3>1, WithoutType, SetStatusType
  <2>2. \A S : [docker EXCEPT !.nets = @ \ S] \in Worlds /\ [docker EXCEPT !.vols = @ \ S] \in Worlds
               /\ [docker EXCEPT !.imgs = @ \ S] \in Worlds
    BY <1>1 DEF Worlds
  <2> QED BY <2>1, <2>2 DEF Outside
<1>3. /\ outside' = outside + 1 /\ calm' = Disturbed
      /\ removed' = removed \ {n \in Names : Present(n) /\ docker'.conts[n] = Nothing}
      /\ UNCHANGED <<pc, gate, saved, seen, hidden, todo, at, failed, outcome, verified,
                     commands, faults>>
  BY DEF Outside
<1>4. TypeOK'
  BY <1>1, <1>2, <1>3, CalmType DEF TypeOK
<1>5. PlaceInv'
  BY <1>1, <1>3 DEF PlaceInv
<1>6. VerifiedIsGood' /\ SyncCoversSeen'
  BY <1>3, Unfinished
<1>7. ASSUME NEW n \in removed', Accounted(n) PROVE Accounted(n)'
  <2>1. n \in Names /\ ~(Present(n) /\ docker'.conts[n] = Nothing)
    BY <1>1, <1>3, <1>7 DEF TypeOK
  <2>2. Present(n) => Present(n)'
    BY <1>2, <2>1 DEF Present, Worlds, Container, Nothing
  <2> QED BY <1>3, <1>7, <2>2 DEF Accounted
<1>8. RemovedInv'
  BY <1>3, <1>7 DEF IInv, RemovedInv
<1> QED BY <1>4, <1>5, <1>6, <1>8 DEF IInv

(* Before the first step of a recreation nothing is about to be created.   *)
LEMMA SwitchKeeps ==
  ASSUME IInv, NEW class \in {"start", "stop"}, NEW status \in {"up", "down"}, Switch(class, status)
  PROVE  IInv'
<1>1. TypeOK /\ pc = "act" /\ at = Idle /\ docker \in Worlds /\ failed \in Reports /\ todo \in Reports
  BY DEF IInv, TypeOK, Switch
<1>2. UNCHANGED <<pc, gate, saved, seen, hidden, at, outcome, removed, verified, commands, outside>>
  BY DEF Switch
<1>3. PICK n \in todo[class] :
       /\ \/ /\ Present(n) /\ docker' = SetStatus(n, status)
             /\ UNCHANGED failed /\ NoFault
          \/ /\ ~Present(n) /\ Note(class, n) /\ UNCHANGED docker /\ NoFault
          \/ /\ Fault /\ Note(class, n)
             /\ docker' \in {docker} \cup {w \in {SetStatus(n, status)} : Present(n)}
       /\ Drop(class, n)
  BY DEF Switch
<1>4. n \in Names
  BY <1>1, <1>3 DEF Reports
<1>5. docker' = docker \/ (Present(n) /\ docker' = SetStatus(n, status))
  BY <1>3
<1>6. docker' \in Worlds /\ \A m \in Names : Present(m) => Present(m)'
  BY <1>1, <1>4, <1>5, SetStatusType DEF Present
<1>7. failed' \in Reports /\ failed'.recreate = failed.recreate /\ todo' \in Reports
  <2>1. failed' = failed \/ failed' = [failed EXCEPT ![class] = @ \cup {n}]
    BY <1>3 DEF Note
  <2>2. [failed EXCEPT ![class] = @ \cup {n}].recreate = failed.recreate
    BY <1>1 DEF Reports
  <2>3. failed' \in Reports /\ failed'.recreate = failed.recreate
    <3>1. [failed EXCEPT ![class] = @ \cup {n}] \in Reports
      BY <1>1, <1>4, NoteType
    <3> QED BY <1>1, <2>1, <2>2, <3>1
  <2>4. todo' = [todo EXCEPT ![class] = @ \ {n}]
    BY <1>3 DEF Drop
  <2>5. todo' \in Reports
    BY <1>1, <1>4, <2>4, NoteType
  <2> QED BY <2>3, <2>5
<1>8. \A m \in removed : Accounted(m) => Accounted(m)'
  <2>1. removed \subseteq Names
    BY <1>1 DEF TypeOK
  <2> QED BY <1>1, <1>6, <1>7, <2>1, IdleType DEF Accounted
<1>9. NoFault \/ Fault
  BY <1>3
<1>10. removed \subseteq Names /\ at \in Recreations
  BY <1>1 DEF TypeOK, Recreations
<1> QED BY <1>1, <1>2, <1>6, <1>7, <1>8, <1>9, <1>10, ActKeeps

(* The container and the service of the recreation under way.              *)
LEMMA Current ==
  ASSUME IInv, pc = "act", at.step # "none"
  PROVE  /\ TypeOK /\ docker \in Worlds /\ failed \in Reports /\ todo \in Reports
         /\ at \in Recreations /\ removed \subseteq Names
         /\ \A n \in at.name : n \in Names /\ at.name = {n}
         /\ \A k \in at.service : saved.svc[k] \in Service
         /\ at.service \subseteq DOMAIN saved.svc
BY SpecService DEF IInv, TypeOK, PlaceInv, Recreations

LEMMA AbortType ==
  ASSUME failed \in Reports, todo \in Reports, NEW n \in Names, Abort(n)
  PROVE  /\ failed' \in Reports /\ todo' \in Reports /\ at' = Idle
         /\ failed'.recreate = failed.recreate \cup {n}
<1>1. failed' = [failed EXCEPT !["recreate"] = @ \cup {n}] /\ at' = Idle
  BY DEF Abort, Note
<1>2. todo' = [todo EXCEPT !["recreate"] = @ \ {n}]
  BY DEF Abort, Drop
<1>3. [failed EXCEPT !["recreate"] = @ \cup {n}].recreate = failed.recreate \cup {n}
  BY DEF Reports
<1>4. failed' \in Reports /\ todo' \in Reports
  BY <1>1, <1>2, NoteType
<1> QED BY <1>1, <1>3, <1>4

LEMMA GoType ==
  ASSUME at \in Recreations, NEW step \in {"remove", "create", "start"}, Go(step)
  PROVE  /\ at' \in Recreations /\ at'.step = step /\ at'.name = at.name /\ at'.service = at.service
         /\ UNCHANGED <<todo, failed>>
BY DEF Go, Recreations

(* A step of a recreation.                                                 *)
LEMMA RecreationKeeps ==
  ASSUME IInv, pc = "act", at.step # "none",
         UNCHANGED <<pc, gate, saved, seen, hidden, outcome, verified, commands, outside>>,
         docker' \in Worlds, NoFault \/ Fault, NEW n \in at.name,
         \/ Abort(n)
         \/ \E step \in {"remove", "create", "start"} : Go(step)
         \/ Drop("recreate", n) /\ at' = Idle /\ UNCHANGED failed,
         removed' \subseteq removed \cup {n},
         \A m \in Names \ {n} : docker'.conts[m] = docker.conts[m],
         (n \in removed => Accounted(n)) /\ n \in removed' => Accounted(n)'
  PROVE  IInv'
<1>1. /\ TypeOK /\ at \in Recreations /\ failed \in Reports /\ todo \in Reports /\ n \in Names
      /\ at.name = {n} /\ removed \subseteq Names /\ at.service \subseteq DOMAIN saved.svc
  BY Current
<1>2. /\ failed' \in Reports /\ todo' \in Reports /\ at' \in Recreations
      /\ failed.recreate \subseteq failed'.recreate
      /\ at' = Idle \/ (at'.step # "none" /\ at'.name = at.name /\ at'.service = at.service)
  <2>1. CASE Abort(n)
    BY <1>1, <2>1, AbortType, IdleType
  <2>2. CASE \E step \in {"remove", "create", "start"} : Go(step)
    <3>1. PICK step \in {"remove", "create", "start"} : Go(step)
      BY <2>2
    <3> QED BY <1>1, <3>1, GoType
  <2>3. CASE Drop("recreate", n) /\ at' = Idle /\ UNCHANGED failed
    <3>1. todo' = [todo EXCEPT !["recreate"] = @ \ {n}]
      BY <2>3 DEF Drop
    <3> QED BY <1>1, <2>3, <3>1, NoteType, IdleType
  <2> QED BY <2>1, <2>2, <2>3
<1>3. ASSUME \A m \in removed : Accounted(m), NEW m \in removed' PROVE Accounted(m)'
  <2>1. CASE m # n
    <3>1. m \in removed /\ m \in Names /\ m \notin at.name
      BY <1>1, <2>1
    <3>2. Present(m) \/ m \in failed.recreate
      BY <1>3, <3>1 DEF Accounted
    <3>3. Present(m) => Present(m)'
      BY <2>1, <3>1 DEF Present
    <3> QED BY <1>2, <3>2, <3>3 DEF Accounted
  <2>2. CASE m = n
    BY <1>1, <1>3, <2>2 DEF Accounted
  <2> QED BY <2>1, <2>2
<1>4. removed' \subseteq Names
  BY <1>1
<1> QED BY <1>1, <1>2, <1>3, <1>4, ActKeeps

LEMMA StopOldKeeps == ASSUME IInv, StopOld PROVE IInv'
<1>1. /\ pc = "act" /\ at.step = "stop"
      /\ UNCHANGED <<pc, gate, saved, seen, hidden, outcome, removed, verified, commands, outside>>
  BY DEF StopOld
<1>2. PICK n \in at.name :
       \/ /\ docker' = IF Present(n) THEN SetStatus(n, "down") ELSE docker
          /\ Go("remove") /\ NoFault
       \/ /\ Fault /\ Abort(n)
          /\ docker' \in {docker} \cup {w \in {SetStatus(n, "down")} : Present(n)}
  BY DEF StopOld
<1>3. docker \in Worlds /\ n \in Names /\ failed \in Reports /\ todo \in Reports /\ at \in Recreations
  BY <1>1, <1>2, Current
<1>4. docker' = docker \/ (Present(n) /\ docker' = SetStatus(n, "down"))
  BY <1>2
<1>5. docker' \in Worlds /\ (Present(n) => Present(n)')
  BY <1>3, <1>4, SetStatusType DEF Present
<1>6. \A m \in Names \ {n} : docker'.conts[m] = docker.conts[m]
  BY <1>3, <1>4 DEF SetStatus, Worlds
<1>7. failed.recreate \subseteq failed'.recreate
  BY <1>2, <1>3, AbortType, GoType
<1>8. Accounted(n) => Accounted(n)'
  BY <1>1, <1>5, <1>7 DEF Accounted
<1>9. Abort(n) \/ \E step \in {"remove", "create", "start"} : Go(step)
  BY <1>2
<1>10. NoFault \/ Fault
  BY <1>2
<1> QED BY <1>1, <1>5, <1>6, <1>8, <1>9, <1>10, RecreationKeeps

(* What is removed is about to be created, or reported.                    *)
LEMMA RemoveOldKeeps == ASSUME IInv, RemoveOld PROVE IInv'
<1>1. /\ pc = "act" /\ at.step = "remove"
      /\ UNCHANGED <<pc, gate, saved, seen, hidden, outcome, verified, commands, outside>>
  BY DEF RemoveOld
<1>2. PICK n \in at.name :
       /\ \/ docker' = Without(n) /\ Go("create") /\ NoFault
          \/ Fault /\ Abort(n) /\ docker' \in {docker, Without(n)}
       /\ removed' = IF Present(n) /\ docker'.conts[n] = Nothing
                       THEN removed \cup {n} ELSE removed
  BY DEF RemoveOld
<1>3. docker \in Worlds /\ n \in Names /\ failed \in Reports /\ todo \in Reports /\ at \in Recreations
  BY <1>1, <1>2, Current
<1>4. docker' \in Worlds /\ \A m \in Names \ {n} : docker'.conts[m] = docker.conts[m]
  BY <1>2, <1>3, WithoutType
<1>5. Accounted(n)'
  <2>1. CASE Go("create")
    <3>1. at'.step = "create" /\ at'.name = at.name
      BY <1>3, <2>1, GoType
    <3> QED BY <1>2, <3>1 DEF Accounted
  <2>2. CASE Abort(n)
    <3>1. n \in failed'.recreate
      BY <1>3, <2>2, AbortType
    <3> QED BY <3>1 DEF Accounted
  <2> QED BY <1>2, <2>1, <2>2
<1>6. Abort(n) \/ \E step \in {"remove", "create", "start"} : Go(step)
  BY <1>2
<1>7. (NoFault \/ Fault) /\ removed' \subseteq removed \cup {n}
  BY <1>2
<1> QED BY <1>1, <1>4, <1>5, <1>6, <1>7, RecreationKeeps

LEMMA CreateKeeps == ASSUME IInv, Create PROVE IInv'
<1>1. /\ pc = "act" /\ at.step = "create"
      /\ UNCHANGED <<pc, gate, saved, seen, hidden, outcome, removed, verified, commands, outside>>
  BY DEF Create
<1>2. PICK n \in at.name, k \in at.service :
       LET def == saved.svc[k]
       IN \/ /\ MayCreate(n) /\ docker' = Created(n, def)
             /\ Go("start") /\ NoFault
          \/ /\ MayRefuse(n) /\ Abort(n) /\ NoFault
             /\ docker' \in {docker} \cup {w \in {LeftDown(n, def)} : ~Present(n)}
          \/ /\ Fault /\ Abort(n)
             /\ docker' \in {docker} \cup {w \in {Created(n, def), LeftDown(n, def)} : MayCreate(n)}
  BY DEF Create
<1>3. /\ docker \in Worlds /\ n \in Names /\ failed \in Reports /\ todo \in Reports
      /\ at \in Recreations /\ saved.svc[k] \in Service
  BY <1>1, <1>2, Current
<1>4. docker' \in {docker, Created(n, saved.svc[k]), LeftDown(n, saved.svc[k])}
  BY <1>2
<1>5. docker' \in Worlds /\ \A m \in Names \ {n} : docker'.conts[m] = docker.conts[m]
  BY <1>3, <1>4, CreatedType
<1>6. Accounted(n)'
  <2>1. CASE docker' = Created(n, saved.svc[k])
    BY <1>3, <2>1, CreatedType DEF Accounted, Present
  <2>2. CASE Abort(n)
    <3>1. n \in failed'.recreate
      BY <1>3, <2>2, AbortType
    <3> QED BY <3>1 DEF Accounted
  <2> QED BY <1>2, <2>1, <2>2
<1>7. Abort(n) \/ \E step \in {"remove", "create", "start"} : Go(step)
  BY <1>2
<1>8. NoFault \/ Fault
  BY <1>2
<1> QED BY <1>1, <1>5, <1>6, <1>7, <1>8, RecreationKeeps

LEMMA StartNewKeeps == ASSUME IInv, StartNew PROVE IInv'
<1>1. /\ pc = "act" /\ at.step = "start"
      /\ UNCHANGED <<pc, gate, saved, seen, hidden, outcome, removed, verified, commands, outside>>
  BY DEF StartNew
<1>2. PICK n \in at.name :
       \/ /\ Present(n) /\ docker' = SetStatus(n, "up")
          /\ Drop("recreate", n) /\ at' = Idle /\ UNCHANGED failed /\ NoFault
       \/ /\ ~Present(n) /\ Abort(n) /\ UNCHANGED docker /\ NoFault
       \/ /\ Fault /\ Abort(n)
          /\ docker' \in {docker} \cup {w \in {SetStatus(n, "up")} : Present(n)}
  BY DEF StartNew
<1>3. docker \in Worlds /\ n \in Names /\ failed \in Reports /\ todo \in Reports /\ at \in Recreations
  BY <1>1, <1>2, Current
<1>4. docker' = docker \/ (Present(n) /\ docker' = SetStatus(n, "up"))
  BY <1>2
<1>5. docker' \in Worlds /\ (Present(n) => Present(n)')
  BY <1>3, <1>4, SetStatusType DEF Present
<1>6. \A m \in Names \ {n} : docker'.conts[m] = docker.conts[m]
  BY <1>3, <1>4 DEF SetStatus, Worlds
<1>7. failed.recreate \subseteq failed'.recreate
  BY <1>2, <1>3, AbortType
<1>8. Accounted(n) => Accounted(n)'
  BY <1>1, <1>5, <1>7 DEF Accounted
<1>9. Abort(n) \/ (Drop("recreate", n) /\ at' = Idle /\ UNCHANGED failed)
  BY <1>2
<1>10. NoFault \/ Fault
  BY <1>2
<1> QED BY <1>1, <1>5, <1>6, <1>8, <1>9, <1>10, RecreationKeeps

LEMMA BeginKeeps == ASSUME IInv, Begin PROVE IInv'
<1>1. /\ pc = "act" /\ at = Idle
      /\ UNCHANGED <<pc, gate, docker, saved, seen, hidden, outcome, ghosts, counts>>
  BY DEF Begin
<1>2. TypeOK /\ failed \in Reports /\ todo \in Reports /\ removed \subseteq Names
  BY DEF IInv, TypeOK
<1>3. PICK n \in todo.recreate :
       LET named == {k \in DOMAIN saved.svc : <<n, k>> \in Mentions}
       IN \/ /\ named = {}
             /\ Note("recreate", n) /\ Drop("recreate", n) /\ UNCHANGED at
          \/ \E k \in named :
               /\ at' = [name |-> {n}, service |-> {k}, step |-> "stop"]
               /\ UNCHANGED <<failed, todo>>
  BY DEF Begin
<1>4. n \in Names
  BY <1>2, <1>3 DEF Reports
<1>5. CASE Note("recreate", n) /\ Drop("recreate", n) /\ UNCHANGED at
  <2>1. Abort(n)
    BY <1>1, <1>5 DEF Abort
  <2>2. /\ failed' \in Reports /\ todo' \in Reports /\ at' = Idle
        /\ failed'.recreate = failed.recreate \cup {n}
    BY <1>2, <1>4, <2>1, AbortType
  <2>3. \A m \in removed' : Accounted(m) => Accounted(m)'
    BY <1>1, <1>5, <2>2 DEF Accounted, Present, ghosts
  <2> QED BY <1>1, <1>2, <2>2, <2>3, ActKeeps, IdleType DEF TypeOK, NoFault, ghosts, counts
<1>6. ASSUME NEW k \in DOMAIN saved.svc, at' = [name |-> {n}, service |-> {k}, step |-> "stop"],
             UNCHANGED <<failed, todo>>
      PROVE  IInv'
  <2>1. k \in Keys
    BY <1>2, SpecService DEF TypeOK
  <2>2. at' \in Recreations
    BY <1>4, <1>6, <2>1 DEF Recreations
  <2>3. at'.step = "stop" /\ at'.name = {n} /\ at'.service = {k}
    BY <1>6
  <2>4. \A m \in removed' : Accounted(m) => Accounted(m)'
    BY <1>1, <1>6, IdleType DEF Accounted, Present, ghosts
  <2> QED BY <1>1, <1>2, <1>6, <2>2, <2>3, <2>4, ActKeeps DEF TypeOK, NoFault, ghosts, counts
<1> QED BY <1>3, <1>5, <1>6

LEMMA ProvideKeeps ==
  ASSUME IInv, NEW class \in {"nets", "vols", "imgs"}, Provide(class, class)
  PROVE  IInv'
<1>1. /\ pc = "act" /\ at = Idle
      /\ UNCHANGED <<pc, gate, saved, seen, hidden, at, outcome, removed, verified, commands, outside>>
  BY DEF Provide
<1>2. TypeOK /\ docker \in Worlds /\ failed \in Reports /\ todo \in Reports /\ removed \subseteq Names
  BY DEF IInv, TypeOK
<1>3. PICK x \in todo[class] :
       LET w == [docker EXCEPT ![class] = @ \cup {x}]
       IN /\ \/ /\ class = "nets" => x \notin docker.nets
                /\ docker' = w /\ UNCHANGED failed /\ NoFault
             \/ /\ class = "nets" /\ x \in docker.nets
                /\ Note(class, x) /\ UNCHANGED docker /\ NoFault
             \/ Fault /\ Note(class, x) /\ docker' \in {docker, w}
          /\ Drop(class, x)
  BY DEF Provide
<1>4. [docker EXCEPT ![class] = @ \cup {x}] \in Worlds /\ [docker EXCEPT ![class] = @ \cup {x}].conts = docker.conts
  BY <1>2, <1>3 DEF Worlds, Reports
<1>5. docker' \in Worlds /\ docker'.conts = docker.conts
  BY <1>2, <1>3, <1>4
<1>6. [failed EXCEPT ![class] = @ \cup {x}] \in Reports /\ [todo EXCEPT ![class] = @ \ {x}] \in Reports
      /\ [failed EXCEPT ![class] = @ \cup {x}].recreate = failed.recreate
  BY <1>2, <1>3 DEF Reports
<1>7. failed' \in Reports /\ todo' \in Reports /\ failed'.recreate = failed.recreate
  <2>1. failed' \in {failed, [failed EXCEPT ![class] = @ \cup {x}]}
    BY <1>3 DEF Note
  <2>2. todo' = [todo EXCEPT ![class] = @ \ {x}]
    BY <1>3 DEF Drop
  <2> QED BY <1>2, <1>6, <2>1, <2>2
<1>8. \A m \in removed : Accounted(m) => Accounted(m)'
  BY <1>1, <1>5, <1>7, IdleType DEF Accounted, Present
<1>9. NoFault \/ Fault
  BY <1>3
<1>10. at \in Recreations
  BY <1>1, IdleType
<1> QED BY <1>1, <1>2, <1>5, <1>7, <1>8, <1>9, <1>10, ActKeeps

LEMMA TriedKeeps == ASSUME IInv, Tried PROVE IInv'
<1>1. /\ pc = "act" /\ at = Idle /\ pc' = "check" /\ gate' = FALSE /\ outcome = "none"
      /\ UNCHANGED <<docker, saved, seen, hidden, todo, at, failed, outcome, ghosts, counts>>
  BY DEF Tried, IInv, PlaceInv
<1>2. TypeOK'
  BY <1>1 DEF IInv, TypeOK, ghosts, counts
<1>3. PlaceInv'
  BY <1>1, IdleType DEF PlaceInv
<1>4. RemovedInv'
  BY <1>1 DEF IInv, RemovedInv, Accounted, Present, ghosts, counts
<1>5. VerifiedIsGood' /\ SyncCoversSeen'
  BY <1>1, Unfinished
<1> QED BY <1>2, <1>3, <1>4, <1>5 DEF IInv

-----------------------------------------------------------------------------
(* The theorems.                                                           *)

(* The invariant is inductive.                                             *)
THEOREM Inductive == Spec => []IInv
<1>1. IInv /\ [Next]_vars => IInv'
  <2> SUFFICES ASSUME IInv, [Next]_vars PROVE IInv'
    OBVIOUS
  <2>1. CASE UNCHANGED vars
    BY <2>1, StutterKeeps
  <2>2. CASE Act
    <3>1. CASE Switch("start", "up") \/ Switch("stop", "down")
      BY <3>1, SwitchKeeps
    <3>2. CASE CreateNetwork \/ CreateVolume \/ PullImage
      BY <3>2, ProvideKeeps DEF CreateNetwork, CreateVolume, PullImage
    <3> QED BY <2>2, <3>1, <3>2, BeginKeeps, StopOldKeeps, RemoveOldKeeps, CreateKeeps, StartNewKeeps,
               TriedKeeps DEF Act
  <2> QED BY <2>1, <2>2, DetectKeeps, RejectKeeps, SyncKeeps, AcceptKeeps, CheckKeeps, DieKeeps,
             OutsideKeeps DEF Next
<1> QED BY <1>1, InitInv, PTL DEF Spec

(* The state has its type; mutations are allowed while the actions of a    *)
(* repair run, and at no other time.                                       *)
THEOREM TypeCorrect == Spec => []TypeOK
<1>1. IInv => TypeOK
  BY DEF IInv
<1> QED BY <1>1, Inductive, PTL

(* Whatever a repair that prints its report has removed is there again or  *)
(* among the failures reported, unless somebody else removed it since.     *)
THEOREM RemovedReported == Spec => []RemovedIsReported
<1>1. IInv => RemovedIsReported
  <2> SUFFICES ASSUME IInv, outcome \in {"repaired", "incomplete"}, NEW n \in removed
               PROVE  Present(n) \/ n \in failed.recreate
    BY DEF RemovedIsReported
  <2>1. at.step # "create"
    BY IdleType DEF IInv, PlaceInv
  <2> QED BY <2>1 DEF IInv, RemovedInv, Accounted
<1> QED BY <1>1, Inductive, PTL

(* What a repair saves as verified is what its last observation showed.    *)
THEOREM VerifiedGood == Spec => []VerifiedIsGood
<1>1. IInv => VerifiedIsGood
  BY DEF IInv
<1> QED BY <1>1, Inductive, PTL

(* A sync accounts for all of the project's containers it saw, except one  *)
(* without number next to replicas with numbers.                           *)
THEOREM SyncCoversAll == Spec => []SyncCoversSeen
<1>1. IInv => SyncCoversSeen
  BY DEF IInv
<1> QED BY <1>1, Inductive, PTL


-----------------------------------------------------------------------------
(* Repairing again and again.                                              *)

LEMMA NamesFinite ==
  ASSUME NEW S, S \subseteq Names
  PROVE  IsFiniteSet(S) /\ Cardinality(S) \in Nat
<1> DEFINE T == ({"ours", "bare"} \X Bases) \X (0..MaxOrdinal)
           f == [t \in T |-> [own |-> t[1][1], base |-> t[1][2], nr |-> t[2]]]
<1>1. IsFiniteSet(T)
  <2>1. IsFiniteSet({"ours"} \cup {"bare"})
    BY FS_Singleton, FS_Union
  <2>2. {"ours"} \cup {"bare"} = {"ours", "bare"}
    OBVIOUS
  <2>3. IsFiniteSet(0..MaxOrdinal)
    BY FS_Interval, DriftAssumption
  <2>4. IsFiniteSet({"ours", "bare"} \X Bases)
    BY <2>1, <2>2, FS_Product, DriftAssumption
  <2> QED BY <2>3, <2>4, FS_Product
<1>2. f \in Surjection(T, Names)
  <2>1. \A t \in T : f[t] \in Names
    BY DEF Names
  <2>2. ASSUME NEW n \in Names PROVE \E t \in T : f[t] = n
    <3>1. <<<<n.own, n.base>>, n.nr>> \in T
      BY DEF Names
    <3>2. f[<<<<n.own, n.base>>, n.nr>>] = n
      BY <3>1 DEF Names
    <3> QED BY <3>1, <3>2
  <2>3. f \in [T -> Names]
    BY <2>1
  <2> HIDE DEF f, T
  <2> QED BY <2>2, <2>3 DEF Surjection
<1>3. IsFiniteSet(Names)
  <2> HIDE DEF f, T
  <2> QED BY <1>1, <1>2, FS_Surjection
<1> QED BY <1>3, FS_Subset, FS_CardinalityType

(* A larger set has no fewer elements, and more with one that is new.      *)
LEMMA MoreNames ==
  ASSUME NEW S, NEW T, S \subseteq T, T \subseteq Names
  PROVE  /\ Cardinality(S) <= Cardinality(T)
         /\ \A n \in T \ S : Cardinality(S) + 1 <= Cardinality(T)
<1>1. /\ IsFiniteSet(S) /\ IsFiniteSet(T)
      /\ Cardinality(S) \in Nat /\ Cardinality(T) \in Nat
  BY NamesFinite
<1>2. Cardinality(S) <= Cardinality(T)
  BY <1>1, FS_Subset
<1>3. ASSUME NEW n \in T \ S PROVE Cardinality(S) + 1 <= Cardinality(T)
  <2>1. S \cup {n} \in SUBSET T
    BY <1>3
  <2>2. Cardinality(S \cup {n}) = Cardinality(S) + 1
    BY <1>1, <1>3, FS_AddElement
  <2> QED BY <1>1, <2>1, <2>2, FS_Subset
<1> QED BY <1>2, <1>3

(* The names of its containers mention a service.                          *)
LEMMA OwnMentions ==
  ASSUME NEW k \in Keys, NEW def \in Service, def.replicas > 1 => k.nr = 0,
         NEW n \in Names, OwnName(n, k, def)
  PROVE  <<n, k>> \in Mentions
<1>1. <<n, KeyOf(n)>> \in Mentions /\ <<n, Plain(n.base)>> \in Mentions
  BY RepairAssumption
<1>2. CASE Alias(n, k, def)
  BY <1>1, <1>2 DEF Alias
<1>3. CASE n \in Expected(k, def) /\ def.replicas = 1
  <2>1. n = [own |-> "ours", base |-> k.base, nr |-> k.nr]
    BY <1>3 DEF Expected
  <2>2. KeyOf(n) = k
    BY <2>1 DEF KeyOf, Keys
  <2> QED BY <1>1, <2>2
<1>4. CASE n \in Expected(k, def) /\ def.replicas # 1
  <2>1. n.base = k.base
    BY <1>4 DEF Expected
  <2>2. k.nr = 0
    BY <1>4, DriftAssumption DEF Service
  <2>3. Plain(n.base) = k
    BY <2>1, <2>2 DEF Plain, Keys
  <2> QED BY <1>1, <2>3
<1> QED BY <1>2, <1>3, <1>4 DEF OwnName

(* No other service is mentioned by what is or will be a container of one  *)
(* that is not astray.                                                     *)
LEMMA SoleService ==
  ASSUME IsSpec(saved), Replicable(saved), NEW k \in DOMAIN saved.svc,
         ~WillStray(k, saved.svc[k]), NEW n \in Names, WillBe(n) \/ n \in Expected(k, saved.svc[k]),
         OwnName(n, k, saved.svc[k])
  PROVE  \A j \in DOMAIN saved.svc : <<n, j>> \in Mentions <=> j = k
<1>1. k \in Keys /\ saved.svc[k] \in Service
  BY SpecService
<1>2. <<n, k>> \in Mentions
  BY <1>1, OwnMentions DEF Replicable
<1>3. n \in Expected(k, saved.svc[k]) \cup Reach(k, saved.svc[k])
  BY DEF Reach
<1> QED BY <1>2, <1>3 DEF WillStray

(* What will settle still will if the names that will be there stay and    *)
(* what is said of each still holds.                                       *)
LEMMA SettleKeeps ==
  ASSUME IsSpec(saved), UNCHANGED <<saved, calm>>, NEW k \in DOMAIN saved.svc,
         WillSettle(k, saved.svc[k], calm), calm \in Nat,
         \A n \in Names : OwnName(n, k, saved.svc[k]) => (WillBe(n)' <=> WillBe(n)),
         ASSUME ~WillStray(k, saved.svc[k]), NEW n \in Reach(k, saved.svc[k])
         PROVE  /\ WillFit(n, saved.svc[k]) => WillFit(n, saved.svc[k])'
                /\ WillTend(n, saved.svc[k]) => WillTend(n, saved.svc[k])'
  PROVE  WillSettle(k, saved.svc[k], calm)'
<1> DEFINE def == saved.svc[k]
<1>0. k \in Keys /\ def \in Service
  BY SpecService
<1>1. Expected(k, def)' = Expected(k, def) /\ def' = def /\ \A n : OwnName(n, k, def)' <=> OwnName(n, k, def)
  BY DEF Expected, OwnName, Alias
<1>2. Reach(k, def)' = Reach(k, def)
  BY <1>1 DEF Reach
<1>3. WillStray(k, def)' <=> WillStray(k, def)
  BY <1>1, <1>2 DEF WillStray
<1>4. Expected(k, def) \subseteq Names
  BY <1>0, ExpectedType
<1>5. \A n \in Names : WillBe(n) <=> n \in There(docker) \cup todo.recreate
  BY DEF WillBe, Present, There
<1>6. \A n \in Names : WillBe(n)' <=> n \in (There(docker) \cup todo.recreate)'
  BY DEF WillBe, Present, There
<1>7. CASE WillStray(k, def)
  BY <1>3, <1>7 DEF WillSettle
<1>8. CASE ~WillStray(k, def) /\ Cardinality({n \in Reach(k, def) : WillTend(n, def)}) >= calm
  <2>1. {n \in Reach(k, def) : WillTend(n, def)} \subseteq {n \in Reach(k, def)' : WillTend(n, def)'}
    BY <1>2, <1>8
  <2>2. {n \in Reach(k, def)' : WillTend(n, def)'} \subseteq Names
    BY <1>2 DEF Reach
  <2>3. Cardinality({n \in Reach(k, def)' : WillTend(n, def)'}) >= calm
    BY <1>8, <2>1, <2>2, MoreNames, NamesFinite
  <2> QED BY <2>3 DEF WillSettle
<1>9. CASE /\ ~WillStray(k, def)
           /\ def.replicas = 1 \/ Expected(k, def) \subseteq There(docker) \cup todo.recreate
           /\ \E n \in Reach(k, def) : WillFit(n, def)
  <2>1. def.replicas = 1 \/ (Expected(k, def) \subseteq There(docker) \cup todo.recreate)'
    <3>1. ASSUME NEW n \in Expected(k, def), n \in There(docker) \cup todo.recreate
          PROVE  n \in (There(docker) \cup todo.recreate)'
      BY <1>4, <1>5, <1>6, <3>1 DEF OwnName
    <3> QED BY <1>1, <1>9, <3>1
  <2>2. \E n \in Reach(k, def)' : WillFit(n, def)'
    BY <1>2, <1>9
  <2> QED BY <1>1, <2>1, <2>2 DEF WillSettle
<1> QED BY <1>7, <1>8, <1>9 DEF WillSettle

-----------------------------------------------------------------------------
(* What the calls change.                                                  *)
LEMMA SetStatusIs ==
  ASSUME docker \in Worlds, NEW n \in Names, Present(n), NEW s \in {"up", "down"}
  PROVE  LET w == SetStatus(n, s)
         IN /\ w.nets = docker.nets /\ w.vols = docker.vols
            /\ \A m \in Names \ {n} : w.conts[m] = docker.conts[m]
            /\ w.conts[n].status = s /\ w.conts[n].image = docker.conts[n].image
            /\ w.conts[n].ports = docker.conts[n].ports
<1>1. docker.conts[n] \in Container
  BY DEF Worlds, Present, Nothing
<1>2. SetStatus(n, s) = [docker EXCEPT !.conts = [docker.conts EXCEPT ![n] = [docker.conts[n] EXCEPT !.status = s]]]
  BY DEF SetStatus, Worlds
<1>3. \A m \in Names : SetStatus(n, s).conts[m] =
         IF m = n THEN [docker.conts[n] EXCEPT !.status = s] ELSE docker.conts[m]
  BY <1>2 DEF Worlds
<1>4. SetStatus(n, s).nets = docker.nets /\ SetStatus(n, s).vols = docker.vols
  BY <1>2 DEF Worlds
<1> QED BY <1>1, <1>3, <1>4 DEF Container

LEMMA CreatedIs ==
  ASSUME docker \in Worlds, NEW n \in Names, NEW def \in Service
  PROVE  /\ \A w \in {Created(n, def), LeftDown(n, def)} :
              /\ w.nets = docker.nets /\ docker.vols \subseteq w.vols
              /\ \A m \in Names \ {n} : w.conts[m] = docker.conts[m]
         /\ Created(n, def).conts[n] = [status |-> "up", image |-> def.image, ports |-> def.ports]
BY DEF Created, LeftDown, Worlds, Service, Container

LEMMA DropIs ==
  ASSUME NEW r \in Reports, NEW x
  PROVE  /\ LET d == [r EXCEPT !["start"] = @ \ {x}]
            IN /\ d.start = r.start \ {x}
               /\ d.stop = r.stop /\ d.recreate = r.recreate /\ d.nets = r.nets /\ d.vols = r.vols
         /\ LET d == [r EXCEPT !["stop"] = @ \ {x}]
            IN /\ d.stop = r.stop \ {x}
               /\ d.start = r.start /\ d.recreate = r.recreate /\ d.nets = r.nets /\ d.vols = r.vols
         /\ LET d == [r EXCEPT !["recreate"] = @ \ {x}]
            IN /\ d.recreate = r.recreate \ {x}
               /\ d.start = r.start /\ d.stop = r.stop /\ d.nets = r.nets /\ d.vols = r.vols
         /\ LET d == [r EXCEPT !["nets"] = @ \ {x}]
            IN /\ d.nets = r.nets \ {x}
               /\ d.start = r.start /\ d.stop = r.stop /\ d.recreate = r.recreate /\ d.vols = r.vols
         /\ LET d == [r EXCEPT !["vols"] = @ \ {x}]
            IN /\ d.vols = r.vols \ {x}
               /\ d.start = r.start /\ d.stop = r.stop /\ d.recreate = r.recreate /\ d.nets = r.nets
         /\ LET d == [r EXCEPT !["imgs"] = @ \ {x}]
            IN /\ d.start = r.start /\ d.stop = r.stop /\ d.recreate = r.recreate
               /\ d.nets = r.nets /\ d.vols = r.vols
BY DEF Reports

(* A step of the actions with which nothing interferes, or after which     *)
(* nothing is counted any more.                                            *)
LEMMA ActConverges ==
  ASSUME IInv, IInv', ConvergeInv, pc = "act", pc' \in {"act", "check"}, UNCHANGED saved,
         todo'.start \subseteq todo.start, todo'.stop \subseteq todo.stop,
         pc' = "check" => NoActions(todo'),
         calm' = Disturbed \/ UNCHANGED calm,
         ASSUME calm # Disturbed, UNCHANGED calm
         PROVE  /\ WillProvide' /\ RecreationInv' /\ docker.nets \subseteq docker'.nets
                /\ calm > 0 => \A k \in DOMAIN saved.svc : WillSettle(k, saved.svc[k], calm)'
  PROVE  ConvergeInv'
<1>1. Canonical(saved') = saved' /\ Replicable(saved)'
  BY DEF ConvergeInv, Replicable
<1>2. PlanInv'
  <2>1. \A n, l : Wanted(n, l)' <=> Wanted(n, l)
    BY DEF Wanted
  <2> QED BY <2>1 DEF ConvergeInv, PlanInv
<1>3. CASE calm' = Disturbed
  BY <1>1, <1>2, <1>3 DEF ConvergeInv, Disturbed
<1>4. CASE calm # Disturbed /\ UNCHANGED calm
  <2>1. saved'.nets \subseteq docker'.nets \/ ~(calm' > 0)
    BY <1>4 DEF ConvergeInv
  <2>2. calm' > 0 => \A k \in DOMAIN saved'.svc : WillSettle(k, saved.svc[k], calm)'
    BY <1>4
  <2> QED BY <1>1, <1>2, <1>4, <2>1, <2>2 DEF ConvergeInv
<1> QED BY <1>3, <1>4

(* A step about one container.                                             *)
LEMMA OneContainer ==
  ASSUME IInv, ConvergeInv, UNCHANGED <<saved, calm>>, pc = "act", calm > 0, calm # Disturbed,
         NEW n \in Names,
         \A m \in Names \ {n} :
           /\ docker'.conts[m] = docker.conts[m]
           /\ m \in todo'.start <=> m \in todo.start
           /\ m \in todo'.stop <=> m \in todo.stop
           /\ m \in todo'.recreate <=> m \in todo.recreate,
         \A k \in DOMAIN saved.svc : OwnName(n, k, saved.svc[k]) => (WillBe(n)' <=> WillBe(n)),
         ASSUME NEW k \in DOMAIN saved.svc, ~WillStray(k, saved.svc[k]), n \in Reach(k, saved.svc[k])
         PROVE  /\ WillFit(n, saved.svc[k]) => WillFit(n, saved.svc[k])'
                /\ WillTend(n, saved.svc[k]) => WillTend(n, saved.svc[k])'
  PROVE  \A k \in DOMAIN saved.svc : WillSettle(k, saved.svc[k], calm)'
<1> SUFFICES ASSUME NEW k \in DOMAIN saved.svc PROVE WillSettle(k, saved.svc[k], calm)'
  OBVIOUS
<1>1. IsSpec(saved) /\ calm \in Nat
  BY RepairAssumption DEF IInv, TypeOK, Calms
<1>2. WillSettle(k, saved.svc[k], calm)
  BY DEF ConvergeInv
<1>3. \A m \in Names : OwnName(m, k, saved.svc[k]) => (WillBe(m)' <=> WillBe(m))
  BY DEF WillBe, Present
<1>4. ASSUME ~WillStray(k, saved.svc[k]), NEW m \in Reach(k, saved.svc[k])
      PROVE  /\ WillFit(m, saved.svc[k]) => WillFit(m, saved.svc[k])'
             /\ WillTend(m, saved.svc[k]) => WillTend(m, saved.svc[k])'
  <2>1. CASE m = n
    BY <1>4, <2>1
  <2>2. CASE m # n
    <3>1. m \in Names
      BY DEF Reach
    <3> QED BY <2>2, <3>1 DEF WillFit, WillTend, PortsFit
  <2> QED BY <2>1, <2>2
<1> QED BY <1>1, <1>2, <1>3, <1>4, SettleKeeps

(* An action that concerns no container.                                   *)
LEMMA NoContainer ==
  ASSUME IInv, ConvergeInv, UNCHANGED <<saved, calm>>, pc = "act", calm > 0, calm # Disturbed,
         docker'.conts = docker.conts, todo'.start = todo.start, todo'.stop = todo.stop,
         todo'.recreate = todo.recreate
  PROVE  \A k \in DOMAIN saved.svc : WillSettle(k, saved.svc[k], calm)'
<1> SUFFICES ASSUME NEW k \in DOMAIN saved.svc PROVE WillSettle(k, saved.svc[k], calm)'
  OBVIOUS
<1>1. IsSpec(saved) /\ calm \in Nat
  BY RepairAssumption DEF IInv, TypeOK, Calms
<1>2. WillSettle(k, saved.svc[k], calm)
  BY DEF ConvergeInv
<1>3. \A m \in Names : WillBe(m)' <=> WillBe(m)
  BY DEF WillBe, Present
<1>4. \A m : /\ WillFit(m, saved.svc[k]) => WillFit(m, saved.svc[k])'
             /\ WillTend(m, saved.svc[k]) => WillTend(m, saved.svc[k])'
  BY DEF WillFit, WillTend, PortsFit
<1> QED BY <1>1, <1>2, <1>3, <1>4, SettleKeeps

-----------------------------------------------------------------------------
(* The actions.  A container that is to be started or stopped belongs to a *)
(* service that is to run or not.                                          *)
LEMMA StartConverges == ASSUME IInv, IInv', ConvergeInv, Switch("start", "up") PROVE ConvergeInv'
<1>1. /\ pc = "act" /\ at = Idle /\ docker \in Worlds /\ todo \in Reports
      /\ UNCHANGED <<pc, saved, at>>
  BY DEF Switch, IInv, TypeOK
<1>2. PICK n \in todo.start :
       /\ \/ /\ Present(n) /\ docker' = SetStatus(n, "up")
             /\ UNCHANGED failed /\ NoFault
          \/ /\ ~Present(n) /\ Note("start", n) /\ UNCHANGED docker /\ NoFault
          \/ /\ Fault /\ Note("start", n)
             /\ docker' \in {docker} \cup {w \in {SetStatus(n, "up")} : Present(n)}
       /\ Drop("start", n)
  BY DEF Switch
<1>3. n \in Names
  BY <1>1 DEF Reports
<1>4. /\ todo'.start = todo.start \ {n} /\ todo'.stop = todo.stop
      /\ todo'.recreate = todo.recreate /\ todo'.nets = todo.nets /\ todo'.vols = todo.vols
  BY <1>1, <1>2, DropIs DEF Drop
<1>5. calm' = Disturbed \/ UNCHANGED calm
  BY <1>2 DEF Fault, NoFault
<1>6. ASSUME calm # Disturbed, UNCHANGED calm
      PROVE  /\ WillProvide' /\ RecreationInv' /\ docker.nets \subseteq docker'.nets
             /\ calm > 0 => \A k \in DOMAIN saved.svc : WillSettle(k, saved.svc[k], calm)'
  <2>1. (Present(n) /\ docker' = SetStatus(n, "up")) \/ (~Present(n) /\ docker' = docker)
    BY <1>2, <1>6 DEF Fault
  <2>2. /\ docker'.nets = docker.nets /\ docker'.vols = docker.vols
        /\ \A m \in Names \ {n} : docker'.conts[m] = docker.conts[m]
        /\ docker'.conts[n].image = docker.conts[n].image /\ docker'.conts[n].ports = docker.conts[n].ports
        /\ Present(n) => docker'.conts[n].status = "up"
        /\ Present(n)' <=> Present(n)
    BY <1>1, <1>3, <2>1, SetStatusIs DEF Present
  <2>3. WillProvide'
    BY <1>1, <1>4, <1>6, <2>2 DEF ConvergeInv, WillProvide
  <2>4. RecreationInv'
    BY <1>1, IdleType DEF RecreationInv
  <2>5. ASSUME calm > 0 PROVE \A k \in DOMAIN saved.svc : WillSettle(k, saved.svc[k], calm)'
    <3>1. ASSUME NEW k \in DOMAIN saved.svc, ~WillStray(k, saved.svc[k]), n \in Reach(k, saved.svc[k])
          PROVE  /\ WillFit(n, saved.svc[k]) => WillFit(n, saved.svc[k])'
                 /\ WillTend(n, saved.svc[k]) => WillTend(n, saved.svc[k])'
      <4>1. WillBe(n) /\ OwnName(n, k, saved.svc[k])
        BY <3>1 DEF Reach
      <4>2. saved.svc[k].lifecycle = "up"
        <5>1. PICK j \in DOMAIN saved.svc : <<n, j>> \in Mentions /\ saved.svc[j].lifecycle = "up"
          BY DEF ConvergeInv, PlanInv, Wanted
        <5>2. j = k
          BY <1>3, <3>1, <4>1, <5>1, SoleService DEF ConvergeInv, IInv, TypeOK
        <5> QED BY <5>1, <5>2
      <4>3. n \in todo.recreate \/ docker'.conts[n].status = "up"
        BY <2>2, <4>1 DEF WillBe
      <4> QED BY <1>1, <1>4, <2>2, <4>2, <4>3 DEF WillFit, WillTend, PortsFit, SameImage
    <3>2. \A k \in DOMAIN saved.svc : OwnName(n, k, saved.svc[k]) => (WillBe(n)' <=> WillBe(n))
      BY <1>4, <2>2 DEF WillBe
    <3>3. \A m \in Names \ {n} :
            /\ docker'.conts[m] = docker.conts[m]
            /\ m \in todo'.start <=> m \in todo.start
            /\ m \in todo'.stop <=> m \in todo.stop
            /\ m \in todo'.recreate <=> m \in todo.recreate
      BY <1>4, <2>2
    <3> QED BY <1>1, <1>3, <1>6, <2>5, <3>1, <3>2, <3>3, OneContainer
  <2> QED BY <2>2, <2>3, <2>4, <2>5
<1> QED BY <1>1, <1>4, <1>5, <1>6, ActConverges

LEMMA StopConverges == ASSUME IInv, IInv', ConvergeInv, Switch("stop", "down") PROVE ConvergeInv'
<1>1. /\ pc = "act" /\ at = Idle /\ docker \in Worlds /\ todo \in Reports
      /\ UNCHANGED <<pc, saved, at>>
  BY DEF Switch, IInv, TypeOK
<1>2. PICK n \in todo.stop :
       /\ \/ /\ Present(n) /\ docker' = SetStatus(n, "down")
             /\ UNCHANGED failed /\ NoFault
          \/ /\ ~Present(n) /\ Note("stop", n) /\ UNCHANGED docker /\ NoFault
          \/ /\ Fault /\ Note("stop", n)
             /\ docker' \in {docker} \cup {w \in {SetStatus(n, "down")} : Present(n)}
       /\ Drop("stop", n)
  BY DEF Switch
<1>3. n \in Names
  BY <1>1 DEF Reports
<1>4. /\ todo'.stop = todo.stop \ {n} /\ todo'.start = todo.start
      /\ todo'.recreate = todo.recreate /\ todo'.nets = todo.nets /\ todo'.vols = todo.vols
  BY <1>1, <1>2, DropIs DEF Drop
<1>5. calm' = Disturbed \/ UNCHANGED calm
  BY <1>2 DEF Fault, NoFault
<1>6. ASSUME calm # Disturbed, UNCHANGED calm
      PROVE  /\ WillProvide' /\ RecreationInv' /\ docker.nets \subseteq docker'.nets
             /\ calm > 0 => \A k \in DOMAIN saved.svc : WillSettle(k, saved.svc[k], calm)'
  <2>1. (Present(n) /\ docker' = SetStatus(n, "down")) \/ (~Present(n) /\ docker' = docker)
    BY <1>2, <1>6 DEF Fault
  <2>2. /\ docker'.nets = docker.nets /\ docker'.vols = docker.vols
        /\ \A m \in Names \ {n} : docker'.conts[m] = docker.conts[m]
        /\ docker'.conts[n].image = docker.conts[n].image /\ docker'.conts[n].ports = docker.conts[n].ports
        /\ Present(n) => docker'.conts[n].status = "down"
        /\ Present(n)' <=> Present(n)
    BY <1>1, <1>3, <2>1, SetStatusIs DEF Present
  <2>3. WillProvide'
    BY <1>1, <1>4, <1>6, <2>2 DEF ConvergeInv, WillProvide
  <2>4. RecreationInv'
    BY <1>1, IdleType DEF RecreationInv
  <2>5. ASSUME calm > 0 PROVE \A k \in DOMAIN saved.svc : WillSettle(k, saved.svc[k], calm)'
    <3>1. ASSUME NEW k \in DOMAIN saved.svc, ~WillStray(k, saved.svc[k]), n \in Reach(k, saved.svc[k])
          PROVE  /\ WillFit(n, saved.svc[k]) => WillFit(n, saved.svc[k])'
                 /\ WillTend(n, saved.svc[k]) => WillTend(n, saved.svc[k])'
      <4>1. WillBe(n) /\ OwnName(n, k, saved.svc[k])
        BY <3>1 DEF Reach
      <4>2. saved.svc[k].lifecycle = "down"
        <5>1. PICK j \in DOMAIN saved.svc : <<n, j>> \in Mentions /\ saved.svc[j].lifecycle = "down"
          BY DEF ConvergeInv, PlanInv, Wanted
        <5>2. j = k
          BY <1>3, <3>1, <4>1, <5>1, SoleService DEF ConvergeInv, IInv, TypeOK
        <5> QED BY <5>1, <5>2
      <4>3. n \in todo.recreate \/ docker'.conts[n].status = "down"
        BY <2>2, <4>1 DEF WillBe
      <4> QED BY <1>1, <1>4, <2>2, <4>2, <4>3 DEF WillFit, WillTend, PortsFit, SameImage
    <3>2. \A k \in DOMAIN saved.svc : OwnName(n, k, saved.svc[k]) => (WillBe(n)' <=> WillBe(n))
      BY <1>4, <2>2 DEF WillBe
    <3>3. \A m \in Names \ {n} :
            /\ docker'.conts[m] = docker.conts[m]
            /\ m \in todo'.start <=> m \in todo.start
            /\ m \in todo'.stop <=> m \in todo.stop
            /\ m \in todo'.recreate <=> m \in todo.recreate
      BY <1>4, <2>2
    <3> QED BY <1>1, <1>3, <1>6, <2>5, <3>1, <3>2, <3>3, OneContainer
  <2> QED BY <2>2, <2>3, <2>4, <2>5
<1> QED BY <1>1, <1>4, <1>5, <1>6, ActConverges

(* An action without service concerns no container of a service.           *)
LEMMA BeginConverges == ASSUME IInv, IInv', ConvergeInv, Begin PROVE ConvergeInv'
<1>1. /\ pc = "act" /\ at = Idle /\ docker \in Worlds /\ todo \in Reports
      /\ UNCHANGED <<pc, saved, docker, calm>>
  BY DEF Begin, IInv, TypeOK, ghosts
<1>2. PICK n \in todo.recreate \ (todo.start \cup todo.stop) :
       LET named == {k \in DOMAIN saved.svc : <<n, k>> \in Mentions}
       IN \/ /\ named = {}
             /\ Note("recreate", n) /\ Drop("recreate", n) /\ UNCHANGED at
          \/ \E k \in named :
               /\ at' = [name |-> {n}, service |-> {k}, step |-> "stop"]
               /\ UNCHANGED <<failed, todo>>
  BY DEF Begin
<1>3. n \in Names
  BY <1>1 DEF Reports
<1>4. CASE {k \in DOMAIN saved.svc : <<n, k>> \in Mentions} = {} /\ Drop("recreate", n) /\ UNCHANGED at
  <2>1. /\ todo'.recreate = todo.recreate \ {n} /\ todo'.start = todo.start /\ todo'.stop = todo.stop
        /\ todo'.nets = todo.nets /\ todo'.vols = todo.vols
    BY <1>1, <1>4, DropIs DEF Drop
  <2>2. RecreationInv'
    BY <1>1, <1>4, IdleType DEF RecreationInv
  <2>3. ASSUME calm # Disturbed PROVE WillProvide'
    BY <1>1, <2>1, <2>3 DEF ConvergeInv, WillProvide
  <2>4. ASSUME calm > 0, calm # Disturbed PROVE \A k \in DOMAIN saved.svc : WillSettle(k, saved.svc[k], calm)'
    <3>1. \A k \in DOMAIN saved.svc : ~OwnName(n, k, saved.svc[k])
      <4> SUFFICES ASSUME NEW k \in DOMAIN saved.svc, OwnName(n, k, saved.svc[k]) PROVE FALSE
        OBVIOUS
      <4>1. k \in Keys /\ saved.svc[k] \in Service /\ Replicable(saved)
        BY SpecService DEF IInv, TypeOK, ConvergeInv
      <4>2. <<n, k>> \in Mentions
        BY <1>3, <4>1, OwnMentions DEF Replicable
      <4> QED BY <1>4, <4>2
    <3>2. \A k \in DOMAIN saved.svc : n \notin Reach(k, saved.svc[k])
      BY <3>1 DEF Reach
    <3> QED BY <1>1, <1>3, <2>1, <2>4, <3>1, <3>2, OneContainer
  <2> QED BY <1>1, <2>1, <2>2, <2>3, <2>4, ActConverges
<1>5. ASSUME NEW k \in DOMAIN saved.svc, <<n, k>> \in Mentions,
             at' = [name |-> {n}, service |-> {k}, step |-> "stop"], UNCHANGED todo
      PROVE  ConvergeInv'
  <2>1. RecreationInv'
    <3>1. at'.name = {n} /\ at'.service = {k} /\ at'.step = "stop"
      BY <1>5
    <3> QED BY <1>5, <3>1 DEF RecreationInv
  <2>2. ASSUME calm # Disturbed PROVE WillProvide'
    BY <1>1, <1>5, <2>2 DEF ConvergeInv, WillProvide
  <2>3. ASSUME calm > 0, calm # Disturbed PROVE \A j \in DOMAIN saved.svc : WillSettle(j, saved.svc[j], calm)'
    BY <1>1, <1>5, <2>3, NoContainer
  <2> QED BY <1>1, <1>5, <2>1, <2>2, <2>3, ActConverges
<1> QED BY <1>2, <1>4, <1>5

(* A step of a recreation.  What is under way is in the plan until the     *)
(* container is as its service wants it.                                   *)
LEMMA RecreationConverges ==
  ASSUME IInv, IInv', ConvergeInv, pc = "act", at.step # "none", UNCHANGED <<pc, saved>>,
         NEW n \in at.name, calm' = Disturbed \/ UNCHANGED calm,
         UNCHANGED todo \/ Drop("recreate", n),
         ASSUME calm # Disturbed, UNCHANGED calm
         PROVE  /\ RecreationInv'
                /\ docker'.nets = docker.nets /\ docker.vols \subseteq docker'.vols
                /\ \A m \in Names \ {n} : docker'.conts[m] = docker.conts[m]
                /\ calm > 0 => \/ UNCHANGED todo
                               \/ \A k \in at.service :
                                    docker'.conts[n] = [status |-> "up", image |-> saved.svc[k].image,
                                                        ports |-> saved.svc[k].ports]
  PROVE  ConvergeInv'
<1>1. /\ todo \in Reports /\ n \in Names /\ at.name = {n} /\ IsSpec(saved) /\ docker' \in Worlds
      /\ at.service \subseteq DOMAIN saved.svc
  BY Current DEF IInv, TypeOK
<1>2. /\ todo'.start = todo.start /\ todo'.stop = todo.stop /\ todo'.nets = todo.nets
      /\ todo'.vols = todo.vols /\ todo'.recreate \in {todo.recreate, todo.recreate \ {n}}
  <2>1. CASE UNCHANGED todo
    BY <2>1
  <2>2. CASE Drop("recreate", n)
    BY <1>1, <2>2, DropIs DEF Drop
  <2> QED BY <2>1, <2>2
<1>3. ASSUME calm # Disturbed, UNCHANGED calm
      PROVE  /\ WillProvide' /\ RecreationInv' /\ docker.nets \subseteq docker'.nets
             /\ calm > 0 => \A k \in DOMAIN saved.svc : WillSettle(k, saved.svc[k], calm)'
  <2>1. /\ RecreationInv'
        /\ docker'.nets = docker.nets /\ docker.vols \subseteq docker'.vols
        /\ \A m \in Names \ {n} : docker'.conts[m] = docker.conts[m]
    BY <1>3
  <2>2. WillProvide'
    <3>1. \A l : Known(l, docker.vols) => Known(l, docker'.vols)
      BY <2>1 DEF Known
    <3> QED BY <1>2, <1>3, <2>1, <3>1 DEF ConvergeInv, WillProvide
  <2>3. RecreationInv
    BY <1>3 DEF ConvergeInv
  <2>4. n \in todo.recreate
    BY <2>3 DEF RecreationInv
  <2>5. ASSUME calm > 0 PROVE \A k \in DOMAIN saved.svc : WillSettle(k, saved.svc[k], calm)'
    <3>1. CASE UNCHANGED todo
      <4>1. WillBe(n)' <=> WillBe(n)
        BY <2>4, <3>1 DEF WillBe
      <4>2. \A k \in DOMAIN saved.svc : /\ WillFit(n, saved.svc[k]) => WillFit(n, saved.svc[k])'
                                        /\ WillTend(n, saved.svc[k]) => WillTend(n, saved.svc[k])'
        BY <2>4, <3>1 DEF WillFit, WillTend
      <4> QED BY <1>1, <1>3, <2>1, <2>5, <3>1, <4>1, <4>2, OneContainer
    <3>2. CASE \A k \in at.service :
                 docker'.conts[n] = [status |-> "up", image |-> saved.svc[k].image,
                                     ports |-> saved.svc[k].ports]
      <4>1. PICK j \in at.service : <<n, j>> \in Mentions
        BY <2>3 DEF RecreationInv
      <4>2. docker'.conts[n] = [status |-> "up", image |-> saved.svc[j].image, ports |-> saved.svc[j].ports]
        BY <3>2
      <4>3. WillBe(n)' /\ WillBe(n)
        BY <2>4, <4>2 DEF WillBe, Present
      <4>4. ASSUME NEW k \in DOMAIN saved.svc, ~WillStray(k, saved.svc[k]), n \in Reach(k, saved.svc[k])
            PROVE  /\ WillFit(n, saved.svc[k]) => WillFit(n, saved.svc[k])'
                   /\ WillTend(n, saved.svc[k]) => WillTend(n, saved.svc[k])'
        <5>1. j = k
          <6>1. OwnName(n, k, saved.svc[k])
            BY <4>4 DEF Reach
          <6> QED BY <1>1, <4>1, <4>3, <4>4, <6>1, SoleService DEF ConvergeInv
        <5>2. saved.svc[k] \in Service
          BY <1>1, SpecService
        <5>3. WillTend(n, saved.svc[k])'
          BY <4>2, <5>1, <5>2, DriftAssumption DEF WillTend, SameImage, Service
        <5>4. saved.svc[k].lifecycle = "up" => WillFit(n, saved.svc[k])'
          BY <4>2, <5>1, <5>2, DriftAssumption DEF WillFit, PortsFit, SameImage, Service
        <5>5. saved.svc[k].lifecycle # "up" => ~WillFit(n, saved.svc[k])
          BY <2>4 DEF WillFit
        <5> QED BY <5>3, <5>4, <5>5
      <4>5. \A m \in Names \ {n} :
              /\ docker'.conts[m] = docker.conts[m]
              /\ m \in todo'.start <=> m \in todo.start
              /\ m \in todo'.stop <=> m \in todo.stop
              /\ m \in todo'.recreate <=> m \in todo.recreate
        BY <1>2, <2>1
      <4> QED BY <1>1, <1>3, <2>5, <4>3, <4>4, <4>5, OneContainer
    <3> QED BY <1>3, <2>5, <3>1, <3>2
  <2> QED BY <2>1, <2>2, <2>5
<1> QED BY <1>2, <1>3, ActConverges

LEMMA StopOldConverges == ASSUME IInv, IInv', ConvergeInv, StopOld PROVE ConvergeInv'
<1>1. /\ pc = "act" /\ at.step = "stop" /\ UNCHANGED <<pc, saved>>
  BY DEF StopOld
<1>2. PICK n \in at.name :
       \/ /\ docker' = IF Present(n) THEN SetStatus(n, "down") ELSE docker
          /\ Go("remove") /\ NoFault
       \/ /\ Fault /\ Abort(n)
          /\ docker' \in {docker} \cup {w \in {SetStatus(n, "down")} : Present(n)}
  BY DEF StopOld
<1>3. docker \in Worlds /\ n \in Names /\ at \in Recreations /\ at.name = {n}
  BY <1>1, <1>2, Current
<1>4. calm' = Disturbed \/ UNCHANGED calm
  BY <1>2 DEF Fault, NoFault
<1>5. UNCHANGED todo \/ Drop("recreate", n)
  BY <1>2 DEF Go, Abort
<1>6. ASSUME calm # Disturbed, UNCHANGED calm
      PROVE  /\ RecreationInv' /\ UNCHANGED todo
             /\ docker'.nets = docker.nets /\ docker.vols \subseteq docker'.vols
             /\ \A m \in Names \ {n} : docker'.conts[m] = docker.conts[m]
  <2>1. docker' = (IF Present(n) THEN SetStatus(n, "down") ELSE docker) /\ Go("remove")
    BY <1>2, <1>6 DEF Fault
  <2>2. at'.step = "remove" /\ at'.name = at.name /\ at'.service = at.service /\ UNCHANGED todo
    BY <1>3, <2>1, GoType
  <2>3. RecreationInv
    BY <1>1, <1>6 DEF ConvergeInv
  <2>4. RecreationInv'
    BY <1>1, <2>2, <2>3 DEF RecreationInv
  <2> QED BY <1>3, <2>1, <2>2, <2>4, SetStatusIs
<1> QED BY <1>1, <1>4, <1>5, <1>6, RecreationConverges

LEMMA RemoveOldConverges == ASSUME IInv, IInv', ConvergeInv, RemoveOld PROVE ConvergeInv'
<1>1. /\ pc = "act" /\ at.step = "remove" /\ UNCHANGED <<pc, saved>>
  BY DEF RemoveOld
<1>2. PICK n \in at.name :
       \/ docker' = Without(n) /\ Go("create") /\ NoFault
       \/ Fault /\ Abort(n) /\ docker' \in {docker, Without(n)}
  BY DEF RemoveOld
<1>3. docker \in Worlds /\ n \in Names /\ at \in Recreations /\ at.name = {n}
  BY <1>1, <1>2, Current
<1>4. calm' = Disturbed \/ UNCHANGED calm
  BY <1>2 DEF Fault, NoFault
<1>5. UNCHANGED todo \/ Drop("recreate", n)
  BY <1>2 DEF Go, Abort
<1>6. ASSUME calm # Disturbed, UNCHANGED calm
      PROVE  /\ RecreationInv' /\ UNCHANGED todo
             /\ docker'.nets = docker.nets /\ docker.vols \subseteq docker'.vols
             /\ \A m \in Names \ {n} : docker'.conts[m] = docker.conts[m]
  <2>1. docker' = Without(n) /\ Go("create")
    BY <1>2, <1>6 DEF Fault
  <2>2. at'.step = "create" /\ at'.name = at.name /\ at'.service = at.service /\ UNCHANGED todo
    BY <1>3, <2>1, GoType
  <2>3. /\ docker'.nets = docker.nets /\ docker'.vols = docker.vols
        /\ \A m \in Names \ {n} : docker'.conts[m] = docker.conts[m]
        /\ docker'.conts[n] = Nothing
    BY <1>3, <2>1 DEF Without, Worlds
  <2>4. RecreationInv
    BY <1>1, <1>6 DEF ConvergeInv
  <2>5. RecreationInv'
    <3>1. ~Present(n)'
      BY <2>3 DEF Present, Nothing
    <3> QED BY <1>1, <1>3, <2>2, <2>4, <3>1 DEF RecreationInv
  <2> QED BY <2>2, <2>3, <2>5
<1> QED BY <1>1, <1>4, <1>5, <1>6, RecreationConverges

(* With its network there a removed container can be created.              *)
LEMMA CreateConverges == ASSUME IInv, IInv', ConvergeInv, Create PROVE ConvergeInv'
<1>1. /\ pc = "act" /\ at.step = "create" /\ UNCHANGED <<pc, saved>>
  BY DEF Create
<1>2. PICK n \in at.name, k \in at.service :
       LET def == saved.svc[k]
       IN \/ /\ MayCreate(n) /\ docker' = Created(n, def)
             /\ Go("start") /\ NoFault
          \/ /\ MayRefuse(n) /\ Abort(n) /\ NoFault
             /\ docker' \in {docker} \cup {w \in {LeftDown(n, def)} : ~Present(n)}
          \/ /\ Fault /\ Abort(n)
             /\ docker' \in {docker} \cup {w \in {Created(n, def), LeftDown(n, def)} : MayCreate(n)}
  BY DEF Create
<1>3. /\ docker \in Worlds /\ n \in Names /\ at \in Recreations /\ at.name = {n}
      /\ saved.svc[k] \in Service
  BY <1>1, <1>2, Current
<1>4. calm' = Disturbed \/ UNCHANGED calm
  BY <1>2 DEF Fault, NoFault
<1>5. UNCHANGED todo \/ Drop("recreate", n)
  BY <1>2 DEF Go, Abort
<1>6. ASSUME calm # Disturbed, UNCHANGED calm
      PROVE  /\ RecreationInv'
             /\ docker'.nets = docker.nets /\ docker.vols \subseteq docker'.vols
             /\ \A m \in Names \ {n} : docker'.conts[m] = docker.conts[m]
             /\ calm > 0 => UNCHANGED todo
  <2>1. \/ MayCreate(n) /\ docker' = Created(n, saved.svc[k]) /\ Go("start")
        \/ MayRefuse(n) /\ Abort(n) /\ docker' \in {docker, LeftDown(n, saved.svc[k])}
    BY <1>2, <1>6 DEF Fault
  <2>2. RecreationInv
    BY <1>1, <1>6 DEF ConvergeInv
  <2>3. /\ docker'.nets = docker.nets /\ docker.vols \subseteq docker'.vols
        /\ \A m \in Names \ {n} : docker'.conts[m] = docker.conts[m]
    <3>1. \A w \in {Created(n, saved.svc[k]), LeftDown(n, saved.svc[k])} :
              /\ w.nets = docker.nets /\ docker.vols \subseteq w.vols
              /\ \A m \in Names \ {n} : w.conts[m] = docker.conts[m]
      BY <1>3, CreatedIs
    <3>2. docker' \in {docker, Created(n, saved.svc[k]), LeftDown(n, saved.svc[k])}
      BY <2>1
    <3> QED BY <3>1, <3>2
  <2>4. RecreationInv'
    <3>1. CASE Abort(n)
      <4>1. at' = Idle
        BY <3>1 DEF Abort
      <4> QED BY <4>1, IdleType DEF RecreationInv
    <3>2. CASE docker' = Created(n, saved.svc[k]) /\ Go("start")
      <4>1. at'.step = "start" /\ at'.name = at.name /\ at'.service = at.service /\ UNCHANGED todo
        BY <1>3, <3>2, GoType
      <4>2. docker'.conts[n] = [status |-> "up", image |-> saved.svc[k].image, ports |-> saved.svc[k].ports]
        BY <1>3, <3>2, CreatedIs
      <4>3. \A j \in at.service : j = k
        BY <2>2 DEF RecreationInv
      <4> QED BY <1>1, <1>3, <2>2, <4>1, <4>2, <4>3 DEF RecreationInv, Present
    <3> QED BY <2>1, <3>1, <3>2
  <2>5. ASSUME calm > 0 PROVE UNCHANGED todo
    <3>1. ~Present(n)
      BY <1>1, <2>2 DEF RecreationInv
    <3>2. saved.nets \subseteq docker.nets
      BY <1>1, <1>6, <2>5 DEF ConvergeInv
    <3>3. ~MayRefuse(n)
      BY <3>1, <3>2 DEF MayRefuse
    <3> QED BY <2>1, <3>3 DEF Go
  <2> QED BY <2>3, <2>4, <2>5
<1> QED BY <1>1, <1>4, <1>5, <1>6, RecreationConverges

LEMMA StartNewConverges == ASSUME IInv, IInv', ConvergeInv, StartNew PROVE ConvergeInv'
<1>1. /\ pc = "act" /\ at.step = "start" /\ UNCHANGED <<pc, saved>>
  BY DEF StartNew
<1>2. PICK n \in at.name :
       \/ /\ Present(n) /\ docker' = SetStatus(n, "up")
          /\ Drop("recreate", n) /\ at' = Idle /\ UNCHANGED failed /\ NoFault
       \/ /\ ~Present(n) /\ Abort(n) /\ UNCHANGED docker /\ NoFault
       \/ /\ Fault /\ Abort(n)
          /\ docker' \in {docker} \cup {w \in {SetStatus(n, "up")} : Present(n)}
  BY DEF StartNew
<1>3. docker \in Worlds /\ docker' \in Worlds /\ n \in Names
  BY <1>1, <1>2, Current DEF IInv, TypeOK
<1>4. calm' = Disturbed \/ UNCHANGED calm
  BY <1>2 DEF Fault, NoFault
<1>5. Drop("recreate", n) /\ at' = Idle
  BY <1>2 DEF Abort
<1>6. ASSUME calm # Disturbed, UNCHANGED calm
      PROVE  /\ docker'.nets = docker.nets /\ docker.vols \subseteq docker'.vols
             /\ \A m \in Names \ {n} : docker'.conts[m] = docker.conts[m]
             /\ \A k \in at.service :
                  docker'.conts[n] = [status |-> "up", image |-> saved.svc[k].image,
                                      ports |-> saved.svc[k].ports]
  <2>1. RecreationInv
    BY <1>1, <1>6 DEF ConvergeInv
  <2>2. /\ Present(n)
        /\ \A k \in at.service : /\ docker.conts[n].image = saved.svc[k].image
                                 /\ docker.conts[n].ports = saved.svc[k].ports
    BY <1>1, <2>1 DEF RecreationInv
  <2>3. docker' = SetStatus(n, "up")
    BY <1>2, <1>6, <2>2 DEF Fault
  <2>4. /\ docker'.nets = docker.nets /\ docker.vols \subseteq docker'.vols
        /\ \A m \in Names \ {n} : docker'.conts[m] = docker.conts[m]
        /\ docker'.conts[n].status = "up" /\ docker'.conts[n].image = docker.conts[n].image
        /\ docker'.conts[n].ports = docker.conts[n].ports
    BY <1>3, <2>2, <2>3, SetStatusIs
  <2>5. docker'.conts[n] \in Container
    BY <1>3, <2>4 DEF Worlds, Nothing
  <2> QED BY <2>2, <2>4, <2>5 DEF Container
<1>7. RecreationInv'
  BY <1>5, IdleType DEF RecreationInv
<1> QED BY <1>1, <1>4, <1>5, <1>6, <1>7, RecreationConverges

(* Networks, volumes and images are no less in the end.                    *)
LEMMA ProvideConverges ==
  ASSUME IInv, IInv', ConvergeInv, NEW class \in {"nets", "vols", "imgs"}, Provide(class, class)
  PROVE  ConvergeInv'
<1>1. /\ pc = "act" /\ at = Idle /\ docker \in Worlds /\ todo \in Reports
      /\ UNCHANGED <<pc, saved, at>>
  BY DEF Provide, IInv, TypeOK
<1>2. PICK x \in todo[class] :
       LET w == [docker EXCEPT ![class] = @ \cup {x}]
       IN /\ \/ /\ class = "nets" => x \notin docker.nets
                /\ docker' = w /\ UNCHANGED failed /\ NoFault
             \/ /\ class = "nets" /\ x \in docker.nets
                /\ Note(class, x) /\ UNCHANGED docker /\ NoFault
             \/ Fault /\ Note(class, x) /\ docker' \in {docker, w}
          /\ Drop(class, x)
  BY DEF Provide
<1>3. /\ todo'.start = todo.start /\ todo'.stop = todo.stop /\ todo'.recreate = todo.recreate
      /\ todo'.nets = IF class = "nets" THEN todo.nets \ {x} ELSE todo.nets
      /\ todo'.vols = IF class = "vols" THEN todo.vols \ {x} ELSE todo.vols
  <2>1. todo' = [todo EXCEPT ![class] = @ \ {x}]
    BY <1>2 DEF Drop
  <2>2. CASE class = "nets"
    BY <1>1, <2>1, <2>2, DropIs
  <2>3. CASE class = "vols"
    BY <1>1, <2>1, <2>3, DropIs
  <2>4. CASE class = "imgs"
    BY <1>1, <2>1, <2>4, DropIs
  <2> QED BY <2>2, <2>3, <2>4
<1>4. calm' = Disturbed \/ UNCHANGED calm
  BY <1>2 DEF Fault, NoFault
<1>5. ASSUME calm # Disturbed, UNCHANGED calm
      PROVE  /\ WillProvide' /\ RecreationInv' /\ docker.nets \subseteq docker'.nets
             /\ calm > 0 => \A k \in DOMAIN saved.svc : WillSettle(k, saved.svc[k], calm)'
  <2>1. docker' = [docker EXCEPT ![class] = @ \cup {x}] \/ (class = "nets" /\ x \in docker.nets /\ docker' = docker)
    BY <1>2, <1>5 DEF Fault
  <2>2. /\ docker'.conts = docker.conts
        /\ docker.nets \subseteq docker'.nets /\ docker.vols \subseteq docker'.vols
        /\ class = "nets" => x \in docker'.nets
        /\ class = "vols" => x \in docker'.vols
    <3>1. CASE class = "nets" /\ x \in docker.nets /\ docker' = docker
      BY <3>1
    <3>2. CASE docker' = [docker EXCEPT ![class] = @ \cup {x}]
      <4>1. CASE class = "nets"
        BY <1>1, <3>2, <4>1 DEF Worlds
      <4>2. CASE class = "vols"
        BY <1>1, <3>2, <4>2 DEF Worlds
      <4>3. CASE class = "imgs"
        BY <1>1, <3>2, <4>3 DEF Worlds
      <4> QED BY <4>1, <4>2, <4>3
    <3> QED BY <2>1, <3>1, <3>2
  <2>3. WillProvide
    BY <1>1, <1>5 DEF ConvergeInv
  <2>4. WillProvide'
    <3>1. ASSUME NEW l \in saved.nets PROVE Known(l, docker'.nets) \/ l \in todo'.nets
      BY <1>3, <2>2, <2>3 DEF WillProvide, Known
    <3>2. ASSUME NEW k \in DOMAIN saved.svc, NEW l \in saved.svc[k].mounts
          PROVE  Known(l, docker'.vols) \/ l \in todo'.vols
      BY <1>3, <2>2, <2>3 DEF WillProvide, Known
    <3> QED BY <1>1, <3>1, <3>2 DEF WillProvide
  <2>5. RecreationInv'
    BY <1>1, IdleType DEF RecreationInv
  <2>6. ASSUME calm > 0 PROVE \A k \in DOMAIN saved.svc : WillSettle(k, saved.svc[k], calm)'
    BY <1>1, <1>3, <1>5, <2>2, <2>6, NoContainer
  <2> QED BY <2>2, <2>4, <2>5, <2>6
<1> QED BY <1>1, <1>3, <1>4, <1>5, ActConverges

LEMMA TriedConverges == ASSUME IInv, IInv', ConvergeInv, Tried PROVE ConvergeInv'
<1>1. /\ pc = "act" /\ at = Idle /\ NoActions(todo) /\ pc' = "check"
      /\ UNCHANGED <<docker, saved, todo, at, calm>>
  BY DEF Tried, ghosts
<1>2. ASSUME calm # Disturbed
      PROVE  /\ WillProvide' /\ RecreationInv'
             /\ calm > 0 => \A k \in DOMAIN saved.svc : WillSettle(k, saved.svc[k], calm)'
  <2>1. WillProvide'
    BY <1>1, <1>2 DEF ConvergeInv, WillProvide
  <2>2. RecreationInv'
    BY <1>1, IdleType DEF RecreationInv
  <2>3. ASSUME calm > 0 PROVE \A k \in DOMAIN saved.svc : WillSettle(k, saved.svc[k], calm)'
    BY <1>1, <1>2, <2>3, NoContainer
  <2> QED BY <2>1, <2>2, <2>3
<1> QED BY <1>1, <1>2, ActConverges

(* The end of a command.                                                   *)
LEMMA EndConverges ==
  ASSUME ConvergeInv, NEW result, End(result), Canonical(saved') = saved', Replicable(saved)',
         calm' # Disturbed /\ calm' > 0 =>
           Provided(docker)' /\ \A k \in DOMAIN saved'.svc : Settled(k, saved.svc[k], calm)'
  PROVE  ConvergeInv'
<1>1. pc' = "idle" /\ todo' = NoReport
  BY DEF End
<1>2. PlanInv'
  BY <1>1 DEF PlanInv, NoReport, NoActions
<1> QED BY <1>1, <1>2 DEF ConvergeInv, Disturbed

LEMMA StillThere ==
  ASSUME UNCHANGED <<docker, saved>>
  PROVE  /\ Provided(docker) => Provided(docker)'
         /\ \A k \in DOMAIN saved.svc : Settled(k, saved.svc[k], calm') => Settled(k, saved.svc[k], calm)'
BY DEF Provided, Settled, Good, Astray, TendedOf, Matching, Expected, Alias, There, Differs, SameImage, Tended

LEMMA RejectConverges == ASSUME ConvergeInv, Reject PROVE ConvergeInv'
<1>1. pc = "ask" /\ End("rejected") /\ UNCHANGED <<docker, saved, calm>>
  BY DEF Reject, ghosts
<1>2. calm # Disturbed /\ calm > 0 =>
        Provided(docker) /\ \A k \in DOMAIN saved.svc : Settled(k, saved.svc[k], calm)
  BY <1>1 DEF ConvergeInv
<1>3. calm' # Disturbed /\ calm' > 0 =>
        Provided(docker)' /\ \A k \in DOMAIN saved'.svc : Settled(k, saved.svc[k], calm)'
  BY <1>1, <1>2, StillThere
<1> QED BY <1>1, <1>3, EndConverges DEF ConvergeInv, Replicable

LEMMA DieConverges == ASSUME ConvergeInv, Die PROVE ConvergeInv'
<1>1. End("died") /\ UNCHANGED saved /\ calm' = Disturbed
  BY DEF Die
<1> QED BY <1>1, EndConverges DEF ConvergeInv, Replicable

LEMMA AcceptConverges == ASSUME ConvergeInv, Accept PROVE ConvergeInv'
<1>1. pc = "ask" /\ UNCHANGED <<docker, saved>>
  BY DEF Accept
<1>2. CASE End("nothing") /\ NoFault
  <2>1. calm # Disturbed /\ calm > 0 =>
          Provided(docker) /\ \A k \in DOMAIN saved.svc : Settled(k, saved.svc[k], calm)
    BY <1>1 DEF ConvergeInv
  <2>2. calm' # Disturbed /\ calm' > 0 =>
          Provided(docker)' /\ \A k \in DOMAIN saved'.svc : Settled(k, saved.svc[k], calm)'
    BY <1>1, <1>2, <2>1, StillThere DEF NoFault
  <2> QED BY <1>1, <1>2, <2>2, EndConverges DEF ConvergeInv, Replicable
<1>3. CASE pc' = "act" /\ UNCHANGED <<todo, at>> /\ NoFault
  <2>0. pc = "ask" /\ pc' = "act" /\ UNCHANGED <<docker, saved, calm, todo, at>>
    BY <1>1, <1>3 DEF NoFault
  <2>1. Replicable(saved)' /\ Canonical(saved') = saved'
    BY <2>0 DEF ConvergeInv, Replicable
  <2>2. PlanInv'
    <3>1. \A n, l : Wanted(n, l)' <=> Wanted(n, l)
      BY <2>0 DEF Wanted
    <3> QED BY <2>0, <3>1 DEF ConvergeInv, PlanInv
  <2>3. ASSUME calm # Disturbed PROVE WillProvide' /\ RecreationInv'
    <3>1. WillProvide /\ RecreationInv
      BY <2>0, <2>3 DEF ConvergeInv
    <3>2. WillProvide'
      BY <2>0, <3>1 DEF WillProvide
    <3>3. RecreationInv'
      BY <2>0, <3>1 DEF RecreationInv, Present
    <3> QED BY <3>2, <3>3
  <2>4. ASSUME calm # Disturbed, calm > 0
        PROVE  saved'.nets \subseteq docker'.nets
               /\ \A k \in DOMAIN saved'.svc : WillSettle(k, saved.svc[k], calm)'
    <3>1. \A k \in DOMAIN saved.svc : WillSettle(k, saved.svc[k], calm)
      BY <2>0, <2>4 DEF ConvergeInv
    <3>2. \A k \in DOMAIN saved'.svc : WillSettle(k, saved.svc[k], calm)'
      <4> SUFFICES ASSUME NEW k \in DOMAIN saved.svc PROVE WillSettle(k, saved.svc[k], calm)'
        BY <2>0
      <4> DEFINE def == saved.svc[k]
      <4>1. /\ \A n : WillFit(n, def)' <=> WillFit(n, def)
            /\ \A n : WillTend(n, def)' <=> WillTend(n, def)
        BY <2>0 DEF WillFit, PortsFit, WillTend, SameImage
      <4>2. Reach(k, def)' = Reach(k, def) /\ Expected(k, def)' = Expected(k, def)
        BY <2>0 DEF Reach, WillBe, Present, OwnName, Alias, Expected
      <4>3. WillStray(k, def)' <=> WillStray(k, def)
        BY <2>0, <4>2 DEF WillStray
      <4>4. There(docker)' = There(docker) /\ def' = def
        BY <2>0 DEF There
      <4>5. {n \in Reach(k, def)' : WillTend(n, def)'} = {n \in Reach(k, def) : WillTend(n, def)}
        BY <4>1, <4>2
      <4>6. WillSettle(k, def, calm)
        BY <3>1
      <4> QED BY <2>0, <4>1, <4>2, <4>3, <4>4, <4>5, <4>6 DEF WillSettle
    <3> QED BY <2>0, <2>4, <3>2 DEF ConvergeInv
  <2> QED BY <2>0, <2>1, <2>2, <2>3, <2>4 DEF ConvergeInv
<1>4. CASE Fault /\ End("error")
  BY <1>1, <1>4, EndConverges DEF Fault, ConvergeInv, Replicable
<1> QED BY <1>2, <1>3, <1>4 DEF Accept

LEMMA OutsideConverges == ASSUME ConvergeInv, Outside PROVE ConvergeInv'
<1>1. calm' = Disturbed /\ UNCHANGED <<pc, saved, todo>>
  BY DEF Outside
<1>2. PlanInv'
  <2>1. \A n, l : Wanted(n, l)' <=> Wanted(n, l)
    BY <1>1 DEF Wanted
  <2> QED BY <1>1, <2>1 DEF ConvergeInv, PlanInv
<1> QED BY <1>1, <1>2 DEF ConvergeInv, Replicable, Disturbed

(* When the plan is empty, what was to be is.                              *)
LEMMA CheckConverges == ASSUME IInv, ConvergeInv, Check PROVE ConvergeInv'
<1>1. /\ pc = "check" /\ UNCHANGED <<docker, saved>> /\ NoActions(todo) /\ calm \in Calms /\ MaxCalm \in Nat
      /\ Canonical(saved) = saved /\ Replicable(saved) /\ docker \in Worlds /\ IsSpec(saved)
  BY RepairAssumption DEF Check, ConvergeInv, PlanInv, IInv, TypeOK
<1>2. CASE Fault /\ End("error")
  BY <1>1, <1>2, EndConverges DEF Fault, Replicable
<1>3. ASSUME NEW result, End(result), calm' = Calmer(calm) PROVE ConvergeInv'
  <2>1. ASSUME calm' # Disturbed, calm' > 0
        PROVE  Provided(docker)' /\ \A k \in DOMAIN saved'.svc : Settled(k, saved.svc[k], calm)'
    <3>0. calm # Disturbed
      BY <1>1, <1>3, <2>1 DEF Calms, Calmer, Disturbed
    <3>1. calm \in Nat /\ calm' \in Nat /\ calm' <= calm + 1
      BY <1>1, <1>3, <2>1 DEF Calms, Calmer, Disturbed
    <3> DEFINE c == calm'
    <3>5. calm \in Nat /\ c \in Nat /\ c <= calm + 1
      BY <3>1
    <3> HIDE DEF c
    <3>2. WillProvide
      BY <1>1, <3>0 DEF ConvergeInv
    <3>3. Provided(docker)
      BY <1>1, <3>2 DEF WillProvide, Provided, NoActions
    <3>4. ASSUME NEW k \in DOMAIN saved.svc PROVE Settled(k, saved.svc[k], c)
      <4> DEFINE def == saved.svc[k]
      <4>1. def \in Service
        BY <1>1, SpecService
      <4>2. TendedOf(k, def) \subseteq Names
        BY DEF TendedOf, Matching, There
      <4>3. Cardinality(TendedOf(k, def)) \in Nat
        BY <4>2, NamesFinite
      <4>4. CASE calm = 0
        <5> HIDE DEF def
        <5>1. Cardinality(TendedOf(k, def)) >= c - 1
          BY <3>5, <4>3, <4>4
        <5> QED BY <5>1 DEF Settled, def
      <4>5. CASE calm > 0
        <5>1. WillSettle(k, def, calm)
          BY <1>1, <3>0, <4>5 DEF ConvergeInv
        <5>2. Reach(k, def) = Matching(k, def, docker)
          BY <1>1 DEF Reach, Matching, WillBe, Present, There, OwnName, NoActions
        <5>3. ASSUME WillStray(k, def) PROVE Astray(k, def)
          BY <5>2, <5>3 DEF WillStray, Astray
        <5>4. ASSUME NEW n \in Reach(k, def), WillFit(n, def)
              PROVE  docker.conts[n].status = def.lifecycle /\ ~Differs(def, docker.conts[n])
          BY <1>1, <4>1, <5>4 DEF WillFit, NoActions, Differs, PortsFit
        <5>5. \A n \in Reach(k, def) : WillTend(n, def) => Tended(def, docker.conts[n])
          BY <1>1, <4>1 DEF WillTend, Tended, NoActions, Service
        <5>6. {n \in Reach(k, def) : WillTend(n, def)} \subseteq TendedOf(k, def)
          BY <5>2, <5>5 DEF TendedOf
        <5>7. Cardinality({n \in Reach(k, def) : WillTend(n, def)}) <= Cardinality(TendedOf(k, def))
          BY <4>2, <5>6, MoreNames
        <5>8. Cardinality({n \in Reach(k, def) : WillTend(n, def)}) \in Nat
          BY <4>2, <5>6, NamesFinite
        <5>9. CASE Cardinality({n \in Reach(k, def) : WillTend(n, def)}) >= calm
          <6> HIDE DEF def
          <6>1. Cardinality(TendedOf(k, def)) >= c - 1
            BY <3>5, <4>3, <5>7, <5>8, <5>9
          <6> QED BY <6>1 DEF Settled, def
        <5>10. CASE /\ def.replicas = 1 \/ Expected(k, def) \subseteq There(docker) \cup todo.recreate
                    /\ \E n \in Reach(k, def) : WillFit(n, def)
          <6>1. def.replicas = 1 \/ Expected(k, def) \subseteq There(docker)
            BY <1>1, <5>10 DEF NoActions
          <6>2. \E n \in Matching(k, def, docker) :
                  docker.conts[n].status = def.lifecycle /\ ~Differs(def, docker.conts[n])
            BY <5>2, <5>4, <5>10
          <6> QED BY <6>1, <6>2 DEF Settled, Good
        <5> QED BY <5>1, <5>3, <5>9, <5>10 DEF WillSettle, Settled
      <4> QED BY <3>5, <4>4, <4>5
    <3> QED BY <1>1, <3>3, <3>4, StillThere DEF c
  <2> QED BY <1>1, <1>3, <2>1, EndConverges DEF Replicable
<1> QED BY <1>2, <1>3 DEF Check

LEMMA CanonicalTwice ==
  ASSUME NEW spec, IsSpec(spec)
  PROVE  Canonical(Canonical(spec)) = Canonical(spec)
<1> DEFINE new == Canonical(spec)
<1>1. \A l \in Labels(Networks) \cup Labels(Volumes) : Prefixed(Prefixed(l)) = Prefixed(l)
  BY DEF Prefixed, Labels
<1>2. \A S : S \subseteq Labels(Networks) \cup Labels(Volumes) =>
         {Prefixed(l) : l \in {Prefixed(m) : m \in S}} = {Prefixed(l) : l \in S}
  BY <1>1
<1>3. /\ new.nets = {Prefixed(l) : l \in spec.nets} /\ new.vols = {Prefixed(l) : l \in spec.vols}
      /\ new.svc = [k \in DOMAIN spec.svc |-> [spec.svc[k] EXCEPT !.mounts = {Prefixed(l) : l \in @}]]
  BY DEF Canonical
<1>4. spec.nets \subseteq Labels(Networks) /\ spec.vols \subseteq Labels(Volumes)
  BY DEF IsSpec
<1>5. {Prefixed(l) : l \in new.nets} = new.nets /\ {Prefixed(l) : l \in new.vols} = new.vols
  BY <1>2, <1>3, <1>4
<1>6. \A s \in Service : LET t == [s EXCEPT !.mounts = {Prefixed(l) : l \in @}]
                         IN [t EXCEPT !.mounts = {Prefixed(l) : l \in @}] = t
  <2> SUFFICES ASSUME NEW s \in Service,
                      NEW t, t = [s EXCEPT !.mounts = {Prefixed(l) : l \in @}]
               PROVE  [t EXCEPT !.mounts = {Prefixed(l) : l \in @}] = t
    OBVIOUS
  <2>1. t = [image |-> s.image, replicas |-> s.replicas, lifecycle |-> s.lifecycle, ports |-> s.ports,
             mounts |-> {Prefixed(l) : l \in s.mounts}]
    BY DEF Service
  <2>2. {Prefixed(l) : l \in t.mounts} = t.mounts
    BY <1>2, <2>1 DEF Service
  <2> QED BY <2>1, <2>2
<1>7. \A k \in DOMAIN new.svc : [new.svc[k] EXCEPT !.mounts = {Prefixed(l) : l \in @}] = new.svc[k]
  BY <1>3, <1>6, SpecService
<1>8. [k \in DOMAIN new.svc |-> [new.svc[k] EXCEPT !.mounts = {Prefixed(l) : l \in @}]] = new.svc
  BY <1>3, <1>7
<1>9. new = [svc |-> new.svc, nets |-> new.nets, vols |-> new.vols]
  BY DEF Canonical
<1> HIDE DEF new
<1>10. Canonical(new) = new
  BY <1>5, <1>8, <1>9 DEF Canonical
<1> QED BY <1>10 DEF new

(* Replicas are derived for services without number only.                  *)
LEMMA DerivedReplicable ==
  ASSUME NEW spec, IsSpec(spec), NEW w \in Worlds, NEW pick \in Picks(spec, w)
  PROVE  Replicable(Canonical(Derived(spec, w, pick)))
<1> DEFINE new == Canonical(Derived(spec, w, pick))
<1>1. /\ DOMAIN new.svc = DOMAIN pick
      /\ \A k \in DOMAIN pick : new.svc[k].replicas = DerivedService(spec, w, k, pick[k]).replicas
  BY SyncedServices
<1> HIDE DEF new
<1>2. ASSUME NEW k \in DOMAIN pick, new.svc[k].replicas > 1 PROVE k.nr = 0
  <2>1. pick[k] \in Ours(spec, w) /\ DerivedKey(spec, w, pick[k]) = k
    BY PickType
  <2>2. Compact(spec, w, pick[k])
    BY <1>1, <1>2 DEF DerivedService
  <2>3. Ordinal(spec, pick[k]) # 0 /\ ~Sparse(spec, w, pick[k])
    BY <2>2 DEF Compact, Sparse, Several
  <2>4. k = Plain(pick[k].base)
    BY <2>1, <2>3 DEF DerivedKey, ParsedKey, Ordinal
  <2> QED BY <2>4 DEF Plain
<1>3. Replicable(new)
  BY <1>1, <1>2 DEF Replicable
<1> QED BY <1>3 DEF new

LEMMA SyncConverges == ASSUME IInv, ConvergeInv, Sync PROVE ConvergeInv'
<1>1. /\ pc = "ask" /\ IsSpec(saved) /\ seen \in Worlds /\ UNCHANGED docker
      /\ Canonical(saved) = saved /\ Replicable(saved)
  BY DEF IInv, TypeOK, Sync, ConvergeInv
<1>2. CASE Fault /\ End("error") /\ UNCHANGED saved
  BY <1>1, <1>2, EndConverges DEF Fault, Replicable
<1>3. ASSUME End("refused"), UNCHANGED saved, NoFault PROVE ConvergeInv'
  <2>1. UNCHANGED calm
    BY <1>3 DEF NoFault
  <2>2. calm # Disturbed /\ calm > 0 =>
          Provided(docker) /\ \A k \in DOMAIN saved.svc : Settled(k, saved.svc[k], calm)
    BY <1>1 DEF ConvergeInv
  <2>3. calm' # Disturbed /\ calm' > 0 =>
          Provided(docker)' /\ \A k \in DOMAIN saved'.svc : Settled(k, saved.svc[k], calm)'
    BY <1>1, <1>3, <2>1, <2>2, StillThere
  <2> QED BY <1>1, <1>3, <2>3, EndConverges DEF Replicable
<1>4. ASSUME NEW pick \in Picks(saved, seen), End("synced"),
             saved' = Canonical(Derived(saved, seen, pick)), calm' = Disturbed
      PROVE  ConvergeInv'
  <2>1. Canonical(saved') = saved'
    BY <1>1, <1>4, DerivedType, CanonicalTwice
  <2>2. Replicable(saved')
    BY <1>1, <1>4, DerivedReplicable
  <2> QED BY <1>4, <2>1, <2>2, EndConverges DEF Replicable
<1>5. CASE ~(Fault /\ End("error") /\ UNCHANGED saved)
  <2>1. PICK pick \in Picks(saved, seen) :
          LET spec == Derived(saved, seen, pick)
          IN \E first \in Firsts(spec, seen) :
               IF Clean(Report(spec, seen, hidden, first))
                 THEN End("synced") /\ saved' = Canonical(spec) /\ calm' = Disturbed /\ UNCHANGED faults
                 ELSE End("refused") /\ UNCHANGED saved /\ NoFault
    BY <1>5 DEF Sync
  <2> QED BY <2>1, <1>3, <1>4
<1> QED BY <1>2, <1>5

-----------------------------------------------------------------------------
(* A plan, made when nothing interferes.                                   *)

(* Networks are there under their own names: theirs begin with the prefix. *)
LEMMA NetworksThere ==
  ASSUME IsSpec(saved), docker \in Worlds, Canonical(saved) = saved, Provided(docker)
  PROVE  saved.nets \subseteq docker.nets
<1>1. saved.nets = {Prefixed(l) : l \in saved.nets}
  BY DEF Canonical
<1>2. \A l \in saved.nets : l.own = "ours"
  <2>1. \A l \in saved.nets : l \in Labels(Networks)
    BY DEF IsSpec
  <2>2. \A l \in Labels(Networks) : Prefixed(l).own = "ours"
    BY DEF Prefixed, Labels
  <2> QED BY <1>1, <2>1, <2>2
<1> SUFFICES ASSUME NEW l \in saved.nets PROVE l \in docker.nets
  OBVIOUS
<1>3. PICK m \in docker.nets : m = l \/ Stripped(m) = l
  BY DEF Provided, Known
<1>4. Stripped(m) # l
  BY <1>2 DEF Stripped, Labels, Worlds
<1> QED BY <1>3, <1>4

(* A container that is there is recreated as the first of some service.    *)
LEMMA RecreatedFor ==
  ASSUME IsSpec(saved), Replicable(saved), NEW w \in Worlds, NEW first \in Firsts(saved, w),
         NEW n \in There(w), n \in Report(saved, w, {}, first).recreate
  PROVE  \E j \in DOMAIN saved.svc :
           <<n, j>> \in Mentions /\ Differs(saved.svc[j], w.conts[n])
<1>1. n \in AllMissing(saved, w) \cup AllDiffering(saved, w, first)
  BY DEF Report
<1>2. n \notin AllMissing(saved, w)
  BY DEF AllMissing, Missing
<1>3. PICK j \in DOMAIN first : n = first[j] /\ Differs(saved.svc[j], w.conts[n])
  BY <1>1, <1>2 DEF AllDiffering
<1>4. j \in DOMAIN saved.svc /\ n \in Matching(j, saved.svc[j], w)
  BY <1>3 DEF Firsts
<1>5. <<n, j>> \in Mentions
  <2>1. n \in Names /\ OwnName(n, j, saved.svc[j])
    BY <1>4, ThereType DEF Matching, OwnName
  <2>2. j \in Keys /\ saved.svc[j] \in Service
    BY <1>4, SpecService
  <2> QED BY <1>4, <2>1, <2>2, OwnMentions DEF Replicable
<1> QED BY <1>3, <1>4, <1>5

(* A settled service will settle once more with the plan carried out.      *)
LEMMA PlanSettles ==
  ASSUME IsSpec(saved), Replicable(saved), docker \in Worlds, NEW first \in Firsts(saved, docker),
         UNCHANGED <<docker, saved, calm>>, calm \in Nat, calm > 0,
         NEW k \in DOMAIN saved.svc, Settled(k, saved.svc[k], calm),
         todo' = Report(saved, docker, {}, first)
  PROVE  WillSettle(k, saved.svc[k], calm)'
<1> DEFINE def == saved.svc[k]
           here == Matching(k, def, docker)
           r == Report(saved, docker, {}, first)
           reach == {n \in Names : (n \in There(docker) \/ n \in r.recreate) /\ OwnName(n, k, def)}
           fit(n) == \/ n \in r.recreate /\ def.lifecycle = "up"
                     \/ /\ n \notin r.recreate /\ SameImage(def, docker.conts[n])
                        /\ \/ /\ def.lifecycle = "up" /\ PortsFit(def, docker.conts[n])
                              /\ docker.conts[n].status = "up" \/ n \in r.start
                           \/ /\ def.lifecycle = "down"
                              /\ docker.conts[n].status = "down" \/ n \in r.stop
           tend(n) == \/ n \in r.recreate
                      \/ def.lifecycle = "down" /\ SameImage(def, docker.conts[n])
                      \/ def.lifecycle = "up" /\ (docker.conts[n].status = "up" \/ n \in r.start)
           stray == \E n \in Expected(k, def) \cup reach, j \in DOMAIN saved.svc \ {k} : <<n, j>> \in Mentions
<1>1. k \in Keys /\ def \in Service
  BY SpecService
<1>2. /\ Expected(k, def) \subseteq Names /\ Expected(k, def) # {}
      /\ There(docker) \subseteq Names /\ \A n \in There(docker) : docker.conts[n] \in Container
  BY <1>1, ExpectedType, ThereType
<1>3. def' = def /\ Expected(k, def)' = Expected(k, def) /\ There(docker)' = There(docker)
  BY DEF Expected, There
<1>4. Reach(k, def)' = reach
  BY <1>3 DEF Reach, WillBe, Present, There, OwnName, Expected, Alias
<1>5. /\ \A n : WillFit(n, def)' <=> fit(n)
      /\ \A n : WillTend(n, def)' <=> tend(n)
  BY DEF WillFit, WillTend, PortsFit
<1>6. WillStray(k, def)' <=> stray
  BY <1>3, <1>4 DEF WillStray
<1>7. ASSUME \/ def.replicas = 1 \/ Expected(k, def) \subseteq There(docker) \cup r.recreate,
             \E n \in reach : fit(n)
      PROVE  WillSettle(k, def, calm)'
  BY <1>3, <1>4, <1>5, <1>7 DEF WillSettle
<1>8. ASSUME stray PROVE WillSettle(k, def, calm)'
  BY <1>6, <1>8 DEF WillSettle
<1>9. ASSUME Cardinality({n \in reach : tend(n)}) >= calm PROVE WillSettle(k, def, calm)'
  <2>1. {n \in Reach(k, def)' : WillTend(n, def)'} = {n \in reach : tend(n)}
    BY <1>4, <1>5
  <2> QED BY <1>9, <2>1 DEF WillSettle
<1>10. here \subseteq reach
  BY <1>2 DEF Matching, OwnName
<1>11. \A n \in Expected(k, def) : n \in r.recreate => n \in reach
  BY <1>2 DEF OwnName
<1>12. Missing(k, def, docker) \subseteq r.recreate
  BY DEF Report, AllMissing
<1>13. def.replicas = 1 \/ Expected(k, def) \subseteq There(docker) \cup r.recreate
  BY <1>12 DEF Missing
<1>14. /\ reach \subseteq Names
       /\ Cardinality({n \in reach : tend(n)}) \in Nat /\ Cardinality(TendedOf(k, def)) \in Nat
  <2>1. {n \in reach : tend(n)} \subseteq Names /\ TendedOf(k, def) \subseteq Names
    BY <1>2 DEF TendedOf, Matching
  <2> QED BY <2>1, NamesFinite
<1>15. TendedOf(k, def) \subseteq {n \in reach : tend(n)}
  BY <1>1, <1>10 DEF TendedOf, Tended, Service
<1>16. Good(k, def, docker) \/ Astray(k, def) \/ Cardinality(TendedOf(k, def)) >= calm - 1
  BY DEF Settled
<1> SUFFICES WillSettle(k, def, calm)'
  OBVIOUS
<1> HIDE DEF def, here, r, reach, fit, tend, stray
<1>17. ASSUME NEW n \in reach, tend(n), n \notin TendedOf(k, def),
              Cardinality(TendedOf(k, def)) >= calm - 1
       PROVE  WillSettle(k, def, calm)'
  <2>1. {m \in reach : tend(m)} \subseteq Names /\ n \in {m \in reach : tend(m)} \ TendedOf(k, def)
    BY <1>14, <1>17
  <2>2. Cardinality(TendedOf(k, def)) + 1 <= Cardinality({m \in reach : tend(m)})
    BY <1>15, <2>1, MoreNames
  <2>3. Cardinality({m \in reach : tend(m)}) >= calm
    BY <1>14, <1>17, <2>2
  <2> QED BY <1>9, <2>3
<1>18. CASE here = {}
  <2>1. \A n \in Expected(k, def) : n \notin There(docker) /\ n \in r.recreate
    BY <1>12, <1>18 DEF here, Matching, Missing
  <2>2. PICK n \in Expected(k, def) : n \in reach /\ n \in r.recreate
    BY <1>2, <1>11, <2>1
  <2>3. TendedOf(k, def) = {}
    BY <1>18 DEF here, TendedOf
  <2>4. Astray(k, def) => stray
    BY <1>18 DEF Astray, stray, here
  <2>5. ~Good(k, def, docker)
    BY <1>18 DEF Good, here
  <2>6. tend(n)
    BY <2>2 DEF tend
  <2> QED BY <1>8, <1>16, <1>17, <2>2, <2>3, <2>4, <2>5, <2>6
<1>19. CASE here # {} /\ ~stray
  <2>1. ~Astray(k, def)
    BY <1>10, <1>19 DEF Astray, stray, here
  <2>2. ASSUME NEW n \in here, ~Differs(def, docker.conts[n]) PROVE n \notin r.recreate
    <3> SUFFICES ASSUME n \in r.recreate PROVE FALSE
      OBVIOUS
    <3>1. n \in There(docker)
      BY DEF here, Matching
    <3>2. PICK j \in DOMAIN saved.svc : <<n, j>> \in Mentions /\ Differs(saved.svc[j], docker.conts[n])
      BY <3>1, RecreatedFor DEF r
    <3>3. j = k
      BY <1>10, <1>19, <3>2 DEF stray
    <3> QED BY <2>2, <3>2, <3>3 DEF def
  <2>3. CASE Good(k, def, docker)
    <3>1. PICK n \in here : docker.conts[n].status = def.lifecycle /\ ~Differs(def, docker.conts[n])
      BY <2>3 DEF Good, here
    <3>2. n \notin r.recreate
      BY <2>2, <3>1
    <3>3. fit(n)
      BY <1>1, <3>1, <3>2 DEF fit, Differs, PortsFit, Service
    <3> QED BY <1>7, <1>10, <1>13, <3>1, <3>3
  <2>4. CASE Cardinality(TendedOf(k, def)) >= calm - 1
    <3>1. k \in DOMAIN first /\ first[k] \in here
      BY <1>19 DEF Firsts, here, def
    <3> DEFINE n == first[k]
               c == docker.conts[n]
    <3>2. c \in Container /\ n \in reach
      BY <1>2, <1>10, <3>1 DEF here, Matching
    <3>3. /\ ToStart(def, c) => n \in r.start
          /\ ToStop(def, c) => n \in r.stop
          /\ Differs(def, c) => n \in r.recreate
      BY <3>1 DEF r, Report, AllDiffering, def
    <3>4. n \in TendedOf(k, def) <=> Tended(def, c)
      BY <3>1 DEF TendedOf, here
    <3>5. ~Differs(def, c) => n \notin r.recreate
      BY <2>2, <3>1
    <3> HIDE DEF n, c
    <3>6. CASE def.lifecycle = "up" /\ Differs(def, c)
      BY <1>7, <1>13, <3>2, <3>3, <3>6 DEF fit
    <3>7. CASE def.lifecycle = "up" /\ ~Differs(def, c)
      <4>1. CASE c.status = "up"
        BY <1>7, <1>13, <3>2, <3>5, <3>7, <4>1 DEF fit, c, Differs, PortsFit
      <4>2. CASE c.status = "down"
        <5>1. tend(n) /\ n \notin TendedOf(k, def)
          BY <3>3, <3>4, <3>7, <4>2 DEF ToStart, tend, Tended
        <5> QED BY <1>17, <2>4, <3>2, <5>1
      <4> QED BY <3>2, <4>1, <4>2 DEF Container
    <3>8. CASE def.lifecycle = "down" /\ ~SameImage(def, c)
      <4>1. tend(n) /\ n \notin TendedOf(k, def)
        BY <3>3, <3>4, <3>8 DEF Differs, tend, Tended
      <4> QED BY <1>17, <2>4, <3>2, <4>1
    <3>9. CASE def.lifecycle = "down" /\ SameImage(def, c)
      <4>1. ~Differs(def, c)
        BY <3>9 DEF Differs
      <4>2. fit(n)
        BY <3>2, <3>3, <3>5, <3>9, <4>1 DEF fit, c, ToStop, Container
      <4> QED BY <1>7, <1>13, <3>2, <4>2
    <3> QED BY <1>1, <3>6, <3>7, <3>8, <3>9 DEF Service
  <2> QED BY <1>16, <2>1, <2>3, <2>4
<1> QED BY <1>8, <1>18, <1>19

LEMMA DetectConverges == ASSUME IInv, ConvergeInv, Detect PROVE ConvergeInv'
<1>1. /\ docker \in Worlds /\ IsSpec(saved) /\ saved' = saved /\ calm \in Calms /\ MaxCalm \in Nat
      /\ at = Idle /\ pc = "idle" /\ Canonical(saved) = saved /\ Replicable(saved)
      /\ Replicable(saved)' /\ Canonical(saved') = saved'
  BY RepairAssumption DEF Detect, IInv, TypeOK, PlaceInv, ConvergeInv, Replicable
<1>2. CASE Fault /\ End("error")
  BY <1>1, <1>2, EndConverges DEF Fault
<1>3. ASSUME NEW blind \in {{}} \cup {{n} : n \in There(docker)},
             docker' = [docker EXCEPT !.conts = [n \in Names |-> IF n \in blind THEN Nothing ELSE @[n]]],
             NEW first \in Firsts(saved, docker),
             NEW r, r = Report(saved, docker, blind, first),
             \/ Clean(r) /\ End("clean") /\ calm' = IF blind = {} THEN Calmer(CalmSoFar) ELSE Disturbed
             \/ /\ pc' = "ask" /\ todo' = r /\ UNCHANGED at
                /\ calm' = IF blind = {} THEN CalmSoFar ELSE Disturbed
      PROVE  ConvergeInv'
  <2>1. ASSUME blind = {} PROVE UNCHANGED docker
    <3>1. [n \in Names |-> docker.conts[n]] = docker.conts
      BY <1>1 DEF Worlds
    <3> QED BY <1>1, <1>3, <2>1, <3>1 DEF Worlds
  <2>2. CASE Clean(r) /\ End("clean") /\ calm' = IF blind = {} THEN Calmer(CalmSoFar) ELSE Disturbed
    <3>1. ASSUME calm' # Disturbed
          PROVE  Provided(docker)' /\ \A k \in DOMAIN saved'.svc : Settled(k, saved.svc[k], calm)'
      <4>1. blind = {}
        BY <2>2, <3>1
      <4>2. (\A k \in DOMAIN saved.svc : Good(k, saved.svc[k], docker)) /\ Provided(docker)
        BY <1>1, <1>3, <2>2, <4>1, CleanIsGood
      <4>3. \A k \in DOMAIN saved.svc : Settled(k, saved.svc[k], calm')
        BY <4>2 DEF Settled
      <4> QED BY <1>1, <2>1, <4>1, <4>2, <4>3, StillThere
    <3> QED BY <1>1, <2>2, <3>1, EndConverges
  <2>3. CASE /\ pc' = "ask" /\ todo' = r /\ UNCHANGED at
             /\ calm' = IF blind = {} THEN CalmSoFar ELSE Disturbed
    <3>1. PlanInv'
      <4>1. ASSUME NEW k \in DOMAIN first
            PROVE  k \in DOMAIN saved.svc /\ <<first[k], k>> \in Mentions
        <5>1. k \in DOMAIN saved.svc /\ first[k] \in Matching(k, saved.svc[k], docker)
          BY <1>3 DEF Firsts
        <5>2. k \in Keys /\ saved.svc[k] \in Service
          BY <1>1, <5>1, SpecService
        <5>3. first[k] \in Names /\ OwnName(first[k], k, saved.svc[k])
          BY <1>1, <5>1, ThereType DEF Matching, OwnName
        <5> QED BY <1>1, <5>1, <5>2, <5>3, OwnMentions DEF Replicable
      <4>2. /\ r.start = {first[k] : k \in {j \in DOMAIN first : ToStart(saved.svc[j], docker.conts[first[j]])}}
            /\ r.stop = {first[k] : k \in {j \in DOMAIN first : ToStop(saved.svc[j], docker.conts[first[j]])}}
        BY <1>3 DEF Report
      <4>3. \A n \in r.start : Wanted(n, "up")'
        BY <1>1, <4>1, <4>2 DEF Wanted, ToStart
      <4>4. \A n \in r.stop : Wanted(n, "down")'
        BY <1>1, <4>1, <4>2 DEF Wanted, ToStop
      <4> QED BY <2>3, <4>3, <4>4 DEF PlanInv
    <3>2. CASE calm' = Disturbed
      BY <1>1, <3>1, <3>2 DEF ConvergeInv, Disturbed
    <3>3. CASE calm' # Disturbed
      <4>1. blind = {} /\ UNCHANGED docker /\ calm' = CalmSoFar
        BY <2>1, <2>3, <3>3
      <4>2. WillProvide'
        <5>1. \A l \in saved.nets : Known(l, docker.nets) \/ l \in r.nets
          BY <1>3 DEF Report
        <5>2. \A k \in DOMAIN saved.svc : \A l \in saved.svc[k].mounts : Known(l, docker.vols) \/ l \in r.vols
          BY <1>3 DEF Report
        <5> QED BY <1>1, <2>3, <4>1, <5>1, <5>2 DEF WillProvide
      <4>3. RecreationInv'
        BY <1>1, <2>3, IdleType DEF RecreationInv
      <4>4. ASSUME calm' > 0
            PROVE  /\ Provided(docker)' /\ \A k \in DOMAIN saved'.svc : Settled(k, saved.svc[k], calm)'
                   /\ saved'.nets \subseteq docker'.nets
                   /\ \A k \in DOMAIN saved'.svc : WillSettle(k, saved.svc[k], calm)'
        <5>1. calm \in Nat /\ calm > 0 /\ calm' = calm
          BY <1>1, <4>1, <4>4 DEF CalmSoFar, Calms, Disturbed
        <5>2. Provided(docker) /\ \A k \in DOMAIN saved.svc : Settled(k, saved.svc[k], calm)
          BY <1>1, <5>1 DEF ConvergeInv
        <5>3. Provided(docker)' /\ \A k \in DOMAIN saved'.svc : Settled(k, saved.svc[k], calm)'
          BY <1>1, <4>1, <5>1, <5>2, StillThere
        <5>4. saved.nets \subseteq docker.nets
          BY <1>1, <5>2, NetworksThere
        <5>5. \A k \in DOMAIN saved.svc : WillSettle(k, saved.svc[k], calm)'
          BY <1>1, <1>3, <2>3, <4>1, <5>1, <5>2, PlanSettles
        <5> QED BY <1>1, <4>1, <5>3, <5>4, <5>5
      <4> QED BY <1>1, <2>3, <3>1, <4>2, <4>3, <4>4 DEF ConvergeInv
    <3> QED BY <3>2, <3>3
  <2> QED BY <1>3, <2>2, <2>3
<1>4. CASE ~(Fault /\ End("error"))
  <2>1. PICK blind \in {{}} \cup {{n} : n \in There(docker)} :
          /\ docker' = [docker EXCEPT !.conts = [n \in Names |-> IF n \in blind THEN Nothing ELSE @[n]]]
          /\ \E first \in Firsts(saved, docker) :
               LET r == Report(saved, docker, blind, first)
               IN IF Clean(r)
                    THEN End("clean") /\ Forget /\ calm' = IF blind = {} THEN Calmer(CalmSoFar) ELSE Disturbed
                    ELSE /\ pc' = "ask" /\ todo' = r
                         /\ seen' = docker /\ hidden' = blind
                         /\ calm' = IF blind = {} THEN CalmSoFar ELSE Disturbed
                         /\ outcome' = "none" /\ UNCHANGED <<gate, at>>
    BY <1>4, Zenon DEF Detect
  <2>2. PICK first \in Firsts(saved, docker) :
               LET r == Report(saved, docker, blind, first)
               IN IF Clean(r)
                    THEN End("clean") /\ Forget /\ calm' = IF blind = {} THEN Calmer(CalmSoFar) ELSE Disturbed
                    ELSE /\ pc' = "ask" /\ todo' = r
                         /\ seen' = docker /\ hidden' = blind
                         /\ calm' = IF blind = {} THEN CalmSoFar ELSE Disturbed
                         /\ outcome' = "none" /\ UNCHANGED <<gate, at>>
    BY <2>1
  <2> QED BY <2>1, <2>2, <1>3
<1> QED BY <1>2, <1>4

LEMMA InitConverges == ASSUME Init PROVE ConvergeInv
<1>1. Canonical(saved) = saved /\ Replicable(saved) /\ pc = "idle" /\ calm = 0 /\ todo = NoReport
  BY RepairAssumption DEF Init
<1>2. PlanInv
  BY <1>1 DEF PlanInv, NoReport, NoActions
<1> QED BY <1>1, <1>2 DEF ConvergeInv

LEMMA StutterConverges == ASSUME ConvergeInv, UNCHANGED vars PROVE ConvergeInv'
<1>1. UNCHANGED <<pc, docker, saved, todo, at, calm>>
  BY DEF vars, ghosts
<1>2. PlanInv' /\ Replicable(saved)'
  BY <1>1 DEF ConvergeInv, PlanInv, Wanted, Replicable
<1>3. calm' > 0 /\ pc' \in {"idle", "ask"} =>
        Provided(docker)' /\ \A k \in DOMAIN saved'.svc : Settled(k, saved.svc[k], calm)'
  BY <1>1, StillThere DEF ConvergeInv
<1>4. WillProvide /\ RecreationInv => WillProvide' /\ RecreationInv'
  BY <1>1 DEF WillProvide, RecreationInv, Present
<1>5. \A k \in DOMAIN saved.svc : WillSettle(k, saved.svc[k], calm) => WillSettle(k, saved.svc[k], calm)'
  BY <1>1 DEF WillSettle, Expected, There, Reach, WillBe, Present, OwnName, Alias, WillFit,
              PortsFit, WillStray, WillTend
<1> QED BY <1>1, <1>2, <1>3, <1>4, <1>5 DEF ConvergeInv

(* What repairing again and again rests on holds at every step.            *)
THEOREM Converging == Spec => []ConvergeInv
<1>1. IInv /\ IInv' /\ ConvergeInv /\ [Next]_vars => ConvergeInv'
  <2> SUFFICES ASSUME IInv, IInv', ConvergeInv, [Next]_vars PROVE ConvergeInv'
    OBVIOUS
  <2>1. CASE UNCHANGED vars
    BY <2>1, StutterConverges
  <2>2. CASE Act
    <3>1. CASE Begin \/ StopOld \/ RemoveOld \/ Create \/ StartNew
      BY <3>1, BeginConverges, StopOldConverges, RemoveOldConverges, CreateConverges, StartNewConverges
    <3>2. CASE CreateNetwork \/ CreateVolume \/ PullImage
      BY <3>2, ProvideConverges DEF CreateNetwork, CreateVolume, PullImage
    <3> QED BY <2>2, <3>1, <3>2, StartConverges, StopConverges, TriedConverges DEF Act
  <2> QED BY <2>1, <2>2, DetectConverges, RejectConverges, SyncConverges, AcceptConverges, CheckConverges,
             DieConverges, OutsideConverges DEF Next
<1> QED BY <1>1, Inductive, InitConverges, PTL DEF Spec

(* Repairing again and again gets there: each repair with which nothing    *)
(* interferes leaves a service as it is wanted or tends one more of its    *)
(* containers, and the networks and volumes are there after the first.     *)
THEOREM RepairsConverge == Spec => []RepairConverges
<1>1. ConvergeInv => RepairConverges
  BY DEF ConvergeInv, RepairConverges
<1> QED BY <1>1, Converging, PTL

(* So two repairs more than the service has containers are enough.         *)
THEOREM RepairsSuffice ==
  Spec => [](pc = "idle" =>
               \A k \in DOMAIN saved.svc :
                 calm >= Cardinality(Matching(k, saved.svc[k], docker)) + 2 =>
                   Good(k, saved.svc[k], docker) \/ Astray(k, saved.svc[k]))
<1>1. TypeOK /\ RepairConverges =>
        (pc = "idle" =>
           \A k \in DOMAIN saved.svc :
             calm >= Cardinality(Matching(k, saved.svc[k], docker)) + 2 =>
               Good(k, saved.svc[k], docker) \/ Astray(k, saved.svc[k]))
  <2> SUFFICES ASSUME TypeOK, RepairConverges, pc = "idle", NEW k \in DOMAIN saved.svc,
                      calm >= Cardinality(Matching(k, saved.svc[k], docker)) + 2
               PROVE  Good(k, saved.svc[k], docker) \/ Astray(k, saved.svc[k])
    OBVIOUS
  <2> DEFINE m == Cardinality(Matching(k, saved.svc[k], docker))
             t == Cardinality(TendedOf(k, saved.svc[k]))
  <2>1. /\ TendedOf(k, saved.svc[k]) \subseteq Matching(k, saved.svc[k], docker)
        /\ Matching(k, saved.svc[k], docker) \subseteq Names
    BY DEF TendedOf, Matching, There
  <2>2. m \in Nat /\ t \in Nat /\ t <= m
    BY <2>1, NamesFinite, MoreNames
  <2>3. calm \in Int /\ calm >= m + 2
    BY RepairAssumption DEF TypeOK, Calms, Disturbed
  <2> HIDE DEF m, t
  <2>4. calm > 0 /\ ~(t >= calm - 1)
    BY <2>2, <2>3
  <2>5. Settled(k, saved.svc[k], calm)
    BY <2>4 DEF RepairConverges
  <2> QED BY <2>4, <2>5 DEF Settled, t
<1> QED BY <1>1, TypeCorrect, RepairsConverge, PTL

=============================================================================
