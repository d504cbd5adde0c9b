-------------------------------- MODULE Drift --------------------------------
(***************************************************************************)
(* Comparing a saved specification with Docker: execution/drift-detector.ts*)
(* and repair-planner.ts (what to do about the differences), spec-sync.ts  *)
(* (deriving a specification from what is there), domain/                  *)
(* runtime-state-scope.ts and the names of execution/container-names.ts.   *)
(*                                                                         *)
(* A name is what the code parses out of it: "ours" if it starts with the  *)
(* project's name and a hyphen, the rest, and the number at its end, 0 if  *)
(* none.  An image stands for the environment too: both are compared, both *)
(* adopted by a sync and restored by a recreation.                         *)
(***************************************************************************)
EXTENDS Naturals, FiniteSets

CONSTANTS
  Bases,           \* service names without the number at the end
  MaxOrdinal,      \* bound on that number and on the replicas of a service
  Images,
  Alike,           \* pairs of images of which one's name begins with the other's
  SameRepository,  \* pairs of images with the same imageBase
  Networks, Volumes   \* names without the prefix

ASSUME DriftAssumption ==
  /\ MaxOrdinal \in Nat /\ MaxOrdinal >= 1
  /\ Alike \subseteq Images \X Images
  /\ \A i \in Images : <<i, i>> \in Alike
  /\ SameRepository \subseteq Images \X Images
  /\ \A i \in Images : <<i, i>> \in SameRepository
  /\ IsFiniteSet(Bases)

Names == [own : {"ours", "bare"}, base : Bases, nr : 0..MaxOrdinal]
Keys == [base : Bases, nr : 0..MaxOrdinal]   \* service names
Labels(S) == [own : {"ours", "bare"}, base : S]   \* network, volume names

(* The saved specification: its services, networks and volumes.  "open"    *)
(* ports are those the service declares.                                   *)
Service == [image : Images, replicas : 1..MaxOrdinal, lifecycle : {"up", "down"},
            ports : {"open", "none"}, mounts : SUBSET Labels(Volumes)]
IsSpec(spec) ==
  /\ spec = [svc |-> spec.svc, nets |-> spec.nets, vols |-> spec.vols]
  /\ DOMAIN spec.svc \subseteq Keys
  /\ spec.svc \in [DOMAIN spec.svc -> Service]
  /\ spec.nets \subseteq Labels(Networks) /\ spec.vols \subseteq Labels(Volumes)

(* What Docker has; a read of it with the containers inspect did not find. *)
Nothing == [status |-> "absent"]
Container == [status : {"up", "down"}, image : Images, ports : {"open", "none"}]
Worlds == [conts : [Names -> Container \cup {Nothing}], nets : SUBSET Labels(Networks),
           vols : SUBSET Labels(Volumes), imgs : SUBSET Images]

There(w) == {n \in Names : w.conts[n].status # "absent"}

-----------------------------------------------------------------------------
(* Names.                                                                  *)

Plain(base) == [base |-> base, nr |-> 0]
KeyOf(n) == [base |-> n.base, nr |-> n.nr]       \* without the prefix
Stripped(l) == [l EXCEPT !.own = "bare"]
Prefixed(l) == [l EXCEPT !.own = "ours"]

(* toReplicaContainerNames.                                                *)
Expected(k, def) ==
  IF def.replicas = 1 THEN {[own |-> "ours", base |-> k.base, nr |-> k.nr]}
                      ELSE {[own |-> "ours", base |-> k.base, nr |-> i] : i \in 1..def.replicas}

(* A container without the prefix, or with some number, counts as that of  *)
(* a service with one replica.                                             *)
Alias(n, k, def) == def.replicas = 1 /\ Plain(n.base) = k

Matching(k, def, w) == {n \in There(w) : n \in Expected(k, def) \/ Alias(n, k, def)}

(* resourceNameMatches.                                                    *)
Known(l, S) == \E m \in S : m = l \/ Stripped(m) = l

-----------------------------------------------------------------------------
(* The drift report.  Of the containers of a service the program looks at  *)
(* one, the first in Docker's list: first[k].                              *)

Firsts(spec, w) ==
  LET seen == {k \in DOMAIN spec.svc : Matching(k, spec.svc[k], w) # {}}
  IN {f \in [seen -> There(w)] : \A k \in seen : f[k] \in Matching(k, spec.svc[k], w)}

Missing(k, def, w) ==
  IF def.replicas = 1 /\ Matching(k, def, w) # {} THEN {} ELSE Expected(k, def) \ There(w)

(* Image, environment or, of a running container, ports differ.  An image  *)
(* without a tag, say, is taken for the same one with any tag; an unknown  *)
(* image (null) differs from none, but Docker names every container's.     *)
SameImage(def, c) == <<c.image, def.image>> \in Alike

Differs(def, c) ==
  \/ ~SameImage(def, c)
  \/ def.lifecycle = "up" /\ c.status = "up" /\ def.ports = "open" /\ c.ports = "none"

\* Mutated: a service that is to be down is never found running.
ToStopNever(def, c) == def.lifecycle = "down" /\ c.status = "down"

ToStop(def, c) == def.lifecycle = "down" /\ c.status = "up"
ToStart(def, c) == def.lifecycle = "up" /\ c.status = "down"

AllMissing(spec, w) == UNION {Missing(k, spec.svc[k], w) : k \in DOMAIN spec.svc}
AllDiffering(spec, w, first) ==
  {first[k] : k \in {j \in DOMAIN first : Differs(spec.svc[j], w.conts[first[j]])}}

(* buildDriftReport and buildRepairPlan: the findings by the action that   *)
(* answers them.  Two findings with the same action count once.  "unsure"  *)
(* has no action; neither does it let the report be clean.                 *)
Report(spec, w, blind, first) ==
  LET svc == spec.svc
      seen == DOMAIN first
      c(k) == w.conts[first[k]]
  IN [start    |-> {first[k] : k \in {j \in seen : ToStart(svc[j], c(j))}},
      stop     |-> {first[k] : k \in {j \in seen : ToStop(svc[j], c(j))}},
      recreate |-> AllMissing(spec, w) \cup AllDiffering(spec, w, first),
      nets     |-> {l \in spec.nets : ~Known(l, w.nets)},
      vols     |-> {l \in UNION {svc[k].mounts : k \in DOMAIN svc} : ~Known(l, w.vols)},
      imgs     |-> {i \in {svc[k].image : k \in DOMAIN svc} :
                      ~\E j \in w.imgs : <<j, i>> \in SameRepository},
      unsure   |-> {first[k] : k \in {j \in seen : first[j] \in blind}}]

Actions(r) == r.start \cup r.stop \cup r.recreate \cup r.nets \cup r.vols \cup r.imgs
Clean(r) ==
  /\ r.start = {} /\ r.stop = {} /\ r.recreate = {} /\ r.unsure = {}
  /\ r.nets = {} /\ r.vols = {} /\ r.imgs = {}
NoActions(r) ==
  /\ r.start = {} /\ r.stop = {} /\ r.recreate = {}
  /\ r.nets = {} /\ r.vols = {} /\ r.imgs = {}

-----------------------------------------------------------------------------
(* Deriving a specification from Docker.                                   *)

\* Mutated: only containers of services that are known.
OursKnown(spec, w) == {n \in There(w) : KeyOf(n) \in DOMAIN spec.svc}

(* belongsToProjectResource, for a container and for another resource.     *)
Ours(spec, w) ==
  {n \in There(w) : n.own = "ours" \/ KeyOf(n) \in DOMAIN spec.svc}
OursOf(declared, S) == {l \in S : l.own = "ours" \/ l \in declared}

(* parseComposeReplicaName: a name that is a service's has no ordinal.     *)
Ordinal(spec, n) == IF KeyOf(n) \in DOMAIN spec.svc THEN 0 ELSE n.nr
ParsedKey(spec, n) == IF KeyOf(n) \in DOMAIN spec.svc THEN KeyOf(n) ELSE Plain(n.base)

Ordinals(spec, w, k) ==
  {Ordinal(spec, n) : n \in {m \in Ours(spec, w) : ParsedKey(spec, m) = k}} \ {0}

Several(spec, w, n) ==
  Ordinal(spec, n) # 0 /\ Cardinality(Ordinals(spec, w, ParsedKey(spec, n))) > 1
Dense(S) == S = 1..Cardinality(S)
Compact(spec, w, n) == Several(spec, w, n) /\ Dense(Ordinals(spec, w, ParsedKey(spec, n)))
Sparse(spec, w, n) == Several(spec, w, n) /\ ~Dense(Ordinals(spec, w, ParsedKey(spec, n)))

(* serviceFromContainer: its name.                                         *)
DerivedKey(spec, w, n) == IF Sparse(spec, w, n) THEN KeyOf(n) ELSE ParsedKey(spec, n)

(* Several containers may give the same service; the first in the list     *)
(* decides: pick[k].  Numbered ones are sorted by their number.            *)
MayLead(spec, w, n) ==
  \A m \in Ours(spec, w) :
    DerivedKey(spec, w, m) = DerivedKey(spec, w, n) =>
      \/ 0 \in {Ordinal(spec, n), Ordinal(spec, m)}
      \/ Ordinal(spec, n) <= Ordinal(spec, m)

Picks(spec, w) ==
  LET K == {DerivedKey(spec, w, n) : n \in Ours(spec, w)}
  IN {f \in [K -> Ours(spec, w)] :
        \A k \in K : DerivedKey(spec, w, f[k]) = k /\ MayLead(spec, w, f[k])}

(* The container's image, state and published ports, and the rest from the *)
(* service of that name (or, of a sparse replica, of its base).            *)
DerivedService(spec, w, k, n) ==
  LET c == w.conts[n]
      source == IF k \in DOMAIN spec.svc THEN {k}
                ELSE {ParsedKey(spec, n)} \cap DOMAIN spec.svc
      old == [j \in source |-> spec.svc[j]]
  IN [image |-> c.image,
      replicas |-> IF Compact(spec, w, n)
                     THEN Cardinality(Ordinals(spec, w, ParsedKey(spec, n))) ELSE 1,
      lifecycle |-> c.status,
      ports |-> IF c.status = "up" /\ \E j \in source : old[j].ports = "open"
                  THEN "open" ELSE c.ports,
      mounts |-> UNION {old[j].mounts : j \in source}]

(* deriveSpecFromRuntime.  Networks and volumes lose their prefix; mounts  *)
(* of volumes that are not in the list thereafter are dropped.             *)
Derived(spec, w, pick) ==
  LET nets == {Stripped(l) : l \in OursOf(spec.nets, w.nets)}
      vols == {Stripped(l) : l \in OursOf(spec.vols, w.vols)}
      derived(k) == DerivedService(spec, w, k, pick[k])
  IN [svc  |-> [k \in DOMAIN pick |-> [derived(k) EXCEPT !.mounts = @ \cap vols]],
      nets |-> IF nets = {} THEN spec.nets ELSE nets,
      vols |-> vols]

(* namespaceInfrastructureSpec, applied to whatever is saved.              *)
Canonical(spec) ==
  [svc  |-> [k \in DOMAIN spec.svc |-> [spec.svc[k] EXCEPT !.mounts = {Prefixed(l) : l \in @}]],
   nets |-> {Prefixed(l) : l \in spec.nets},
   vols |-> {Prefixed(l) : l \in spec.vols}]

=============================================================================
