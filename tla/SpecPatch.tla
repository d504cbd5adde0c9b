------------------------------- MODULE SpecPatch -------------------------------
(***************************************************************************)
(* Patches of a specification: agent/spec-patch-applier.ts, with the       *)
(* replicas of stateful-database-volumes.ts, the namespaces of             *)
(* project-identity.ts and the rules of schemas.ts.                        *)
(*                                                                         *)
(* A name is a sequence: its text, then the numbers after its hyphens.  A  *)
(* volume is called <in>-<of>-data-<nrs>: the projects before its name,    *)
(* the service it is named after, the numbers behind it.  The services of  *)
(* a specification are a set, told apart by their names.                   *)
(***************************************************************************)
EXTENDS Integers, Sequences, FiniteSets

SeqX == INSTANCE SequencesExt
LOCAL FinX == INSTANCE FiniteSetsExt

CONSTANTS
  Profiles,      \* families of the catalog: kind, tags, default, ports, env and data target
  Secrets,       \* keys of the environment that count as secret
  MaxReplicas

ASSUME SpecPatchAssumption == MaxReplicas \in Nat \ {0}

NoName == <<>>
Numbered(name) == Len(name) > 1
BaseOf(name) == SeqX!Front(name)
Ordinal(name) == name[Len(name)]
Named(services, names) == {s \in services : s.name \in names}
NamesOf(services) == {s.name : s \in services}
Unique(seq) ==
  SeqX!FoldLeft(LAMBDA acc, e : IF e \in SeqX!ToSet(acc) THEN acc ELSE Append(acc, e), <<>>, seq)

Trusted(image) == image.family \in DOMAIN Profiles /\ image.tag \in Profiles[image.family].tags
InCatalog(image) == image.family \in DOMAIN Profiles
(* normalizeTrustedImageReference: an unknown version becomes the default. *)
Normalized(image) ==
  IF InCatalog(image) /\ ~Trusted(image)
    THEN [image EXCEPT !.tag = Profiles[image.family].default] ELSE image
KindOf(image) == IF InCatalog(image) THEN Profiles[image.family].kind ELSE "backend"

DataTarget(s) ==
  IF InCatalog(s.image) /\ Profiles[s.image.family].data # ""
    THEN Profiles[s.image.family].data ELSE "data"
DataMounts(s) == IF s.kind = "database" THEN {m \in s.mounts : m.at = DataTarget(s)} ELSE {}
Sources(s) == {m.from : m \in s.mounts}
(* A directory of the host or the socket of Docker: a source nobody can    *)
(* declare, so that a service that mounts it fails the schema.             *)
HostPath == [in |-> <<>>, of |-> NoName, nrs |-> <<>>]
Declared(s) == Sources(s) \ {HostPath}
DefaultNetwork == [in |-> <<>>, of |-> <<"app-network">>, nrs |-> <<>>]
DataVolume(name) == [in |-> <<>>, of |-> name, nrs |-> <<>>]
(* The volume a replica number is put behind.                              *)
BaseVolume(s) ==
  IF DataMounts(s) = {} THEN DataVolume(s.name) ELSE (CHOOSE m \in DataMounts(s) : TRUE).from

-----------------------------------------------------------------------------
(* What the schemas make of names, mounts, services and specifications.    *)
IsSeq(s) == Len(s) \in Nat /\ s = [i \in 1..Len(s) |-> s[i]]
IsProject(p) == IsSeq(p) /\ p # <<>>
IsName(n) == IsSeq(n) /\ n # <<>> /\ \A i \in 2..Len(n) : n[i] \in Nat
IsRecord(r, fields) == DOMAIN r = fields /\ r = [f \in fields |-> r[f]]
IsResource(r) == IsRecord(r, {"in", "of", "nrs"}) /\ IsSeq(r.in)
IsMount(m) == IsRecord(m, {"from", "at"}) /\ IsResource(m.from)

IsService(s) ==
  /\ IsRecord(s, {"name", "kind", "image", "replicas", "deps", "mounts", "ports", "env", "status"})
  /\ IsName(s.name) /\ s.replicas \in Nat
  /\ \A m \in s.mounts : IsMount(m)

IsSpec(sp) ==
  /\ IsRecord(sp, {"project", "networks", "volumes", "services"})
  /\ IsProject(sp.project)
  /\ \A r \in sp.networks \cup sp.volumes : IsResource(r)
  /\ \A s \in sp.services : IsService(s)

-----------------------------------------------------------------------------
(* expandStatefulDatabaseReplicas.                                         *)

Replicated(s) == s.kind = "database" /\ s.replicas > 1
Parts(s) == IF Replicated(s) THEN {Append(s.name, i) : i \in 1..s.replicas} ELSE {s.name}

(* Mutated: the volumes of the replicas are counted from zero.             *)
PartVolumeFromZero(s, i) == [BaseVolume(s) EXCEPT !.nrs = Append(@, i - 1)]
PartVolume(s, i) == [BaseVolume(s) EXCEPT !.nrs = Append(@, i)]

Part(s, i) ==
  [s EXCEPT !.name = Append(@, i), !.replicas = 0,
            !.deps = IF i = 1 THEN @ ELSE @ \cup {Append(s.name, 1)},
            !.mounts = (@ \ DataMounts(s)) \cup {[from |-> PartVolume(s, i), at |-> DataTarget(s)]}]

(* Names that no service has are kept; of two services with one name the   *)
(* map keeps one, and the names clash in any case.                         *)
Expand(spec) ==
  LET parts(d) == LET owners == Named(spec.services, {d})
                  IN IF owners = {} THEN {d} ELSE Parts(CHOOSE s \in owners : TRUE)
      services == UNION {IF Replicated(s) THEN {Part(s, i) : i \in 1..s.replicas} ELSE {s}
                           : s \in spec.services}
      replicated == {s \in spec.services : Replicated(s)}
      replaced == UNION {{m.from : m \in DataMounts(s)} : s \in replicated}
      made == UNION {UNION {Declared(Part(s, i)) : i \in 1..s.replicas} : s \in replicated}
  IN [spec EXCEPT !.services = {[s EXCEPT !.deps = UNION {parts(d) : d \in @}] : s \in services},
                  !.volumes = (@ \cup made) \ replaced]

(* normalizeStatefulDatabaseReplicaVolumes: numbered volumes of a group    *)
(* that nothing mounts are dropped, what is mounted is declared.           *)
Normalize(spec0) ==
  LET spec == Expand(spec0)
      mounted == UNION {{m.from : m \in DataMounts(s)} : s \in spec.services}
      members(base) == {s \in spec.services :
                          s.kind = "database" /\ Numbered(s.name) /\ BaseOf(s.name) = base}
      bases == {BaseOf(s.name) : s \in {t \in spec.services : t.kind = "database" /\ Numbered(t.name)}}
      first(base) == CHOOSE s \in members(base) :
                       \A t \in members(base) : Ordinal(s.name) <= Ordinal(t.name)
      stem(base) == LET v == IF DataMounts(first(base)) = {} THEN DataVolume(base) ELSE BaseVolume(first(base))
                    IN IF v.nrs # <<>> /\ SeqX!Last(v.nrs) = 1 THEN [v EXCEPT !.nrs = SeqX!Front(@)] ELSE v
      below(v, w) == v.in = w.in /\ v.of = w.of /\ SeqX!IsStrictPrefix(w.nrs, v.nrs)
      stale == {v \in spec.volumes \ mounted : \E base \in bases : below(v, stem(base))}
  IN [spec EXCEPT !.volumes = (@ \ stale) \cup UNION {Declared(s) : s \in spec.services}]

(* namespaceInfrastructureSpec.                                            *)
Prefixed(project, r) == IF SeqX!IsPrefix(project, r.in) THEN r ELSE [r EXCEPT !.in = project \o @]
Namespace(spec) ==
  LET p(r) == Prefixed(spec.project, r)
  IN [spec EXCEPT !.networks = {p(n) : n \in @}, !.volumes = {p(v) : v \in @},
                  !.services = {[s EXCEPT !.mounts = {[m EXCEPT !.from = p(@)] : m \in @}] : s \in @}]

(* infrastructureSpecSchema.                                               *)
Valid(spec) ==
  /\ spec.networks # {}
  /\ \A s, t \in spec.services : s.name = t.name => s = t
  /\ \A s \in spec.services :
       /\ s.deps \subseteq NamesOf(spec.services) \ {s.name}
       /\ Sources(s) \subseteq spec.volumes
       /\ s.replicas <= MaxReplicas /\ ~(Replicated(s) /\ DataMounts(s) # {})

-----------------------------------------------------------------------------
(* A patch and what it brings along (specPatchSchema).                     *)
SpecOps == {"set-project-name", "rename-network", "set-networks", "add-service"}
ServiceOps == {"set-service-replicas", "set-service-image", "remove-service", "rename-service",
               "replace-service-port", "add-service-port", "remove-service-port",
               "set-service-env", "remove-service-env", "add-service-volume",
               "remove-service-volume", "add-service-dependency",
               "remove-service-dependency", "set-service-desired-status"}

IsPatch(p) ==
  /\ IsRecord(p, {"op", "target", "from", "arg", "resolves", "affects"})
  /\ p.op \in SpecOps \cup ServiceOps
  /\ p.op = "set-project-name" => IsProject(p.arg)
  /\ p.op = "rename-network" => IsResource(p.arg)
  /\ p.op = "set-networks" => \A r \in p.arg : IsResource(r)
  /\ p.op = "add-service" => IsService(p.arg)
  /\ p.op = "add-service-volume" => IsMount(p.arg)
  /\ p.op = "rename-service" => IsName(p.arg)
  /\ p.op = "set-service-replicas" => p.arg \in Nat \ {0}
  /\ p.op = "set-service-image" => IsRecord(p.arg, {"family", "tag"})

-----------------------------------------------------------------------------
(* Which services a patch is for.                                          *)

AnyService ==
  [group |-> "", name |-> NoName, like |-> "", kind |-> "", family |-> "",
   exposes |-> "", needs |-> NoName, neededBy |-> NoName]

(* scoreServiceSelector; "includes" is one of the texts a name is made of. *)
Score(s, sel, services) ==
  LET points(n, holds) == IF holds THEN n ELSE 0
      exposes == IF s.ports = <<>> THEN "no" ELSE "yes"
  IN points(100, sel.name # NoName /\ sel.name = s.name)
     + points(60, sel.like # "" /\ sel.like \in {s.name[1], s.image.family})
     + points(40, sel.kind # "" /\ sel.kind = s.kind)
     + points(50, sel.family # "" /\ sel.family = s.image.family)
     + points(25, sel.exposes = exposes)
     + points(20, sel.needs # NoName /\ sel.needs \in s.deps)
     + points(20, sel.neededBy # NoName /\ \E t \in Named(services, {sel.neededBy}) : s.name \in t.deps)

Selected(sel, services) ==
  {s \in services : /\ Score(s, sel, services) > 0
                    /\ \A t \in services : Score(t, sel, services) <= Score(s, sel, services)}

(* resolveStatefulDatabaseReplicaGroup: the one group that fits, or none.  *)
GroupsOf(services, sel) ==
  LET databases == {s \in services : s.kind = "database"}
      numbered == {s \in databases : Numbered(s.name)}
  IN {[base |-> b, members |-> {s \in numbered : BaseOf(s.name) = b}] : b \in {BaseOf(s.name) : s \in numbered}}
     \cup (IF sel.group = "replica-group"
             THEN {[base |-> s.name, members |-> {s}] : s \in databases \ numbered} ELSE {})

GroupFits(g, sel, matched, anyKind) ==
  LET families == {s.image.family : s \in g.members}
  IN /\ sel.group = "service" => anyKind
     /\ sel.name # NoName => sel.name \in NamesOf(g.members) \cup {g.base}
     /\ sel.like # "" => sel.like \in families \cup {g.base[1]}
     /\ sel.kind \in {"", "database"}
     /\ sel.family # "" => sel.family \in families
     /\ IF matched # {} THEN NamesOf(matched) \subseteq NamesOf(g.members)
                        ELSE sel.name # NoName \/ sel.like # "" \/ sel.kind # "" \/ sel.family # ""

FittingGroups(services, sel, matched, anyKind) ==
  LET fit == {g \in GroupsOf(services, sel) : GroupFits(g, sel, matched, anyKind)}
  IN IF Cardinality(fit) = 1 THEN fit ELSE {}
MembersOf(groups) == UNION {g.members : g \in groups}

HasTarget(p) == p.op \notin SpecOps
ForGroups(p) == p.op \in {"set-service-replicas", "set-service-image"}

(* resolvePatchTargets: the services and what speaks against the patch.    *)
Resolve(p, services) ==
  LET anyKind == p.op = "set-service-image"
      found == Selected(p.target, services)
      whole == FittingGroups(services, p.target, {}, anyKind)
      res(matched, blocked) == [matched |-> matched, blocked |-> blocked]
  IN IF ~HasTarget(p) THEN res({}, "")
     ELSE IF ForGroups(p) /\ p.target.group = "replica-group"
       THEN LET g == FittingGroups(services, p.target, {}, FALSE)
            IN res(MembersOf(g), IF g = {} THEN "none" ELSE "")
     ELSE IF found = {}
       THEN res(IF ForGroups(p) THEN MembersOf(whole) ELSE {},
                IF ForGroups(p) /\ whole # {} THEN "" ELSE "none")
     ELSE res(found, IF Cardinality(found) = 1 THEN ""
                     ELSE IF ForGroups(p) /\ FittingGroups(services, p.target, found, anyKind) # {} THEN ""
                     ELSE "ambiguous")

(* isAutoSafeDatabaseRemoval and evaluatePatchPolicy.                      *)
(* Mutated: whatever nobody depends on may go.                             *)
SafeIfUnused(matched, services) ==
  Cardinality(matched) = 1 /\ \A s \in matched, t \in services : s.name \notin t.deps
SafeRemoval(matched, services) ==
  /\ Cardinality(matched) = 1
  /\ \A s \in matched : s.kind = "database" /\ \A t \in services : s.name \notin t.deps

Policy(p, matched, services) ==
  IF \/ p.op = "set-service-image" /\ ~InCatalog(p.arg)
     \/ p.op = "remove-service" /\ ~SafeRemoval(matched, services)
     \/ p.op = "add-service-volume" /\ p.arg.from = HostPath
     \/ p.op = "add-service" /\ HostPath \in Sources(p.arg)
    THEN "policy" ELSE ""

(* evaluatePatchRelevance: a patch has to be about a finding, and about a  *)
(* service one was found at: "elsewhere" if its target is another.         *)
AboutReplicas(f) == f.about \in {"container", "replicas"}
Relevance(p, matched, findings, aboutReplicas) ==
  LET affected == {f.at : f \in findings} \ {NoName}
      placed == affected # {} /\ p.affects # {}
  IN IF findings = {} \/ aboutReplicas THEN ""
     ELSE IF \/ p.resolves # {} /\ p.resolves \cap {f.code : f \in findings} = {}
             \/ placed /\ p.affects \cap affected = {}
       THEN "irrelevant"
     ELSE IF placed /\ matched # {} /\ NamesOf(matched) \cap affected = {} THEN "elsewhere"
     ELSE IF p.op = "set-service-replicas" /\ \A f \in findings : ~AboutReplicas(f) THEN "irrelevant"
     ELSE ""

(* What speaks against a patch; the user may allow an operation.           *)
Objection(p, res, services, allowed, findings, aboutReplicas) ==
  LET relevance == Relevance(p, res.matched, findings, aboutReplicas)
  IN IF res.blocked # "" THEN res.blocked
     ELSE IF relevance # "" THEN relevance
     ELSE IF p.op \in allowed THEN "" ELSE Policy(p, res.matched, services)

-----------------------------------------------------------------------------
(* What a patch does.                                                      *)

(* stripDisallowedHostPortsFromSpec.                                       *)
(* Mutated: every service may publish ports.                               *)
StrippedNever(s) == s
Stripped(s) == IF s.kind = "proxy" THEN s ELSE [s EXCEPT !.ports = <<>>]
StrippedSpec(spec) == [spec EXCEPT !.services = {Stripped(s) : s \in @}]

(* rebuildServiceForTrustedImage: another family or kind takes the ports,  *)
(* the environment and the volume of its profile.                          *)
OtherFamily(s, image) == Trusted(image) /\ Trusted(s.image) /\ image.family # s.image.family

RenamedTo(s, image) ==
  IF OtherFamily(s, image) /\ s.name[1] = s.image.family /\ Len(s.name) <= 2
    THEN <<image.family>> \o Tail(s.name) ELSE s.name

Rebuilt(s, image) ==
  LET new == Profiles[image.family]
      reset == OtherFamily(s, image)
      oldKeys == IF reset THEN {e[1] : e \in Profiles[s.image.family].env} ELSE {}
      own == {e \in s.env : e[1] \notin oldKeys}
      kept == IF reset THEN {} ELSE {m \in s.mounts : m.at = new.data}
      name == RenamedTo(s, image)
  IN IF ~Trusted(image) THEN [s EXCEPT !.kind = KindOf(image), !.image = image]
     ELSE [s EXCEPT
             !.name = name, !.kind = new.kind, !.image = image,
             !.ports = IF new.ports # <<>> THEN new.ports ELSE IF reset THEN <<>> ELSE @,
             !.env = own \cup {e \in new.env : \A f \in own : f[1] # e[1]},
             !.mounts = IF new.data = "" THEN IF reset THEN {} ELSE @
                        ELSE IF kept # {} THEN kept
                        ELSE {[from |-> DataVolume(name), at |-> new.data]}]

(* applySetServiceImagePatch; the matched services are of one family.      *)
SetImage(spec, matched, image) ==
  LET new(d) == LET s == Named(matched, {d})
                IN IF s = {} THEN d ELSE Rebuilt(CHOOSE t \in s : TRUE, image).name
      services == {[(IF s \in matched THEN Rebuilt(s, image) ELSE s)
                      EXCEPT !.deps = {new(d) : d \in @}] : s \in spec.services}
  IN [spec EXCEPT !.services = services,
                  !.volumes = (@ \ UNION {Sources(s) : s \in matched})
                              \cup UNION {Declared(s) : s \in services}]

(* Mutated: who depends on a member keeps the members it knows.            *)
DependentsLeft(services, names, to) == services
DependentsOf(services, names, to) ==
  {[s EXCEPT !.deps = {IF d \in names THEN to ELSE d : d \in @}] : s \in services}

(* resizeStatefulDatabaseReplicaGroup: the first replica is the pattern.   *)
Resize(spec, g, n) ==
  LET names == NamesOf(g.members)
      first == CHOOSE s \in g.members :
                 \A t \in g.members : Numbered(s.name) => Ordinal(s.name) <= Ordinal(t.name)
      others == first.deps \ names
      from == [BaseVolume([first EXCEPT !.name = g.base])
                 EXCEPT !.nrs = IF @ = <<>> THEN @ ELSE SeqX!Front(@)]
      logical == [first EXCEPT !.name = g.base, !.replicas = n,
                               !.deps = IF others = {} THEN @ ELSE others,
                               !.mounts = {[from |-> from, at |-> DataTarget(first)]}]
      single == [first EXCEPT !.replicas = 0, !.deps = others]
      pattern == IF n = 1 THEN single ELSE logical
      rest == DependentsOf(spec.services \ g.members, names, pattern.name)
      resized == [spec EXCEPT !.services = rest \cup {pattern},
                              !.volumes = @ \ UNION {Sources(s) : s \in g.members}]
      declared(sp) == [sp EXCEPT !.volumes = @ \cup UNION {Declared(s) : s \in sp.services}]
  IN IF n = 1 THEN [resized EXCEPT !.volumes = @ \cup Declared(single)]
              ELSE declared(Expand(resized))

(* The patches of a single service.                                        *)
EditPorts(s, p) ==
  CASE p.op = "replace-service-port" ->
         [s EXCEPT !.ports =
            Unique(IF p.from # <<>> THEN [i \in DOMAIN @ |-> IF <<@[i]>> = p.from THEN p.arg ELSE @[i]]
                   ELSE IF @ = <<>> THEN <<p.arg>> ELSE <<p.arg>> \o Tail(@))]
    [] p.op = "add-service-port" -> [s EXCEPT !.ports = Unique(Append(@, p.arg))]
    [] p.op = "remove-service-port" ->
         [s EXCEPT !.ports = IF p.from = <<>> THEN <<>> ELSE SelectSeq(@, LAMBDA q : <<q>> # p.from)]

Edited(s, p) ==
  CASE p.op \in {"replace-service-port", "add-service-port", "remove-service-port"} -> EditPorts(s, p)
    [] p.op = "set-service-replicas" -> [s EXCEPT !.replicas = p.arg]
    [] p.op = "set-service-env" -> [s EXCEPT !.env = {e \in @ : e[1] # p.arg[1]} \cup {p.arg}]
    [] p.op = "remove-service-env" -> [s EXCEPT !.env = {e \in @ : e[1] # p.arg}]
    [] p.op = "add-service-volume" -> [s EXCEPT !.mounts = @ \cup {p.arg}]
    [] p.op = "remove-service-volume" -> [s EXCEPT !.mounts = @ \ {p.arg}]
    [] p.op = "add-service-dependency" -> [s EXCEPT !.deps = @ \cup {p.arg}]
    [] p.op = "remove-service-dependency" -> [s EXCEPT !.deps = @ \ {p.arg}]
    [] p.op = "set-service-desired-status" -> [s EXCEPT !.status = p.arg]

(* The patches of the whole specification.                                 *)
EditSpec(spec, p) ==
  CASE p.op = "set-project-name" -> [spec EXCEPT !.project = p.arg]
    [] p.op = "rename-network" ->
         [spec EXCEPT !.networks =
            IF @ = {} THEN {p.arg} ELSE {IF p.from \in {<<>>, <<n>>} THEN p.arg ELSE n : n \in @}]
    [] p.op = "set-networks" -> [spec EXCEPT !.networks = p.arg]
    [] p.op = "add-service" ->
         IF p.arg.name \in NamesOf(spec.services) THEN spec
         ELSE [spec EXCEPT !.services = @ \cup {Stripped(p.arg)},
                           !.networks = IF @ = {} THEN {DefaultNetwork} ELSE @,
                           !.volumes = @ \cup Declared(p.arg)]

Rename(spec, old, new) ==
  LET to(d) == IF d = old THEN new ELSE d
  IN [spec EXCEPT !.services = {[s EXCEPT !.name = to(@), !.deps = {to(d) : d \in @}] : s \in @}]

Remove(spec, name) ==
  [spec EXCEPT !.services = {[s EXCEPT !.deps = @ \ {name}] : s \in {t \in @ : t.name # name}}]

(* applyResolvedPatch.                                                     *)
Applied(spec, p, matched) ==
  LET group == FittingGroups(spec.services, p.target, matched, FALSE)
      s == CHOOSE t \in matched : TRUE
      edited == [spec EXCEPT !.services = (@ \ {s}) \cup {Edited(s, p)}]
  IN IF ~HasTarget(p) THEN EditSpec(spec, p)
     ELSE IF p.op = "set-service-replicas" /\ group # {}
       THEN Resize(spec, CHOOSE g \in group : TRUE, p.arg)
     ELSE IF p.op = "set-service-image" THEN SetImage(spec, matched, Normalized(p.arg))
     ELSE IF Cardinality(matched) # 1 THEN spec
     ELSE IF p.op = "remove-service" THEN Remove(spec, s.name)
     ELSE IF p.op = "rename-service" THEN Rename(spec, s.name, p.arg)
     ELSE IF p.op = "set-service-replicas" /\ s.kind = "database" THEN Expand(edited)
     ELSE IF p.op = "add-service-volume" THEN [edited EXCEPT !.volumes = @ \cup ({p.arg.from} \ {HostPath})]
     ELSE edited

(* applySpecPatchPlan: one patch after the other.  A new image may rename  *)
(* its services; later patches that name them by the old name follow.      *)
Aliased(p, alias) ==
  LET known == {a \in alias : a[1] = p.target.name}
  IN IF known = {} THEN p ELSE [p EXCEPT !.target.name = (CHOOSE a \in known : TRUE)[2]]

RememberRenames(alias, p, matched) ==
  LET moved == IF p.op # "set-service-image" THEN {}
               ELSE {<<s.name, RenamedTo(s, Normalized(p.arg))>> : s \in matched}
      renamed == {a \in moved : a[1] # a[2]}
      later(a) == LET next == {b \in renamed : b[1] = a[2]}
                  IN IF next = {} THEN a ELSE <<a[1], (CHOOSE b \in next : TRUE)[2]>>
  IN {later(a) : a \in {b \in alias : \A c \in renamed : c[1] # b[1]}} \cup renamed

(* For the properties only: the replicas of databases that are given a     *)
(* number of replicas of their own, without their group.                   *)
Alone(services, p, matched) ==
  {s \in matched : /\ p.op = "set-service-replicas" /\ s.kind = "database" /\ Numbered(s.name)
                   /\ FittingGroups(services, p.target, matched, FALSE) = {}}

Noted(acc, p, matched, blocked, spec) ==
  [spec |-> spec,
   alias |-> IF blocked = "" THEN RememberRenames(acc.alias, p, matched) ELSE acc.alias,
   alone |-> IF blocked = "" THEN acc.alone \cup Alone(acc.spec.services, p, matched) ELSE acc.alone,
   results |-> Append(acc.results,
     [op |-> p.op, blocked |-> blocked, applied |-> IF spec = acc.spec THEN "no" ELSE "yes"])]

Tried(acc, p, matched, blocked) ==
  Noted(acc, p, matched, blocked,
        IF blocked # "" THEN acc.spec ELSE StrippedSpec(Applied(acc.spec, p, matched)))

Checked(acc, p, res, allowed, findings, aboutReplicas) ==
  Tried(acc, p, res.matched, Objection(p, res, acc.spec.services, allowed, findings, aboutReplicas))

Found(acc, p, allowed, findings, aboutReplicas) ==
  Checked(acc, p, Resolve(p, acc.spec.services), allowed, findings, aboutReplicas)

PatchedBy(acc, p, allowed, findings, aboutReplicas) ==
  Found(acc, Aliased(p, acc.alias), allowed, findings, aboutReplicas)

Patched(spec, patches, allowed, findings, aboutReplicas) ==
  LET after[n \in 0..Len(patches)] ==
        IF n = 0 THEN [spec |-> StrippedSpec(spec), alias |-> {}, alone |-> {}, results |-> <<>>]
        ELSE PatchedBy(after[n - 1], patches[n], allowed, findings, aboutReplicas)
  IN after[Len(patches)]
=============================================================================
