------------------------------ MODULE AdjustPolicy ------------------------------
(***************************************************************************)
(* What "plan --adjust" may change: cli/adjust-policy.ts.  The revised     *)
(* specification is compared with the one of the current snapshot.         *)
(***************************************************************************)
EXTENDS SpecPatch

Adjustable == {"backend", "database"}

(* buildDatabaseGroups: databases under the name before their number.      *)
Logical(name) == IF Numbered(name) THEN BaseOf(name) ELSE name
Databases(spec) == {s \in spec.services : s.kind = "database"}
Bases(spec) == {Logical(s.name) : s \in Databases(spec)}
Group(spec, base) == {s \in Databases(spec) : Logical(s.name) = base}

(* The fingerprints: what every member has, and what the first one has.    *)
Targets(s) == {m.at : m \in s.mounts}
Templates(spec, base) ==
  {[kind |-> s.kind, image |-> s.image, at |-> Targets(s),
    env |-> {e \in s.env : e[1] \notin Secrets}] : s \in Group(spec, base)}

RankOf(name) == IF Numbered(name) /\ Ordinal(name) > 0 THEN Ordinal(name) ELSE 1
Primaries(spec, base) ==
  LET members == Group(spec, base)
      earlier(s, t) == \/ RankOf(s.name) < RankOf(t.name)
                       \/ RankOf(s.name) = RankOf(t.name) /\ Len(s.name) <= Len(t.name)
  IN {[image |-> s.image, at |-> Targets(s), env |-> s.env] :
        s \in {t \in members : \A u \in members : earlier(t, u)}}

ReplicasOf(s) == IF s.replicas = 0 THEN 1 ELSE s.replicas

(* detectSupportedAdjustChanges.                                           *)
HasSupportedChange(new, old) ==
  \/ \E s \in new.services, t \in old.services :
       s.name = t.name /\ s.kind \in Adjustable /\ ReplicasOf(s) # ReplicasOf(t)
  \/ \E base \in Bases(new) : Cardinality(Group(new, base)) # Cardinality(Group(old, base))

(* diffAdjustScope, one disjunct per kind of violation.                    *)
Others(spec) == spec.services \ Databases(spec)
LogicalDeps(s, bases) ==
  {IF Numbered(d) /\ BaseOf(d) \in bases THEN BaseOf(d) ELSE d : d \in s.deps}

FieldsDiffer(s, t, bases) ==
  \/ s.kind # t.kind \/ s.image # t.image
  \/ s.ports # t.ports \/ s.env # t.env \/ s.mounts # t.mounts
  \/ LogicalDeps(s, bases) # LogicalDeps(t, bases)

GroupVolume(v, project, bases) == v.of \in bases /\ v.in \in {<<>>, project} /\ Len(v.nrs) <= 1

OutOfScope(new, old) ==
  LET bases == Bases(new) \cup Bases(old)
      changed == (new.volumes \ old.volumes) \cup (old.volumes \ new.volumes)
  IN \/ ~(NamesOf(Others(old)) \subseteq NamesOf(new.services))
     \/ ~(NamesOf(Others(new)) \subseteq NamesOf(old.services))
     \/ \E s \in Others(new), t \in old.services : s.name = t.name /\ FieldsDiffer(s, t, bases)
     \/ \E base \in bases : \/ Templates(new, base) # Templates(old, base)
                            \/ Primaries(new, base) # Primaries(old, base)
     \/ new.networks # old.networks
     \/ \E v \in changed : ~GroupVolume(v, old.project, bases)
     \/ new.project # old.project

(* validateAdjustReplicas: the count may change only where it may.         *)
BadReplicas(new, old) ==
  LET folded(s, spec) == IF Numbered(s.name) /\ BaseOf(s.name) \in Bases(spec)
                           THEN Cardinality(Group(spec, BaseOf(s.name))) ELSE 1
      count(s, spec) == IF s.replicas # 0 THEN s.replicas ELSE folded(s, spec)
      after(s) == IF Numbered(s.name) /\ BaseOf(s.name) \in Bases(new)
                    THEN folded(s, new) ELSE ReplicasOf(s)
      before(s) == LET logical == IF Numbered(s.name) /\ BaseOf(s.name) \in Bases(new)
                                    THEN BaseOf(s.name) ELSE s.name
                   IN IF logical \in NamesOf(old.services) THEN Named(old.services, {logical})
                      ELSE Named(old.services, {s.name})
  IN \E s \in new.services : \E t \in before(s) :
       after(s) # count(t, old) /\ s.kind \notin Adjustable
=============================================================================
