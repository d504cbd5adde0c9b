------------------------------- MODULE DraftSpec -------------------------------
(***************************************************************************)
(* From the draft of a prompt to a specification: the pure part of         *)
(* agent/react-agent.ts, with domain/topology-graph.ts, the replicas of    *)
(* stateful-database-volumes.ts and the rules of schemas.ts.               *)
(*                                                                         *)
(* A name is a base and the number after its last hyphen, 0 if none; the   *)
(* base of an image is a name as well.  Ports, volumes, secrets and        *)
(* resources are left out, except that one of them may be malformed.       *)
(***************************************************************************)
EXTENDS Naturals, Sequences, FiniteSets

SeqX == INSTANCE SequencesExt

CONSTANTS
  Bases,         \* names without a number
  MaxReplicas,
  Images,        \* images of the catalog, by their base
  KindOf,        \* what a service with such an image is
  Resolved,      \* misspelt images, and what they are resolved to
  Contains       \* <<text, name>>: a text with a name in it contains another one

Kinds == {"proxy", "backend", "database"}

ASSUME DraftAssumption ==
  /\ MaxReplicas \in Nat \ {0}
  /\ Images \cup DOMAIN Resolved \cup {"web", "api", "odd"} \subseteq Bases
  /\ {"odd", "none"} \cap (Images \cup DOMAIN Resolved) = {}
  /\ KindOf \in [Images -> Kinds] /\ Resolved \in [DOMAIN Resolved -> Images]

Names == [base : Bases, nr : 0..MaxReplicas]
Plain(base) == [base |-> base, nr |-> 0]
NoName == [base |-> "", nr |-> 0]

(* "odd" is an image outside the catalog, "none" no image at all.          *)
Written == Images \cup DOMAIN Resolved \cup {"odd"}
DraftService ==
  [name : Names \cup {NoName}, image : Written \cup {"none"},
   replicas : 1..MaxReplicas, needs : SUBSET Names, form : {"ok", "bad"}]
SpecService ==
  [name : Names, image : Written, deps : SUBSET Names, form : {"ok", "bad"}]

(* getServiceKind: what is not known is a backend.                         *)
Kind(s) == IF s.image \in Images THEN KindOf[s.image] ELSE "backend"
Elements(seq) == {seq[i] : i \in DOMAIN seq}
NamesOf(spec) == {s.name : s \in Elements(spec)}
OfKind(spec, kind) == {s.name : s \in {t \in Elements(spec) : Kind(t) = kind}}
FirstIndex(seq, P(_)) ==
  CHOOSE i \in DOMAIN seq : P(seq[i]) /\ \A j \in 1..(i - 1) : ~P(seq[j])

-----------------------------------------------------------------------------
(* buildSpecFromDraft.                                                     *)

HasKind(services, kinds) == \E s \in Elements(services) : Kind(s) \in kinds

(* getDefaultServiceName: a node next to a proxy or a database is the api. *)
DefaultName(image, beside) == Plain(IF image = "node" /\ beside THEN "api" ELSE image)

NamedService(s, services) ==
  LET beside == HasKind(services, {"proxy", "database"})
      auto == s.name = NoName \/ (s.image = "node" /\ s.name = Plain("node") /\ beside)
  IN [s EXCEPT !.name = IF auto THEN DefaultName(s.image, beside) ELSE @]

(* inferMissingServiceDependencies: all databases for a backend, all       *)
(* backends, or else all databases, for a proxy.                           *)
Inferred(s, services) ==
  LET backends == OfKind(services, "backend")
      databases == OfKind(services, "database")
      added == IF Kind(s) = "backend" THEN databases
               ELSE IF Kind(s) = "database" THEN {}
               ELSE IF backends # {} THEN backends ELSE databases
  IN ((s.needs \cup added) \cap NamesOf(services)) \ {s.name}

(* expandStatefulDatabaseReplicas: each replica of a database becomes a    *)
(* service, which depends on the first.  Of services with the same name    *)
(* others depend on the last one's.                                        *)
Replicated(s) == Kind(s) = "database" /\ s.replicas > 1
Replica(s, i) == [base |-> s.name.base, nr |-> i]
Parts(s) == IF Replicated(s) THEN {Replica(s, i) : i \in 1..s.replicas} ELSE {s.name}

Named(n, services) == services[SeqX!SelectLastInSeq(services, LAMBDA s : s.name = n)]

Expanded(s, services) ==
  LET deps == UNION {Parts(Named(n, services)) : n \in Inferred(s, services)}
      one(name, more) == [name |-> name, image |-> s.image, deps |-> deps \cup more, form |-> s.form]
  IN IF Replicated(s)
       THEN [i \in 1..s.replicas |-> one(Replica(s, i), IF i = 1 THEN {} ELSE {Replica(s, 1)})]
       ELSE <<one(s.name, {})>>

(* Services without an image are left out.                                 *)
Deployable(draft) ==
  SeqX!FlattenSeq([i \in 1..Len(draft) |-> IF draft[i].image = "none" THEN <<>> ELSE <<draft[i]>>])

AllNamed(services) == [i \in 1..Len(services) |-> NamedService(services[i], services)]
AllExpanded(services) == [i \in 1..Len(services) |-> Expanded(services[i], services)]
Build(draft) == SeqX!FlattenSeq(AllExpanded(AllNamed(Deployable(draft))))

(* infrastructureSpecSchema.                                               *)
Valid(spec) ==
  /\ Cardinality(NamesOf(spec)) = Len(spec)
  /\ \A s \in Elements(spec) : s.form = "ok" /\ s.deps \subseteq NamesOf(spec) \ {s.name}

-----------------------------------------------------------------------------
(* detectPlanningUncertainties.                                            *)

Targets(s) == IF Kind(s) = "proxy" THEN "backend" ELSE "database"

(* isSingleDatabaseReplicaGroup.                                           *)
OneGroup(databases, chosen) ==
  /\ Cardinality({n.base : n \in databases}) = 1
  /\ \A n \in databases : n.nr # 0
  /\ \E n \in databases : n.nr = 1
  /\ chosen # {}

Ambiguous(s, spec) ==
  LET candidates == OfKind(spec, Targets(s))
      chosen == s.deps \cap candidates
  IN /\ Kind(s) # "database"
     /\ Cardinality(candidates) > 1 /\ Cardinality(chosen) # 1
     /\ Kind(s) = "backend" => ~OneGroup(candidates, chosen)

DepsOf(spec, n) == UNION {s.deps : s \in {t \in Elements(spec) : t.name = n}}
Reaches(spec, n, m) ==
  \A S \in SUBSET NamesOf(spec) :
    n \in S /\ (\A k \in S : DepsOf(spec, k) \subseteq S) => m \in S
OnCycle(spec) ==
  {e \in NamesOf(spec) \X NamesOf(spec) :
     e[1] # e[2] /\ e[2] \in DepsOf(spec, e[1]) /\ Reaches(spec, e[2], e[1])}

Certain(spec) == OnCycle(spec) = {} /\ \A s \in Elements(spec) : ~Ambiguous(s, spec)

(* The first one, which is asked; topology-graph.ts names one of the       *)
(* cycles, which one is left open.                                         *)
Uncertainty(spec) ==
  IF \E s \in Elements(spec) : Ambiguous(s, spec)
    THEN [about |-> "target",
          of |-> spec[FirstIndex(spec, LAMBDA s : Ambiguous(s, spec))].name]
    ELSE [about |-> "cycle", of |-> NoName]

(* The changes it offers.                                                  *)
DependsOn(s, n) == [op |-> "dependsOn", of |-> s, on |-> n]
NoDatabase(s) == [op |-> "noDatabase", of |-> s, on |-> NoName]
RemoveEdge(e) == [op |-> "removeEdge", of |-> e[1], on |-> e[2]]

Service(spec, n) == spec[FirstIndex(spec, LAMBDA s : s.name = n)]
Offers(spec, q) ==
  IF q.about = "cycle" THEN {RemoveEdge(e) : e \in OnCycle(spec)}
  ELSE LET s == Service(spec, q.of)
       IN {DependsOn(q.of, n) : n \in OfKind(spec, Targets(s))}
          \cup {c \in {NoDatabase(q.of)} : Kind(s) = "backend"}

(* inferChoiceValueFromOtherText: the first offer whose name is in a text  *)
(* that names n.                                                           *)
Meant(spec, q, n) ==
  LET found == {c \in Offers(spec, q) : <<n, c.on>> \in Contains}
      at(c) == FirstIndex(spec, LAMBDA s : s.name = c.on)
  IN IF q.about = "cycle" THEN found
     ELSE {c \in found : \A d \in found : at(c) <= at(d)}

(* applyClarificationAnswer.  The target that is chosen replaces all       *)
(* dependencies of the service.                                            *)
Changed(deps, c, spec) ==
  CASE c.op = "dependsOn"  -> {c.on}
    [] c.op = "noDatabase" -> deps \ OfKind(spec, "database")
    [] c.op = "removeEdge" -> deps \ {c.on}

Apply(spec, c) ==
  [i \in DOMAIN spec |->
     IF spec[i].name = c.of THEN [spec[i] EXCEPT !.deps = Changed(@, c, spec)] ELSE spec[i]]

-----------------------------------------------------------------------------
(* Images.                                                                 *)

(* resolveDraftImageReferences: a misspelt name follows its image.         *)
ResolvedService(s) ==
  IF s.image \notin DOMAIN Resolved THEN s
  ELSE [s EXCEPT !.image = Resolved[@],
                 !.name = IF @ \in {NoName, Plain(s.image)} THEN Plain(Resolved[s.image]) ELSE @]
ResolveImages(draft) == [i \in 1..Len(draft) |-> ResolvedService(draft[i])]

WithImage(draft, i, image, name) ==
  [draft EXCEPT ![i].image = image, ![i].name = IF @ = NoName THEN name ELSE @]

(* buildUnsupportedImageClarification, for the first odd image; the image  *)
(* suggested first is filled in.                                           *)
OddQuestions(draft) ==
  LET i == FirstIndex(draft, LAMBDA s : s.image = "odd")
      filled(c) == WithImage(draft, i, c[1], Plain(c[2]))
  IN {[draft |-> filled(c), of |-> filled(c)[i].name, kinds |-> Kinds] :
        c \in {d \in Images \X Bases : d[2] \in {"odd", d[1]}}}

(* buildImageSelectionClarification, for some service without image: the   *)
(* recommended image is filled in.  An unnamed service is looked up in the *)
(* specification by its image.                                             *)
FirstWith(image, spec) == spec[FirstIndex(spec, LAMBDA s : s.image = image)].name
SelectQuestion(draft, i, image, filled) ==
  [draft |-> filled, kinds |-> {KindOf[image]},
   of |-> IF draft[i].name # NoName THEN draft[i].name ELSE FirstWith(image, Build(filled))]
SelectQuestions(draft) ==
  {SelectQuestion(draft, c[1], c[2], WithImage(draft, c[1], c[2], Plain("web"))) :
     c \in {i \in DOMAIN draft : draft[i].image = "none"} \X Images}

ImageQuestions(draft, signal) ==
  IF \E s \in Elements(draft) : s.image = "odd" THEN OddQuestions(draft)
  ELSE IF signal = "generic" THEN SelectQuestions(ResolveImages(draft)) ELSE {}

(* setServiceImage, for the first service of the draft with the name; it   *)
(* is renamed if it was called like its image.                             *)
KnowsService(draft, n) == \E s \in Elements(draft) : s.name = n
SetImage(draft, n, image) ==
  LET i == FirstIndex(draft, LAMBDA s : s.name = n)
      old == draft[i].image
      called == IF old = "none" THEN {n}
                ELSE {Plain(old), DefaultName(old, TRUE)} \cup {w \in {Plain("web")} : image # old}
  IN [draft EXCEPT ![i].image = image,
                   ![i].name = IF @ \in called THEN Plain(image) ELSE @]

=============================================================================
