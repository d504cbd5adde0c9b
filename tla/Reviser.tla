-------------------------------- MODULE Reviser --------------------------------
(***************************************************************************)
(* reviseFromFeedback of agent/standard-planner-agent.ts: what the         *)
(* findings of a check, the words of the user and the plan of the language *)
(* model make of a specification, and what the user is asked about it.     *)
(*                                                                         *)
(* Words are what is read out of them: the number of replicas asked for,   *)
(* whether it is meant for a database group as a whole, the names in them, *)
(* and the operations they allow ("allow:<op>").  A finding has a code, a  *)
(* place, what it is about, whether the user has to speak and what is      *)
(* suggested; the texts of the findings are hints.                         *)
(***************************************************************************)
EXTENDS AdjustPolicy

CONSTANTS
  Fallbacks,     \* image families to the trusted image that replaces them
  Suffixes       \* the suffix of a project name in each attempt

(* getTrustedDefaultImageForBase, getTrustedReplacementImages.             *)
ASSUME ReviserAssumption == \A family \in DOMAIN Fallbacks : Trusted(Fallbacks[family])

NoNumber == -1
Silent == [text |-> "none", replicas |-> NoNumber, total |-> "no", names |-> {}, allow |-> {}]
Said(op) == [Silent EXCEPT !.text = "said", !.allow = IF op = "" THEN {} ELSE {op}]

(* Plans of the model: patches and whether they need the user.  "which":   *)
(* there is no patch because the service meant is not clear.               *)
NoPlan == [from |-> "none", patches |-> <<>>, asks |-> "no"]
IsPlan(plan) ==
  /\ IsRecord(plan, {"from", "patches", "asks"})
  /\ IsSeq(plan.patches) /\ \A i \in DOMAIN plan.patches : IsPatch(plan.patches[i])

(* collectFeedbackLimitViolations.                                         *)
OverLimit(words) == words.replicas # NoNumber /\ words.replicas \notin 1..MaxReplicas
LimitPlan == [from |-> "limit", patches |-> <<>>, asks |-> "yes"]

(* buildDatabaseReplicaGroups, resolveSingleStatefulDatabaseGroup...       *)
DatabaseGroups(spec) ==
  LET lone(s) == Replicated(s) \/ ~Numbered(s.name)
      databases == Databases(spec)
  IN {[base |-> Logical(s.name), members |-> {s}] : s \in {t \in databases : lone(t)}}
     \cup {[base |-> b, members |-> {s \in databases : ~lone(s) /\ Logical(s.name) = b}] :
             b \in {Logical(s.name) : s \in {t \in databases : ~lone(t)}}}

Family(g) == (CHOOSE s \in g.members :
                \A t \in g.members : Numbered(s.name) => Ordinal(s.name) <= Ordinal(t.name)).image.family
MeantBy(sel, g) ==
  \/ sel.kind = "database" \/ sel.family = Family(g)
  \/ sel.name \in NamesOf(g.members) \cup {g.base}
  \/ sel.like \in {g.base[1], Family(g)}

TheGroup(spec, words, patches) ==
  LET resizes == SelectSeq(patches, LAMBDA p : p.op = "set-service-replicas")
      groups == DatabaseGroups(spec)
      meant == {g \in groups : \/ words.names \cap (NamesOf(g.members) \cup {g.base, <<Family(g)>>}) # {}
                               \/ \E i \in DOMAIN resizes : MeantBy(resizes[i].target, g)}
  IN IF Cardinality(meant) = 1 THEN meant
     ELSE IF meant = {} /\ Cardinality(groups) = 1 THEN groups ELSE {}

(* The patches at some places of a plan.                                   *)
Kept(patches, at) ==
  SeqX!FlattenSeq([i \in 1..Len(patches) |-> IF i \in at THEN <<patches[i]>> ELSE <<>>])

(* normalizeStatefulDatabaseReplicaPatchPlan: a number for the whole group *)
(* takes the place of every change of replicas, and nothing is asked.      *)
GroupPlan(spec, plan, words) ==
  LET group == TheGroup(spec, words, plan.patches)
      g == CHOOSE h \in group : TRUE
      whole == [op |-> "set-service-replicas",
                target |-> [AnyService EXCEPT !.group = "replica-group", !.name = g.base,
                                              !.kind = "database", !.family = Family(g)],
                from |-> <<>>, arg |-> words.replicas, resolves |-> {}, affects |-> {}]
  IN IF words.total = "no" \/ words.replicas < 1 \/ group = {} THEN plan
     ELSE [plan EXCEPT !.asks = "no",
             !.patches = <<whole>> \o Kept(@, {i \in DOMAIN @ : @[i].op # "set-service-replicas"})]

(* normalizeHostPortConflictPatchPlan: a taken port is replaced, never     *)
(* removed, and a plan that does not replace it asks for one.              *)
PortPlan(spec, plan, findings) ==
  LET taken == {s \in spec.services :
                  s.ports # <<>> /\ \E f \in findings : f.code = "HOST_PORT_CONFLICT" /\ f.at = s.name}
      removes(p) == p.op = "remove-service-port" /\ Selected(p.target, spec.services) \cap taken # {}
      patches == Kept(plan.patches, {i \in DOMAIN plan.patches : ~removes(plan.patches[i])})
      replaced == UNION {Selected(patches[i].target, spec.services) :
                           i \in {j \in DOMAIN patches : patches[j].op = "replace-service-port"}}
  IN IF taken = {} THEN plan
     ELSE [plan EXCEPT !.patches = patches, !.asks = IF taken \subseteq replaced THEN @ ELSE "yes"]

PlanFor(spec, words, findings, offered) ==
  IF words.text # "none" /\ OverLimit(words) THEN PortPlan(spec, LimitPlan, findings)
  ELSE IF offered.from = "none" THEN NoPlan
  ELSE PortPlan(spec, IF words.text = "none" THEN offered ELSE GroupPlan(spec, offered, words), findings)

(* What is read out of the text of an issue: a change, with what it is to  *)
(* be; the services the text mentions, by name, by image or as the proxy;  *)
(* an operation it allows, or the name of a container.  A text that says   *)
(* several things is several hints, in the order of the code; zero         *)
(* replicas fail the schema as too many do.                                *)
Early == {"set-project-name", "rename-network", "set-networks", "rename-service"}
Late == {"add-service-dependency", "remove-service-dependency", "set-service-image"}
Last == {"set-service-replicas"}
IsHint(h) ==
  /\ IsRecord(h, {"op", "names", "families", "proxy", "target", "from", "arg"})
  /\ h.op \in Early \cup Late \cup Last \cup {"nothing", "allow", "container"}
  /\ h.op = "set-project-name" => IsProject(h.arg)
  /\ h.op \in {"rename-network", "set-networks"} => IsResource(h.arg)
  /\ h.op = "rename-service" => IsName(h.arg)
  /\ h.op = "set-service-image" => IsRecord(h.arg, {"family", "tag"})
  /\ h.op = "set-service-replicas" => h.arg \in Nat \ {0}

(* What a scan or a deployment reports: findings, and what is read out of  *)
(* the texts of the issues.                                                *)
NoReport == [findings |-> {}, issues |-> <<>>]
IsReport(report) == IsSeq(report.issues) /\ \A i \in DOMAIN report.issues : IsHint(report.issues[i])
Read(report, ops) == {h \in {report.issues[i] : i \in DOMAIN report.issues} : h.op \in ops}
ArgsOf(hints) == {h.arg : h \in hints}

(* findMentionedServiceName; the first of the list if there are several.   *)
Mentioned(services, h) ==
  LET called == {s \in services : s.name \in h.names}
      alike == {s \in services : s.image.family \in h.families}
      exposed == {s \in services : s.ports # <<>>}
      proxies == {s \in exposed : s.kind = "proxy"}
      one(S) == (CHOOSE s \in S : TRUE).name
  IN IF called # {} THEN one(called)
     ELSE IF alike # {} THEN one(alike)
     ELSE IF h.proxy = "yes" /\ Cardinality(proxies) = 1 THEN one(proxies)
     ELSE IF Cardinality(exposed) = 1 THEN one(exposed) ELSE NoName

(* normalizeRevisionImage, and rebuildServiceForTrustedImage: whatever is  *)
(* in no catalog changes the image and the kind.                           *)
ReadImage(image) ==
  IF InCatalog(image) THEN [image EXCEPT !.tag = Profiles[image.family].default] ELSE image
RebuiltAnyway(s, image) ==
  LET new == Profiles[image.family]
      kept == {m \in s.mounts : m.at = new.data}
  IN IF ~Trusted(image) THEN [s EXCEPT !.kind = KindOf(image), !.image = image]
     ELSE [s EXCEPT !.kind = new.kind, !.image = image,
                    !.ports = IF new.ports # <<>> THEN new.ports ELSE @,
                    !.env = @ \cup {e \in new.env : \A f \in @ : f[1] # e[1]},
                    !.mounts = IF new.data = "" THEN @ ELSE IF kept # {} THEN kept
                               ELSE {[from |-> DataVolume(s.name), at |-> new.data]}]

(* parseRevisionPatches: another image for one that is not there, another  *)
(* project name for a name that is taken.  Only a service with a single    *)
(* container is found by its container.                                    *)
MissingImages(spec, findings) ==
  {s \in spec.services :
     /\ s.image.family \in DOMAIN Fallbacks
     /\ \E f \in findings : f.code \in {"IMAGE_PULL_FAILED", "IMAGE_NOT_FOUND"} /\ f.at = s.name}
NameTaken(spec, report) ==
  \E s \in spec.services :
    \/ \E f \in report.findings : f.code = "CONTAINER_NAME_CONFLICT" /\ f.at = spec.project \o s.name
    \/ spec.project \o s.name \in ArgsOf(Read(report, {"container"}))

(* applyRevisionPatch: a hint for the specification it was read for.       *)
ForService(spec, h) ==
  [spec EXCEPT !.services = {IF s.name = h.target THEN Edited(s, h) ELSE s : s \in @}]
Followed(spec, h, parsed) ==
  LET target == Mentioned(parsed.services, h)
      meant(s) == target = s.name \/ (target = NoName /\ Cardinality(spec.services) = 1)
  IN CASE h.op \in {"set-project-name", "rename-network"} -> EditSpec(spec, h)
       [] h.op = "set-networks" -> [spec EXCEPT !.networks = parsed.networks \cup {h.arg}]
       [] h.op = "rename-service" -> Rename(spec, h.target, h.arg)
       [] h.op = "add-service-dependency" ->
            IF h.arg \in NamesOf(spec.services) \ {h.target} THEN ForService(spec, h) ELSE spec
       [] h.op \in {"remove-service-dependency", "set-service-replicas"} -> ForService(spec, h)
       [] h.op = "set-service-image" ->
            [spec EXCEPT !.services =
               {IF meant(s) THEN RebuiltAnyway(s, ReadImage(h.arg)) ELSE s : s \in @}]

Mended(acc, spec) ==
  [spec |-> spec, tried |-> "yes", moved |-> IF spec = acc.spec THEN acc.moved ELSE "yes"]
(* A service that is not there when the text is read is not renamed.       *)
Counts(h, ops, parsed) ==
  h.op \in ops /\ (h.op = "rename-service" => h.target \in NamesOf(parsed.services))
MendedBy(acc, h, ops, parsed) ==
  IF Counts(h, ops, parsed) THEN Mended(acc, Followed(acc.spec, h, parsed)) ELSE acc
MendedByAll(acc, hints, ops, parsed) ==
  LET after[n \in 0..Len(hints)] ==
        IF n = 0 THEN acc ELSE MendedBy(after[n - 1], hints[n], ops, parsed)
  IN after[Len(hints)]

(* applyRevisionRepairs, without a plan and without words, in the order of *)
(* orderRevisionPatches; idle when every patch changed nothing.            *)
NewProject(acc, spec, report, attempt) ==
  IF NameTaken(spec, report)
    THEN Mended(acc, [acc.spec EXCEPT !.project = Append(spec.project, Suffixes[attempt])]) ELSE acc
NewImages(acc, missing) ==
  LET found(s) == {t \in missing : t.name = s.name}
      image(s) == Fallbacks[(CHOOSE t \in found(s) : TRUE).image.family]
  IN IF missing = {} THEN acc
     ELSE Mended(acc, [acc.spec EXCEPT !.services =
                         {IF found(s) = {} THEN s ELSE RebuiltAnyway(s, image(s)) : s \in @}])

Fallback(spec, report, attempt) ==
  LET start == [spec |-> spec, tried |-> "no", moved |-> "no"]
      early == NewProject(MendedByAll(start, report.issues, Early, spec), spec, report, attempt)
      images == NewImages(early, MissingImages(spec, report.findings))
      late == MendedByAll(images, report.issues, Late, spec)
      done == MendedByAll(late, report.issues, Last, spec)
  IN [spec |-> done.spec, idle |-> IF done.tried = "yes" /\ done.moved = "no" THEN "yes" ELSE "no"]

(* What the user is asked, first of all: the values of the choices.        *)
Risky(findings) == \E f \in findings : f.speak = "yes"
Irrelevant(r) == r.blocked = "irrelevant"
Questions(findings, results, plan) ==
  LET blocked == SelectSeq(results, LAMBDA r : r.blocked # "")
      about(r) == IF Irrelevant(r) THEN "describe" ELSE r.op
  IN (IF Risky(findings) THEN <<"finding">> ELSE <<>>)
     \o SeqX!FoldLeft(LAMBDA acc, r : Append(acc, about(r)), <<>>, blocked)
     \o (IF plan.asks = "which" /\ plan.patches = <<>> THEN <<"which">> ELSE <<>>)
AllowedBy(questions) == IF Head(questions) \in {"finding", "describe", "which"} THEN "" ELSE Head(questions)

Outcome(named, decision, questions) ==
  [spec |-> named, decision |-> IF Valid(named) THEN decision ELSE "throws", questions |-> questions]

Settled(findings) ==
  IF \E f \in findings : f.action \in {"manual-check", "repair-runtime"}
    THEN "no-safe-resolution" ELSE "auto-revised"
AfterPatches(findings, plan, done) ==
  LET idle == done.results # <<>> /\ \A i \in DOMAIN done.results : done.results[i].applied = "no"
      blocked == \E i \in DOMAIN done.results : done.results[i].blocked # ""
  IN Outcome(Namespace(done.spec),
             IF Risky(findings) \/ plan.asks # "no" \/ blocked \/ idle THEN "needs-user-input"
                                                                       ELSE Settled(findings),
             Questions(findings, done.results, plan))

AfterRepairs(findings, plan, repaired) ==
  Outcome(Namespace(repaired.spec),
          IF Risky(findings) \/ repaired.idle = "yes" THEN "needs-user-input" ELSE Settled(findings),
          Questions(findings, <<>>, plan))

(* extractAllowedPatchOps reads the texts of the issues as well.           *)
Allows(words, report) == words.allow \cup ArgsOf(Read(report, {"allow"}))

(* The patches of a plan as they are applied.                              *)
Applying(spec, words, report, plan) ==
  Patched(spec, plan.patches, Allows(words, report), report.findings, words.replicas # NoNumber)

Weighed(spec, words, report, attempt, plan) ==
  LET findings == report.findings
  IN IF words.text = "none" /\ report = NoReport
       THEN Outcome(Namespace(spec), "auto-revised", <<>>)
     ELSE IF plan.from # "none" /\ (plan.patches # <<>> \/ plan.asks # "no")
       THEN AfterPatches(findings, plan, Applying(spec, words, report, plan))
     ELSE IF words.text # "none"
       THEN Outcome(Namespace(spec), "needs-user-input", Questions(findings, <<>>, plan))
     ELSE AfterRepairs(findings, plan, Fallback(spec, report, attempt))

Revise(spec, words, report, offered, attempt) ==
  Weighed(spec, words, report, attempt, PlanFor(spec, words, report.findings, offered))

(* The operations of a revision: of the plan it follows, or of its repairs, *)
(* and whether one replica of a group is resized without the others, or an *)
(* image is taken out of a text.                                           *)
OperationsOf(spec, words, report, plan) ==
  LET repairs == words.text = "none" /\ (plan.from = "none" \/ plan.patches = <<>>)
      hints == IF repairs THEN Read(report, Early \cup Late \cup Last) ELSE {}
      missing == IF repairs THEN MissingImages(spec, report.findings) ELSE {}
  IN {plan.patches[i].op : i \in DOMAIN plan.patches}
     \cup {"resize-member" : s \in Applying(spec, words, report, plan).alone}
     \cup {h.op : h \in hints} \cup {"set-service-image" : s \in missing}
     \cup {"read-image" : h \in {i \in hints : i.op = "set-service-image"}}
Operations(spec, words, report, offered) ==
  OperationsOf(spec, words, report, PlanFor(spec, words, report.findings, offered))

-----------------------------------------------------------------------------
(* dryRun of execution-engine.ts: what the preview shows; a cycle throws.  *)
Shown(spec) == Namespace(Normalize(spec))
Acyclic(spec) ==
  \A S \in SUBSET spec.services :
    S # {} => \E s \in S : s.deps \cap NamesOf(S) = {}

(* withExpectedProjectName of cli/deploy-loop.ts.                          *)
WithProject(spec, project) == [spec EXCEPT !.project = project]
(* toReplicaContainerNames.                                                *)
ContainersOf(spec, s) ==
  IF s.replicas > 1 THEN {spec.project \o s.name \o <<i>> : i \in 1..s.replicas}
                    ELSE {spec.project \o s.name}
AllContainers(spec) == UNION {ContainersOf(spec, s) : s \in spec.services}
=============================================================================
