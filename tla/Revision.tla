-------------------------------- MODULE Revision --------------------------------
(***************************************************************************)
(* The dialogues that change a specification before it is deployed:        *)
(*   adjust   "plan --adjust" revises the specification of the snapshot    *)
(*            and lets the policy check it (cli/plan-command.ts);          *)
(*   preview  the user reviews the compose file and asks for changes;      *)
(*   runtime  the deploy loop finds conflicts or a failed deployment, has  *)
(*            the planner revise, and asks the user (cli/deploy-loop.ts).  *)
(* A plan of the language model is any of Plans, words of the user any of  *)
(* Requests.                                                               *)
(***************************************************************************)
EXTENDS Reviser

CONSTANTS
  Specs,         \* for each mode, a sequence of specifications to begin with
  Plans,         \* for each mode, a sequence of plans the language model may offer
  Requests,      \* a sequence of words the user may say
  Failures,      \* a sequence of reports a deployment may fail with
  Docker,        \* the container names and host ports others have
  MaxPreviews,   \* previews per dialogue (bound of the model)
  MaxAttempts,   \* attempts the guard of the deploy loop lets pass
  MaxRounds      \* MAX_REVISION_CLARIFICATION_ROUNDS

(* What begins a dialogue and what may be said in it is of its type.  Only *)
(* proxies of a planned specification publish ports (react-agent.ts:1503,  *)
(* 2111); the ports of a snapshot that sync has written are Docker's       *)
(* (spec-sync.ts:227), and it is a specification of the schema.            *)
Modes == {"adjust", "preview", "runtime"}
OnlyProxies(sp) == \A s \in sp.services : s.kind # "proxy" => s.ports = <<>>
Inputs ==
  /\ \A m \in Modes : \A i \in DOMAIN Specs[m] :
       /\ IsSpec(Specs[m][i]) /\ IsFiniteSet(Specs[m][i].services) /\ Valid(Specs[m][i])
       /\ m # "adjust" => OnlyProxies(Specs[m][i])
  /\ \A m \in Modes : \A k \in DOMAIN Plans[m] : IsPlan(Plans[m][k])
  /\ \A r \in DOMAIN Requests : Requests[r].replicas \in Int
  /\ \A i \in DOMAIN Failures : IsReport(Failures[i])
  /\ MaxPreviews \in Nat /\ MaxAttempts \in Nat /\ MaxRounds \in Nat
ASSUME RevisionAssumption == Inputs

VARIABLES
  mode,       \* adjust, preview or runtime
  pc,
  origin,     \* the specification the dialogue began with
  spec,       \* desiredSpec: of the plan, or of the approved action
  shown,      \* the specification of the preview on the screen
  report,     \* of the last scan or deployment
  spoke,      \* whether the last revision had words of the user
  result,     \* of the last revision
  rounds,     \* clarification rounds
  previews,
  attempt,    \* attemptIndex
  allowed,    \* operations the user, or the text of an issue, has allowed so far
  kinds,      \* operations of the revisions so far
  outcome     \* how it ended

vars == <<mode, pc, origin, spec, shown, report, spoke, result, rounds, previews, attempt,
          allowed, kinds, outcome>>

NoResult(sp) == [spec |-> sp, decision |-> "auto-revised", questions |-> <<>>]

Init ==
  /\ mode \in Modes
  /\ pc = CASE mode = "adjust" -> "adjust" [] mode = "preview" -> "prepare" [] mode = "runtime" -> "scan"
  /\ \E i \in DOMAIN Specs[mode] : origin = Specs[mode][i]
  /\ spec = origin /\ shown = origin /\ result = NoResult(origin)
  /\ report = NoReport /\ spoke = "no"
  /\ rounds = 0 /\ previews = 0 /\ attempt = 0
  /\ allowed = {} /\ kinds = {} /\ outcome = ""

End(how) == pc' = "done" /\ outcome' = how
Go(to) == pc' = to /\ UNCHANGED outcome

(* A call of reviseFromFeedback; Then says what follows a result.          *)
Consult(sp, w, found, at) ==
  \E k \in DOMAIN Plans[mode] :
    /\ result' = Revise(sp, w, found, Plans[mode][k], at)
    /\ spoke' = IF w.text = "none" THEN "no" ELSE "yes"
    /\ allowed' = allowed \cup Allows(w, found)
    /\ kinds' = kinds \cup Operations(sp, w, found, Plans[mode][k])

NoConsult == UNCHANGED <<spoke, result, allowed, kinds>>

-----------------------------------------------------------------------------
(* plan --adjust.                                                          *)

Adjust ==
  /\ mode = "adjust" /\ pc = "adjust"
  /\ \E r \in DOMAIN Requests : Consult(origin, Requests[r], NoReport, 0)
  /\ IF result'.decision = "throws" THEN End("threw") ELSE Go("policy")
  /\ UNCHANGED <<mode, origin, spec, shown, report, rounds, previews, attempt>>

(* The decision of the revision is not looked at, only what it changed.    *)
Check ==
  /\ pc = "policy"
  /\ LET revised == WithProject(result.spec, origin.project)
         fits == /\ HasSupportedChange(revised, origin)
                 /\ ~OutOfScope(revised, origin)
                 /\ ~BadReplicas(revised, origin)
     IN IF fits THEN spec' = revised /\ Go("prepare")
                ELSE End("refused") /\ UNCHANGED spec
  /\ NoConsult
  /\ UNCHANGED <<mode, origin, shown, report, rounds, previews, attempt>>

-----------------------------------------------------------------------------
(* The preview and its approval.                                           *)

(* The preflight of the preview may refuse it.                             *)
Prepare ==
  /\ pc = "prepare"
  /\ shown' = Shown(spec)
  /\ IF Valid(shown') /\ Acyclic(shown') THEN Go("approve") \/ End("refused") ELSE End("threw")
  /\ NoConsult
  /\ UNCHANGED <<mode, origin, spec, report, rounds, previews, attempt>>

(* completeDeploy: the preview that was answered is the one that counts.   *)
Approve ==
  /\ pc = "approve"
  /\ End("written")
  /\ spec' = shown
  /\ NoConsult
  /\ UNCHANGED <<mode, origin, shown, report, rounds, previews, attempt>>

Decline ==
  /\ pc = "approve"
  /\ End("rejected")
  /\ NoConsult
  /\ UNCHANGED <<mode, origin, spec, shown, report, rounds, previews, attempt>>

(* other: one revision, at most one question about it, another preview.    *)
AfterPreview(last) ==
  /\ CASE result'.decision = "throws" -> End("threw") /\ UNCHANGED spec
       [] result'.decision = "needs-user-input" ->
            UNCHANGED spec /\ IF last = "yes" THEN End("unclear") ELSE Go("clarify")
       [] OTHER -> spec' = result'.spec /\ Go("prepare")

Change ==
  /\ pc = "approve" /\ previews < MaxPreviews
  /\ previews' = previews + 1
  /\ \E r \in DOMAIN Requests : Consult(spec, Requests[r], NoReport, 0)
  /\ AfterPreview("no")
  /\ UNCHANGED <<mode, origin, shown, report, rounds, attempt>>

(* requestRevisionClarification: what is said to the first question.       *)
Answers ==
  (IF result.questions = <<>> THEN {} ELSE {Said(AllowedBy(result.questions))})
    \cup {Requests[r] : r \in {q \in DOMAIN Requests : result.questions # <<>> /\ Requests[q].text # "none"}}

Clarify ==
  /\ pc = "clarify"
  /\ \E w \in Answers : Consult(spec, w, NoReport, 0)
  /\ AfterPreview("yes")
  /\ UNCHANGED <<mode, origin, shown, report, rounds, previews, attempt>>

GiveUp ==
  /\ pc \in {"clarify", "resolve"}
  /\ pc = "resolve" => result.decision = "needs-user-input" /\ rounds < MaxRounds
  /\ End(IF pc = "clarify" THEN "unclear" ELSE "rejected")
  /\ NoConsult
  /\ UNCHANGED <<mode, origin, spec, shown, report, rounds, previews, attempt>>

-----------------------------------------------------------------------------
(* The deploy loop.                                                        *)

(* detectPreDeployConflicts.                                               *)
Finding(code, at, about) == [code |-> code, at |-> at, about |-> about, speak |-> "no", action |-> "auto-revise"]
Conflicts(sp) ==
  {Finding("CONTAINER_NAME_CONFLICT", n, "container") : n \in AllContainers(sp) \cap Docker.names}
    \cup {Finding("HOST_PORT_CONFLICT", s.name, "port") :
            s \in {t \in sp.services : SeqX!ToSet(t.ports) \cap Docker.ports # {}}}

(* The texts of conflicts say nothing the planner reads as a change, and   *)
(* name no container that their findings do not.                           *)
ConflictReport(sp) == [findings |-> Conflicts(sp), issues |-> <<>>]

(* Another attempt, unless the guard stops the loop.                       *)
Report(found) ==
  /\ report' = found
  /\ attempt' = attempt + 1
  /\ IF attempt + 1 > MaxAttempts THEN End("stopped") ELSE Go("revise")

Scan ==
  /\ pc = "scan"
  /\ LET found == ConflictReport(spec)
     IN IF found.findings # {} THEN Report(found)
        ELSE Go("deploy") /\ UNCHANGED <<report, attempt>>
  /\ NoConsult
  /\ UNCHANGED <<mode, origin, spec, shown, rounds, previews>>

(* deployWithDocker refuses an image that is in no catalog.                *)
Deployed ==
  /\ pc = "deploy" /\ \A s \in spec.services : InCatalog(s.image)
  /\ End("deployed")
  /\ NoConsult
  /\ UNCHANGED <<mode, origin, spec, shown, report, rounds, previews, attempt>>

Failed ==
  /\ pc = "deploy"
  /\ \E i \in DOMAIN Failures : Report(Failures[i])
  /\ NoConsult
  /\ UNCHANGED <<mode, origin, spec, shown, rounds, previews>>

Propose ==
  /\ pc = "revise"
  /\ Consult(spec, Silent, report, attempt)
  /\ IF result'.decision = "throws" THEN End("threw") ELSE Go("decide")
  /\ rounds' = 0
  /\ UNCHANGED <<mode, origin, spec, shown, report, previews, attempt>>

(* withExpectedProjectName, isConcreteRevision.                            *)
Adopted(res) == WithProject(res.spec, spec.project)
Concrete == Adopted(result) # spec

Adopt == spec' = Adopted(result) /\ Go("scan")

Yes ==
  /\ pc = "decide"
  /\ IF Concrete THEN Adopt ELSE Go("resolve") /\ UNCHANGED spec
  /\ NoConsult
  /\ UNCHANGED <<mode, origin, shown, report, rounds, previews, attempt>>

No ==
  /\ pc = "decide"
  /\ End("rejected")
  /\ NoConsult
  /\ UNCHANGED <<mode, origin, spec, shown, report, rounds, previews, attempt>>

Other ==
  /\ pc = "decide"
  /\ \E r \in DOMAIN Requests :
       IF Requests[r].text = "none" THEN NoConsult ELSE Consult(spec, Requests[r], report, attempt)
  /\ IF result'.decision = "throws" THEN End("threw") ELSE Go("resolve")
  /\ UNCHANGED <<mode, origin, spec, shown, report, rounds, previews, attempt>>

(* resolveRevisionWithClarifications.                                      *)
Resolved ==
  /\ pc = "resolve"
  /\ IF result.decision # "needs-user-input" THEN Adopt
     ELSE rounds >= MaxRounds /\ End("blocked") /\ UNCHANGED spec
  /\ NoConsult
  /\ UNCHANGED <<mode, origin, shown, report, rounds, previews, attempt>>

(* Mutated: the rounds of questions are not counted.                       *)
AskOnAndOn ==
  /\ pc = "resolve" /\ result.decision = "needs-user-input" /\ rounds < MaxRounds
  /\ \E w \in Answers : Consult(spec, w, report, attempt)
  /\ IF result'.decision = "throws" THEN End("threw") ELSE Go("resolve")
  /\ UNCHANGED <<mode, origin, spec, shown, report, rounds, previews, attempt>>

Ask ==
  /\ pc = "resolve" /\ result.decision = "needs-user-input" /\ rounds < MaxRounds
  /\ rounds' = rounds + 1
  /\ \E w \in Answers : Consult(spec, w, report, attempt)
  /\ IF result'.decision = "throws" THEN End("threw") ELSE Go("resolve")
  /\ UNCHANGED <<mode, origin, spec, shown, report, previews, attempt>>

Finished == pc = "done" /\ UNCHANGED vars

Next ==
  \/ Adjust \/ Check \/ Prepare \/ Approve \/ Decline \/ Change \/ Clarify \/ GiveUp
  \/ Scan \/ Deployed \/ Failed \/ Propose \/ Yes \/ No \/ Other \/ Resolved \/ Ask
  \/ Finished

Spec == Init /\ [][Next]_vars
(* Every prompt is answered some day and every call of the planner ends.   *)
FairSpec == Spec /\ WF_vars(Next)
-----------------------------------------------------------------------------
(* Properties.                                                             *)

Stages == {"adjust", "policy", "prepare", "approve", "clarify", "scan", "deploy", "revise",
           "decide", "resolve", "done"}
Outcomes == {"", "threw", "refused", "written", "rejected", "unclear", "stopped", "deployed", "blocked"}

(* The counters stay within their bounds and a dialogue that ended says    *)
(* how.                                                                    *)
TypeOK ==
  /\ mode \in Modes /\ pc \in Stages /\ outcome \in Outcomes
  /\ rounds \in 0..MaxRounds /\ previews \in 0..MaxPreviews /\ attempt \in 0..(MaxAttempts + 1)
  /\ outcome # "" <=> pc = "done"

Shows(names) == mode = "adjust" /\ pc = "approve" /\ kinds \subseteq names
Resizes == {"set-service-replicas", "resize-member"}

(* An adjustment that only changes replicas leaves every database group    *)
(* with the members 1..n or one member, and whoever depends on one member  *)
(* of a group depends on all of them: SpecPatch.Resize, Expand and         *)
(* Normalize after one another.  A target that fits one replica and not    *)
(* its group, as one for a service by name, makes a group of that replica: *)
(* of an adjustment that has resized one so, nothing is said.              *)
GroupsAreWhole ==
  Shows(Resizes \ {"resize-member"}) =>
    \A base \in Bases(shown) :
      LET group == Group(shown, base)
          names == NamesOf(group)
      IN /\ \/ names = {base}
            \/ names = {Append(base, i) : i \in 1..Cardinality(group)}
         /\ \A s \in shown.services \ group : s.deps \cap names # {} => names \subseteq s.deps

(* An adjustment that only changes replicas, of one replica by itself too, *)
(* leaves every database that is there before and after on the volume that *)
(* holds its data.                                                         *)
DataStays ==
  Shows(Resizes) =>
    \A s \in Databases(shown), t \in Databases(origin) :
      s.name = t.name => DataMounts(s) = DataMounts(t)

(* A service of the beginning that is no database is there, as one and     *)
(* under its name, until the user, or the text of an issue, allows         *)
(* removals: only a database nobody depends on goes without being asked    *)
(* about.  Of a service that a plan or a text calls otherwise, or gives    *)
(* the image of a database, nothing is said.                               *)
StillThere(sp) == NamesOf(Others(origin)) \subseteq NamesOf(Others(sp))
NoConsentToRemove ==
  "remove-service" \notin allowed /\ {"rename-service", "set-service-image"} \cap kinds = {}
RemovalNeedsConsent == NoConsentToRemove => StillThere(spec)
(* Where it is proved: none of them has a number at the end of its name, as *)
(* the replicas of a database do, which take what is called like them with *)
(* them when they are removed.                                             *)
PlainNames ==
  \A m \in Modes : \A i \in DOMAIN Specs[m] :
    \A s \in Others(Specs[m][i]) : ~Numbered(s.name)

(* An image that is not in the catalog was there in the beginning, came    *)
(* with a service a plan adds, was allowed by the user, or was read by the *)
(* repairs out of the text of a failure.                                   *)
ReadImages ==
  ArgsOf(UNION {Read(Failures[i], {"set-service-image"}) : i \in DOMAIN Failures})
KnownImages(sp) ==
  \A s \in sp.services : \/ InCatalog(s.image)
                         \/ \E t \in origin.services : s.image = t.image
                         \/ "read-image" \in kinds /\ s.image \in ReadImages
NoConsentToImages == "set-service-image" \notin allowed /\ "add-service" \notin kinds
ImagesNeedConsent == NoConsentToImages => KnownImages(spec)

(* What is risky waits for the user's consent: that services go and that   *)
(* images come, over all patches, revisions, questions and repairs; but    *)
(* for the images the repairs read out of texts.                           *)
RiskNeedsConsent == RemovalNeedsConsent /\ ImagesNeedConsent

(* What is approved can be deployed: it satisfies the schema and has an    *)
(* order, its networks and volumes are in the project's namespace, no      *)
(* database is left to be expanded into replicas, only proxies publish     *)
(* ports and no volume is a path of the host.                              *)
ApprovedIsSound ==
  outcome = "written" =>
    /\ Valid(spec) /\ Acyclic(spec)
    /\ \A r \in spec.networks \cup spec.volumes : SeqX!IsPrefix(spec.project, r.in)
    /\ \A s \in spec.services : /\ ~Replicated(s)
                                /\ s.kind # "proxy" => s.ports = <<>>
                                /\ HostPath \notin Sources(s)

(* What the stages keep, so that what is approved is sound: a preview is of *)
(* a specification that publishes ports on proxies only, and what reaches  *)
(* the policy has gone through the patches or is the snapshot itself.      *)
Reviewing == {"prepare", "approve", "clarify"}
Adjusting == {"adjust", "policy"}
Deploying == {"scan", "deploy", "revise", "decide", "resolve"}
ReviewInv ==
  /\ mode \in Modes
  /\ IsSpec(origin) /\ IsFiniteSet(origin.services) /\ Valid(origin)
  /\ mode = "runtime" => pc \notin Reviewing \cup Adjusting /\ outcome # "written"
  /\ mode # "runtime" => pc \notin Deploying /\ IsSpec(spec) /\ IsSpec(result.spec)
  /\ pc \in Reviewing => OnlyProxies(spec)
  /\ pc = "policy" => OnlyProxies(result.spec) \/ result.spec = Namespace(origin)
  /\ pc = "approve" => shown = Shown(spec) /\ Valid(shown) /\ Acyclic(shown)
  /\ outcome = "written" => pc = "done"
  /\ ApprovedIsSound

(* What keeps databases on their data.  The volume of a database is the    *)
(* one its service got when it was planned, with the numbers of the        *)
(* database behind; replicas are made and taken away on such volumes only. *)
OnVolumeOf(s, t) ==
  /\ s.name[1] = t.name[1] /\ DataTarget(s) = DataTarget(t)
  /\ DataMounts(s) = {[from |-> [BaseVolume(t) EXCEPT !.nrs = Tail(s.name)], at |-> DataTarget(t)]}

OwnVolumes(sp) ==
  /\ \A s, t \in Databases(sp) : s.name[1] = t.name[1] => OnVolumeOf(s, t)
  /\ \A s \in Databases(sp) : SeqX!IsPrefix(sp.project, BaseVolume(s).in)

Inherits(sp, old) ==
  /\ sp.project = old.project
  /\ \A s \in Databases(sp) : \E t \in Databases(old) : OnVolumeOf(s, t)

(* The snapshots of which this is so: each database is on its own volume.  *)
OnOwnVolumes == \A i \in DOMAIN Specs["adjust"] : OwnVolumes(Specs["adjust"][i])

OnlyResized == mode = "adjust" /\ kinds \subseteq Resizes
VolumesInv ==
  OnlyResized =>
    /\ OwnVolumes(origin)
    /\ pc # "done" => Inherits(spec, origin) /\ Inherits(result.spec, origin)
    /\ pc = "approve" => Inherits(shown, origin)

(* What keeps groups whole.  In a snapshot whose groups are, only databases *)
(* have numbers, one behind the name of their group and counted from one,  *)
(* and nothing is called like a group of more; who depends on a member     *)
(* from outside depends on all.                                            *)
PartsOf(sp, base) == {s \in sp.services : Numbered(s.name) /\ BaseOf(s.name) = base}
WholeGroups(sp) ==
  /\ \A s \in sp.services : Numbered(s.name) => s.kind = "database" /\ Len(s.name) = 2 /\ ~Replicated(s)
  /\ \A s \in sp.services :
       LET base == Logical(s.name)
           parts == PartsOf(sp, base)
       IN /\ NamesOf(parts) = {Append(base, i) : i \in 1..Cardinality(parts)}
          /\ ~Numbered(s.name) => parts = {}
  /\ \A s, t, u \in sp.services :
       Logical(t.name) = Logical(u.name) /\ Logical(s.name) # Logical(t.name) /\ t.name \in s.deps
         => u.name \in s.deps
WholeSnapshots == \A i \in DOMAIN Specs["adjust"] : WholeGroups(Specs["adjust"][i])

(* A dialogue of the deploy loop ends: by success, refusal, the rounds of  *)
(* questions or the guard (cli/deploy-loop.ts:418).                        *)
DialogueEnds == mode = "runtime" ~> pc = "done"

=============================================================================
