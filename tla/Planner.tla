------------------------------- MODULE Planner -------------------------------
(***************************************************************************)
(* Planning: ReActAgent.run with its guarded repair loop, and the dialogue *)
(* of the plan command (continueFromClarification) up to the plan or its   *)
(* failure.                                                                *)
(*                                                                         *)
(* tools = "registry" are the tools of agent/internal-tools.ts, which check*)
(* their inputs and outputs against the schemas.  As the guard is there for*)
(* tools that answer anything, tools = "any" are such tools: their answers *)
(* are one of AnySpecs, with any verdict.                                  *)
(***************************************************************************)
EXTENDS DraftSpec

CONSTANTS Drafts, AnySpecs, Configs

Guard == INSTANCE LoopGuard WITH Tools <- {"validate", "repair"},
                                 Signatures <- Seq(SpecService)

ASSUME PlannerAssumption ==
  /\ Drafts \subseteq Seq(DraftService)
  /\ AnySpecs \subseteq Seq(SpecService)
  /\ \A spec \in AnySpecs : Valid(spec)
  /\ Configs \subseteq Guard!Config

VARIABLES
  pc,
  tools,
  config,     \* of the guard
  signal,
  draft,      \* query.draft
  spec,       \* of the proposal, of the context of a question, of the plan
  guard,
  question,   \* what the user is asked, about which service
  result,
  \* Observations: the program does not read the variables below.
  looked,     \* specifications the loop began to repair
  chosen      \* the target the user has chosen for a service, last

vars == <<pc, tools, config, signal, draft, spec, guard, question, result, looked, chosen>>
setting == <<tools, config, signal>>

(* The tools, as above; and whether the prompt asks for a deployment of    *)
(* something: then an image that is not given is asked about, else dropped.*)
Toolboxes == {"registry", "any"}
Signals == {"generic", "none"}

NoQuestion == [about |-> "nothing", of |-> NoName, kinds |-> {}]
Question(about, of, kinds) == [about |-> about, of |-> of, kinds |-> kinds]

TypeOK ==
  /\ pc \in {"start", "propose", "validate", "repair", "assess", "build", "asked", "done"}
  /\ tools \in Toolboxes /\ config \in Guard!Config /\ signal \in Signals
  /\ draft \in Seq(DraftService) /\ spec \in Seq(SpecService)
  /\ guard \in Guard!Guards
  /\ question \in [about : {"nothing", "image", "target", "cycle"}, of : Names \cup {NoName},
                   kinds : SUBSET Kinds]
  /\ result \in {"none", "planned", "unrepaired", "blocked", "error"}
  /\ looked \in Seq(Seq(SpecService))
  /\ \A n \in DOMAIN chosen : n \in Names /\ chosen[n] \in Names

Init ==
  /\ pc = "start"
  /\ tools \in Toolboxes /\ config \in Configs /\ signal \in Signals
  /\ draft \in Drafts
  /\ spec = <<>> /\ guard = Guard!NewGuard /\ question = NoQuestion
  /\ result = "none" /\ looked = <<>> /\ chosen = <<>>

-----------------------------------------------------------------------------
(* ReActAgent.run.                                                         *)

Finish(r) == pc' = "done" /\ result' = r
Go(to) == pc' = to /\ UNCHANGED result

AskAboutImage(d) ==
  \E q \in ImageQuestions(d, signal) :
    /\ draft' = q.draft /\ spec' = Build(q.draft)
    /\ question' = Question("image", q.of, q.kinds) /\ Go("asked")

(* Image references; what the model has answered changes only the image    *)
(* that is recommended.                                                    *)
Start ==
  /\ pc = "start"
  /\ \/ AskAboutImage(draft)
     \/ /\ ImageQuestions(draft, signal) = {}
        /\ draft' = ResolveImages(draft) /\ Go("propose")
        /\ UNCHANGED <<spec, question>>
  /\ UNCHANGED <<setting, guard, looked, chosen>>

\* Mutated: an answer that does not pass is asked for again, which no guard counts.
ProposeAgain ==
  /\ pc = "propose"
  /\ \/ /\ tools = "registry" /\ Valid(Build(draft)) /\ spec' = Build(draft)
     \/ tools = "any" /\ spec' \in AnySpecs
  /\ Go("validate") /\ guard' = Guard!NewGuard /\ looked' = <<>>
  /\ UNCHANGED <<setting, draft, question, chosen>>

(* propose_draft_spec; a tool that fails here throws.  The new guard.      *)
Propose ==
  /\ pc = "propose"
  /\ \/ /\ tools = "registry" /\ Valid(Build(draft))
        /\ spec' = Build(draft) /\ Go("validate")
     \/ /\ tools = "any" \/ ~Valid(Build(draft))
        /\ Finish("error") /\ UNCHANGED spec
     \/ /\ tools = "any"
        /\ spec' \in AnySpecs /\ Go("validate")
  /\ guard' = Guard!NewGuard /\ looked' = <<>>
  /\ UNCHANGED <<setting, draft, question, chosen>>

(* validate_infra_spec.                                                    *)
Verdicts == IF tools = "any" THEN {"ok", "failed"}
            ELSE {IF Valid(spec) THEN "ok" ELSE "failed"}

Validate ==
  /\ pc = "validate"
  /\ guard' = Guard!CheckToolCap(guard, config, "validate")
  /\ IF Guard!Stopped(Guard!CheckToolCap(guard, config, "validate")) THEN Finish("blocked")
     ELSE \E v \in Verdicts : IF v = "ok" THEN Go("assess") ELSE Go("repair")
  /\ UNCHANGED <<setting, draft, spec, question, looked, chosen>>

(* A turn of the loop: the guard, repair_infra_spec, the guard.  The tool  *)
(* of the registry accepts valid specifications only.                      *)
Repairs == IF tools = "any" THEN AnySpecs ELSE {s \in {spec} : Valid(s)}

Repair ==
  /\ pc = "repair"
  /\ LET ticked == Guard!TickIteration(guard, config)
         observed == Guard!ObserveStep(ticked, config, spec)
         called == Guard!CheckToolCap(observed, config, "repair")
     IN \/ /\ Guard!Stopped(called)
           /\ guard' = called /\ Finish("blocked") /\ UNCHANGED spec
        \/ /\ ~Guard!Stopped(called)
           /\ tools = "any" \/ Repairs = {}
           /\ guard' = called /\ Finish("unrepaired") /\ UNCHANGED spec
        \/ /\ ~Guard!Stopped(called)
           /\ \E s \in Repairs :
                LET judged == Guard!RecordProgress(called, config, s # spec)
                IN /\ guard' = judged /\ spec' = s
                   /\ IF Guard!Stopped(judged) THEN Finish("blocked") ELSE Go("validate")
  /\ looked' = Append(looked, spec)
  /\ UNCHANGED <<setting, draft, question, chosen>>

(* Blocking uncertainties: one is asked, or else the plan is built.        *)
AskOrBuild(s) ==
  IF Certain(s) THEN Go("build") /\ question' = NoQuestion
  ELSE Go("asked") /\ question' = Question(Uncertainty(s).about, Uncertainty(s).of, {})

Assess ==
  /\ pc = "assess" /\ AskOrBuild(spec)
  /\ UNCHANGED <<setting, draft, spec, guard, looked, chosen>>

(* buildPlannedResultFromValidatedSpec: the plan, the schedule, the        *)
(* previews and the policy.  The schedule of a cyclic specification fails. *)
BuildPlan ==
  /\ pc = "build"
  /\ \/ Valid(spec) /\ OnCycle(spec) = {} /\ Finish("planned")
     \/ /\ tools = "any" \/ ~Valid(spec) \/ OnCycle(spec) # {}
        /\ Finish("error")
  /\ UNCHANGED <<setting, draft, spec, guard, question, looked, chosen>>

-----------------------------------------------------------------------------
(* The user answers; continueFromClarification, which has no guard.        *)

\* Mutated: an answer settles whatever was open.
SubmitAtOnce(s) == spec' = s /\ Go("build") /\ question' = NoQuestion

(* What is left open is asked next.                                        *)
Submit(s) ==
  /\ spec' = s
  /\ IF Valid(s) THEN AskOrBuild(s) ELSE Finish("error") /\ UNCHANGED question

\* Mutated: the specification is always built from the draft.
ContinueRebuilt(d, s) ==
  \/ AskAboutImage(d)
  \/ /\ ImageQuestions(d, signal) = {}
     /\ draft' = ResolveImages(d)
     /\ Submit(Build(ResolveImages(d)))

(* s is the specification that was changed, or <<>> if the draft was.      *)
Continue(d, s) ==
  \/ AskAboutImage(d)
  \/ /\ ImageQuestions(d, signal) = {}
     /\ draft' = ResolveImages(d)
     /\ Submit(IF s # <<>> THEN s ELSE Build(ResolveImages(d)))

AnswerImage ==
  /\ pc = "asked" /\ question.about = "image"
  /\ \E image \in {i \in Images : KindOf[i] \in question.kinds} :
       IF KnowsService(draft, question.of)
         THEN Continue(SetImage(draft, question.of, image), <<>>)
         ELSE Finish("error") /\ UNCHANGED <<draft, spec, question>>
  /\ UNCHANGED <<setting, guard, looked, chosen>>

(* What the user has chosen stands until an edge of it is removed.         *)
Remember(c) ==
  chosen' = IF c.op = "dependsOn"
              THEN [n \in DOMAIN chosen \cup {c.of} |-> IF n = c.of THEN c.on ELSE chosen[n]]
            ELSE [n \in DOMAIN chosen \ {c.of} |-> chosen[n]]

(* repairInfrastructureSpec leaves the valid specification as it is, but   *)
(* for its secrets.                                                        *)
Accepted(c) == Continue(draft, Apply(spec, c)) /\ Remember(c)

Answer ==
  /\ pc = "asked" /\ question.about \in {"target", "cycle"}
  /\ \E c \in Offers(spec, question) : Accepted(c)
  /\ UNCHANGED <<setting, guard, looked>>

(* Other: a text that names a service, says no, or neither.                *)
Other ==
  /\ pc = "asked" /\ question.about \in {"target", "cycle"}
  /\ \E n \in NamesOf(spec) : \E c \in Meant(spec, question, n) : Accepted(c)
  /\ UNCHANGED <<setting, guard, looked>>

(* An answer the planner does not understand throws.                       *)
Nonsense ==
  /\ pc = "asked" /\ Finish("error")
  /\ UNCHANGED <<setting, draft, spec, guard, question, looked, chosen>>

Run == Start \/ Propose \/ Validate \/ Repair \/ Assess \/ BuildPlan
User == AnswerImage \/ Answer \/ Other \/ Nonsense
Next == Run \/ User

(* The program goes on; the user may not.                                  *)
Spec == Init /\ [][Next]_vars /\ WF_vars(Run)

-----------------------------------------------------------------------------
(* A plan is only built from a specification with nothing left open:       *)
(* whatever was asked and answered, names are unique, no services wait for *)
(* each other in a circle, a proxy has one of the backends behind it, if   *)
(* there are several, and a backend no more than one of the databases,     *)
(* unless they are the replicas of one.                                    *)
Targeted(s) ==
  LET candidates == OfKind(spec, Targets(s))
      taken == Cardinality(s.deps \cap candidates)
  IN \/ Kind(s) = "database" \/ Cardinality(candidates) <= 1 \/ taken = 1
     \/ Kind(s) = "backend" /\ (taken = 0 \/ \A n, m \in candidates : n.base = m.base)

PlannedIsSound ==
  result = "planned" =>
    /\ \A i, j \in DOMAIN spec : spec[i].name = spec[j].name => i = j
    /\ \A S \in (SUBSET NamesOf(spec)) \ {{}} : \E n \in S : DepsOf(spec, n) \cap S = {}
    /\ \A s \in Elements(spec) : s.deps \subseteq NamesOf(spec) /\ Targeted(s)

(* An answer stands: in every later question and in the plan the service   *)
(* has the target that was chosen for it and no other of that kind, until  *)
(* the user removes the edge; whatever else is asked in between.           *)
AnswersStand ==
  \A n \in DOMAIN chosen :
    LET s == Service(spec, n)
    IN n \in NamesOf(spec) /\ s.deps \cap OfKind(spec, Targets(s)) = {chosen[n]}

(* The guard stops the loop when, and only when, one of its reasons is     *)
(* there: so many repairs, so many calls, the same specification so often  *)
(* in a row, or so many repairs in a row that have changed nothing.        *)
Row(k, s) == k <= Len(looked) /\ \A i \in (Len(looked) - k + 1)..Len(looked) : looked[i] = s
Overrun ==
  [iteration_budget_exhausted |-> Len(looked) > config.maxIterations,
   quagmire_repeat |-> \E s \in Elements(looked) : Row(config.repeatTolerance, s),
   no_progress |-> Row(config.noProgressTolerance, spec),
   tool_cap_exceeded |-> Len(looked) >= config.maxCallsPerTool]

GuardIsExact ==
  /\ result = "blocked" => Overrun[guard.reason]
  /\ pc \in {"validate", "assess"} =>
       ~Overrun.iteration_budget_exhausted /\ ~Overrun.quagmire_repeat /\ ~Overrun.no_progress
  /\ Len(looked) <= config.maxCallsPerTool

(* What makes the guard exact: its counters are the repairs made, its rows *)
(* the rows of equal specifications at the end, no longer and no shorter.  *)
Looping == pc \in {"validate", "repair", "assess"}
CountInv ==
  /\ guard.reason = "none"
  /\ guard.iterations = Len(looked) /\ guard.iterations <= config.maxIterations
  /\ guard.calls["repair"] = Len(looked)
  /\ guard.calls["validate"] = Len(looked) + (IF pc = "validate" THEN 0 ELSE 1)
  /\ guard.calls["validate"] <= config.maxCallsPerTool

RowInv ==
  /\ IF looked = <<>> THEN guard.repeat = 0 ELSE guard.last = looked[Len(looked)]
  /\ Row(guard.repeat, guard.last) /\ guard.repeat < config.repeatTolerance
  /\ \A k \in 1..Len(looked) : Row(k, looked[Len(looked)]) => k <= guard.repeat
  /\ Row(guard.noProgress, spec) /\ guard.noProgress < config.noProgressTolerance
  /\ \A k \in 1..Len(looked) : Row(k, spec) => k <= guard.noProgress

GuardInv ==
  /\ pc \in {"start", "propose", "validate", "repair", "assess", "build", "asked", "done"}
  /\ result = "none" \/ pc = "done"
  /\ pc \in {"start", "propose"} => looked = <<>>
  /\ Len(looked) <= config.maxCallsPerTool
  /\ Looping => CountInv /\ RowInv
  /\ result = "blocked" => Overrun[guard.reason]

(* What makes the plan sound and the answers stand: what is built leaves   *)
(* nothing open, and once a specification is asked about, the draft has no *)
(* questions that would build another one from it.                         *)
Asking(abouts) == pc = "asked" /\ question.about \in abouts
PlanInv ==
  /\ pc = "build" => Certain(spec)
  /\ result = "planned" => Valid(spec) /\ Certain(spec)

AnswerInv ==
  /\ pc \in {"start", "propose", "validate", "repair", "assess"} \/ Asking({"image"}) => DOMAIN chosen = {}
  /\ pc \in {"propose", "validate", "repair", "assess", "build"} \/ Asking({"target", "cycle"}) =>
       ImageQuestions(draft, signal) = {}
  /\ Asking({"target"}) => question.of \in NamesOf(spec)
  /\ pc = "asked" => Asking({"image", "target", "cycle"})

DialogueInv == TypeOK /\ GuardInv /\ PlanInv /\ AnswerInv /\ AnswersStand

(* Whatever the tools answer, run comes to an end or to a question, and so *)
(* does the rest of the command after each answer.                         *)
RunEnds == pc \notin {"asked", "done"} ~> pc \in {"asked", "done"}

=============================================================================
