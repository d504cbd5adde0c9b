# Verification of infra-react-agent

TLA+ models, TLC runs and TLAPS proofs for the repository in `src/`: a command
line tool that plans an infrastructure from a sentence, shows it, asks for
approval, deploys it to Docker through an MCP server, verifies what runs and
keeps verified snapshots in SQLite. Another set of commands changes, repairs,
synchronises and destroys what was deployed.

Paths below are relative to `src/src/` unless they begin otherwise.
`PROJECT.json` maps every definition to the lines it models and lists the
hazards the properties are for.

## 1. Inventory

| Component | State it keeps | Operations | Interacts with | Modules |
|---|---|---|---|---|
| Planner loop, `agent/react-agent.ts`, `loop-guard.ts`, `internal-tools.ts` | draft, proposal, guard, context of a question | run, continueFromClarification | LLM, tools, user | DraftSpec, LoopGuard, Planner |
| Reviser, `agent/standard-planner-agent.ts`, `spec-patch-applier.ts`, `cli/adjust-policy.ts` | none between calls | reviseFromFeedback, applySpecPatches, the checks of `--adjust` | LLM, user | SpecPatch, AdjustPolicy, Reviser, Revision |
| Deploy loop, `cli/deploy-loop.ts`, `cli/plan-command.ts`, `agent/closed-loop-guard.ts` | approved action, revision history, attempt index, guard | preview, deploy, verify, revise, ask, roll back | engine, planner, verifier, user, store | DeployLoop, Revision |
| Engine, `execution/execution-engine.ts` | per call: journal of created and attempted resources, lists read once | deployWithDocker, cleanupPartialDeploy, destroyWithDocker, cleanupAttemptScope, repairWithDocker, detectRuntimeDrift | gateway calls, schedule, drift detector | Deploy, Destroy, Repair |
| Gateway, `execution/docker-mcp-gateway.ts` | mutation gate, routes | one method per Docker operation, observeActualState | tool policy, MCP connection | in Deploy, Destroy, Repair |
| MCP connection, `execution/mcp-connection-plug.ts` | child process, pending requests by id, connected flag | connect, disconnect, callTool, line and exit handlers | the server process | McpTransport |
| MCP server, `src/packages/docker-mcp-server-supernova` | none | one handler per tool | Docker API | its effects, as external steps |
| State store, `state/sqlite-state-store.ts` | one row per project, snapshots, history | load, save, discard, clear | every command, in separate processes | StateStore |
| Destroy and repair commands, `cli/main.ts` | none | destroy, destroy-all, repair, sync | engine, store, user | Destroy, Repair |
| Drift, repair plan, sync, `execution/drift-detector.ts`, `repair-planner.ts`, `spec-sync.ts` | none | pure functions on desired and actual state | engine, commands | Drift |
| Schedule, `domain/topology-graph.ts`, `execution/dependency-schedule.ts` | none | inference, topological sort, search for a cycle | engine, planner | ServiceGraph, DraftSpec |
| Domain rules, `domain/schemas.ts`, `stateful-database-volumes.ts`, `project-identity.ts` | none | validation, replicas of databases, prefixes | all | DraftSpec, SpecPatch |
| Verifier, `agent/standard-verifier-agent.ts` | none | verify | gateway | a verdict in DeployLoop |
| Approval, `execution/phase8-approval.ts`, `tool-policy.ts` | none | preflight, approved action | command | Revision (preflight) |

### What is hard

* **Not alone.** The program is sequential, but the daemon is shared, containers
  exit, and other CLI processes use the same database.
* **Lost answers.** A call of the gateway that throws may have been executed,
  half executed, or may still be executed after the engine went on.
* **Decisions on old reads.** Lists are read once and used many calls later; a
  sync uses an observation made before the user was asked.
* **Every call throws.** Each `await` of a command may leave through a catch
  block that compensates with calls which can throw too.
* **Three parties in a loop.** Planner, verifier and user can disagree for ever,
  and so can a language model and its tools.
* **Names carry meaning.** Ownership, replicas and volumes are found by prefixes
  and trailing numbers of names, in five places that each parse them anew.
* **Long dialogues.** What the user has chosen or allowed must survive questions
  that come later, and nothing else must become allowed.

### What makes each component correct

* Planner loop: it ends for whatever the tools answer, builds plans only from
  specifications with nothing left open, and keeps the answers it was given.
* Reviser: resizing keeps groups of replicas whole and each database on its
  data; risky operations need consent; what is approved can be deployed.
* Deployment: everything up, or undone and the rest reported; nothing that was
  there before is touched; dependencies first, and last in the undo.
* Deploy loop: it ends, asks before each deployment, leaves nothing behind when
  it gives up, and the snapshot matches what was last known to run.
* MCP connection: each request is settled once, by its own answer, a time-out
  or the end of the connection.
* Store: no snapshot is lost, and a project is either there or not.
* Schedule: an order exists exactly without a cycle, and respects dependencies.
* Destroy: whatever is not removed is reported before the project is forgotten.
* Drift, repair and sync: what a repair removes comes back or is reported, what
  is saved was seen, repeating a repair converges, a sync forgets no container.

## 2. Modules

### Deploy, Saga, DeployProofs, MCDeploy

`Deploy` models `deployWithDocker` and `cleanupPartialDeploy`. `docker` is the
daemon's state; `seen` what the engine's lists said; `created`, `attempted` and
`started` are the arrays of the journal; `cleaned` and `leftovers` the cleanup
report. Every loop of the code is a `pc` value with the set `todo` of what it
has still to visit, and each call is one step that succeeds (`Succeeds`) or
throws (`Throws`): refused by the gate or the daemon, or lost by the transport
with the request not executed, executed, half executed (container created, not
started) or left in `late`, to be executed at any later time. `Outside` lets
another user of the daemon act. The loops over networks, volumes and images
have no order the properties depend on and take any element; the container
loops follow `Rank`, the start order of the schedule.

`Saga` is the promise seen from outside: a transaction over the desired
containers that commits with all of them available or gives up, releases what
it holds and reports the rest. `SagaSpec` checks that `Deploy` implements it, and
`IsSaga` proves it.

### DeployLoop, DeployLoopProofs, MCDeployLoop

`DeployLoop` models `plan --deploy` and `plan --adjust` from the preview prompt
to the end of the command. `spec` is the approved action's specification,
`guard` the fields of `ClosedLoopGuard`, `revised`, `needs` and `rounds` the
locals of a revision, `running`, `intact` and `saved` the project in Docker and
in SQLite. The engine's calls are single steps with the outcomes module
`Deploy` establishes; planner, verifier and user answer anything. The three
revision paths of the loop (conflict, deploy error, failed verification) share
the actions `Tick`, `Revise`, `Ask` and `Resolve`; `Decide` and `Leave` hold the
difference between them: only the last one cleans up first. Every call that can
throw has a disjunct `Throw`, the catch block of the command. A gateway that
never connected (`connected`) makes the rollback fail at its first call, as
`destroyWithDocker` refuses it.

### McpTransport, OutsideProofs

`McpTransport` models `McpConnectionPlug`, the JSON-RPC client below every
gateway call. An action is one callback of the event loop with the promise
continuations it releases. `pending` and `asker` are `pendingRequests`; `child`,
`connected`, `shutdownRequested`, `info` and `tools` the fields of the class;
`phase` is where the owner's connect/disconnect stands and `awaits` what a
caller's promise waits for. `proc`, `wire` and `open` belong to the servers: a
server answers its requests in any order, late, with an error or never, may
fail to start or die, and its exit and end-of-output events come when they come
(`Exit`, `EndOfOutput`), also after the next server was started. `Timeout` is
the timer of a request. `asked` and `answered` only observe. An owner uses the
class as the commands do: connect, then disconnect whether connect resolved or
threw; a second connect is allowed by the class, though the commands do not
make one. The proofs about it and about `StateStore`, the two things outside
the program every command stands on, are in one module, `OutsideProofs`; that is
why the names of `StateStore` say so (`StoreInit`, `StoreNext`, `StoreSpec`).

### ServiceGraph, ServiceGraphProofs

`ServiceGraph` models `topology-graph.ts`: `Infer` adds the dependencies that
follow from the kinds of services (or `TakeAsIs` leaves the specification as it
comes), `Count`, `Place` and `EndSort` are Kahn's algorithm with the queue kept
in specification order, and `Enter`, `Follow`, `Leave`, `NoCycle` the recursive
`visit` with its stack as `path` and `left`. A service is its position in the
list; names are unique because `validateInfrastructureSpec` refuses duplicates.
The search runs after every sort, although the code calls it after a sort only
when that failed: the planner calls it on its own, and the two must agree.
`Stuck` defines a cycle without naming it, by a set of services each of which
depends on another one of the set; the properties are stated against it.

### StateStore, VerifiedStates, OutsideProofs

`StateStore` models the SQLite store as the commands use it, each a process.
`current` is the single row of `state_snapshots`, `rows` the rows per project,
`history` the operations; a snapshot is known by the stamp of the command that
saved it. A command is the sequence of its database accesses: `LoadCurrent` and
`LoadHistory` (two statements), `Write` (one transaction), `DeleteRows` and
`DeleteOperations` (a second connection); `Abort` ends it anywhere. `Loaded` and
`Listed` are the two reads, by name with a fallback to the single row, and the
list. `allowed`, `finished` and `logged` only observe: for each project, the
commands its snapshot may be due to, once those that returned have superseded
what had finished before they started. `Concurrent` says whether commands may
overlap: nothing in the code prevents it.

`VerifiedStates` is the promise: a command changes the snapshots it is on in a
single instant or, if it dies, perhaps never. `Atomic` checks that `StateStore`
implements it.

### Destroy, DestroyProofs, MCDestroy

`Destroy` models the three ways of taking a project down, which differ in
details that matter: `destroy` (asks, looks, removes, looks again, clears the
project), `destroy-all` (looks, asks, removes, clears everything, does not look
again) and `cleanupAttemptScope` (looks at containers, removes them, only then
looks at networks, leaves volumes and the saved state alone). `kind` says which
one runs, `on` holds the projects it is about, `todo` what is left to remove,
`stopped` the container between its two calls, `errors` the objects in the
report, `gate` the gateway's permission. Names matter only by the project
prefix they have (`Prefixed`), and a name may have the prefix of two projects.
Every call may be refused, lose its answer with or without effect, or be the
last before the process is killed (`Die`); `Outside` creates, restarts and
removes objects between any two steps. A deployment (`Redeploy`) is one step.
`fresh`, `mine` and `known` only observe. The order in which containers go is
left open. Which names have the prefix, are protected or referenced is given
by constants, not computed from strings. The commands run one at a time: what
concurrent commands do to the saved state is the subject of `StateStore`.

### Drift, Repair, RepairProofs, MCRepair

`Drift` holds the pure functions: `Report` is `buildDriftReport` with the plan
that answers it (`buildRepairPlan`), `Derived` is `deriveSpecFromRuntime`,
`Canonical` the prefixing every save applies. A name is what the code parses out
of it: with the project's prefix or without, a base, and the number at its end.
Where Docker's order of its containers decides (which of several is compared,
`Firsts`; which one gives a derived service, `Picks`) the choice is left open,
except that containers with numbers are sorted by them. Two images count as the
same if the name of one begins with the other's, as the drift detector has it;
the pairs are the constant `Alike`.

`Repair` models the `repair` command and `status --drift --repair`: `Detect`, the
answers `Reject`, `Sync`, `Accept`, the loop of `repairWithDocker` with an action
per kind of repair (a recreation is five steps, `Begin` to `StartNew`), the
second look `Check`, and `Die`. A failing action is noted and the next one runs.
A second look that throws takes the report with it, as the code does (`failed` is
empty then and the command ends with "error"). A new container is on the first of
the saved networks, which one that is left open: `MayCreate` says that it may be
there, `MayRefuse` that it may not. `Outside` acts between any two steps, and an
observation may list a container that is gone when it is inspected. An image
stands for the environment too: both are compared, adopted by a sync and restored
by a recreation. `removed`, `verified` and `calm` only observe.

### DraftSpec, LoopGuard, Planner, PlannerProofs, MCPlanner

`DraftSpec` is the pure part of `react-agent.ts`: how a draft becomes a
specification (`Build`: services with an image, `Deployable`; default names,
`AllNamed`; inferred dependencies and replicas of databases, `AllExpanded`),
which uncertainties block (`Ambiguous`, `OnCycle`), what is offered and what an
answer changes (`Offers`, `Apply`), and the questions about images. `LoopGuard`
is `ReActLoopGuard`, four counters as functions of the guard. `Planner` composes
them: `Start` to `BuildPlan` are `run`, the answers are
`continueFromClarification` with the dialogue of the plan command around it.
`tools = "registry"` are the tools of `internal-tools.ts`, which check inputs and
outputs against the schemas; `tools = "any"` are tools that answer anything, the
ones the guard is there for. `looked` and `chosen` only observe. `PlanInv`,
`AnswerInv` and `DialogueInv` are the invariants the proofs rest on.

### SpecPatch, AdjustPolicy, Reviser, Revision, RevisionProofs, MCRevision

`SpecPatch` is `applySpecPatches`: which services a selector means (`Score`,
`Selected`, groups of replicas), what speaks against a patch (`Objection`), what
each of the operations does (`Rebuilt` for another image, `Resize` for a group),
and the normalisation and prefixes every result goes through. `AdjustPolicy` is
`cli/adjust-policy.ts`. `Reviser` is `reviseFromFeedback`: the plan of the
language model (`PlanFor`), its patches, its questions, the repairs without a
plan. These read the texts of the issues as if they were the user's words
(`parseRevisionPatches`): a report is its findings and the *hints* in its texts,
each a change of the code's kinds, or an operation allowed ("allow:"), with the
services the text mentions; `Fallback` applies them in the code's order. Which
hints a text holds is a constant (`Failures`), any sequence of them. `Revision`
has the dialogues around it as a state machine with three modes: `--adjust`
(revise, check the policy, preview), the preview's *other* (revise, at most one
question, preview again), and the deploy loop's revision (conflicts or failures,
revise, yes/no/other, up to `MaxRounds` questions, guard). A language model may
offer any plan of a set, the user may say any words of another. `shown`,
`allowed`, `kinds` and `origin` are what the properties compare. Two of `kinds`
are no operations but name what the code does against its own rules:
"resize-member", a replica resized without its group (`Alone`), and "read-image",
an image taken out of a text. `IsSpec`, `IsPatch` and `IsPlan` are the types the
schemas give specifications, patches and plans, `IsReport` that of a report, and
`Inputs` says that what a dialogue begins with is of them. The services of a
specification are a set: two that a patch makes equal in everything, the name
included, count as one.

`DeployLoop` has the deployments, the rollback and the snapshot with
specifications as opaque values; `Revision` has what happens to the
specification itself in the same loop.

## 3. Runs

| Run | Checks | Result |
|---|---|---|
| `deploy` | one attempt with a two-container dependency chain, a stale container, a network, a volume, two transport faults, one outside action; safety, refinement of `Saga`, termination | passes |
| `deploy_loop` | the whole command, with and without `--adjust`; bounds, consent, snapshot, rollback, termination | passes |
| `deploy_loop_approval` | README "only after preflight and explicit approval" | violated |
| `transport` | two callers, three calls, two servers with disconnect and reconnect; answers, what stays open, settling | passes |
| `service_graph` | all specifications of three services, as drafted and with inference | passes |
| `state_store` | all sequences of three commands that may each die at any statement; refinement of `VerifiedStates` | passes |
| `destroy` | two commands on projects *web* and *web-api*, two faults, two outside actions, a kill anywhere | passes |
| `destroy_overlap` | README "managed resources for a single verified project" | violated |
| `repair` | up to three events (commands, lost calls, acts of others) from many divergences of one or two services, any answers, a kill anywhere | passes |
| `repair_sync` | README "update the saved desired state from the current runtime state" | violated |
| `planner` | ten drafts with any answers, five guard configurations, tools of the registry and tools that answer anything | passes |
| `revision` | adjustments, previews and runtime revisions of two shops, and of a snapshot that a sync has written, with up to fourteen plans, five kinds of words and eight failures, most of which have texts that read like changes | passes |

### Bounds

* `deploy`: two faults are a lost answer and a failing cleanup call; one outside
  action already invalidates every list; two containers give a dependency, a
  partial creation and an order of the undo.
* `deploy_loop`: two specifications and two failure signatures let each of the
  three limits of the guard end the loop before the others do; one clarification
  round distinguishes asked, answered and given up.
* `transport`: two servers give an old one whose events arrive late; three calls
  give two callers at once and one more call after a time-out.
* `service_graph`: three services give cycles of two and three, two paths to one
  service, a tail before a cycle and all combinations of three kinds; four are
  out of reach (every graph is an initial state), and the proofs cover the rest.
* `state_store`: two projects make a command rewrite the single row of the other
  one; three commands save it, clear it and work on the other in any order.
* `destroy`: one project's names lie inside the prefix of the other, one network
  with the prefix is protected; two faults give a removal that fails and a second
  loss that follows from it; two outside actions something created and used
  behind the command's back; two commands a destroy after another one.
* `repair`: three events are a repair, a fault in it and a second command; the
  starting points have missing, stopped, doubled, unnumbered and gapped replicas,
  foreign containers of the same base, changed images and missing resources;
  `calm` counts to `MaxCalm` = 3, as many commands as there can be: with one
  container three undisturbed repairs are enough (two more than containers).
* `planner`: the drafts have ambiguous targets, cycles with and without an
  ambiguity before them, replicas, clashing names, a malformed field and
  unknown, missing and misspelt images; the configurations let each of the four
  limits be the one that stops the loop.
* `revision`: `MaxPreviews` = 1 and `MaxAttempts` = 2 give a second revision of a
  revised specification; `MaxRounds` = 3 is the code's value; shops with one
  database and with a group give resizes from one to several and back. A third
  shop, for `--adjust` only, is a snapshot that a sync has written: its backend
  publishes a port, which no planned specification has. The plans have targets by
  name, kind and group, of kind *service*, and with two criteria; the failures
  have a text for every kind of change the repairs can read.

### Fairness

`Deploy` assumes weak fairness of the engine only: its calls are awaited with a
time-out, so the next step always comes; nothing is assumed of late requests or
other users. `DeployLoop` assumes it of the command from the connection on,
which includes the user's answers to the loop's prompts: the termination shown
is termination for a user who answers. The preview prompt has no fairness.
`McpTransport` assumes that `setImmediate` and `setTimeout` fire, nothing of the
server. `Planner` assumes it of the program (`Run`), not of the user: `RunEnds`
says the program comes to an end or to a question after each answer. `Revision`
assumes that prompts are answered and calls of the planner end, with any
content. The other modules state safety only: any command may die at any step.

Deadlock checking is off where the program ends or may stay idle; `Revision`
has an explicit final step and is checked for deadlock.

### Findings

* `DeployedIsApproved`: after the answer *other* the loop deploys a revision
  nobody was shown (`cli/deploy-loop.ts:147-198`).
* `SingleProject`: destroying *web* removes the running containers of the
  verified project *web-api* (`execution/execution-engine.ts:632, 656, 676`).
* `SyncKeepsMounts`: a sync compares mounts, which have the project's prefix,
  with volume names whose prefix it has stripped, and drops all of them
  (`execution/spec-sync.ts:268-272`).

### Known disagreements without a run

What follows was met while modelling; the models do what the code does, and the
passing properties are stated so that they hold of it.

* A deployment refused because of a stopped container has already removed the
  stale ones, against the comment at `execution-engine.ts:371` (390 before 394).
* The rollback of `--adjust` saves a report that says passed and that no verifier
  produced (`plan-command.ts:1176`). Without `--adjust` an exception after the
  deployment discards the state while the containers run (978). The report of the
  attempt cleanup is dropped (`deploy-loop.ts:330`).
* The late exit event of a server that was disconnected marks the connection to
  its successor as closed (`mcp-connection-plug.ts:132`, against 111); only a
  reconnect of the same object shows it.
* Two commands at once: one that read the store before a project was destroyed in
  another terminal writes its snapshot back (`sqlite-state-store.ts:318, 449,
  479, 504`, then 694-729).
* The service of a container to recreate is the first one whose name is contained
  in the container's, the project's name included (`execution-engine.ts:771`): in
  a project *db-demo* every container is recreated from the service *db*.
  `RepairConverges` exempts such services (`Astray`).
* A repair whose second observation throws loses its report: the containers it
  removed and could not create again are not printed, only the error of the
  observation is (`execution-engine.ts:817`, `main.ts:505-510`).
  `RemovedIsReported` is about the repairs that print one. A drift to an image
  whose name begins with the wanted one's, or is not told, is not seen
  (`drift-detector.ts:148`).
* A sync overlooks a container without a number next to numbered ones, which are
  taken for the replicas of its service. `SyncCoversSeen` exempts it
  (`Overlooked`).
* A project called *docker_labs*, or with *desktop-extension* in its name, has
  networks that count as protected (`protected-docker-resources.ts:8`).
* An answer that removes an edge or replaces dependencies may bring up a question
  that was settled, and a free text is matched by substring
  (`react-agent.ts:1607`, against 1626). The dialogue has no limit of rounds, and
  choosing a target replaces all dependencies of the service.
* The self-repair of the planner is dead with the tools of the registry: their
  schemas refuse the specifications it is to repair (`react-agent.ts:393-395`).
  With `repeatTolerance` at most `noProgressTolerance`, no_progress never fires.
* In the deploy loop a conflict among the attempt's own names is renamed with a
  suffix that conflicts again, until the guard stops it (`cli/shared.ts:775`,
  `deploy-loop.ts:469-484`). Two operations that are blocked for different reasons
  can never both be confirmed, and a confirmation is for an operation, not for
  the patch that was shown (`deploy-loop.ts:715`,
  `standard-planner-agent.ts:173`).
* Resizing an unnumbered database *db* to n replicas mounts *db-data-1*, not the
  *db-data* its data is on (`src/README.md:69`). `DataStays` compares services
  with one name. A resize also drops mounts that hold no data.
* Policy of `--adjust`: the desired status, dependencies of databases and volume
  sources are not compared; an image outside the catalog in add-service is not
  checked; removing a dependency and then the database counts as safe.
* Without a plan, the repairs read the texts of the issues as changes: the text
  "image pull failed: ..." that the deploy loop writes itself
  (`deploy-loop.ts:704`) is an image *pull:latest* for the service it names, and
  no consent is needed for it (`standard-planner-agent.ts:2228`, 2663; against
  "the current plan was left unchanged", `spec-patch-applier.ts:182`). The schema
  accepts it; a deployment of it is refused (`execution-engine.ts:322-333`).
  "allow:" in such a text counts as the user's consent
  (`standard-planner-agent.ts:844`). `ImagesNeedConsent` excepts the images that
  were read, by name (`ReadImages`), and only in dialogues in which that has
  happened; `RemovalNeedsConsent` takes the consent of a text for one.
* Whether a service may be removed is asked of the one that is matched, and what
  goes is every service of its name (`spec-patch-applier.ts:201-209`, `281-294`).
  Between two patches of a plan a replica of a database may have the name of a
  backend, *db-1*, or a backend the image of a database.
* A target of new replicas is resolved to a group of replicas only if the group as
  a whole satisfies it (`spec-patch-applier.ts:613`); one of kind
  *service*, the form the prompt asks for (`standard-planner-agent.ts:320`), or one
  that says two things may match a single replica, which is then replicated
  by itself (312-319): *db-1* becomes *db-1-1* and *db-1-2*. `GroupsAreWhole` says
  nothing of a dialogue in which this has happened ("resize-member"); `DataStays`
  does.

## 4. Proofs

The only assumptions are the `ASSUME`s of the modules: on `Deploy`, that the
start order is a total order that extends the dependencies and that object
names of different kinds differ; on `DeployLoop`, that limits are natural
numbers and `None` is no specification; on `McpTransport`, that the owner is no
caller; on `ServiceGraph`, that `N` is a natural number; on `StateStore`, that
`None` is no project and the bound on commands a natural number; on `Destroy`,
that kinds of names are disjoint, that specifications and references bear the
prefix of their project, and that no project's own network is protected; on
`Drift` and `Repair`, that numbers are bounded by some natural number, and that
what was saved to begin with is a canonical specification in which only services
without a number have replicas; on `DraftSpec` and
`Planner`, that images and drafts are of their types, that "odd" and "none" are
names of no image of the catalog, and that the guard's limits are positive; on
`Revision`, that specifications, plans and reports are of the types of the schemas,
that a specification to begin with satisfies them, that only proxies of a planned
one publish ports, and that the bounds are natural numbers; on `Reviser`, that
the images that replace missing ones are of the catalog, with a version it has.
`DataKept`, `GroupsKept` and `RemovalsAllowed` have hypotheses of their own,
below.

**Deploy.** `IInv` strengthens the promises with what each loop visits
(`LoopInv`), that lists are right about objects nobody else touches
(`SeenInv`), that the journal covers what exists (`JournalInv`), that no request
is in flight while the attempt works (`QuietInv`: the first call that throws
ends the work), and how the daemon relates to the journal (`DaemonInv`). The
crux is a late creation: it can only be pending for a journalled container that
is still absent, so a removal that succeeded (`GoneInv`) cannot be undone by it.
Four smaller invariants stand on it, each inductive together with it: what the
create loop has passed is started (`OrderInv`; the cleanup, which always takes
the last of `todo`, keeps the order because everything journalled is in `todo`
or in the report), networks and volumes are up or absent (`KindInv`), what a
loop has passed is up (`UpInv`), and what the attempt owns is in the journal or
unanswered and not passed over by the undo loops (`OwnedInv`).
Proved for all constants: `TypeCorrect`, `FoundIsKept` (PreExistingUntouched),
`FailureIsReported` (ContainersReported), `CleanedStaysGone` (CleanedIsGone),
`OrderIsKept` (DependencyOrder), `SuccessIsUp` (SuccessMeansUp),
`ObjectsAreReported` (ObjectsReported), and `IsSaga`: every step maps to a step
of `Saga` or leaves it as it is. The only steps for which that takes more than
looking at the call are `Return` (needs `UpInv`), the end of the cleanup, and a
creation that takes effect after it, which is of a container in the report.

**DeployLoop.** `IInv` relates the guard's counters to the deployments made
(`GuardInv`, `DeploysInv`, `StreakInv`, with one deployment in flight that the
guard has not counted), consent to the place in the loop (`ConsentInv`), and the
snapshot and the runtime to the way the loop was left (`CleanInv`, `SavedInv`,
`RestoreInv`). Proved for all constants: `TypeCorrect`, `DeploysAreBounded`,
`GivesUpClean`, `SavedStateIsKept`, `RollbackRestores`, and the action property
`UserConsents`.

**McpTransport.** `IInv` ties the map of pending requests to the parties that
wait (`BookInv`), states that ids are used once and that only the server in use
can answer a pending one (`TrafficInv`: this is why an answer that arrives late
finds no entry), bounds the ids by the calls made (`BudgetInv`) and relates the
fields to the life of the process (`LinkInv`). Proved for any number of callers,
calls and servers: `TypeCorrect`, `AnswersMatch`, `WaitersPending`,
`CurrentServerThm`, `DisconnectCloses`.

**ServiceGraph.** `IInv` gives in-degrees and queue as functions of what has
been placed and keeps stuck sets out of it (`SortInv`), and makes the search's
stack a path whose passed dependencies are visited or next on it, with no stuck
service visited (`SearchInv`). When the queue is empty the services left over
are a stuck set; when the search ends without a cycle everything is visited, so
there is none; a cycle it names is one. That gives `ThrowsExactly` and
`CycleReported`. `InferenceSafe` takes the members of lowest layer of a stuck
set: what inference adds to them leads out of the set, so they were stuck in the
draft. Also proved: `TypeCorrect`, `DependenciesComeFirst`, `KeepsSpecOrder`.

**StateStore.** For commands that do not overlap (`~Concurrent`, the hypothesis
of the theorems), `IInv` says that at most one command is under way, that it
knows the tables it loaded until it writes (`Knows`), how far it has come
(`Answers`, `Reached`), and that the single row is the row of its project
(`Agree`): so writing back the row of another project changes nothing, and both
reads find the project's row. Proved: `StoreTypeCorrect` (this one also
with overlap), `KeptOneAtATime`, `LoggedOneAtATime`, and `AtomicOneAtATime`, the
refinement of `VerifiedStates`, in which a save takes effect with its write and
a clear with its delete.

**Destroy.** `Inv` says what the variables hold at each place (`Shape`), that
whatever is to go and still there is in `todo`, `errors` or `fresh` from the
list on, except for the cleanup's networks, not yet listed (`Covered`), and that
deployed objects are there, not made by others meanwhile, and told of before
their snapshot goes (`Owned`). The lemma `Call` states once what a call that
succeeds or throws can do. Proved for all constants: `TypeCorrect`,
`ReportComplete` (Accounted), `NothingLost` (NoSilentOrphans) and `OnlyNamed`
(the action property Untouched).

**Repair.** `IInv` says where the command is (`PlaceInv`: at most one recreation
is under way, of a service of the specification, and nothing was removed before
the answer) and that each removed container is there, reported, or the one
`Create` is about to make (`RemovedInv`): the property alone is not inductive,
as between removal and creation a container is neither there nor reported. Two
lemmas carry the rest. `CleanIsGood`: a report without findings means what
`VerifiedIsGood` says. `SyncCovers`: for any order in which Docker lists them,
each of the project's containers gets a service whose containers it is among,
which takes the cardinality of the set of numbers and when it is 1..n. Proved
for all constants: `TypeCorrect`, `RemovedReported` (RemovedIsReported),
`VerifiedGood` (VerifiedIsGood), `SyncCoversAll` (SyncCoversSeen).

That repairing again and again gets there takes a second invariant,
`ConvergeInv`, proved inductive with the help of the first. `calm` counts the
repairs since anything but the program acted, and `RepairConverges` bounds what
is left by it: a service is as it is wanted, or one more of its containers is
*tended* than repairs have passed but one. In the middle of a repair the same is
said of what the rest of the plan will make of the service (`WillSettle`, over
the containers there are or that are to be recreated): `PlanSettles` shows that
a plan adds one when it is made, `SettleKeeps` that no action takes one away, and
`CheckConverges` that with an empty plan what was to be is. A service whose
containers' names contain another service's name is excepted throughout
(`WillStray`); `SoleService` shows that the containers of every other are
recreated from it. `RepairsConverge` (RepairConverges) follows, and
`RepairsSuffice`: n containers need n + 2 repairs at most. A fixed number, three,
is enough for no constants but small ones, which the first attempt at this proof
has shown; and a command in the middle of which somebody interferes must not be
counted.

**Planner.** `GuardInv` says that the guard's counters are the repairs made:
iterations and calls are the length of `looked` (`CountInv`; the validation
before a repair has been counted, which is why the cap on calls cannot be
exceeded by the repair itself), and its two row counters are the longest rows at
the end of it, of the last specification and of the present one (`RowInv`; the
second half, that no row is longer, gives that the guard does not let the loop
run on). Proved for every configuration and whatever tools answer: `GuardCounts`
and `GuardExact` (GuardIsExact).

What is known of a dialogue depends on its stage. While the images of the draft
are asked about, no target has been chosen; from then on the draft has no
question that would make the program build the specification anew, so no choice
is lost (`AnswerInv`). An answer changes the dependencies of the service it is
about and of no other, and no names or kinds, so the choices made before stand
(`ChoiceStands`). What goes to `BuildPlan` has nothing left open and, once it is
planned, satisfies the schema (`PlanInv`). That such a specification has a
service to start first in every set of its services (`NoneStuck`) is shown by the
service of the set that reaches fewest: if it depended on another one of the set,
the two would reach each other, which would be a question. Induction along a
sequence, which `Build` needs, is done by hand, over the least place where a
claim would fail (`Courses`, `AtTheEnd`, `Flattened`). Proved for any catalog,
drafts, answers and guard, with tools of the registry or any others:
`DialogueHolds`, from which `TypeCorrect`, `ChoicesStand` (AnswersStand),
`PlanSound` (PlannedIsSound) and `DialogueCorrect` follow.

**Revision.** `ReviewInv` says what the stages hold. A preview is always of a
specification of the schema's types that publishes ports on proxies only; what
reaches the policy of `--adjust` has gone through the patches, which strip the
other ports, or is the snapshot itself in its namespace, ports of a sync and
all; and that one is refused (`UnchangedIsRefused`: the namespace changes no
name and no number of replicas, and maps the members of each group one to one,
so nothing is left that counts as a change). What is approved is `Shown` of such
a specification, valid and without a cycle, and `ShownIs` gives the rest:
expanding leaves no database to expand, and a name with a project in front is no
path of the host. There is a lemma for each operation of a patch that it makes a
specification of a specification, for any service it may be for; a plan is
followed patch after patch (`PatchAfterPatch`). Proved for any specifications,
plans, words and findings: `ApprovalSound` (ApprovedIsSound) and
`RoundsBounded` (TypeOK).

`DataKept` (DataStays) is about the adjustments that only change numbers of
replicas, in any number of patches, plans and previews. `OnVolumeOf` says where
a database has to be: on the volume its service got when it was planned, with
the numbers of its own name behind. `Expand` makes replicas on such volumes,
`Resize` goes back to the volume of the service by dropping the last number
(`PatternStays`), and a name that is in the namespace stays as it is
(`PlacedStays`). So in every stage each database is on the volume of one of the
snapshot's (`VolumesInv`). The hypothesis `OnOwnVolumes` is that this holds of
the snapshot to begin with, as it does of what the tool has planned, and of the
snapshots of the run (`McVolumesAssumption`); without it the theorem is false: a
database that the user has called *db-2* and put on a volume of another name is
moved when its group is resized.

`GroupsKept` (GroupsAreWhole) is about the same adjustments. That each group is
one service or the replicas 1 to n, with all or none of which an outsider goes,
is not inductive: a resize renames members one by one, and dependencies are
rewritten by name. `Whole` is: names are once, only databases have numbers and
each one behind the name of its group, nothing is called like a group with
members, every group is counted from one (`Counted`), dependencies are on what is
there or, a database's, in its own group (`Closed`), and whoever depends on one
member from outside depends on all (`OnAll`). `GroupsInv` has it in every stage.
A group that is resized is cut off or continued and its dependents get the new
names (`WholeResizes`, over `Regrouped`); a database that is expanded is alone in
its group (`WholeExpands`); everything else that happens to a specification
leaves names, kinds and dependencies alone (`WholeResembles`). The only
hypothesis is `WholeSnapshots`, that the snapshots are whole; it holds of those
of the run (`McGroupsAssumption`). Of targets nothing is assumed: whatever a
patch means, it resizes groups as the code resolves them or a replica by itself,
which the patches record as they are applied (`Alone`); the property is about the
dialogues in which there is none of the latter. The policy of `--adjust` does not
exclude them, since revisions asked for in the preview are not checked by it
again.

What a revision may do without being allowed to is followed through every call of
the planner, those of the deploy loop included (`ConsentInv`): the specification
and the last result are `Loyal` to the one the dialogue began with, as far as the
operations so far (`kinds`) and the user (`allowed`) let them be. Most operations
make services that come from those before (`ComeFrom`): with their image and
kind, and their name unless they are databases that got a number (`ExpandComes`,
`ResizeComes`, `EditedComes`). Adding, removing, renaming and another image each
have a lemma on what they keep and what `Policy` has to have said (`RemoveLoyal`,
`ImageLoyal`); being loyal goes on from patch to patch and from revision to
revision (`LoyalAfterLoyal`). The repairs without a plan are followed hint by
hint (`FallbackLoyal`): findings bring images of the catalog only, texts the
images that are read in them, and neither takes a service away; what a text
allows is among `allowed` like what the user allows. `ImagesAllowed`
(ImagesNeedConsent) follows for all constants, the reports of failures among
them. `RemovalsAllowed` (RemovalNeedsConsent), and with it `RiskAllowed`
(RiskNeedsConsent, which is both), has the hypothesis `PlainNames`, that no
service to begin with but a database has a number at the end of its name: a
backend called *db-1* goes, unasked, with the replica of that name. The property
says nothing after a plan or a text has renamed a service or changed an image,
for the same reason: what is then called like a database, or is one, may be
removed as one.

Only model-checked: liveness (`AttemptEnds`, `LoopEnds`, `EveryCallSettles`,
`RunEnds`, `DialogueEnds`), since fairness is out of the prover's reach. Every
invariant of a run is stated by a theorem.

## 5. Not modelled, or in part

* **Drift and sync:** duplicate networks after a sync fail at the save; findings
  with one action count once; texts and severities.
* **Planner:** prompts, telemetry and adapters; the policy of generated secrets
  (repairs regenerate random ones); ports, volumes and resources except that one
  may be malformed; the planning path that does not use the ReAct agent.
* **Reviser:** how a text is parsed: words of the user are the numbers, names and
  consents in them, texts of issues are hints; of several services a text
  mentions, `Mentioned` takes some one where the code takes the first of the
  list; texts of questions. Volumes are known by the parts of their names, so
  that a volume called like *pgdata*, which the adjust policy refuses without
  need, does not occur.
* **Verifier:** a verdict; its checks read one observation and keep no state.
* **Gateway routes, parsers, compose rendering, secrets files, LLM provider,
  metrics, doctor, status, options:** pure functions, I/O or printing.
* **MCP server:** its container, network, volume and image tools by their effect
  on the daemon; the others are thin calls of the Docker API.
* **A process killed in a deployment:** its journal is in memory only, so no
  later command attributes what it left; nothing could be checked but that.
