----------------------------- MODULE DeployLoop -----------------------------
(***************************************************************************)
(* plan --deploy and plan --adjust from the preview to the end of the      *)
(* command: the approval prompt, the closed deploy / verify / revise loop  *)
(* runClosedLoopDeploy with its ClosedLoopGuard, and what the command does *)
(* with the saved snapshot and the previous runtime when the loop fails.   *)
(*                                                                         *)
(* The engine's calls are single steps here with the outcomes that module  *)
(* Deploy establishes for them.  The planner, the verifier and the user    *)
(* may answer anything their interface allows.                             *)
(***************************************************************************)
EXTENDS Naturals

CONSTANTS
  Specs,             \* desired specifications of the project, by hash
  None,              \* no specification
  Failures,          \* failure signatures
  MaxIterations,     \* maxVerifyReviseIterations
  SpecTolerance,     \* specStagnationTolerance
  FailureTolerance,  \* repeatedFailureTolerance
  MaxRounds,         \* MAX_REVISION_CLARIFICATION_ROUNDS
  MaxOutside         \* bound on actions of other users of the daemon

ASSUME LoopAssumption ==
  /\ None \notin Specs
  /\ None \notin Failures
  /\ MaxIterations \in Nat \ {0}
  /\ SpecTolerance \in Nat \ {0}
  /\ FailureTolerance \in Nat \ {0}
  /\ MaxRounds \in Nat
  /\ MaxOutside \in Nat

VARIABLES
  pc,         \* where the command stands
  adjust,     \* --adjust: there is a verified runtime to replace
  prev,       \* adjustRollbackSnapshot
  spec,       \* currentApprovedAction.validatedSpec
  branch,     \* which of the three revision paths of the loop is taken
  guard,      \* the fields of ClosedLoopGuard
  revised,    \* revisionResult.revisedSpec
  needs,      \* revisionResult.revisionDecision is needs-user-input
  rounds,     \* clarification rounds of this revision
  status,     \* what the loop returns, or "go" to deploy again
  connected,  \* the gateway reached the MCP server
  caught,     \* the command is in its catch block
  running,    \* specification whose containers exist in the project's scope
  intact,     \* all of them are up
  saved,      \* the project's verified snapshot in SQLite
  \* Observations: no step of the program reads the variables below.
  approved,   \* specifications the user answered y to
  consent,    \* the user agreed to the next deployment
  checked,    \* the verifier passed what is deployed
  trusted,    \* it had when the snapshot was last saved
  deploys,    \* deployments the loop started
  streak,     \* of them in a row with the present specification
  dirty,      \* a cleanup reported that something may be left
  outside     \* actions of other users so far

plan    == <<adjust, prev>>
session == <<plan, connected>>
answer  == <<revised, needs, rounds>>
runtime == <<running, intact, checked>>
store   == <<saved, trusted>>
prompts == <<approved, consent>>
counts  == <<deploys, streak>>
vars == <<pc, session, spec, branch, guard, answer, status, caught, runtime, store,
          prompts, counts, dirty, outside>>

Terminal == {"passed", "closed", "restored", "rollbackFailed"}
Returned == {"rejected", "failed", "guard-stopped"}
Branches == {"conflict", "error", "verify"}

Guards == [iterations : 0..(MaxIterations + 1),
           lastSpec : Specs \cup {None}, sameSpec : 0..(SpecTolerance + 1),
           lastFailure : Failures \cup {None}, sameFailure : 0..(FailureTolerance + 1)]

TypeOK ==
  /\ pc \in {"preview", "connect", "destroy", "observe", "deploy", "verify",
             "inspect", "tick", "revise", "ask", "resolve", "cleanup", "return",
             "refresh", "discard", "rollback", "rollbackDeploy",
             "rollbackSave"} \cup Terminal
  /\ adjust \in BOOLEAN
  /\ prev \in Specs \cup {None}
  /\ spec \in Specs
  /\ branch \in Branches
  /\ guard \in Guards
  /\ revised \in Specs
  /\ needs \in BOOLEAN
  /\ rounds \in 0..MaxRounds
  /\ status \in {"go", "passed", "threw"} \cup Returned
  /\ connected \in BOOLEAN
  /\ caught \in BOOLEAN
  /\ running \in Specs \cup {None}
  /\ intact \in BOOLEAN
  /\ saved \in Specs \cup {None}
  /\ approved \subseteq Specs
  /\ consent \in BOOLEAN
  /\ checked \in BOOLEAN
  /\ trusted \in BOOLEAN
  /\ deploys \in Nat
  /\ streak \in Nat
  /\ dirty \in BOOLEAN
  /\ outside \in 0..MaxOutside

-----------------------------------------------------------------------------
(* A new project has no snapshot (the command refuses one that exists) but *)
(* may find unmanaged containers; --adjust starts from a verified runtime  *)
(* without drift.                                                          *)
Init ==
  /\ pc = "preview"
  /\ adjust \in BOOLEAN
  /\ spec \in Specs
  /\ IF adjust
       THEN prev \in Specs /\ saved = prev /\ running = prev
       ELSE prev = None /\ saved = None /\ running \in Specs \cup {None}
  /\ intact = adjust /\ checked = adjust /\ trusted = adjust
  /\ branch = "conflict"
  /\ guard = [iterations |-> 0, lastSpec |-> None, sameSpec |-> 0,
              lastFailure |-> None, sameFailure |-> 0]
  /\ revised = spec /\ needs = FALSE /\ rounds = 0
  /\ status = "go" /\ connected = FALSE /\ caught = FALSE
  /\ approved = {} /\ consent = FALSE
  /\ deploys = 0 /\ streak = 0
  /\ dirty = (~adjust /\ running # None)
  /\ outside = 0

(* The preview prompt: y, n, or feedback that the planner turns into       *)
(* another specification, which must pass the preflight again.             *)
Preview ==
  /\ pc = "preview"
  /\ \/ /\ pc' = "connect"
        /\ approved' = approved \cup {spec} /\ consent' = TRUE
        /\ UNCHANGED spec
     \/ pc' = "closed" /\ UNCHANGED <<spec, prompts>>
     \/ spec' \in Specs /\ UNCHANGED <<pc, prompts>>
  /\ UNCHANGED <<session, branch, guard, answer, status, caught, runtime, store,
                 counts, dirty, outside>>

(* An exception leaves the loop for the catch block of the command; there, *)
(* a second one is reported and ends it.                                   *)
RecoverByDiscarding == "discard"        \* mutant: the snapshot is forgotten
Recover == IF adjust THEN "rollback" ELSE "discard"

ThrowAgain ==                           \* mutant: the recovery is retried
  /\ caught' = TRUE
  /\ status' = "threw"
  /\ pc' = Recover

Throw ==
  /\ caught' = TRUE
  /\ status' = "threw"
  /\ pc' = IF ~caught THEN Recover
           ELSE IF adjust THEN "rollbackFailed" ELSE "closed"

Connect ==
  /\ pc = "connect"
  /\ \/ /\ pc' = IF adjust THEN "destroy" ELSE "observe"
        /\ connected' = TRUE
        /\ UNCHANGED <<status, caught>>
     \/ Throw /\ UNCHANGED connected
  /\ UNCHANGED <<plan, spec, branch, guard, answer, runtime, store, prompts,
                 counts, dirty, outside>>

(* destroyWithDocker on the previous runtime, whose verification must pass. *)
DestroyPrevious ==
  /\ pc = "destroy"
  /\ \/ /\ running' = None /\ intact' = FALSE
        /\ pc' = "observe"
        /\ UNCHANGED <<status, caught>>
     \/ Throw /\ running' \in {running, None} /\ intact' \in {intact, FALSE}
  /\ checked' = FALSE
  /\ UNCHANGED <<session, spec, branch, guard, answer, store, prompts, counts,
                 dirty, outside>>

(* The scan before a deployment: a container of the specification that     *)
(* exists, running or not, is a conflict; so is a busy port.  The locals   *)
(* of the loop's body start afresh.                                        *)
Observe ==
  /\ pc = "observe"
  /\ revised' = spec /\ needs' = FALSE /\ rounds' = 0
  /\ \/ /\ branch' = "conflict"
        /\ pc' = "tick"
        /\ UNCHANGED <<status, caught>>
     \/ /\ running # spec
        /\ pc' = "deploy"
        /\ UNCHANGED <<branch, status, caught>>
     \/ Throw /\ UNCHANGED branch
  /\ UNCHANGED <<session, spec, guard, runtime, store, prompts, counts, dirty, outside>>

(* deployWithDocker: everything up, stale containers gone; or undone, save *)
(* for what the cleanup could not remove.                                  *)
Deploy ==
  /\ pc = "deploy"
  /\ \/ /\ running' = spec /\ intact' = TRUE
        /\ pc' = "verify"
        /\ UNCHANGED <<branch, dirty>>
     \/ /\ running' \in {running, None}
        /\ intact' = FALSE
        /\ branch' = "error" /\ pc' = "tick"
        /\ UNCHANGED dirty
     \/ /\ running' = spec /\ intact' = FALSE /\ dirty' = TRUE
        /\ branch' = "error" /\ pc' = "tick"
  /\ checked' = FALSE
  /\ deploys' = deploys + 1
  /\ streak' = streak + 1
  /\ consent' = FALSE
  /\ UNCHANGED <<session, spec, guard, answer, status, caught, store, approved, outside>>

(* verifyAfterApply catches its own errors: passed, or failed / uncertain. *)
Verify ==
  /\ pc = "verify"
  /\ pc' = "inspect"
  /\ checked' \in {FALSE, intact}
  /\ UNCHANGED <<session, spec, branch, guard, answer, status, caught, running,
                 intact, store, prompts, counts, dirty, outside>>

(* The containers are read again for the snapshot, which is saved only     *)
(* after a passed verification.                                            *)
Inspect ==
  /\ pc = "inspect"
  /\ \/ /\ checked
        /\ saved' = spec /\ trusted' = checked
        /\ status' = "passed" /\ pc' = "return"
        /\ UNCHANGED <<branch, caught>>
     \/ /\ ~checked
        /\ branch' = "verify" /\ pc' = "tick"
        /\ UNCHANGED <<store, status, caught>>
     \/ Throw /\ UNCHANGED <<branch, store>>
  /\ UNCHANGED <<session, spec, guard, answer, runtime, prompts, counts, dirty, outside>>

-----------------------------------------------------------------------------
(* A failed round: the guard is ticked, the planner revises, the user      *)
(* decides, clarifications are asked for.                                  *)

Repeats(last, now, count) == IF last = now THEN count + 1 ELSE 1

TickedForgetful(failure) ==             \* mutant: lastSpecHash is not assigned
  [guard EXCEPT !.iterations = IF @ > MaxIterations THEN @ ELSE @ + 1,
                !.lastFailure = failure, !.sameSpec = 1,
                !.sameFailure = Repeats(guard.lastFailure, failure, @)]

(* ClosedLoopGuard.tick throws at the first limit that is exceeded; the    *)
(* later counters are then not updated.                                    *)
Ticked(failure) ==
  LET n == guard.iterations + 1
      s == Repeats(guard.lastSpec, spec, guard.sameSpec)
      f == Repeats(guard.lastFailure, failure, guard.sameFailure)
      counted == [guard EXCEPT !.iterations = n]
      specced == [counted EXCEPT !.lastSpec = spec, !.sameSpec = s]
  IN IF n > MaxIterations THEN counted
     ELSE IF s > SpecTolerance THEN specced
     ELSE [specced EXCEPT !.lastFailure = failure, !.sameFailure = f]

Exhausted(g) == \/ g.iterations > MaxIterations
                \/ g.sameSpec > SpecTolerance
                \/ g.sameFailure > FailureTolerance

(* The round is over: deploy the revision, or return.                      *)
Leave(outcome) ==
  IF outcome = "go"
    THEN /\ pc' = "observe" /\ spec' = revised
         /\ streak' = IF revised = spec THEN streak ELSE 0
    ELSE pc' = "return" /\ UNCHANGED <<spec, streak>>

DecideWithoutCleanup(outcome) ==        \* mutant: returns before the cleanup
  /\ status' = outcome
  /\ IF branch = "verify" /\ outcome = "go"
       THEN pc' = "cleanup" /\ UNCHANGED <<spec, streak>>
       ELSE Leave(outcome)

(* A deployment that failed its verification is removed first, whatever    *)
(* was decided.                                                            *)
Decide(outcome) ==
  /\ status' = outcome
  /\ IF branch = "verify" THEN pc' = "cleanup" /\ UNCHANGED <<spec, streak>>
                          ELSE Leave(outcome)

Tick ==
  /\ pc = "tick"
  /\ \E failure \in Failures : guard' = Ticked(failure)
  /\ IF Exhausted(guard') THEN Decide("guard-stopped")
       ELSE pc' = "revise" /\ UNCHANGED <<status, spec, streak>>
  /\ UNCHANGED <<session, branch, answer, caught, runtime, store, prompts, deploys,
                 dirty, outside>>

(* reviseFromFeedback.                                                     *)
Planned == revised' \in Specs /\ needs' \in BOOLEAN

ReviseWithoutAsking ==                  \* mutant: revisions taken unseen
  /\ pc = "revise"
  /\ \/ Planned /\ pc' = "resolve" /\ UNCHANGED <<status, caught>>
     \/ Throw /\ UNCHANGED <<revised, needs>>
  /\ UNCHANGED <<session, spec, branch, guard, rounds, runtime, store, prompts,
                 counts, dirty, outside>>

Revise ==
  /\ pc = "revise"
  /\ \/ Planned /\ pc' = "ask" /\ UNCHANGED <<status, caught>>
     \/ Throw /\ UNCHANGED <<revised, needs>>
  /\ UNCHANGED <<session, spec, branch, guard, rounds, runtime, store, prompts,
                 counts, dirty, outside>>

(* requestRuntimeApproval shows the revision.  n stops; y takes a revision *)
(* that differs from what failed as it is; any other answer goes through   *)
(* the clarification rounds, after a second revision if there was a text.  *)
Ask ==
  /\ pc = "ask"
  /\ rounds' = 0
  /\ \/ /\ Decide("rejected")
        /\ consent' = FALSE
        /\ UNCHANGED <<approved, revised, needs, caught>>
     \/ /\ approved' = approved \cup {revised} /\ consent' = TRUE
        /\ IF revised # spec THEN Decide("go")
             ELSE pc' = "resolve" /\ UNCHANGED <<status, spec, streak>>
        /\ UNCHANGED <<revised, needs, caught>>
     \/ /\ consent' = TRUE
        /\ Planned \/ UNCHANGED <<revised, needs>>
        /\ pc' = "resolve"
        /\ UNCHANGED <<approved, status, spec, streak, caught>>
     \/ Throw /\ UNCHANGED <<prompts, revised, needs, spec, streak>>
  /\ UNCHANGED <<session, branch, guard, runtime, store, deploys, dirty, outside>>

RoundsLeft == rounds < MaxRounds

(* resolveRevisionWithClarifications, and the validation of what it comes  *)
(* to under the project's name, which may throw.                           *)
Resolve ==
  /\ pc = "resolve"
  /\ \/ Throw /\ UNCHANGED <<answer, spec, streak, consent>>
     \/ /\ ~needs
        /\ Decide("go")
        /\ UNCHANGED <<answer, consent, caught>>
     \/ /\ needs /\ ~RoundsLeft
        /\ Decide("failed")
        /\ UNCHANGED <<answer, consent, caught>>
     \/ /\ needs /\ RoundsLeft
        /\ \/ /\ Decide("rejected")
              /\ consent' = FALSE
              /\ UNCHANGED <<answer, caught>>
           \/ /\ Planned /\ rounds' = rounds + 1
              /\ UNCHANGED <<pc, status, spec, streak, consent, caught>>
  /\ UNCHANGED <<session, branch, guard, runtime, store, approved, deploys, dirty,
                 outside>>

(* cleanupAttemptScope: what it cannot remove is reported and nobody looks *)
(* at the report; a list that fails throws.                                *)
CleanupAttempt ==
  /\ pc = "cleanup"
  /\ intact' = FALSE /\ checked' = FALSE
  /\ \/ /\ running' = None
        /\ Leave(status)
        /\ UNCHANGED <<status, caught, dirty>>
     \/ /\ dirty' = TRUE
        /\ Leave(status)
        /\ UNCHANGED <<running, status, caught>>
     \/ /\ dirty' = TRUE
        /\ running' \in {running, None}
        /\ Throw
        /\ UNCHANGED <<spec, streak>>
  /\ UNCHANGED <<session, branch, guard, answer, store, prompts, deploys, outside>>

-----------------------------------------------------------------------------
(* What the command does with the loop's result.                           *)

Return ==
  /\ pc = "return"
  /\ pc' = IF status # "passed" THEN Recover ELSE IF adjust THEN "refresh" ELSE "passed"
  /\ UNCHANGED <<session, spec, branch, guard, answer, status, caught, runtime,
                 store, prompts, counts, dirty, outside>>

(* refreshAdjustStateAfterDeploy saves the runtime once more.              *)
Refresh ==
  /\ pc = "refresh"
  /\ \/ /\ saved' = spec /\ trusted' = checked
        /\ pc' = "passed"
        /\ UNCHANGED <<status, caught>>
     \/ Throw /\ UNCHANGED store
  /\ UNCHANGED <<session, spec, branch, guard, answer, runtime, prompts, counts,
                 dirty, outside>>

(* discardManagedProjectState.                                             *)
Discard ==
  /\ pc = "discard"
  /\ \/ saved' = None /\ pc' = "closed" /\ UNCHANGED <<status, caught>>
     \/ Throw /\ UNCHANGED saved
  /\ UNCHANGED <<session, spec, branch, guard, answer, runtime, trusted, prompts,
                 counts, dirty, outside>>

(* rollbackAdjustToSnapshot: prepare, then destroyWithDocker with no       *)
(* snapshot, which needs a connection, may throw before or after it has    *)
(* removed something, and whose result is not looked at.                   *)
Rollback ==
  /\ pc = "rollback"
  /\ \/ /\ connected
        /\ running' \in {running, None}
        /\ intact' = FALSE /\ checked' = FALSE
        /\ dirty' = (running' # None)
        /\ pc' = "rollbackDeploy"
        /\ UNCHANGED <<status, caught>>
     \/ Throw /\ UNCHANGED <<runtime, dirty>>
     \/ /\ connected /\ Throw
        /\ running' \in {running, None}
        /\ intact' = FALSE /\ checked' = FALSE
        /\ UNCHANGED dirty
  /\ UNCHANGED <<session, spec, branch, guard, answer, store, prompts, counts, outside>>

RollbackDeployAdjusted ==               \* mutant: deploys the adjusted action
  /\ pc = "rollbackDeploy"
  /\ running' = spec /\ intact' = TRUE
  /\ pc' = "rollbackSave"
  /\ UNCHANGED <<session, spec, branch, guard, answer, status, caught, checked,
                 store, prompts, counts, dirty, outside>>

(* deployWithDocker keeps a running container whose name it wants, be it   *)
(* one of the specification that is being rolled back.                     *)
RollbackDeploy ==
  /\ pc = "rollbackDeploy"
  /\ \/ /\ running' \in {prev} \cup ({running} \ {None})
        /\ intact' = TRUE
        /\ pc' = "rollbackSave"
        /\ UNCHANGED <<status, caught>>
     \/ /\ running' \in {running, prev, None}
        /\ intact' = FALSE
        /\ Throw
  /\ checked' = FALSE
  /\ UNCHANGED <<session, spec, branch, guard, answer, store, prompts, counts,
                 dirty, outside>>

(* The report saved with the snapshot says passed; the verifier is not run. *)
RollbackSave ==
  /\ pc = "rollbackSave"
  /\ \/ /\ saved' = prev /\ trusted' = checked
        /\ pc' = "restored"
        /\ UNCHANGED <<status, caught>>
     \/ Throw /\ UNCHANGED store
  /\ UNCHANGED <<session, spec, branch, guard, answer, runtime, prompts, counts,
                 dirty, outside>>

-----------------------------------------------------------------------------
(* A container that exits, or another user who removes the project's.      *)
Outside ==
  /\ outside < MaxOutside
  /\ outside' = outside + 1
  /\ running # None
  /\ intact' = FALSE
  /\ running' \in {running, None}
  /\ UNCHANGED <<pc, session, spec, branch, guard, answer, status, caught, checked,
                 store, prompts, counts, dirty>>

Command ==
  \/ Connect \/ DestroyPrevious \/ Observe \/ Deploy \/ Verify \/ Inspect
  \/ Tick \/ Revise \/ Ask \/ Resolve \/ CleanupAttempt
  \/ Return \/ Refresh \/ Discard \/ Rollback \/ RollbackDeploy \/ RollbackSave

Next == Preview \/ Command \/ Outside

Spec == Init /\ [][Next]_vars

(* Calls end in an answer or a time-out, and the user answers the prompts  *)
(* of the loop; nobody has to approve the preview.                         *)
FairSpec == Spec /\ WF_vars(Command)

-----------------------------------------------------------------------------
(* What the command promises.                                              *)

(* Every deployment of the loop is preceded by an answer of the user that  *)
(* agrees to it, given since the deployment before: no verdict, no         *)
(* clarification and no limit of the guard lets it deploy by itself.       *)
Consent == [][deploys' > deploys => consent]_vars

(* The guard lets the loop deploy once more than its iteration limit, and  *)
(* a specification once more in a row than its stagnation limit.           *)
BoundedDeploys == deploys <= MaxIterations + 1 /\ streak <= SpecTolerance + 1

(* When the loop gives up and every cleanup did its work, nothing of the   *)
(* project is left: the containers of a failed verification go before the  *)
(* loop returns, whether the guard, the user or a clarification ended it.  *)
ReturnedClean ==
  pc = "return" /\ status \in Returned /\ ~dirty => running = None

(* The snapshot in SQLite at the end of the command is the one its runtime *)
(* was last known to match; --adjust never loses it.                       *)
SavedAtEnd ==
  /\ pc = "passed" => saved = spec /\ trusted /\ (running = spec \/ outside > 0)
  /\ pc = "restored" => saved = prev
  /\ pc = "rollbackFailed" => saved \in {prev, spec}
  /\ pc = "closed" => saved = prev

(* A clean rollback brings the previous specification back.                *)
RolledBack == pc = "restored" /\ ~dirty /\ outside = 0 => running = prev /\ intact

(* From the first connection the command comes to an end.                  *)
LoopEnds == pc = "connect" ~> pc \in Terminal

(* What makes these promises inductive.  Going: the loop may still deploy; *)
(* InFlight: a deployment has been made that the guard has not yet counted. *)
Going == \/ pc \in {"preview", "connect", "destroy", "observe", "deploy", "verify",
                     "inspect", "tick", "revise", "ask", "resolve"}
         \/ pc = "cleanup" /\ status = "go"
InFlight == pc \in {"verify", "inspect"} \/ (pc = "tick" /\ branch # "conflict")
Counted  == pc \in {"revise", "ask", "resolve"} \/ (pc = "cleanup" /\ status = "go")

FlowInv ==
  /\ pc = "cleanup" => branch = "verify" /\ status \in {"go"} \cup Returned
  /\ pc = "return" => status \in {"passed"} \cup Returned
  /\ adjust <=> prev # None
  /\ pc = "discard" => ~adjust
  /\ pc \in {"destroy", "refresh", "rollback", "rollbackDeploy", "rollbackSave",
             "restored", "rollbackFailed"} => adjust

GuardInv == Going => /\ guard.iterations <= MaxIterations
                     /\ guard.sameSpec <= SpecTolerance
                     /\ guard.sameFailure <= FailureTolerance

DeploysInv == Going => deploys <= guard.iterations + (IF InFlight THEN 1 ELSE 0)

StreakInv ==
  /\ pc \in {"preview", "connect", "destroy"} => streak = 0
  /\ Going /\ ~InFlight /\ ~Counted =>
       streak = 0 \/ (guard.lastSpec = spec /\ streak <= guard.sameSpec)
  /\ InFlight =>
       streak <= 1 \/ (guard.lastSpec = spec /\ streak <= guard.sameSpec + 1)
  /\ Counted => guard.lastSpec = spec /\ streak <= guard.sameSpec

ConsentInv ==
  (\/ pc \in {"connect", "destroy", "observe", "deploy", "resolve"}
   \/ pc = "cleanup" /\ status = "go") => consent

CleanInv ==
  /\ pc \in {"preview", "connect"} /\ ~adjust => running = None \/ dirty
  /\ pc \in {"observe", "deploy"} => running = None \/ dirty
  /\ pc \in {"tick", "revise", "ask", "resolve"} /\ branch # "verify" =>
       running = None \/ dirty
  /\ pc = "return" /\ status \in Returned => running = None \/ dirty

SavedInv ==
  /\ Going \/ pc \in {"cleanup", "discard"} => saved = prev
  /\ pc = "return" /\ status \in Returned => saved = prev
  /\ pc \in {"verify", "inspect"} => running = spec \/ outside > 0
  /\ (pc = "return" /\ status = "passed") \/ pc = "refresh" =>
       saved = spec /\ checked /\ trusted /\ (running = spec \/ outside > 0)
  /\ pc \in {"rollback", "rollbackDeploy", "rollbackSave"} => saved \in {prev, spec}

RestoreInv ==
  ~dirty /\ outside = 0 =>
    /\ pc = "rollbackDeploy" => running = None
    /\ pc = "rollbackSave" => running = prev /\ intact

IInv == /\ TypeOK /\ FlowInv /\ GuardInv /\ DeploysInv /\ StreakInv /\ ConsentInv
        /\ CleanInv /\ SavedInv /\ RestoreInv
        /\ BoundedDeploys /\ SavedAtEnd /\ RolledBack

(* README: "Runtime mutation only happens after preflight and explicit     *)
(* approval."  What the loop has deployed is something the user approved.  *)
DeployedIsApproved == pc = "verify" => spec \in approved

=============================================================================
