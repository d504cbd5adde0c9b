--------------------------- MODULE DeployLoopProofs ---------------------------
(***************************************************************************)
(* Proofs about the deploy loop, for every set of specifications and       *)
(* failures and every limit of the guard.  IInv is inductive; from it      *)
(* follow the type invariant, the bound on deployments, what is left       *)
(* behind and what is saved at the end, and that the loop deploys nothing  *)
(* without a fresh answer of the user.                                     *)
(***************************************************************************)
EXTENDS DeployLoop, TLAPS

(* The parts of the invariant about the guard, the counts and the user's   *)
(* consent, and the parts about what is running and what is saved.         *)
CountParts == GuardInv /\ DeploysInv /\ StreakInv /\ ConsentInv /\ BoundedDeploys
StateParts == CleanInv /\ SavedInv /\ RestoreInv /\ SavedAtEnd /\ RolledBack

(* The type invariant in two parts: its Boolean variables and the others.  *)
Flags ==
  /\ adjust \in BOOLEAN /\ needs \in BOOLEAN /\ connected \in BOOLEAN
  /\ caught \in BOOLEAN /\ intact \in BOOLEAN /\ consent \in BOOLEAN
  /\ checked \in BOOLEAN /\ trusted \in BOOLEAN /\ dirty \in BOOLEAN

Data ==
  /\ pc \in {"preview", "connect", "destroy", "observe", "deploy", "verify",
             "inspect", "tick", "revise", "ask", "resolve", "cleanup", "return",
             "refresh", "discard", "rollback", "rollbackDeploy",
             "rollbackSave"} \cup Terminal
  /\ prev \in Specs \cup {None} /\ spec \in Specs /\ branch \in Branches
  /\ guard \in Guards /\ revised \in Specs /\ rounds \in 0..MaxRounds
  /\ status \in {"go", "passed", "threw"} \cup Returned
  /\ running \in Specs \cup {None} /\ saved \in Specs \cup {None}
  /\ approved \subseteq Specs /\ deploys \in Nat /\ streak \in Nat
  /\ outside \in 0..MaxOutside

USE DEF plan, session, answer, runtime, store, prompts, counts

LEMMA PreviewKeepsIInv == IInv /\ Preview => IInv'
<1> SUFFICES ASSUME TypeOK, FlowInv, CountParts, StateParts, Preview
             PROVE  TypeOK' /\ FlowInv' /\ CountParts' /\ StateParts'
  BY DEF IInv, CountParts, StateParts
<1>1. TypeOK'
  <2>1. Flags'
    BY Zenon DEF TypeOK, Flags, Preview
  <2>2. Data'
    BY LoopAssumption DEF TypeOK, Data, Terminal, Returned, Branches, Preview
  <2> QED
    BY <2>1, <2>2 DEF TypeOK, Flags, Data
<1>2. FlowInv'
  BY DEF TypeOK, FlowInv, Terminal, Returned, Branches, Preview
<1>3. CountParts'
  BY LoopAssumption DEF TypeOK, Guards, Terminal, Returned, Branches, Going,
       InFlight, Counted, CountParts, GuardInv, DeploysInv, StreakInv,
       ConsentInv, BoundedDeploys, Preview
<1>4. StateParts'
  BY LoopAssumption DEF TypeOK, FlowInv, Terminal, Returned, Branches, Going,
       InFlight, Counted, StateParts, CleanInv, SavedInv, RestoreInv,
       SavedAtEnd, RolledBack, Preview
<1> QED
  BY <1>1, <1>2, <1>3, <1>4

LEMMA ConnectKeepsIInv == IInv /\ Connect => IInv'
<1> SUFFICES ASSUME TypeOK, FlowInv, CountParts, StateParts, Connect
             PROVE  TypeOK' /\ FlowInv' /\ CountParts' /\ StateParts'
  BY DEF IInv, CountParts, StateParts
<1>1. TypeOK'
  <2>1. Flags'
    BY Zenon DEF TypeOK, Flags, Connect, Throw, Recover
  <2>2. Data'
    BY LoopAssumption DEF TypeOK, Data, Terminal, Returned, Branches, Connect,
         Throw, Recover
  <2> QED
    BY <2>1, <2>2 DEF TypeOK, Flags, Data
<1>2. FlowInv'
  BY DEF TypeOK, FlowInv, Terminal, Returned, Branches, Connect, Throw,
       Recover
<1>3. CountParts'
  BY LoopAssumption DEF TypeOK, Guards, Terminal, Returned, Branches, Going,
       InFlight, Counted, CountParts, GuardInv, DeploysInv, StreakInv,
       ConsentInv, BoundedDeploys, Connect, Throw, Recover
<1>4. StateParts'
  BY LoopAssumption DEF TypeOK, FlowInv, Terminal, Returned, Branches, Going,
       InFlight, Counted, StateParts, CleanInv, SavedInv, RestoreInv,
       SavedAtEnd, RolledBack, Connect, Throw, Recover
<1> QED
  BY <1>1, <1>2, <1>3, <1>4

LEMMA DestroyPreviousKeepsIInv == IInv /\ DestroyPrevious => IInv'
<1> SUFFICES ASSUME TypeOK, FlowInv, CountParts, StateParts, DestroyPrevious
             PROVE  TypeOK' /\ FlowInv' /\ CountParts' /\ StateParts'
  BY DEF IInv, CountParts, StateParts
<1>1. TypeOK'
  <2>1. Flags'
    BY Zenon DEF TypeOK, Flags, DestroyPrevious, Throw, Recover
  <2>2. Data'
    BY LoopAssumption DEF TypeOK, Data, Terminal, Returned, Branches,
         DestroyPrevious, Throw, Recover
  <2> QED
    BY <2>1, <2>2 DEF TypeOK, Flags, Data
<1>2. FlowInv'
  BY DEF TypeOK, FlowInv, Terminal, Returned, Branches, DestroyPrevious,
       Throw, Recover
<1>3. CountParts'
  BY LoopAssumption DEF TypeOK, Guards, Terminal, Returned, Branches, Going,
       InFlight, Counted, CountParts, GuardInv, DeploysInv, StreakInv,
       ConsentInv, BoundedDeploys, DestroyPrevious, Throw, Recover
<1>4. StateParts'
  BY LoopAssumption DEF TypeOK, FlowInv, Terminal, Returned, Branches, Going,
       InFlight, Counted, StateParts, CleanInv, SavedInv, RestoreInv,
       SavedAtEnd, RolledBack, DestroyPrevious, Throw, Recover
<1> QED
  BY <1>1, <1>2, <1>3, <1>4

LEMMA ObserveKeepsIInv == IInv /\ Observe => IInv'
<1> SUFFICES ASSUME TypeOK, FlowInv, CountParts, StateParts, Observe
             PROVE  TypeOK' /\ FlowInv' /\ CountParts' /\ StateParts'
  BY DEF IInv, CountParts, StateParts
<1>1. TypeOK'
  <2>1. Flags'
    BY Zenon DEF TypeOK, Flags, Observe, Throw, Recover
  <2>2. Data'
    BY LoopAssumption DEF TypeOK, Data, Terminal, Returned, Branches, Observe,
         Throw, Recover
  <2> QED
    BY <2>1, <2>2 DEF TypeOK, Flags, Data
<1>2. FlowInv'
  BY DEF TypeOK, FlowInv, Terminal, Returned, Branches, Observe, Throw,
       Recover
<1>3. CountParts'
  BY LoopAssumption DEF TypeOK, Guards, Terminal, Returned, Branches, Going,
       InFlight, Counted, CountParts, GuardInv, DeploysInv, StreakInv,
       ConsentInv, BoundedDeploys, Observe, Throw, Recover
<1>4. StateParts'
  BY LoopAssumption DEF TypeOK, FlowInv, Terminal, Returned, Branches, Going,
       InFlight, Counted, StateParts, CleanInv, SavedInv, RestoreInv,
       SavedAtEnd, RolledBack, Observe, Throw, Recover
<1> QED
  BY <1>1, <1>2, <1>3, <1>4

LEMMA DeployKeepsIInv == IInv /\ Deploy => IInv'
<1> SUFFICES ASSUME TypeOK, FlowInv, CountParts, StateParts, Deploy
             PROVE  TypeOK' /\ FlowInv' /\ CountParts' /\ StateParts'
  BY DEF IInv, CountParts, StateParts
<1>1. TypeOK'
  <2>1. Flags'
    BY Zenon DEF TypeOK, Flags, Deploy
  <2>2. Data'
    BY LoopAssumption DEF TypeOK, Data, Terminal, Returned, Branches, Deploy
  <2> QED
    BY <2>1, <2>2 DEF TypeOK, Flags, Data
<1>2. FlowInv'
  BY DEF TypeOK, FlowInv, Terminal, Returned, Branches, Deploy
<1>3. CountParts'
  BY LoopAssumption DEF TypeOK, Guards, Terminal, Returned, Branches, Going,
       InFlight, Counted, CountParts, GuardInv, DeploysInv, StreakInv,
       ConsentInv, BoundedDeploys, Deploy
<1>4. StateParts'
  BY LoopAssumption DEF TypeOK, FlowInv, Terminal, Returned, Branches, Going,
       InFlight, Counted, StateParts, CleanInv, SavedInv, RestoreInv,
       SavedAtEnd, RolledBack, Deploy
<1> QED
  BY <1>1, <1>2, <1>3, <1>4

LEMMA VerifyKeepsIInv == IInv /\ Verify => IInv'
<1> SUFFICES ASSUME TypeOK, FlowInv, CountParts, StateParts, Verify
             PROVE  TypeOK' /\ FlowInv' /\ CountParts' /\ StateParts'
  BY DEF IInv, CountParts, StateParts
<1>1. TypeOK'
  <2>1. Flags'
    BY Zenon DEF TypeOK, Flags, Verify
  <2>2. Data'
    BY LoopAssumption DEF TypeOK, Data, Terminal, Returned, Branches, Verify
  <2> QED
    BY <2>1, <2>2 DEF TypeOK, Flags, Data
<1>2. FlowInv'
  BY DEF TypeOK, FlowInv, Terminal, Returned, Branches, Verify
<1>3. CountParts'
  BY LoopAssumption DEF TypeOK, Guards, Terminal, Returned, Branches, Going,
       InFlight, Counted, CountParts, GuardInv, DeploysInv, StreakInv,
       ConsentInv, BoundedDeploys, Verify
<1>4. StateParts'
  BY LoopAssumption DEF TypeOK, FlowInv, Terminal, Returned, Branches, Going,
       InFlight, Counted, StateParts, CleanInv, SavedInv, RestoreInv,
       SavedAtEnd, RolledBack, Verify
<1> QED
  BY <1>1, <1>2, <1>3, <1>4

LEMMA InspectKeepsIInv == IInv /\ Inspect => IInv'
<1> SUFFICES ASSUME TypeOK, FlowInv, CountParts, StateParts, Inspect
             PROVE  TypeOK' /\ FlowInv' /\ CountParts' /\ StateParts'
  BY DEF IInv, CountParts, StateParts
<1>1. TypeOK'
  <2>1. Flags'
    BY Zenon DEF TypeOK, Flags, Inspect, Throw, Recover
  <2>2. Data'
    BY LoopAssumption DEF TypeOK, Data, Terminal, Returned, Branches, Inspect,
         Throw, Recover
  <2> QED
    BY <2>1, <2>2 DEF TypeOK, Flags, Data
<1>2. FlowInv'
  BY DEF TypeOK, FlowInv, Terminal, Returned, Branches, Inspect, Throw,
       Recover
<1>3. CountParts'
  BY LoopAssumption DEF TypeOK, Guards, Terminal, Returned, Branches, Going,
       InFlight, Counted, CountParts, GuardInv, DeploysInv, StreakInv,
       ConsentInv, BoundedDeploys, Inspect, Throw, Recover
<1>4. StateParts'
  BY LoopAssumption DEF TypeOK, FlowInv, Terminal, Returned, Branches, Going,
       InFlight, Counted, StateParts, CleanInv, SavedInv, RestoreInv,
       SavedAtEnd, RolledBack, Inspect, Throw, Recover
<1> QED
  BY <1>1, <1>2, <1>3, <1>4

(* What a tick makes of the guard.                                         *)
LEMMA TickedEffect ==
  ASSUME TypeOK, GuardInv, pc = "tick", NEW failure \in Failures
  PROVE  /\ Ticked(failure) \in Guards
         /\ Ticked(failure).iterations = guard.iterations + 1
         /\ ~Exhausted(Ticked(failure)) =>
              /\ Ticked(failure).lastSpec = spec
              /\ Ticked(failure).sameSpec =
                   Repeats(guard.lastSpec, spec, guard.sameSpec)
<1>1. /\ guard \in Guards /\ spec \in Specs
      /\ guard.iterations <= MaxIterations
      /\ guard.sameSpec <= SpecTolerance
      /\ guard.sameFailure <= FailureTolerance
  BY DEF TypeOK, GuardInv, Going
<1>2. /\ guard.iterations + 1 \in 0..(MaxIterations + 1)
      /\ Repeats(guard.lastSpec, spec, guard.sameSpec) \in 0..(SpecTolerance + 1)
      /\ Repeats(guard.lastFailure, failure, guard.sameFailure)
           \in 0..(FailureTolerance + 1)
  BY <1>1, LoopAssumption DEF Guards, Repeats
<1>3. Ticked(failure) \in Guards
  BY <1>1, <1>2 DEF Guards, Ticked
<1>4. Ticked(failure).iterations = guard.iterations + 1
  BY <1>1 DEF Guards, Ticked
<1>5. ASSUME ~Exhausted(Ticked(failure))
      PROVE  /\ Ticked(failure).lastSpec = spec
             /\ Ticked(failure).sameSpec =
                  Repeats(guard.lastSpec, spec, guard.sameSpec)
  BY <1>1, <1>2, <1>4, <1>5, LoopAssumption DEF Guards, Ticked, Exhausted
<1> QED
  BY <1>3, <1>4, <1>5

LEMMA TickKeepsIInv == IInv /\ Tick => IInv'
<1> SUFFICES ASSUME TypeOK, FlowInv, CountParts, StateParts, Tick
             PROVE  TypeOK' /\ FlowInv' /\ CountParts' /\ StateParts'
  BY DEF IInv, CountParts, StateParts
<1>0. /\ guard' \in Guards
      /\ guard'.iterations = guard.iterations + 1
      /\ ~Exhausted(guard') =>
           /\ guard'.lastSpec = spec
           /\ guard'.sameSpec = Repeats(guard.lastSpec, spec, guard.sameSpec)
  BY TickedEffect DEF Tick, CountParts
<1>1. TypeOK'
  <2>1. Flags'
    BY Zenon DEF TypeOK, Flags, Tick
  <2>2. Data'
    BY <1>0 DEF TypeOK, Data, Returned, Branches, Tick, Decide, Leave
  <2> QED
    BY <2>1, <2>2 DEF TypeOK, Flags, Data
<1>2. FlowInv'
  BY DEF TypeOK, FlowInv, Returned, Branches, Tick, Decide, Leave
<1>3. CountParts'
  BY <1>0, <1>1, LoopAssumption
     DEF TypeOK, Guards, Returned, Branches, Going, InFlight, Counted,
         CountParts, GuardInv, DeploysInv, StreakInv, ConsentInv,
         BoundedDeploys, Tick, Exhausted, Repeats, Decide, Leave
<1>4. StateParts'
  BY LoopAssumption
     DEF TypeOK, FlowInv, Terminal, Returned, Branches, Going, InFlight,
         Counted, StateParts, CleanInv, SavedInv, RestoreInv, SavedAtEnd,
         RolledBack, Tick, Decide, Leave
<1> QED
  BY <1>1, <1>2, <1>3, <1>4

LEMMA ReviseKeepsIInv == IInv /\ Revise => IInv'
<1> SUFFICES ASSUME TypeOK, FlowInv, CountParts, StateParts, Revise
             PROVE  TypeOK' /\ FlowInv' /\ CountParts' /\ StateParts'
  BY DEF IInv, CountParts, StateParts
<1>1. TypeOK'
  <2>1. Flags'
    BY Zenon DEF TypeOK, Flags, Revise, Planned, Throw, Recover
  <2>2. Data'
    BY LoopAssumption DEF TypeOK, Data, Terminal, Returned, Branches, Revise,
         Planned, Throw, Recover
  <2> QED
    BY <2>1, <2>2 DEF TypeOK, Flags, Data
<1>2. FlowInv'
  BY DEF TypeOK, FlowInv, Terminal, Returned, Branches, Revise, Planned,
       Throw, Recover
<1>3. CountParts'
  BY LoopAssumption DEF TypeOK, Guards, Terminal, Returned, Branches, Going,
       InFlight, Counted, CountParts, GuardInv, DeploysInv, StreakInv,
       ConsentInv, BoundedDeploys, Revise, Planned, Throw, Recover
<1>4. StateParts'
  BY LoopAssumption DEF TypeOK, FlowInv, Terminal, Returned, Branches, Going,
       InFlight, Counted, StateParts, CleanInv, SavedInv, RestoreInv,
       SavedAtEnd, RolledBack, Revise, Planned, Throw, Recover
<1> QED
  BY <1>1, <1>2, <1>3, <1>4

LEMMA AskKeepsIInv == IInv /\ Ask => IInv'
<1> SUFFICES ASSUME TypeOK, FlowInv, CountParts, StateParts, Ask
             PROVE  TypeOK' /\ FlowInv' /\ CountParts' /\ StateParts'
  BY DEF IInv, CountParts, StateParts
<1>1. TypeOK'
  <2>1. Flags'
    BY Zenon DEF TypeOK, Flags, Ask, Planned, Decide, Leave, Throw, Recover
  <2>2. Data'
    BY LoopAssumption DEF TypeOK, Data, Terminal, Returned, Branches, Ask,
         Planned, Decide, Leave, Throw, Recover
  <2> QED
    BY <2>1, <2>2 DEF TypeOK, Flags, Data
<1>2. FlowInv'
  BY DEF TypeOK, FlowInv, Terminal, Returned, Branches, Ask, Planned, Decide,
       Leave, Throw, Recover
<1>3. CountParts'
  BY LoopAssumption DEF TypeOK, Guards, Terminal, Returned, Branches, Going,
       InFlight, Counted, CountParts, GuardInv, DeploysInv, StreakInv,
       ConsentInv, BoundedDeploys, Ask, Planned, Decide, Leave, Throw, Recover
<1>4. StateParts'
  BY LoopAssumption DEF TypeOK, FlowInv, Terminal, Returned, Branches, Going,
       InFlight, Counted, StateParts, CleanInv, SavedInv, RestoreInv,
       SavedAtEnd, RolledBack, Ask, Planned, Decide, Leave, Throw, Recover
<1> QED
  BY <1>1, <1>2, <1>3, <1>4

LEMMA ResolveKeepsIInv == IInv /\ Resolve => IInv'
<1> SUFFICES ASSUME TypeOK, FlowInv, CountParts, StateParts, Resolve
             PROVE  TypeOK' /\ FlowInv' /\ CountParts' /\ StateParts'
  BY DEF IInv, CountParts, StateParts
<1>1. TypeOK'
  <2>1. Flags'
    BY Zenon DEF TypeOK, Flags, Resolve, Planned, Decide, Leave, RoundsLeft,
         Throw, Recover
  <2>2. Data'
    BY LoopAssumption DEF TypeOK, Data, Terminal, Returned, Branches, Resolve,
         Planned, Decide, Leave, RoundsLeft, Throw, Recover
  <2> QED
    BY <2>1, <2>2 DEF TypeOK, Flags, Data
<1>2. FlowInv'
  BY DEF TypeOK, FlowInv, Terminal, Returned, Branches, Resolve, Planned,
       Decide, Leave, RoundsLeft, Throw, Recover
<1>3. CountParts'
  <2>1. BoundedDeploys'
    <3>1. deploys' = deploys /\ streak' \in {streak, 0}
      BY DEF Resolve, Decide, Leave
    <3> QED
      BY <3>1, LoopAssumption DEF BoundedDeploys, CountParts, TypeOK
  <2> USE LoopAssumption
          DEF TypeOK, Guards, Terminal, Returned, Branches, Going, InFlight,
              Counted, CountParts, GuardInv, DeploysInv, StreakInv,
              ConsentInv, Resolve, Planned, Decide, Leave, RoundsLeft,
              Throw, Recover
  <2>2. GuardInv'
    OBVIOUS
  <2>3. DeploysInv'
    OBVIOUS
  <2>4. StreakInv'
    OBVIOUS
  <2>5. ConsentInv'
    OBVIOUS
  <2> QED
    BY <2>1, <2>2, <2>3, <2>4, <2>5
<1>4. StateParts'
  BY LoopAssumption DEF TypeOK, FlowInv, Terminal, Returned, Branches, Going,
       InFlight, Counted, StateParts, CleanInv, SavedInv, RestoreInv,
       SavedAtEnd, RolledBack, Resolve, Planned, Decide, Leave, RoundsLeft,
       Throw, Recover
<1> QED
  BY <1>1, <1>2, <1>3, <1>4

LEMMA CleanupAttemptKeepsIInv == IInv /\ CleanupAttempt => IInv'
<1> SUFFICES ASSUME TypeOK, FlowInv, CountParts, StateParts, CleanupAttempt
             PROVE  TypeOK' /\ FlowInv' /\ CountParts' /\ StateParts'
  BY DEF IInv, CountParts, StateParts
<1>1. TypeOK'
  <2>1. Flags'
    BY Zenon DEF TypeOK, Flags, CleanupAttempt, Leave, Throw, Recover
  <2>2. Data'
    BY LoopAssumption DEF TypeOK, Data, Terminal, Returned, Branches,
         CleanupAttempt, Leave, Throw, Recover
  <2> QED
    BY <2>1, <2>2 DEF TypeOK, Flags, Data
<1>2. FlowInv'
  BY DEF TypeOK, FlowInv, Terminal, Returned, Branches, CleanupAttempt, Leave,
       Throw, Recover
<1>3. CountParts'
  BY LoopAssumption DEF TypeOK, Guards, Terminal, Returned, Branches, Going,
       InFlight, Counted, CountParts, GuardInv, DeploysInv, StreakInv,
       ConsentInv, BoundedDeploys, CleanupAttempt, Leave, Throw, Recover
<1>4. StateParts'
  BY LoopAssumption DEF TypeOK, FlowInv, Terminal, Returned, Branches, Going,
       InFlight, Counted, StateParts, CleanInv, SavedInv, RestoreInv,
       SavedAtEnd, RolledBack, CleanupAttempt, Leave, Throw, Recover
<1> QED
  BY <1>1, <1>2, <1>3, <1>4

LEMMA ReturnKeepsIInv == IInv /\ Return => IInv'
<1> SUFFICES ASSUME TypeOK, FlowInv, CountParts, StateParts, Return
             PROVE  TypeOK' /\ FlowInv' /\ CountParts' /\ StateParts'
  BY DEF IInv, CountParts, StateParts
<1>1. TypeOK'
  <2>1. Flags'
    BY Zenon DEF TypeOK, Flags, Return, Recover
  <2>2. Data'
    BY LoopAssumption DEF TypeOK, Data, Terminal, Returned, Branches, Return,
         Recover
  <2> QED
    BY <2>1, <2>2 DEF TypeOK, Flags, Data
<1>2. FlowInv'
  BY DEF TypeOK, FlowInv, Terminal, Returned, Branches, Return, Recover
<1>3. CountParts'
  BY LoopAssumption DEF TypeOK, Guards, Terminal, Returned, Branches, Going,
       InFlight, Counted, CountParts, GuardInv, DeploysInv, StreakInv,
       ConsentInv, BoundedDeploys, Return, Recover
<1>4. StateParts'
  BY LoopAssumption DEF TypeOK, FlowInv, Terminal, Returned, Branches, Going,
       InFlight, Counted, StateParts, CleanInv, SavedInv, RestoreInv,
       SavedAtEnd, RolledBack, Return, Recover
<1> QED
  BY <1>1, <1>2, <1>3, <1>4

LEMMA RefreshKeepsIInv == IInv /\ Refresh => IInv'
<1> SUFFICES ASSUME TypeOK, FlowInv, CountParts, StateParts, Refresh
             PROVE  TypeOK' /\ FlowInv' /\ CountParts' /\ StateParts'
  BY DEF IInv, CountParts, StateParts
<1>1. TypeOK'
  <2>1. Flags'
    BY Zenon DEF TypeOK, Flags, Refresh, Throw, Recover
  <2>2. Data'
    BY LoopAssumption DEF TypeOK, Data, Terminal, Returned, Branches, Refresh,
         Throw, Recover
  <2> QED
    BY <2>1, <2>2 DEF TypeOK, Flags, Data
<1>2. FlowInv'
  BY DEF TypeOK, FlowInv, Terminal, Returned, Branches, Refresh, Throw,
       Recover
<1>3. CountParts'
  BY LoopAssumption DEF TypeOK, Guards, Terminal, Returned, Branches, Going,
       InFlight, Counted, CountParts, GuardInv, DeploysInv, StreakInv,
       ConsentInv, BoundedDeploys, Refresh, Throw, Recover
<1>4. StateParts'
  BY LoopAssumption DEF TypeOK, FlowInv, Terminal, Returned, Branches, Going,
       InFlight, Counted, StateParts, CleanInv, SavedInv, RestoreInv,
       SavedAtEnd, RolledBack, Refresh, Throw, Recover
<1> QED
  BY <1>1, <1>2, <1>3, <1>4

LEMMA DiscardKeepsIInv == IInv /\ Discard => IInv'
<1> SUFFICES ASSUME TypeOK, FlowInv, CountParts, StateParts, Discard
             PROVE  TypeOK' /\ FlowInv' /\ CountParts' /\ StateParts'
  BY DEF IInv, CountParts, StateParts
<1>1. TypeOK'
  <2>1. Flags'
    BY Zenon DEF TypeOK, Flags, Discard, Throw, Recover
  <2>2. Data'
    BY LoopAssumption DEF TypeOK, Data, Terminal, Returned, Branches, Discard,
         Throw, Recover
  <2> QED
    BY <2>1, <2>2 DEF TypeOK, Flags, Data
<1>2. FlowInv'
  BY DEF TypeOK, FlowInv, Terminal, Returned, Branches, Discard, Throw,
       Recover
<1>3. CountParts'
  BY LoopAssumption DEF TypeOK, Guards, Terminal, Returned, Branches, Going,
       InFlight, Counted, CountParts, GuardInv, DeploysInv, StreakInv,
       ConsentInv, BoundedDeploys, Discard, Throw, Recover
<1>4. StateParts'
  BY LoopAssumption DEF TypeOK, FlowInv, Terminal, Returned, Branches, Going,
       InFlight, Counted, StateParts, CleanInv, SavedInv, RestoreInv,
       SavedAtEnd, RolledBack, Discard, Throw, Recover
<1> QED
  BY <1>1, <1>2, <1>3, <1>4

LEMMA RollbackKeepsIInv == IInv /\ Rollback => IInv'
<1> SUFFICES ASSUME TypeOK, FlowInv, CountParts, StateParts, Rollback
             PROVE  TypeOK' /\ FlowInv' /\ CountParts' /\ StateParts'
  BY DEF IInv, CountParts, StateParts
<1>1. TypeOK'
  <2>1. Flags'
    BY Zenon DEF TypeOK, Flags, Rollback, Throw, Recover
  <2>2. Data'
    BY LoopAssumption DEF TypeOK, Data, Terminal, Returned, Branches,
         Rollback, Throw, Recover
  <2> QED
    BY <2>1, <2>2 DEF TypeOK, Flags, Data
<1>2. FlowInv'
  BY DEF TypeOK, FlowInv, Terminal, Returned, Branches, Rollback, Throw,
       Recover
<1>3. CountParts'
  BY LoopAssumption DEF TypeOK, Guards, Terminal, Returned, Branches, Going,
       InFlight, Counted, CountParts, GuardInv, DeploysInv, StreakInv,
       ConsentInv, BoundedDeploys, Rollback, Throw, Recover
<1>4. StateParts'
  BY LoopAssumption DEF TypeOK, FlowInv, Terminal, Returned, Branches, Going,
       InFlight, Counted, StateParts, CleanInv, SavedInv, RestoreInv,
       SavedAtEnd, RolledBack, Rollback, Throw, Recover
<1> QED
  BY <1>1, <1>2, <1>3, <1>4

LEMMA RollbackDeployKeepsIInv == IInv /\ RollbackDeploy => IInv'
<1> SUFFICES ASSUME TypeOK, FlowInv, CountParts, StateParts, RollbackDeploy
             PROVE  TypeOK' /\ FlowInv' /\ CountParts' /\ StateParts'
  BY DEF IInv, CountParts, StateParts
<1>1. TypeOK'
  <2>1. Flags'
    BY Zenon DEF TypeOK, Flags, RollbackDeploy, Throw, Recover
  <2>2. Data'
    BY LoopAssumption DEF TypeOK, Data, Terminal, Returned, Branches,
         RollbackDeploy, Throw, Recover
  <2> QED
    BY <2>1, <2>2 DEF TypeOK, Flags, Data
<1>2. FlowInv'
  BY DEF TypeOK, FlowInv, Terminal, Returned, Branches, RollbackDeploy, Throw,
       Recover
<1>3. CountParts'
  BY LoopAssumption DEF TypeOK, Guards, Terminal, Returned, Branches, Going,
       InFlight, Counted, CountParts, GuardInv, DeploysInv, StreakInv,
       ConsentInv, BoundedDeploys, RollbackDeploy, Throw, Recover
<1>4. StateParts'
  BY LoopAssumption DEF TypeOK, FlowInv, Terminal, Returned, Branches, Going,
       InFlight, Counted, StateParts, CleanInv, SavedInv, RestoreInv,
       SavedAtEnd, RolledBack, RollbackDeploy, Throw, Recover
<1> QED
  BY <1>1, <1>2, <1>3, <1>4

LEMMA RollbackSaveKeepsIInv == IInv /\ RollbackSave => IInv'
<1> SUFFICES ASSUME TypeOK, FlowInv, CountParts, StateParts, RollbackSave
             PROVE  TypeOK' /\ FlowInv' /\ CountParts' /\ StateParts'
  BY DEF IInv, CountParts, StateParts
<1>1. TypeOK'
  <2>1. Flags'
    BY Zenon DEF TypeOK, Flags, RollbackSave, Throw, Recover
  <2>2. Data'
    BY LoopAssumption DEF TypeOK, Data, Terminal, Returned, Branches,
         RollbackSave, Throw, Recover
  <2> QED
    BY <2>1, <2>2 DEF TypeOK, Flags, Data
<1>2. FlowInv'
  BY DEF TypeOK, FlowInv, Terminal, Returned, Branches, RollbackSave, Throw,
       Recover
<1>3. CountParts'
  BY LoopAssumption DEF TypeOK, Guards, Terminal, Returned, Branches, Going,
       InFlight, Counted, CountParts, GuardInv, DeploysInv, StreakInv,
       ConsentInv, BoundedDeploys, RollbackSave, Throw, Recover
<1>4. StateParts'
  BY LoopAssumption DEF TypeOK, FlowInv, Terminal, Returned, Branches, Going,
       InFlight, Counted, StateParts, CleanInv, SavedInv, RestoreInv,
       SavedAtEnd, RolledBack, RollbackSave, Throw, Recover
<1> QED
  BY <1>1, <1>2, <1>3, <1>4

LEMMA OutsideKeepsIInv == IInv /\ Outside => IInv'
<1> SUFFICES ASSUME TypeOK, FlowInv, CountParts, StateParts, Outside
             PROVE  TypeOK' /\ FlowInv' /\ CountParts' /\ StateParts'
  BY DEF IInv, CountParts, StateParts
<1>1. TypeOK'
  <2>1. Flags'
    BY Zenon DEF TypeOK, Flags, Outside
  <2>2. Data'
    BY LoopAssumption DEF TypeOK, Data, Terminal, Returned, Branches, Outside
  <2> QED
    BY <2>1, <2>2 DEF TypeOK, Flags, Data
<1>2. FlowInv'
  BY DEF TypeOK, FlowInv, Terminal, Returned, Branches, Outside
<1>3. CountParts'
  BY LoopAssumption DEF TypeOK, Guards, Terminal, Returned, Branches, Going,
       InFlight, Counted, CountParts, GuardInv, DeploysInv, StreakInv,
       ConsentInv, BoundedDeploys, Outside
<1>4. StateParts'
  BY LoopAssumption DEF TypeOK, FlowInv, Terminal, Returned, Branches, Going,
       InFlight, Counted, StateParts, CleanInv, SavedInv, RestoreInv,
       SavedAtEnd, RolledBack, Outside
<1> QED
  BY <1>1, <1>2, <1>3, <1>4

LEMMA InitIInv == Init => IInv
<1> SUFFICES ASSUME Init
             PROVE  TypeOK /\ FlowInv /\ CountParts /\ StateParts
  BY DEF IInv, CountParts, StateParts
<1>1. TypeOK
  <2>1. Flags
    BY Zenon DEF Init, Flags
  <2>2. Data
    BY LoopAssumption DEF Init, Data, Guards, Branches
  <2> QED
    BY <2>1, <2>2 DEF TypeOK, Flags, Data
<1>2. /\ pc = "preview" /\ saved = prev /\ (adjust <=> prev # None)
      /\ guard.iterations = 0 /\ guard.sameSpec = 0 /\ guard.sameFailure = 0
      /\ deploys = 0 /\ streak = 0
  BY LoopAssumption DEF Init
<1>3. ~adjust => running = None \/ dirty
  BY Zenon DEF Init
<1>4. FlowInv /\ CountParts
  BY <1>2, LoopAssumption
     DEF FlowInv, Going, InFlight, Counted, CountParts, GuardInv, DeploysInv,
         StreakInv, ConsentInv, BoundedDeploys
<1>5. StateParts
  BY <1>2, <1>3
     DEF Terminal, Going, StateParts, CleanInv, SavedInv, RestoreInv,
         SavedAtEnd, RolledBack
<1> QED
  BY <1>1, <1>4, <1>5

LEMMA StutterKeepsIInv == IInv /\ UNCHANGED vars => IInv'
  BY DEF vars, IInv, TypeOK, FlowInv, GuardInv, DeploysInv, StreakInv,
         ConsentInv, CleanInv, SavedInv, RestoreInv, BoundedDeploys,
         SavedAtEnd, RolledBack, Going, InFlight, Counted

(* IInv is an invariant of the command.                                    *)
THEOREM Inductive == Spec => []IInv
<1>1. IInv /\ [Next]_vars => IInv'
  BY PreviewKeepsIInv, ConnectKeepsIInv, DestroyPreviousKeepsIInv,
     ObserveKeepsIInv, DeployKeepsIInv, VerifyKeepsIInv, InspectKeepsIInv,
     TickKeepsIInv, ReviseKeepsIInv, AskKeepsIInv, ResolveKeepsIInv,
     CleanupAttemptKeepsIInv, ReturnKeepsIInv, RefreshKeepsIInv,
     DiscardKeepsIInv, RollbackKeepsIInv, RollbackDeployKeepsIInv,
     RollbackSaveKeepsIInv, OutsideKeepsIInv, StutterKeepsIInv
     DEF Next, Command
<1> QED
  BY InitIInv, <1>1, PTL DEF Spec

(* Every variable keeps its type; the clarification rounds and the guard's *)
(* counters stay within their limits.                                      *)
THEOREM TypeCorrect == Spec => []TypeOK
<1>1. IInv => TypeOK
  BY DEF IInv
<1> QED
  BY Inductive, <1>1, PTL

(* Whatever planner, verifier and user answer, the loop deploys at most    *)
(* MaxIterations + 1 times, and SpecTolerance + 1 times in a row the same. *)
THEOREM DeploysAreBounded == Spec => []BoundedDeploys
<1>1. IInv => BoundedDeploys
  BY DEF IInv
<1> QED
  BY Inductive, <1>1, PTL

(* A loop that gives up leaves nothing behind unless a cleanup said so.    *)
THEOREM GivesUpClean == Spec => []ReturnedClean
<1>1. IInv => ReturnedClean
  BY DEF IInv, CleanInv, ReturnedClean
<1> QED
  BY Inductive, <1>1, PTL

(* What SQLite holds at the end is what the runtime was last known to      *)
(* match, and --adjust always leaves a snapshot.                           *)
THEOREM SavedStateIsKept == Spec => []SavedAtEnd
<1>1. IInv => SavedAtEnd
  BY DEF IInv
<1> QED
  BY Inductive, <1>1, PTL

(* A rollback whose every step worked brings the previous specification    *)
(* back, whole, whatever the loop had deployed before it gave up.          *)
THEOREM RollbackRestores == Spec => []RolledBack
<1>1. IInv => RolledBack
  BY DEF IInv
<1> QED
  BY Inductive, <1>1, PTL

(* Each deployment of the loop follows a fresh answer of the user.         *)
THEOREM UserConsents == Spec => Consent
<1>1. IInv /\ Deploy => consent
  BY DEF IInv, ConsentInv, Deploy
<1>2. IInv /\ [Next]_vars => (deploys' > deploys => consent) \/ UNCHANGED vars
  <2> SUFFICES ASSUME IInv, Next PROVE deploys' > deploys => consent
    BY DEF vars
  <2>1. deploys \in Nat
    BY DEF IInv, TypeOK
  <2>2. Deploy \/ deploys' = deploys
    BY DEF Next, Command, Preview, Connect, DestroyPrevious, Observe, Verify,
           Inspect, Tick, Revise, Ask, Resolve, CleanupAttempt, Return,
           Refresh, Discard, Rollback, RollbackDeploy, RollbackSave, Outside
  <2> QED
    BY <1>1, <2>1, <2>2
<1> QED
  BY Inductive, <1>2, PTL DEF Spec, Consent
=============================================================================
