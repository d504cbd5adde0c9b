------------------------------- MODULE LoopGuard -------------------------------
(***************************************************************************)
(* ReActLoopGuard of agent/loop-guard.ts: four counters that end the       *)
(* repair loop of the planner.  A call of a guard that has stopped the loop*)
(* does nothing: the exception it threw has left the loop.                 *)
(***************************************************************************)
EXTENDS Naturals

CONSTANTS Tools, Signatures

Reasons == {"iteration_budget_exhausted", "tool_cap_exceeded", "quagmire_repeat", "no_progress"}

(* LoopGuardConfig: positive numbers, from the environment.                *)
Config == [maxIterations : Nat \ {0}, repeatTolerance : Nat \ {0},
           maxCallsPerTool : Nat \ {0}, noProgressTolerance : Nat \ {0}]

Nowhere == <<>>   \* no step yet
NewGuard == [iterations |-> 0, calls |-> [t \in Tools |-> 0], last |-> Nowhere,
             repeat |-> 0, noProgress |-> 0, reason |-> "none"]
Guards == [iterations : Nat, calls : [Tools -> Nat], last : {Nowhere} \cup Signatures,
           repeat : Nat, noProgress : Nat, reason : Reasons \cup {"none"}]

Stopped(g) == g.reason # "none"

Block(g, reached, reason) == IF reached THEN [g EXCEPT !.reason = reason] ELSE g

TickIteration(g, cfg) ==
  LET h == [g EXCEPT !.iterations = @ + 1]
  IN IF Stopped(g) THEN g
     ELSE Block(h, h.iterations > cfg.maxIterations, "iteration_budget_exhausted")

\* Mutated: checked before it is counted.
CheckBeforeCount(g, cfg, tool) ==
  LET h == [g EXCEPT !.calls[tool] = @ + 1]
  IN IF Stopped(g) THEN g
     ELSE Block(h, g.calls[tool] > cfg.maxCallsPerTool, "tool_cap_exceeded")

CheckToolCap(g, cfg, tool) ==
  LET h == [g EXCEPT !.calls[tool] = @ + 1]
  IN IF Stopped(g) THEN g
     ELSE Block(h, h.calls[tool] > cfg.maxCallsPerTool, "tool_cap_exceeded")

\* Mutated: a different step does not end the row.
ObserveNoReset(g, cfg, step) ==
  LET h == [g EXCEPT !.repeat = @ + (IF step = g.last \/ @ = 0 THEN 1 ELSE 0), !.last = step]
  IN IF Stopped(g) THEN g
     ELSE Block(h, h.repeat >= cfg.repeatTolerance, "quagmire_repeat")

ObserveStep(g, cfg, step) ==
  LET h == [g EXCEPT !.repeat = IF step = g.last THEN @ + 1 ELSE 1, !.last = step]
  IN IF Stopped(g) THEN g
     ELSE Block(h, h.repeat >= cfg.repeatTolerance, "quagmire_repeat")

RecordProgress(g, cfg, hasDelta) ==
  LET h == [g EXCEPT !.noProgress = IF hasDelta THEN 0 ELSE @ + 1]
  IN IF Stopped(g) THEN g
     ELSE Block(h, h.noProgress >= cfg.noProgressTolerance, "no_progress")

=============================================================================
