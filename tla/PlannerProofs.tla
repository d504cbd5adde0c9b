---------------------------- MODULE PlannerProofs ----------------------------
(***************************************************************************)
(* Proofs about the planner.  Its guard: the counters are what was         *)
(* repaired, so it stops the loop for the reason it gives and never lets it*)
(* run on.  Its dialogue: what the user has answered stands, whatever is   *)
(* asked next, and a plan is only built from a specification that leaves   *)
(* nothing open.                                                           *)
(***************************************************************************)
EXTENDS Planner, SequenceTheorems, FiniteSetTheorems, TLAPS

(* The guard as a record; what the last step was may be anything.          *)
Calls == {"validate", "repair"}
Shape(X) == [iterations : Nat, calls : [Calls -> Nat], last : X,
             repeat : Nat, noProgress : Nat, reason : Guard!Reasons \cup {"none"}]

LEMMA New ==
  /\ Guard!NewGuard \in Shape({<<>>})
  /\ Guard!NewGuard.iterations = 0 /\ Guard!NewGuard.calls["repair"] = 0
  /\ Guard!NewGuard.repeat = 0 /\ Guard!NewGuard.noProgress = 0
  /\ Guard!NewGuard.reason = "none"
  BY DEF Shape, Guard!NewGuard, Guard!Nowhere, Calls

(* What each call of the guard does to its counters.                       *)
LEMMA Tick ==
  ASSUME NEW X, NEW g \in Shape(X), NEW cfg \in Guard!Config, g.reason = "none",
         NEW h, h = Guard!TickIteration(g, cfg)
  PROVE  /\ h \in Shape(X)
         /\ h.iterations = g.iterations + 1
         /\ h.calls = g.calls /\ h.last = g.last /\ h.repeat = g.repeat
         /\ h.noProgress = g.noProgress
         /\ h.reason = IF h.iterations > cfg.maxIterations
                         THEN "iteration_budget_exhausted" ELSE "none"
  <1>. DEFINE k == [g EXCEPT !.iterations = g.iterations + 1]
  <1>1. /\ k \in Shape(X) /\ k.iterations = g.iterations + 1
        /\ k.calls = g.calls /\ k.last = g.last /\ k.repeat = g.repeat
        /\ k.noProgress = g.noProgress /\ k.reason = "none"
    BY DEF Shape
  <1>2. h = IF k.iterations > cfg.maxIterations
              THEN [k EXCEPT !.reason = "iteration_budget_exhausted"] ELSE k
    BY DEF Guard!TickIteration, Guard!Stopped, Guard!Block
  <1>. HIDE DEF k
  <1>. QED
    BY <1>1, <1>2 DEF Shape, Guard!Reasons

LEMMA CallCounted ==
  ASSUME NEW X, NEW g \in Shape(X), NEW cfg \in Guard!Config, g.reason = "none",
         NEW tool \in Calls, NEW h, h = Guard!CheckToolCap(g, cfg, tool)
  PROVE  /\ h \in Shape(X)
         /\ h.iterations = g.iterations /\ h.last = g.last /\ h.repeat = g.repeat
         /\ h.noProgress = g.noProgress
         /\ h.calls = [g.calls EXCEPT ![tool] = g.calls[tool] + 1]
         /\ h.reason = IF h.calls[tool] > cfg.maxCallsPerTool
                         THEN "tool_cap_exceeded" ELSE "none"
  <1>. DEFINE k == [g EXCEPT !.calls[tool] = g.calls[tool] + 1]
  <1>1. /\ k \in Shape(X) /\ k.calls = [g.calls EXCEPT ![tool] = g.calls[tool] + 1]
        /\ k.iterations = g.iterations /\ k.last = g.last /\ k.repeat = g.repeat
        /\ k.noProgress = g.noProgress /\ k.reason = "none"
    BY DEF Shape
  <1>2. h = IF k.calls[tool] > cfg.maxCallsPerTool
              THEN [k EXCEPT !.reason = "tool_cap_exceeded"] ELSE k
    BY DEF Guard!CheckToolCap, Guard!Stopped, Guard!Block
  <1>. HIDE DEF k
  <1>. QED
    BY <1>1, <1>2 DEF Shape, Guard!Reasons

LEMMA StepObserved ==
  ASSUME NEW X, NEW g \in Shape(X), NEW cfg \in Guard!Config, NEW step,
         NEW h, h = Guard!ObserveStep(g, cfg, step)
  PROVE  IF g.reason # "none" THEN h = g ELSE
         /\ h \in Shape(X \cup {step})
         /\ h.iterations = g.iterations /\ h.calls = g.calls /\ h.last = step
         /\ h.repeat = IF step = g.last THEN g.repeat + 1 ELSE 1
         /\ h.noProgress = g.noProgress
         /\ h.reason = IF h.repeat >= cfg.repeatTolerance THEN "quagmire_repeat" ELSE "none"
  <1>1. CASE g.reason # "none"
    BY <1>1 DEF Guard!ObserveStep, Guard!Stopped
  <1>2. CASE g.reason = "none"
    <2>. DEFINE r == IF step = g.last THEN g.repeat + 1 ELSE 1
                k == [g EXCEPT !.repeat = r, !.last = step]
    <2>0. g \in Shape(X \cup {step}) /\ r \in Nat
      BY DEF Shape
    <2>1. /\ k \in Shape(X \cup {step}) /\ k.repeat = r /\ k.last = step
          /\ k.iterations = g.iterations /\ k.calls = g.calls
          /\ k.noProgress = g.noProgress /\ k.reason = "none"
      <3>. HIDE DEF r
      <3>. QED
        BY <1>2, <2>0 DEF Shape
    <2>2. h = IF k.repeat >= cfg.repeatTolerance
                THEN [k EXCEPT !.reason = "quagmire_repeat"] ELSE k
      BY <1>2 DEF Guard!ObserveStep, Guard!Stopped, Guard!Block
    <2>. HIDE DEF k
    <2>. QED
      BY <1>2, <2>1, <2>2 DEF Shape, Guard!Reasons
  <1>. QED
    BY <1>1, <1>2

LEMMA ProgressRecorded ==
  ASSUME NEW X, NEW g \in Shape(X), NEW cfg \in Guard!Config, g.reason = "none",
         NEW new, NEW old, NEW h, h = Guard!RecordProgress(g, cfg, new # old)
  PROVE  /\ h \in Shape(X)
         /\ h.iterations = g.iterations /\ h.calls = g.calls /\ h.last = g.last
         /\ h.repeat = g.repeat
         /\ h.noProgress = IF new # old THEN 0 ELSE g.noProgress + 1
         /\ h.reason = IF h.noProgress >= cfg.noProgressTolerance THEN "no_progress" ELSE "none"
  <1>. DEFINE r == IF new # old THEN 0 ELSE g.noProgress + 1
              k == [g EXCEPT !.noProgress = r]
  <1>1. /\ k \in Shape(X) /\ k.noProgress = r /\ k.iterations = g.iterations
        /\ k.calls = g.calls /\ k.last = g.last /\ k.repeat = g.repeat /\ k.reason = "none"
    BY DEF Shape
  <1>2. h = IF k.noProgress >= cfg.noProgressTolerance
              THEN [k EXCEPT !.reason = "no_progress"] ELSE k
    BY DEF Guard!RecordProgress, Guard!Stopped, Guard!Block
  <1>. HIDE DEF k
  <1>. QED
    BY <1>1, <1>2 DEF Shape, Guard!Reasons

-----------------------------------------------------------------------------
(* The rows of equal specifications at the end of a sequence.              *)
RowOf(q, k, s) == k <= Len(q) /\ \A i \in (Len(q) - k + 1)..Len(q) : q[i] = s

LEMMA Longer ==
  ASSUME NEW Y, NEW q \in Seq(Y), NEW x
  PROVE  /\ Append(q, x) \in Seq(Y \cup {x})
         /\ Len(q) \in Nat /\ Len(Append(q, x)) = Len(q) + 1
         /\ Append(q, x)[Len(q) + 1] = x
         /\ \A i \in 1..Len(q) : Append(q, x)[i] = q[i]
  <1>1. q \in Seq(Y \cup {x})
    BY SeqDef, Seq(Y) \subseteq Seq(Y \cup {x})
  <1>. QED
    BY <1>1

LEMMA RowsGrow ==
  ASSUME NEW Y, NEW q \in Seq(Y), NEW x, NEW s, NEW k \in Nat
  PROVE  /\ RowOf(q, 0, s)
         /\ RowOf(Append(q, x), k + 1, s) <=> s = x /\ RowOf(q, k, s)
  <1>. DEFINE p == Append(q, x)
  <1>1. /\ Len(q) \in Nat /\ Len(p) = Len(q) + 1 /\ p[Len(q) + 1] = x
        /\ \A i \in 1..Len(q) : p[i] = q[i]
    BY Longer
  <1>. HIDE DEF p
  <1>2. RowOf(q, 0, s)
    BY <1>1 DEF RowOf
  <1>3. ASSUME RowOf(p, k + 1, s) PROVE s = x /\ RowOf(q, k, s)
    BY <1>1, <1>3 DEF RowOf
  <1>4. ASSUME s = x, RowOf(q, k, s) PROVE RowOf(p, k + 1, s)
    BY <1>1, <1>4 DEF RowOf
  <1>. QED
    BY <1>2, <1>3, <1>4 DEF p

LEMMA RowsEnd ==
  ASSUME NEW Y, NEW q \in Seq(Y), NEW s, NEW k \in Nat, RowOf(q, k, s)
  PROVE  /\ k > 0 => s = q[Len(q)] /\ Len(q) \in 1..Len(q)
         /\ \A j \in 0..k : RowOf(q, j, s)
  BY DEF RowOf

-----------------------------------------------------------------------------
(* Besides GuardInv the proof needs that the guard is a record and looked  *)
(* a sequence.                                                             *)
Shaped ==
  /\ \E X : guard \in Shape(X)
  /\ \E Y : looked \in Seq(Y)
  /\ config \in Guard!Config

LEMMA RowIs == ASSUME NEW k, NEW s PROVE Row(k, s) <=> RowOf(looked, k, s)
  BY DEF Row, RowOf

LEMMA InitGuard == Init => Shaped /\ GuardInv
  <1>. SUFFICES ASSUME Init PROVE Shaped /\ GuardInv
    OBVIOUS
  <1>1. config \in Guard!Config
    BY PlannerAssumption DEF Init, PlannerAssumption
  <1>2. guard \in Shape({<<>>}) /\ looked \in Seq({}) /\ looked = <<>> /\ Len(looked) = 0
    BY New DEF Init
  <1>3. config.maxCallsPerTool \in Nat
    BY <1>1 DEF Guard!Config
  <1>. QED
    BY <1>1, <1>2, <1>3 DEF Init, Shaped, GuardInv, Looping

(* A step that keeps away from the guard leaves the loop, or stays away.   *)
LEMMA AwayStep ==
  ASSUME Shaped, GuardInv, UNCHANGED <<config, guard, looked>>, pc # "done",
         pc' \in {"asked", "build", "done"} \/ (pc = "start" /\ pc' = "propose"),
         result' # "blocked", result' = "none" \/ pc' = "done"
  PROVE  Shaped' /\ GuardInv'
  BY DEF Shaped, GuardInv, Looping

LEMMA ProposeStep == ASSUME Shaped, GuardInv, Propose PROVE Shaped' /\ GuardInv'
  <1>1. /\ pc = "propose" /\ guard' = Guard!NewGuard /\ looked' = <<>> /\ config' = config
        /\ \/ pc' = "validate" /\ result' = result
           \/ pc' = "done" /\ result' = "error"
    BY DEF Propose, Finish, Go, setting
  <1>2. guard' \in Shape({<<>>}) /\ looked' \in Seq({}) /\ Len(looked') = 0
    BY <1>1, New
  <1>3. Shaped'
    BY <1>1, <1>2 DEF Shaped
  <1>4. /\ config.maxCallsPerTool \in Nat /\ config.maxIterations \in Nat
        /\ config.repeatTolerance \in Nat \ {0} /\ config.noProgressTolerance \in Nat \ {0}
    BY DEF Shaped, Guard!Config
  <1>5. /\ guard'.reason = "none" /\ guard'.iterations = 0 /\ guard'.calls["repair"] = 0
        /\ guard'.calls["validate"] = 0 /\ guard'.repeat = 0 /\ guard'.noProgress = 0
    BY <1>1 DEF Guard!NewGuard
  <1>6. pc' = "validate" => CountInv' /\ RowInv'
    BY <1>1, <1>2, <1>4, <1>5 DEF CountInv, RowInv, Row
  <1>. QED
    BY <1>1, <1>2, <1>3, <1>4, <1>6 DEF GuardInv, Looping

LEMMA ValidateStep == ASSUME Shaped, GuardInv, Validate PROVE Shaped' /\ GuardInv'
  <1>1. /\ pc = "validate" /\ CountInv /\ RowInv /\ result = "none"
        /\ UNCHANGED <<config, spec, looked>>
        /\ guard' = Guard!CheckToolCap(guard, config, "validate")
        /\ IF guard'.reason # "none" THEN pc' = "done" /\ result' = "blocked"
           ELSE pc' \in {"assess", "repair"} /\ result' = result
    BY DEF Validate, GuardInv, Looping, Finish, Go, setting, Guard!Stopped
  <1>2. PICK X : guard \in Shape(X)
    BY DEF Shaped
  <1>3. PICK Y : looked \in Seq(Y)
    BY DEF Shaped
  <1>4. /\ guard' \in Shape(X)
        /\ guard'.iterations = guard.iterations /\ guard'.last = guard.last
        /\ guard'.repeat = guard.repeat /\ guard'.noProgress = guard.noProgress
        /\ guard'.calls = [guard.calls EXCEPT !["validate"] = guard.calls["validate"] + 1]
        /\ guard'.reason = IF guard'.calls["validate"] > config.maxCallsPerTool
                             THEN "tool_cap_exceeded" ELSE "none"
    <2>1. config \in Guard!Config /\ guard.reason = "none" /\ "validate" \in Calls
      BY <1>1 DEF Shaped, CountInv, Calls
    <2>. QED
      BY <1>1, <1>2, <2>1, CallCounted
  <1>5. Shaped'
    BY <1>1, <1>3, <1>4 DEF Shaped
  <1>6. /\ Len(looked) \in Nat /\ config.maxCallsPerTool \in Nat
        /\ guard'.calls["repair"] = Len(looked) /\ guard'.calls["validate"] = Len(looked) + 1
    BY <1>1, <1>2, <1>3, <1>4 DEF CountInv, Shape, Calls, Shaped, Guard!Config
  <1>7. CASE guard'.reason # "none"
    <2>1. guard'.reason = "tool_cap_exceeded" /\ Len(looked') >= config'.maxCallsPerTool
      BY <1>1, <1>4, <1>6, <1>7
    <2>2. Overrun'["tool_cap_exceeded"]
      BY <2>1 DEF Overrun
    <2>. QED
      BY <1>1, <1>5, <1>7, <2>1, <2>2 DEF GuardInv, Looping
  <1>8. CASE guard'.reason = "none"
    <2>1. CountInv'
      BY <1>1, <1>4, <1>6, <1>8 DEF CountInv
    <2>2. RowInv'
      BY <1>1, <1>4 DEF RowInv, Row
    <2>. QED
      BY <1>1, <1>5, <1>8, <2>1, <2>2 DEF GuardInv, Looping
  <1>. QED
    BY <1>7, <1>8

(* A turn of the loop: each call of the guard is about the turn that is    *)
(* now made, and the one that stops the loop is the reason.                *)
LEMMA RepairStep == ASSUME Shaped, GuardInv, Repair PROVE Shaped' /\ GuardInv'
  <1>. DEFINE t == Guard!TickIteration(guard, config)
              o == Guard!ObserveStep(t, config, spec)
              c == Guard!CheckToolCap(o, config, "repair")
              n == Len(looked)
  <1>1. /\ pc = "repair" /\ CountInv /\ RowInv /\ result = "none"
        /\ config' = config /\ looked' = Append(looked, spec)
    BY DEF Repair, GuardInv, Looping, setting
  <1>2. \/ c.reason # "none" /\ guard' = c /\ pc' = "done" /\ result' = "blocked" /\ spec' = spec
        \/ c.reason = "none" /\ guard' = c /\ pc' = "done" /\ result' = "unrepaired"
        \/ /\ c.reason = "none" /\ guard' = Guard!RecordProgress(c, config, spec' # spec)
           /\ IF guard'.reason # "none" THEN pc' = "done" /\ result' = "blocked"
              ELSE pc' = "validate" /\ result' = result
    BY DEF Repair, Finish, Go, Guard!Stopped
  <1>3. PICK X : guard \in Shape(X)
    BY DEF Shaped
  <1>4. PICK Y : looked \in Seq(Y)
    BY DEF Shaped
  <1>5. /\ config \in Guard!Config
        /\ config.maxCallsPerTool \in Nat /\ config.maxIterations \in Nat
        /\ config.repeatTolerance \in Nat \ {0} /\ config.noProgressTolerance \in Nat \ {0}
    BY DEF Shaped, Guard!Config
  <1>6. /\ n \in Nat /\ Len(looked') = n + 1 /\ looked'[n + 1] = spec
        /\ looked' \in Seq(Y \cup {spec})
        /\ guard.repeat \in Nat /\ guard.noProgress \in Nat
    BY <1>1, <1>3, <1>4, Longer DEF Shape
  <1>7. \A k \in Nat : \A s : RowOf(looked', k + 1, s) <=> s = spec /\ RowOf(looked, k, s)
    BY <1>1, <1>4, RowsGrow
  <1>8. \A s : RowOf(looked', 0, s) /\ RowOf(looked, 0, s)
    BY <1>6 DEF RowOf, n
  <1>9. /\ t \in Shape(X) /\ t.iterations = n + 1 /\ t.calls = guard.calls
        /\ t.last = guard.last /\ t.repeat = guard.repeat /\ t.noProgress = guard.noProgress
        /\ t.reason = IF n + 1 > config.maxIterations
                        THEN "iteration_budget_exhausted" ELSE "none"
    BY <1>1, <1>3, <1>5, Tick DEF CountInv
  <1>10. n + 1 <= config.maxCallsPerTool
    BY <1>1 DEF CountInv
  <1>. HIDE DEF n, t
  <1>11. CASE t.reason # "none"
    <2>1. o = t
      BY <1>11 DEF Guard!ObserveStep, Guard!Stopped
    <2>2. c = t
      BY <1>11, <2>1 DEF Guard!CheckToolCap, Guard!Stopped
    <2>3. guard' = t /\ pc' = "done" /\ result' = "blocked"
      BY <1>2, <1>11, <2>2
    <2>4. guard'.reason = "iteration_budget_exhausted"
          /\ Overrun'["iteration_budget_exhausted"]
      BY <1>1, <1>6, <1>9, <1>11, <2>3 DEF Overrun
    <2>. QED
      BY <1>1, <1>5, <1>6, <1>9, <1>10, <2>3, <2>4 DEF Shaped, GuardInv, Looping
  <1>12. CASE t.reason = "none"
    <2>. DEFINE r == IF spec = guard.last THEN guard.repeat + 1 ELSE 1
    <2>1. /\ o \in Shape(X \cup {spec}) /\ o.iterations = n + 1 /\ o.calls = guard.calls
          /\ o.last = spec /\ o.repeat = r /\ o.noProgress = guard.noProgress
          /\ o.reason = IF r >= config.repeatTolerance THEN "quagmire_repeat" ELSE "none"
      BY <1>5, <1>9, <1>12, StepObserved
    <2>2. r \in Nat /\ r > 0
      BY <1>6
    <2>3. RowOf(looked', r, spec)
      <3>1. RowOf(looked, guard.repeat, guard.last)
        BY <1>1, RowIs DEF RowInv
      <3>2. CASE spec = guard.last
        BY <1>6, <1>7, <3>1, <3>2
      <3>3. CASE spec # guard.last
        <4>1. RowOf(looked', 0 + 1, spec)
          BY <1>7, <1>8
        <4>. QED
          BY <3>3, <4>1
      <3>. QED
        BY <3>2, <3>3
    <2>4. \A k \in 1..(n + 1) : RowOf(looked', k, spec) => k <= r
      <3>. SUFFICES ASSUME NEW k \in 1..(n + 1), RowOf(looked', k, spec) PROVE k <= r
        OBVIOUS
      <3>0. k - 1 \in Nat /\ (k - 1) + 1 = k
        BY <1>6
      <3>1. RowOf(looked, k - 1, spec)
        BY <1>7, <3>0
      <3>2. CASE k = 1
        BY <2>2, <3>2
      <3>3. CASE k > 1
        <4>1. spec = looked[n] /\ n \in 1..n
          BY <1>4, <3>0, <3>1, <3>3, RowsEnd DEF n
        <4>0. k - 1 \in 1..n
          BY <1>6, <3>0, <3>3
        <4>2. looked # <<>>
          BY <1>4, <4>1 DEF n
        <4>3. guard.last = spec /\ k - 1 <= guard.repeat
          BY <1>1, <3>1, <4>0, <4>1, <4>2, RowIs DEF RowInv, n
        <4>. QED
          BY <1>6, <3>0, <4>3
      <3>. QED
        BY <1>6, <3>2, <3>3
    <2>. HIDE DEF r, o
    <2>5. CASE o.reason # "none"
      <3>1. c = o
        BY <2>5 DEF Guard!CheckToolCap, Guard!Stopped
      <3>2. guard' = o /\ pc' = "done" /\ result' = "blocked"
        BY <1>2, <2>5, <3>1
      <3>3. guard'.reason = "quagmire_repeat" /\ RowOf(looked', config.repeatTolerance, spec)
        <4>1. o.reason = "quagmire_repeat" /\ r >= config.repeatTolerance
          BY <2>1, <2>5
        <4>2. \A j \in 0..r : RowOf(looked', j, spec)
          BY <1>6, <2>2, <2>3, RowsEnd
        <4>. QED
          BY <1>1, <1>5, <2>2, <3>2, <4>1, <4>2
      <3>4. spec \in Elements(looked')
        BY <1>6 DEF Elements
      <3>5. Overrun'["quagmire_repeat"]
        BY <1>1, <3>3, <3>4 DEF Overrun, Row, RowOf
      <3>. QED
        BY <1>1, <1>5, <1>6, <1>10, <2>1, <3>2, <3>3, <3>5 DEF Shaped, GuardInv, Looping
    <2>6. CASE o.reason = "none"
      <3>1. /\ c \in Shape(X \cup {spec}) /\ c.iterations = n + 1 /\ c.last = spec
            /\ c.repeat = r /\ c.noProgress = guard.noProgress
            /\ c.calls = [guard.calls EXCEPT !["repair"] = guard.calls["repair"] + 1]
            /\ c.reason = IF c.calls["repair"] > config.maxCallsPerTool
                            THEN "tool_cap_exceeded" ELSE "none"
        <4>1. "repair" \in Calls
          BY DEF Calls
        <4>. QED
          BY <1>5, <2>1, <2>6, <4>1, CallCounted
      <3>2. c.calls["repair"] = n + 1 /\ c.calls["validate"] = n + 1
        BY <1>1, <1>3, <1>6, <3>1 DEF CountInv, Shape, Calls, n
      <3>3. c.reason = "none"
        BY <1>5, <1>6, <1>10, <3>1, <3>2
      <3>. HIDE DEF c
      <3>4. CASE pc' = "done" /\ guard' = c /\ result' = "unrepaired"
        BY <1>1, <1>5, <1>6, <1>10, <3>1, <3>4 DEF Shaped, GuardInv, Looping
      <3>5. CASE /\ guard' = Guard!RecordProgress(c, config, spec' # spec)
                 /\ IF guard'.reason # "none" THEN pc' = "done" /\ result' = "blocked"
                    ELSE pc' = "validate" /\ result' = result
        <4>. DEFINE m == IF spec' # spec THEN 0 ELSE guard.noProgress + 1
        <4>1. /\ guard' \in Shape(X \cup {spec}) /\ guard'.iterations = n + 1
              /\ guard'.calls = c.calls /\ guard'.last = spec /\ guard'.repeat = r
              /\ guard'.noProgress = m
              /\ guard'.reason = IF m >= config.noProgressTolerance
                                   THEN "no_progress" ELSE "none"
          <5>1. /\ c \in Shape(X \cup {spec}) /\ config \in Guard!Config /\ c.reason = "none"
                /\ guard' = Guard!RecordProgress(c, config, spec' # spec)
            BY <1>5, <3>1, <3>3, <3>5
          <5>2. /\ guard' \in Shape(X \cup {spec}) /\ guard'.iterations = c.iterations
                /\ guard'.calls = c.calls /\ guard'.last = c.last
                /\ guard'.repeat = c.repeat
                /\ guard'.noProgress = IF spec' # spec THEN 0 ELSE c.noProgress + 1
                /\ guard'.reason = IF guard'.noProgress >= config.noProgressTolerance
                                     THEN "no_progress" ELSE "none"
            BY <5>1, ProgressRecorded, SMTT(60)
          <5>. QED
            BY <3>1, <5>2
        <4>2. m \in Nat /\ RowOf(looked', m, spec')
          <5>1. RowOf(looked, guard.noProgress, spec)
            BY <1>1, RowIs DEF RowInv
          <5>. QED
            BY <1>6, <1>7, <1>8, <5>1
        <4>3. \A k \in 1..(n + 1) : RowOf(looked', k, spec') => k <= m
          <5>. SUFFICES ASSUME NEW k \in 1..(n + 1), RowOf(looked', k, spec') PROVE k <= m
            OBVIOUS
          <5>1. k - 1 \in Nat /\ (k - 1) + 1 = k
            BY <1>6
          <5>2. spec' = spec /\ RowOf(looked, k - 1, spec)
            BY <1>7, <5>1
          <5>3. k = 1 \/ k - 1 \in 1..n
            BY <1>6, <5>1
          <5>4. k = 1 \/ k - 1 <= guard.noProgress
            BY <1>1, <5>2, <5>3, RowIs DEF RowInv, n
          <5>. QED
            BY <1>6, <5>1, <5>2, <5>4
        <4>. HIDE DEF m
        <4>4. Shaped' /\ (result' = "none" \/ pc' = "done")
          BY <1>1, <1>5, <1>6, <3>5, <4>1 DEF Shaped
        <4>5. CASE guard'.reason = "none"
          <5>1. CountInv'
            BY <1>1, <1>5, <1>6, <1>9, <1>10, <1>12, <3>2, <3>5, <4>1, <4>5 DEF CountInv
          <5>2. looked' # <<>> /\ guard'.last = looked'[Len(looked')]
            BY <1>6, <4>1
          <5>3. /\ RowOf(looked', guard'.repeat, guard'.last)
                /\ RowOf(looked', guard'.noProgress, spec')
                /\ guard'.repeat < config'.repeatTolerance
                /\ guard'.noProgress < config'.noProgressTolerance
            BY <1>1, <1>5, <2>1, <2>2, <2>3, <2>6, <4>1, <4>2, <4>5
          <5>4. /\ \A k \in 1..Len(looked') :
                     RowOf(looked', k, looked'[Len(looked')]) => k <= guard'.repeat
                /\ \A k \in 1..Len(looked') : RowOf(looked', k, spec') => k <= guard'.noProgress
            BY <1>6, <2>4, <4>1, <4>3
          <5>5. RowInv'
            BY <5>2, <5>3, <5>4 DEF RowInv, Row, RowOf
          <5>. QED
            BY <1>1, <1>6, <1>10, <3>5, <4>4, <4>5, <5>1, <5>5 DEF GuardInv, Looping
        <4>6. CASE guard'.reason # "none"
          <5>1. guard'.reason = "no_progress" /\ m >= config.noProgressTolerance
            BY <4>1, <4>6
          <5>2. RowOf(looked', config.noProgressTolerance, spec')
            BY <1>5, <1>6, <4>2, <5>1, RowsEnd
          <5>3. Overrun'["no_progress"]
            BY <1>1, <5>2 DEF Overrun, Row, RowOf
          <5>. QED
            BY <1>1, <1>6, <1>10, <3>5, <4>4, <4>6, <5>1, <5>3 DEF GuardInv, Looping
        <4>. QED
          BY <4>5, <4>6
      <3>. QED
        BY <1>2, <3>3, <3>4, <3>5 DEF c
    <2>. QED
      BY <2>5, <2>6
  <1>. QED
    BY <1>9, <1>11, <1>12

(* Questions, answers and the plan leave the guard as the loop left it.    *)
LEMMA DialogueStep ==
  ASSUME Shaped, GuardInv,
         \/ Start \/ Assess \/ BuildPlan \/ AnswerImage \/ Answer \/ Other \/ Nonsense
  PROVE  Shaped' /\ GuardInv'
  <1>1. pc # "done" /\ UNCHANGED <<config, guard, looked>>
    BY DEF Start, Assess, BuildPlan, AnswerImage, Answer, Other, Nonsense, setting
  <1>2. result = "none"
    BY <1>1 DEF GuardInv
  <1>3. ASSUME NEW d, NEW s, Continue(d, s)
        PROVE  pc' \in {"asked", "build", "done"} /\ result' # "blocked"
               /\ (result' = "none" \/ pc' = "done")
    BY <1>2, <1>3 DEF Continue, AskAboutImage, Submit, AskOrBuild, Go, Finish
  <1>4. /\ pc' \in {"asked", "build", "done"} \/ (pc = "start" /\ pc' = "propose")
        /\ result' # "blocked" /\ (result' = "none" \/ pc' = "done")
    <2>1. CASE Start
      BY <1>2, <2>1 DEF Start, AskAboutImage, Go
    <2>2. CASE Assess \/ BuildPlan \/ Nonsense
      BY <1>2, <2>2 DEF Assess, BuildPlan, Nonsense, AskOrBuild, Go, Finish
    <2>3. CASE AnswerImage
      BY <1>3, <2>3 DEF AnswerImage, Finish
    <2>4. CASE Answer \/ Other
      BY <1>3, <2>4 DEF Answer, Other, Accepted
    <2>. QED
      BY <2>1, <2>2, <2>3, <2>4
  <1>. QED
    BY <1>1, <1>4, AwayStep

-----------------------------------------------------------------------------
(* A set of numbers has a least one; bounded, it has a greatest one.       *)
LEMMA Least ==
  ASSUME NEW T, T \subseteq Nat, T # {}
  PROVE  \E m \in T : \A k \in T : m <= k
  <1>. DEFINE U == {1..k : k \in T}
  <1>1. U # {} /\ U \subseteq FiniteSubsetsOf(Nat)
    <2>1. \A k \in T : 1..k \subseteq Nat /\ IsFiniteSet(1..k)
      BY FS_Interval
    <2>. QED
      BY <2>1 DEF FiniteSubsetsOf
  <1>2. PICK x \in U : \A y \in U : <<y, x>> \notin StrictSubsetOrdering(Nat)
    <2>. HIDE DEF U
    <2>. QED
      BY <1>1, FS_StrictSubsetOrderingWellFounded, WFMin
  <1>3. PICK m \in T : x = 1..m
    OBVIOUS
  <1>4. ASSUME NEW k \in T, k < m PROVE FALSE
    <2>1. 1..k \in SUBSET Nat /\ 1..m \in SUBSET Nat /\ 1..k \subseteq 1..m /\ m \in 1..m /\ m \notin 1..k
      BY <1>4
    <2>2. <<1..k, 1..m>> \in StrictSubsetOrdering(Nat)
      BY <2>1 DEF StrictSubsetOrdering
    <2>. QED
      BY <1>2, <1>3, <2>2
  <1>. QED
    BY <1>4

LEMMA Greatest ==
  ASSUME NEW T, T \subseteq Nat, T # {}, NEW b \in Nat, \A k \in T : k <= b
  PROVE  \E m \in T : \A k \in T : k <= m
  <1>. DEFINE U == {j \in Nat : b - j \in T}
  <1>1. U # {}
    <2>1. PICK k : k \in T
      OBVIOUS
    <2>2. b - k \in Nat /\ b - (b - k) = k
      BY <2>1
    <2>. QED
      BY <2>1, <2>2
  <1>2. PICK j \in U : \A i \in U : j <= i
    <2>1. U \subseteq Nat
      OBVIOUS
    <2>. HIDE DEF U
    <2>. QED
      BY <1>1, <2>1, Least
  <1>3. ASSUME NEW k \in T PROVE k <= b - j
    <2>1. b - k \in Nat /\ b - (b - k) = k
      OBVIOUS
    <2>2. b - k \in U
      BY <2>1
    <2>. QED
      BY <1>2, <2>1, <2>2
  <1>. QED
    BY <1>2, <1>3

-----------------------------------------------------------------------------
(* What recursion along a sequence computes: G[i, x] is the result after   *)
(* step i of x before it.                                                  *)
Courses(k, D, d, G) ==
  {g \in [0..k -> D] : g[0] = d /\ \A i \in 1..k : g[i] = G[<<i, g[i - 1]>>]}

LEMMA CourseGrows ==
  ASSUME NEW D, NEW d \in D, NEW n \in Nat, NEW G \in [(1..n) \X D -> D],
         NEW k \in 1..n, NEW g \in Courses(k - 1, D, d, G)
  PROVE  [i \in 0..k |-> IF i = k THEN G[<<k, g[k - 1]>>] ELSE g[i]] \in Courses(k, D, d, G)
  <1>. DEFINE h == [i \in 0..k |-> IF i = k THEN G[<<k, g[k - 1]>>] ELSE g[i]]
  <1>1. /\ g \in [0..(k - 1) -> D] /\ g[0] = d
        /\ \A i \in 1..(k - 1) : g[i] = G[<<i, g[i - 1]>>]
    BY DEF Courses
  <1>2. /\ k - 1 \in 0..(k - 1) /\ 0 \in 0..(k - 1) /\ 0..k = (0..(k - 1)) \cup {k} /\ 0 # k
        /\ 1..k = (1..(k - 1)) \cup {k} /\ k \notin 0..(k - 1)
        /\ \A i \in 1..(k - 1) : i \in 0..(k - 1) /\ i - 1 \in 0..(k - 1)
    OBVIOUS
  <1>3. G[<<k, g[k - 1]>>] \in D
    BY <1>1, <1>2
  <1>4. h \in [0..k -> D] /\ h[0] = d
    BY <1>1, <1>2, <1>3
  <1>5. ASSUME NEW i \in 1..k PROVE h[i] = G[<<i, h[i - 1]>>]
    <2>1. CASE i = k
      BY <1>2, <2>1
    <2>2. CASE i # k
      BY <1>1, <1>2, <2>2
    <2>. QED
      BY <2>1, <2>2
  <1>. QED
    BY <1>4, <1>5 DEF Courses

LEMMA CourseExists ==
  ASSUME NEW D, NEW d \in D, NEW n \in Nat, NEW G \in [(1..n) \X D -> D]
  PROVE  Courses(n, D, d, G) # {}
  <1>. DEFINE Bad == {k \in 0..n : Courses(k, D, d, G) = {}}
  <1>1. ASSUME Bad # {} PROVE FALSE
    <2>1. Bad \subseteq Nat
      OBVIOUS
    <2>2. PICK k \in Bad : \A j \in Bad : k <= j
      <3>. HIDE DEF Bad
      <3>. QED
        BY <1>1, <2>1, Least
    <2>3. k # 0
      <3>1. [i \in 0..0 |-> d] \in Courses(0, D, d, G)
        BY DEF Courses
      <3>. QED
        BY <3>1
    <2>4. k \in 1..n /\ k - 1 \in 0..n /\ ~(k <= k - 1)
      BY <2>3
    <2>5. PICK g : g \in Courses(k - 1, D, d, G)
      BY <2>2, <2>4
    <2>. QED
      BY <2>4, <2>5, CourseGrows
  <1>. QED
    BY <1>1

(* What holds at first and is kept by each step holds of the result.       *)
LEMMA AtTheEnd ==
  ASSUME NEW n \in Nat, NEW P, 0 \in P, \A i \in 1..n : i - 1 \in P => i \in P
  PROVE  n \in P
  <1>. DEFINE Bad == {k \in 0..n : k \notin P}
  <1>1. ASSUME Bad # {} PROVE FALSE
    <2>1. Bad \subseteq Nat
      OBVIOUS
    <2>2. PICK k \in Bad : \A j \in Bad : k <= j
      <3>. HIDE DEF Bad
      <3>. QED
        BY <1>1, <2>1, Least
    <2>3. k # 0 /\ k \in 0..n /\ k \notin P
      OBVIOUS
    <2>4. k \in 1..n /\ k - 1 \in 0..n /\ ~(k <= k - 1)
      BY <2>3
    <2>5. k - 1 \in P
      BY <2>2, <2>4
    <2>. QED
      BY <2>3, <2>4, <2>5
  <1>. QED
    BY <1>1

LEMMA Joining ==
  ASSUME NEW S, NEW s \in Seq(S), NEW t \in Seq(S)
  PROVE  s \o t \in Seq(S) /\ Elements(s) \subseteq Elements(s \o t) /\ Elements(t) \subseteq Elements(s \o t)
  <1>1. /\ s \o t \in Seq(S) /\ Len(s \o t) = Len(s) + Len(t)
        /\ DOMAIN s = 1..Len(s) /\ DOMAIN t = 1..Len(t)
    BY ConcatProperties
  <1>2. ASSUME NEW i \in 1..Len(s) PROVE s[i] \in Elements(s \o t)
    <2>1. i \in DOMAIN (s \o t) /\ (s \o t)[i] = s[i]
      BY <1>1, ConcatProperties
    <2>. QED
      BY <2>1 DEF Elements
  <1>3. ASSUME NEW i \in 1..Len(t) PROVE t[i] \in Elements(s \o t)
    <2>1. /\ Len(s) + i \in DOMAIN (s \o t) /\ (Len(s) + i) - Len(s) = i
          /\ (s \o t)[Len(s) + i] = t[(Len(s) + i) - Len(s)]
      BY <1>1, ConcatProperties
    <2>. QED
      BY <2>1 DEF Elements
  <1>. QED
    BY <1>1, <1>2, <1>3 DEF Elements

(* The sequences of a sequence one after the other: its type, and that     *)
(* each of their elements is in it.                                        *)
LEMMA Flattened ==
  ASSUME NEW S, NEW seqs \in Seq(Seq(S))
  PROVE  /\ SeqX!FlattenSeq(seqs) \in Seq(S)
         /\ \A i \in DOMAIN seqs : Elements(seqs[i]) \subseteq Elements(SeqX!FlattenSeq(seqs))
  <1>0. PICK n \in Nat : n = Len(seqs) /\ DOMAIN seqs = 1..n /\ \A i \in 1..n : seqs[i] \in Seq(S)
    OBVIOUS
  <1>. DEFINE Def(f) == [i \in 1..n |-> IF i = 1 THEN seqs[i] ELSE f[i - 1] \o seqs[i]]
              flatten == CHOOSE f : f = Def(f)
              G == [p \in (1..n) \X Seq(S) |-> IF p[1] = 1 THEN seqs[1] ELSE p[2] \o seqs[p[1]]]
  <1>1. CASE n = 0
    <2>1. SeqX!FlattenSeq(seqs) = <<>> /\ DOMAIN seqs = {}
      <3>1. seqs = <<>>
        BY <1>0, <1>1
      <3>. QED
        BY <1>0, <1>1, <3>1 DEF SeqX!FlattenSeq
    <2>. QED
      BY <2>1, EmptySeq
  <1>2. CASE n # 0
    <2>1. G \in [(1..n) \X Seq(S) -> Seq(S)]
      BY <1>0, <1>2, ConcatProperties
    <2>2. PICK g \in [0..n -> Seq(S)] : g[0] = <<>> /\ \A i \in 1..n : g[i] = G[<<i, g[i - 1]>>]
      <3>. DEFINE D == Seq(S)
      <3>1. <<>> \in D
        BY EmptySeq
      <3>2. G \in [(1..n) \X D -> D]
        BY <2>1
      <3>. HIDE DEF G, D
      <3>3. PICK g : g \in Courses(n, D, <<>>, G)
        BY <3>1, <3>2, CourseExists
      <3>. QED
        BY <3>3 DEF D, Courses
    <2>3. \A i \in 1..n : i - 1 \in 0..n /\ g[i - 1] \in Seq(S)
      OBVIOUS
    <2>4. \A i \in 1..n : g[i] = IF i = 1 THEN seqs[i] ELSE g[i - 1] \o seqs[i]
      BY <2>2, <2>3
    <2>. HIDE DEF G
    <2>5. \E f : f = Def(f)
      <3>. DEFINE h == [i \in 1..n |-> g[i]]
      <3>1. \A i \in 1..n : i # 1 => i - 1 \in 1..n
        OBVIOUS
      <3>2. h = Def(h)
        BY <2>4, <3>1
      <3>. QED
        BY <3>2
    <2>6. flatten = Def(flatten)
      <3>. HIDE DEF Def
      <3>. QED
        BY <2>5
    <2>7. SeqX!FlattenSeq(seqs) = flatten[n]
      BY <1>0, <1>2 DEF SeqX!FlattenSeq
    <2>. HIDE DEF flatten
    <2>8. \A i \in 1..n : flatten[i] = IF i = 1 THEN seqs[i] ELSE flatten[i - 1] \o seqs[i]
      BY <2>6
    <2>. DEFINE P == {i \in 0..n : i = 0 \/ (/\ flatten[i] \in Seq(S)
                                            /\ \A j \in 1..i : Elements(seqs[j]) \subseteq Elements(flatten[i]))}
    <2>9. ASSUME NEW i \in 1..n, i - 1 \in P PROVE i \in P
      <3>1. CASE i = 1
        <4>1. flatten[i] = seqs[i] /\ \A j \in 1..i : j = i
          <5>. HIDE DEF P, Def
          <5>. QED
            BY <2>8, <3>1
        <4>2. flatten[i] \in Seq(S) /\ \A j \in 1..i : Elements(seqs[j]) \subseteq Elements(flatten[i])
          <5>. HIDE DEF P, Def
          <5>. QED
            BY <1>0, <4>1
        <4>. QED
          BY <4>2
      <3>2. CASE i # 1
        <4>0. i - 1 \in 1..n
          BY <3>2
        <4>1. flatten[i] = flatten[i - 1] \o seqs[i] /\ seqs[i] \in Seq(S)
          <5>. HIDE DEF P, Def
          <5>. QED
            BY <1>0, <2>8, <3>2
        <4>2. /\ flatten[i - 1] \in Seq(S)
              /\ \A j \in 1..(i - 1) : Elements(seqs[j]) \subseteq Elements(flatten[i - 1])
          BY <2>9, <4>0
        <4>3. /\ flatten[i] \in Seq(S)
              /\ Elements(flatten[i - 1]) \subseteq Elements(flatten[i])
              /\ Elements(seqs[i]) \subseteq Elements(flatten[i])
          <5>. HIDE DEF P, Def
          <5>. QED
          BY <4>1, <4>2, Joining
        <4>4. \A j \in 1..i : j \in 1..(i - 1) \/ j = i
          OBVIOUS
        <4>. QED
          BY <4>2, <4>3, <4>4
      <3>. QED
        BY <3>1, <3>2
    <2>10. n \in P
      <3>1. 0 \in P
        OBVIOUS
      <3>. HIDE DEF P
      <3>. QED
        BY <2>9, <3>1, AtTheEnd
    <2>. QED
      BY <1>0, <1>2, <2>7, <2>10
  <1>. QED
    BY <1>1, <1>2

-----------------------------------------------------------------------------
LEMMA FirstOf ==
  ASSUME NEW n \in Nat, NEW T, T \subseteq 1..n, T # {}
  PROVE  \E i \in T : \A j \in 1..(i - 1) : j \notin T
  <1>0. T \subseteq Nat
    OBVIOUS
  <1>1. PICK m \in T : \A k \in T : m <= k
    BY <1>0, Least
  <1>2. \A j \in 1..(m - 1) : ~(m <= j)
    BY <1>1
  <1>. QED
    BY <1>1, <1>2

LEMMA Bounds ==
  /\ MaxReplicas \in Nat \ {0} /\ Written \subseteq Bases /\ "none" \notin Written
  /\ "odd" \in Written /\ "odd" \notin Images /\ Images \subseteq Written
  /\ "api" \in Bases /\ "web" \in Bases
  /\ \A b \in Bases : Plain(b) \in Names
  /\ \A i \in Images : KindOf[i] \in Kinds
  BY DraftAssumption DEF DraftAssumption, Written, Plain, Names


(* The services that are deployed: they have an image, and once named, a   *)
(* name.                                                                   *)
Pictured == {s \in DraftService : s.image \in Written}
WithName == {s \in Pictured : s.name \in Names}

LEMMA NamedType ==
  ASSUME NEW s \in Pictured, NEW services
  PROVE  NamedService(s, services) \in WithName /\ NamedService(s, services).image = s.image
  <1>. DEFINE beside == HasKind(services, {"proxy", "database"})
              name == DefaultName(s.image, beside)
              auto == s.name = NoName \/ (s.image = "node" /\ s.name = Plain("node") /\ beside)
  <1>1. name \in Names
    BY Bounds DEF DefaultName, Pictured
  <1>2. NamedService(s, services) = [s EXCEPT !.name = IF auto THEN name ELSE s.name]
    BY DEF NamedService
  <1>3. s \in DraftService /\ s.image \in Written
    BY DEF Pictured
  <1>4. s.name # NoName => s.name \in Names
    BY <1>3 DEF DraftService
  <1>5. (IF auto THEN name ELSE s.name) \in Names
    BY <1>1, <1>4
  <1>. HIDE DEF name, auto
  <1>. QED
    BY <1>2, <1>3, <1>5 DEF WithName, Pictured, DraftService

LEMMA Deployed ==
  ASSUME NEW given \in Seq(DraftService)
  PROVE  /\ Deployable(given) \in Seq(Pictured)
         /\ \A i \in DOMAIN given : given[i].image # "none" => given[i] \in Elements(Deployable(given))
  <1>. DEFINE seqs == [i \in 1..Len(given) |-> IF given[i].image = "none" THEN <<>> ELSE <<given[i]>>]
  <1>1. ASSUME NEW i \in 1..Len(given) PROVE seqs[i] \in Seq(Pictured)
    <2>1. given[i] \in DraftService
      OBVIOUS
    <2>2. given[i].image # "none" => given[i] \in Pictured
      BY <2>1 DEF Pictured, DraftService
    <2>. QED
      BY <2>2
  <1>2. Len(given) \in Nat /\ DOMAIN given = 1..Len(given)
    OBVIOUS
  <1>3. seqs \in Seq(Seq(Pictured)) /\ DOMAIN seqs = 1..Len(given)
    BY <1>1, <1>2
  <1>4. \A i \in DOMAIN given : given[i].image # "none" => given[i] \in Elements(seqs[i])
    BY <1>2 DEF Elements
  <1>. HIDE DEF seqs
  <1>5. /\ SeqX!FlattenSeq(seqs) \in Seq(Pictured)
        /\ \A i \in DOMAIN seqs : Elements(seqs[i]) \subseteq Elements(SeqX!FlattenSeq(seqs))
    BY <1>3, Flattened
  <1>. QED
    BY <1>2, <1>3, <1>4, <1>5 DEF Deployable, seqs

LEMMA AllNamedType ==
  ASSUME NEW services \in Seq(Pictured)
  PROVE  /\ AllNamed(services) \in Seq(WithName) /\ DOMAIN AllNamed(services) = DOMAIN services
         /\ \A i \in DOMAIN services : AllNamed(services)[i].image = services[i].image
  <1>1. \A i \in 1..Len(services) : services[i] \in Pictured
    OBVIOUS
  <1>2. \A i \in 1..Len(services) : /\ NamedService(services[i], services) \in WithName
                                   /\ NamedService(services[i], services).image = services[i].image
    BY <1>1, NamedType
  <1>. QED
    BY <1>2 DEF AllNamed

(* The last service with a name, which the others depend on.               *)
LEMMA NamedIs ==
  ASSUME NEW services \in Seq(WithName), NEW n \in NamesOf(services)
  PROVE  Named(n, services) \in WithName /\ Named(n, services).name = n
  <1>. DEFINE I == {i \in 1..Len(services) : services[i].name = n}
  <1>1. I # {} /\ I \subseteq Nat /\ Len(services) \in Nat /\ \A k \in I : k <= Len(services)
    BY DEF NamesOf, Elements
  <1>2. PICK m \in I : \A k \in I : k <= m
    <2>. HIDE DEF I
    <2>. QED
      BY <1>1, Greatest
  <1>3. SeqX!SelectLastInSeq(services, LAMBDA s : s.name = n) \in I
    <2>1. SeqX!SelectLastInSeq(services, LAMBDA s : s.name = n) = SeqX!Max(I)
      BY <1>1 DEF SeqX!SelectLastInSeq
    <2>2. SeqX!Max(I) = CHOOSE x \in I : \A y \in I : x >= y
      BY DEF SeqX!Max
    <2>3. \A y \in I : m >= y
      BY <1>2
    <2>. HIDE DEF I
    <2>. QED
      BY <2>1, <2>2, <2>3
  <1>. QED
    BY <1>3 DEF Named

LEMMA PartsType ==
  ASSUME NEW s \in WithName
  PROVE  /\ Parts(s) \subseteq Names
         /\ \A i \in 1..s.replicas : Replica(s, i) \in Names
  <1>1. s.name \in Names /\ s.replicas \in 1..MaxReplicas /\ s.name.base \in Bases
    BY DEF WithName, Pictured, DraftService, Names
  <1>2. \A i \in 1..s.replicas : i \in 0..MaxReplicas
    BY <1>1, Bounds
  <1>3. \A i \in 1..s.replicas : Replica(s, i) \in Names
    BY <1>1, <1>2 DEF Replica, Names
  <1>. QED
    BY <1>1, <1>3 DEF Parts

LEMMA ExpandedType ==
  ASSUME NEW services \in Seq(WithName), NEW s \in WithName
  PROVE  /\ Expanded(s, services) \in Seq(SpecService)
         /\ \E t \in Elements(Expanded(s, services)) : t.image = s.image
  <1>. DEFINE deps == UNION {Parts(Named(n, services)) : n \in Inferred(s, services)}
              one(name, more) == [name |-> name, image |-> s.image, deps |-> deps \cup more, form |-> s.form]
  <1>1. deps \subseteq Names
    <2>1. Inferred(s, services) \subseteq NamesOf(services)
      BY DEF Inferred
    <2>2. \A n \in Inferred(s, services) : Parts(Named(n, services)) \subseteq Names
      BY <2>1, NamedIs, PartsType
    <2>. QED
      BY <2>2
  <1>2. s.image \in Written /\ s.form \in {"ok", "bad"} /\ s.name \in Names /\ s.replicas \in 1..MaxReplicas
    BY DEF WithName, Pictured, DraftService
  <1>. HIDE DEF deps
  <1>3. \A name \in Names : \A more \in SUBSET Names :
          one(name, more) \in SpecService /\ one(name, more).image = s.image
    BY <1>1, <1>2 DEF SpecService
  <1>. HIDE DEF one
  <1>4. CASE Replicated(s)
    <2>1. Expanded(s, services) = [i \in 1..s.replicas |-> one(Replica(s, i), IF i = 1 THEN {} ELSE {Replica(s, 1)})]
      BY <1>4 DEF Expanded, one, deps
    <2>2. s.replicas \in Nat /\ 1 \in 1..s.replicas
      BY <1>2, Bounds
    <2>3. \A i \in 1..s.replicas : (IF i = 1 THEN {} ELSE {Replica(s, 1)}) \in SUBSET Names
      BY <2>2, PartsType
    <2>4. \A i \in 1..s.replicas : one(Replica(s, i), IF i = 1 THEN {} ELSE {Replica(s, 1)}) \in SpecService
      BY <1>3, <2>3, PartsType
    <2>5. one(Replica(s, 1), {}).image = s.image
      BY <1>3, <2>2, PartsType
    <2>6. /\ Expanded(s, services) \in Seq(SpecService) /\ 1 \in DOMAIN Expanded(s, services)
          /\ Expanded(s, services)[1] = one(Replica(s, 1), {})
      <3>. DEFINE e(i) == one(Replica(s, i), IF i = 1 THEN {} ELSE {Replica(s, 1)})
      <3>1. e(1) = one(Replica(s, 1), {})
        OBVIOUS
      <3>2. \A i \in 1..s.replicas : e(i) \in SpecService
        BY <2>4
      <3>3. Expanded(s, services) = [i \in 1..s.replicas |-> e(i)]
        BY <2>1
      <3>. HIDE DEF e
      <3>. QED
        BY <2>2, <3>1, <3>2, <3>3
    <2>. QED
      BY <2>5, <2>6 DEF Elements
  <1>5. CASE ~Replicated(s)
    <2>1. Expanded(s, services) = <<one(s.name, {})>>
      BY <1>5 DEF Expanded, one, deps
    <2>2. one(s.name, {}) \in SpecService /\ one(s.name, {}).image = s.image
      BY <1>2, <1>3
    <2>. QED
      BY <2>1, <2>2 DEF Elements
  <1>. QED
    BY <1>4, <1>5

(* A specification is built, and every image of the draft is in it.        *)
LEMMA Built ==
  ASSUME NEW given \in Seq(DraftService)
  PROVE  /\ Build(given) \in Seq(SpecService)
         /\ \A i \in DOMAIN given : given[i].image # "none" =>
               \E s \in Elements(Build(given)) : s.image = given[i].image
  <1>. DEFINE services == Deployable(given)
              named == AllNamed(services)
              parts == AllExpanded(named)
  <1>1. services \in Seq(Pictured) /\ \A i \in DOMAIN given : given[i].image # "none" => given[i] \in Elements(services)
    BY Deployed
  <1>. HIDE DEF services
  <1>2. /\ named \in Seq(WithName) /\ DOMAIN named = DOMAIN services
        /\ \A i \in DOMAIN services : named[i].image = services[i].image
    BY <1>1, AllNamedType
  <1>. HIDE DEF named
  <1>3. \A i \in 1..Len(named) : /\ Expanded(named[i], named) \in Seq(SpecService)
                                /\ \E t \in Elements(Expanded(named[i], named)) : t.image = named[i].image
    BY <1>2, ExpandedType
  <1>4. /\ parts \in Seq(Seq(SpecService)) /\ DOMAIN parts = DOMAIN named
        /\ \A i \in DOMAIN named : \E t \in Elements(parts[i]) : t.image = named[i].image
    <2>1. Len(named) \in Nat /\ DOMAIN named = 1..Len(named)
      BY <1>2
    <2>2. parts = [i \in 1..Len(named) |-> Expanded(named[i], named)]
      BY DEF AllExpanded
    <2>3. \A i \in 1..Len(named) : parts[i] = Expanded(named[i], named)
      BY <2>2
    <2>4. parts \in Seq(Seq(SpecService)) /\ DOMAIN parts = 1..Len(named)
      BY <1>3, <2>1, <2>2
    <2>. HIDE DEF parts
    <2>. QED
      BY <1>3, <2>1, <2>3, <2>4
  <1>. HIDE DEF parts
  <1>5. /\ SeqX!FlattenSeq(parts) \in Seq(SpecService)
        /\ \A i \in DOMAIN parts : Elements(parts[i]) \subseteq Elements(SeqX!FlattenSeq(parts))
    BY <1>4, Flattened
  <1>6. Build(given) = SeqX!FlattenSeq(parts)
    BY DEF Build, parts, named, services
  <1>7. ASSUME NEW i \in DOMAIN given, given[i].image # "none"
        PROVE  \E s \in Elements(Build(given)) : s.image = given[i].image
    <2>1. PICK j \in DOMAIN services : services[j] = given[i]
      BY <1>1, <1>7 DEF Elements
    <2>2. PICK t \in Elements(parts[j]) : t.image = named[j].image
      BY <1>2, <1>4, <2>1
    <2>. QED
      BY <1>2, <1>4, <1>5, <1>6, <2>1, <2>2
  <1>. QED
    BY <1>5, <1>6, <1>7

-----------------------------------------------------------------------------
LEMMA InSpec ==
  ASSUME NEW s \in Seq(SpecService)
  PROVE  Elements(s) \subseteq SpecService /\ NamesOf(s) \subseteq Names
  <1>1. Elements(s) \subseteq SpecService
    BY DEF Elements
  <1>2. \A t \in SpecService : t.name \in Names
    BY DEF SpecService
  <1>. QED
    BY <1>1, <1>2 DEF NamesOf

(* The service of a name is the first one called so.                       *)
LEMMA ServiceIs ==
  ASSUME NEW S, NEW s \in Seq(S), NEW n
  PROVE  /\ n \in NamesOf(s) =>
              \E i \in DOMAIN s : s[i].name = n /\ \A j \in 1..(i - 1) : s[j].name # n
         /\ \A i \in DOMAIN s : s[i].name = n /\ (\A j \in 1..(i - 1) : s[j].name # n) => Service(s, n) = s[i]
  <1>. DEFINE T == {i \in 1..Len(s) : s[i].name = n}
  <1>0. Len(s) \in Nat /\ DOMAIN s = 1..Len(s)
    OBVIOUS
  <1>1. ASSUME n \in NamesOf(s)
        PROVE  \E i \in DOMAIN s : s[i].name = n /\ \A j \in 1..(i - 1) : s[j].name # n
    <2>1. T # {} /\ T \subseteq 1..Len(s)
      BY <1>0, <1>1 DEF NamesOf, Elements
    <2>2. PICK i \in T : \A j \in 1..(i - 1) : j \notin T
      <3>. HIDE DEF T
      <3>. QED
        BY <1>0, <2>1, FirstOf
    <2>3. \A j \in 1..(i - 1) : j \in 1..Len(s)
      BY <1>0
    <2>. QED
      BY <1>0, <2>2, <2>3
  <1>2. ASSUME NEW i \in DOMAIN s, s[i].name = n, \A j \in 1..(i - 1) : s[j].name # n
        PROVE  Service(s, n) = s[i]
    <2>1. \A k \in DOMAIN s : (s[k].name = n /\ \A j \in 1..(k - 1) : s[j].name # n) => k = i
      <3>. SUFFICES ASSUME NEW k \in DOMAIN s, s[k].name = n, \A j \in 1..(k - 1) : s[j].name # n
                    PROVE  k = i
        OBVIOUS
      <3>1. k \in Nat /\ i \in Nat /\ k > 0 /\ i > 0
        BY <1>0
      <3>2. ~(k < i) /\ ~(i < k)
        BY <1>2, <3>1
      <3>. QED
        BY <3>1, <3>2
    <2>2. (CHOOSE k \in DOMAIN s : s[k].name = n /\ \A j \in 1..(k - 1) : ~(s[j].name = n)) = i
      BY <1>2, <2>1
    <2>. QED
      BY <2>2 DEF Service, FirstIndex
  <1>. QED
    BY <1>1, <1>2

LEMMA Called ==
  ASSUME NEW S, NEW s \in Seq(S), NEW n \in NamesOf(s)
  PROVE  Service(s, n) \in Elements(s) /\ Service(s, n).name = n
  BY ServiceIs DEF Elements

LEMMA FirstWithIs ==
  ASSUME NEW s \in Seq(SpecService), NEW t \in Elements(s)
  PROVE  FirstWith(t.image, s) \in NamesOf(s)
  <1>. DEFINE T == {i \in 1..Len(s) : s[i].image = t.image}
  <1>0. Len(s) \in Nat /\ DOMAIN s = 1..Len(s)
    OBVIOUS
  <1>1. T # {} /\ T \subseteq 1..Len(s)
    BY <1>0 DEF Elements
  <1>2. PICK i \in T : \A j \in 1..(i - 1) : j \notin T
    <2>. HIDE DEF T
    <2>. QED
      BY <1>0, <1>1, FirstOf
  <1>3. \A j \in 1..(i - 1) : j \in 1..Len(s)
    BY <1>0
  <1>4. i \in DOMAIN s /\ s[i].image = t.image /\ \A j \in 1..(i - 1) : ~(s[j].image = t.image)
    BY <1>0, <1>2, <1>3
  <1>5. (CHOOSE k \in DOMAIN s : s[k].image = t.image /\ \A j \in 1..(k - 1) : ~(s[j].image = t.image)) \in DOMAIN s
    <2>. HIDE DEF T
    <2>. QED
      BY <1>4
  <1>. QED
    BY <1>5 DEF FirstWith, FirstIndex, NamesOf, Elements

LEMMA UncertaintyIs ==
  ASSUME NEW s \in Seq(SpecService)
  PROVE  \/ Uncertainty(s).about = "cycle" /\ Uncertainty(s).of = NoName
         \/ Uncertainty(s).about = "target" /\ Uncertainty(s).of \in NamesOf(s)
  <1>1. CASE \E t \in Elements(s) : Ambiguous(t, s)
    <2>. DEFINE T == {i \in 1..Len(s) : Ambiguous(s[i], s)}
    <2>0. Len(s) \in Nat /\ DOMAIN s = 1..Len(s)
      OBVIOUS
    <2>1. T # {} /\ T \subseteq 1..Len(s)
      BY <1>1, <2>0 DEF Elements
    <2>2. PICK i \in T : \A j \in 1..(i - 1) : j \notin T
      <3>. HIDE DEF T
      <3>. QED
        BY <2>0, <2>1, FirstOf
    <2>3. \A j \in 1..(i - 1) : j \in 1..Len(s)
      BY <2>0
    <2>4. i \in DOMAIN s /\ Ambiguous(s[i], s) /\ \A j \in 1..(i - 1) : ~Ambiguous(s[j], s)
      BY <2>0, <2>2, <2>3
    <2>5. (CHOOSE k \in DOMAIN s : Ambiguous(s[k], s) /\ \A j \in 1..(k - 1) : ~Ambiguous(s[j], s)) \in DOMAIN s
      <3>. HIDE DEF T
      <3>. QED
        BY <2>4
    <2>. QED
      BY <1>1, <2>5 DEF Uncertainty, FirstIndex, NamesOf, Elements
  <1>2. CASE ~\E t \in Elements(s) : Ambiguous(t, s)
    BY <1>2 DEF Uncertainty
  <1>. QED
    BY <1>1, <1>2

-----------------------------------------------------------------------------
(* Misspelt images are resolved; no image is made odd or dropped by that.  *)
LEMMA ResolvedIs ==
  ASSUME NEW s \in DraftService
  PROVE  /\ ResolvedService(s) \in DraftService
         /\ ResolvedService(s).image = "odd" <=> s.image = "odd"
         /\ ResolvedService(s).image = "none" <=> s.image = "none"
  <1>1. CASE s.image \notin DOMAIN Resolved
    BY <1>1 DEF ResolvedService
  <1>2. CASE s.image \in DOMAIN Resolved
    <2>. DEFINE image == Resolved[s.image]
                name == IF s.name \in {NoName, Plain(s.image)} THEN Plain(image) ELSE s.name
    <2>1. image \in Images /\ image \in Bases /\ image \in Written /\ image # "odd" /\ image # "none"
      BY <1>2, DraftAssumption DEF DraftAssumption, Written
    <2>2. s.image # "odd" /\ s.image # "none"
      BY <1>2, DraftAssumption DEF DraftAssumption
    <2>3. name \in Names \cup {NoName}
      BY <2>1, Bounds DEF DraftService
    <2>4. ResolvedService(s) = [s EXCEPT !.image = image, !.name = name]
      BY <1>2 DEF ResolvedService
    <2>. HIDE DEF image, name
    <2>. QED
      BY <2>1, <2>2, <2>3, <2>4 DEF DraftService
  <1>. QED
    BY <1>1, <1>2

LEMMA ResolvedDraft ==
  ASSUME NEW given \in Seq(DraftService)
  PROVE  /\ ResolveImages(given) \in Seq(DraftService)
         /\ DOMAIN ResolveImages(given) = DOMAIN given
         /\ \A i \in DOMAIN given : /\ ResolveImages(given)[i].image = "odd" <=> given[i].image = "odd"
                                    /\ ResolveImages(given)[i].image = "none" <=> given[i].image = "none"
  <1>1. \A i \in 1..Len(given) : given[i] \in DraftService
    OBVIOUS
  <1>2. \A i \in 1..Len(given) :
          /\ ResolvedService(given[i]) \in DraftService
          /\ ResolvedService(given[i]).image = "odd" <=> given[i].image = "odd"
          /\ ResolvedService(given[i]).image = "none" <=> given[i].image = "none"
    BY <1>1, ResolvedIs
  <1>. QED
    BY <1>2 DEF ResolveImages

LEMMA FilledIn ==
  ASSUME NEW given \in Seq(DraftService), NEW i \in DOMAIN given, NEW image \in Written, NEW name \in Names
  PROVE  LET filled == WithImage(given, i, image, name)
         IN filled \in Seq(DraftService) /\ DOMAIN filled = DOMAIN given
            /\ filled[i].image = image /\ filled[i].name \in Names
  <1>. DEFINE nm == IF given[i].name = NoName THEN name ELSE given[i].name
              new == [[given[i] EXCEPT !.image = image] EXCEPT !.name = nm]
  <1>1. given[i] \in DraftService
    OBVIOUS
  <1>2. nm \in Names
    BY <1>1 DEF DraftService
  <1>. HIDE DEF nm
  <1>3. new \in DraftService /\ new.image = image /\ new.name = nm
    BY <1>1, <1>2 DEF DraftService
  <1>4. WithImage(given, i, image, name) = [given EXCEPT ![i] = new]
    <2>1. given[i].name = [given[i] EXCEPT !.image = image].name
      BY <1>1 DEF DraftService
    <2>. QED
      BY <2>1 DEF WithImage, nm
  <1>. HIDE DEF new
  <1>. QED
    BY <1>2, <1>3, <1>4

LEMMA QuestionsType ==
  ASSUME NEW given \in Seq(DraftService), NEW sig, NEW q \in ImageQuestions(given, sig)
  PROVE  q.draft \in Seq(DraftService) /\ q.of \in Names \cup {NoName} /\ q.kinds \subseteq Kinds
  <1>1. CASE \E s \in Elements(given) : s.image = "odd"
    <2>. DEFINE T == {j \in 1..Len(given) : given[j].image = "odd"}
                i == FirstIndex(given, LAMBDA s : s.image = "odd")
    <2>0. Len(given) \in Nat /\ DOMAIN given = 1..Len(given)
      OBVIOUS
    <2>1. T # {} /\ T \subseteq 1..Len(given)
      BY <1>1, <2>0 DEF Elements
    <2>2. PICK k \in T : \A j \in 1..(k - 1) : j \notin T
      <3>. HIDE DEF T
      <3>. QED
        BY <2>0, <2>1, FirstOf
    <2>3. \A j \in 1..(k - 1) : j \in 1..Len(given)
      BY <2>0
    <2>4. k \in DOMAIN given /\ given[k].image = "odd" /\ \A j \in 1..(k - 1) : ~(given[j].image = "odd")
      BY <2>0, <2>2, <2>3
    <2>5. i \in DOMAIN given
      <3>. HIDE DEF T
      <3>. QED
        BY <2>4 DEF FirstIndex
    <2>. HIDE DEF i
    <2>6. q \in OddQuestions(given)
      BY <1>1 DEF ImageQuestions
    <2>7. PICK c \in Images \X Bases :
            q = [draft |-> WithImage(given, i, c[1], Plain(c[2])),
                 of |-> WithImage(given, i, c[1], Plain(c[2]))[i].name, kinds |-> Kinds]
      BY <2>6 DEF OddQuestions, i
    <2>8. c[1] \in Written /\ Plain(c[2]) \in Names
      BY Bounds
    <2>. QED
      BY <2>5, <2>7, <2>8, FilledIn
  <1>2. CASE ~\E s \in Elements(given) : s.image = "odd"
    <2>1. q \in SelectQuestions(ResolveImages(given))
      BY <1>2 DEF ImageQuestions
    <2>. DEFINE d == ResolveImages(given)
    <2>2. d \in Seq(DraftService)
      BY ResolvedDraft
    <2>. HIDE DEF d
    <2>3. PICK i \in DOMAIN d, image \in Images :
            q = SelectQuestion(d, i, image, WithImage(d, i, image, Plain("web")))
      BY <2>1 DEF SelectQuestions, d
    <2>4. image \in Written /\ Plain("web") \in Names /\ KindOf[image] \in Kinds /\ image # "none"
      BY Bounds
    <2>. DEFINE filled == WithImage(d, i, image, Plain("web"))
    <2>5. filled \in Seq(DraftService) /\ DOMAIN filled = DOMAIN d /\ filled[i].image = image
      BY <2>2, <2>4, FilledIn
    <2>. HIDE DEF filled
    <2>6. PICK t \in Elements(Build(filled)) : t.image = image
      BY <2>4, <2>5, Built
    <2>7. FirstWith(image, Build(filled)) \in NamesOf(Build(filled)) /\ NamesOf(Build(filled)) \subseteq Names
      <3>1. Build(filled) \in Seq(SpecService)
        BY <2>5, Built
      <3>2. NamesOf(Build(filled)) \subseteq Names
        BY <3>1, InSpec
      <3>. QED
        BY <2>6, <3>1, <3>2, FirstWithIs
    <2>8. d[i].name \in Names \cup {NoName}
      <3>1. d[i] \in DraftService
        BY <2>2
      <3>. QED
        BY <3>1 DEF DraftService
    <2>9. q = [draft |-> filled, kinds |-> {KindOf[image]},
               of |-> IF d[i].name # NoName THEN d[i].name ELSE FirstWith(image, Build(filled))]
      BY <2>3 DEF SelectQuestion, filled
    <2>. QED
      BY <2>4, <2>5, <2>7, <2>8, <2>9
  <1>. QED
    BY <1>1, <1>2

(* Once a draft leaves no image open, resolving it again opens none.       *)
LEMMA NoMoreQuestions ==
  ASSUME NEW given \in Seq(DraftService), NEW sig, ImageQuestions(given, sig) = {}
  PROVE  ImageQuestions(ResolveImages(given), sig) = {}
  <1>1. CASE Images = {}
    <2>1. \A d : OddQuestions(d) = {} /\ SelectQuestions(d) = {}
      BY <1>1 DEF OddQuestions, SelectQuestions
    <2>. QED
      BY <2>1 DEF ImageQuestions
  <1>2. CASE Images # {}
    <2>1. PICK image : image \in Images
      BY <1>2
    <2>2. \A i \in DOMAIN given : given[i].image # "odd"
      <3>1. <<image, "odd">> \in {c \in Images \X Bases : c[2] \in {"odd", c[1]}}
        BY <2>1, Bounds
      <3>2. OddQuestions(given) # {}
        BY <3>1 DEF OddQuestions
      <3>. QED
        BY <3>2 DEF ImageQuestions, Elements
    <2>0. PICK d : /\ d = ResolveImages(given) /\ d \in Seq(DraftService)
                   /\ DOMAIN d = DOMAIN given
                   /\ \A i \in DOMAIN given : d[i].image = "odd" <=> given[i].image = "odd"
      <3>1. /\ ResolveImages(given) \in Seq(DraftService)
            /\ DOMAIN ResolveImages(given) = DOMAIN given
            /\ \A i \in DOMAIN given : ResolveImages(given)[i].image = "odd" <=> given[i].image = "odd"
        BY ResolvedDraft
      <3>. QED
        BY <3>1
    <2>. DEFINE e == ResolveImages(d)
    <2>3. /\ d \in Seq(DraftService) /\ DOMAIN d = DOMAIN given
          /\ \A i \in DOMAIN d : d[i].image # "odd"
      BY <2>0, <2>2
    <2>4. /\ DOMAIN e = DOMAIN d
          /\ \A i \in DOMAIN d : e[i].image = "none" <=> d[i].image = "none"
      BY <2>3, ResolvedDraft
    <2>. HIDE DEF e
    <2>5. CASE sig # "generic"
      BY <2>0, <2>3, <2>5 DEF ImageQuestions, Elements
    <2>6. CASE sig = "generic"
      <3>1. SelectQuestions(d) = {}
        BY <2>0, <2>2, <2>6 DEF ImageQuestions, Elements
      <3>2. {i \in DOMAIN d : d[i].image = "none"} = {}
        <4>1. ASSUME NEW i \in DOMAIN d, d[i].image = "none" PROVE FALSE
          <5>1. <<i, image>> \in {j \in DOMAIN d : d[j].image = "none"} \X Images
            BY <2>1, <4>1
          <5>. QED
            BY <3>1, <5>1 DEF SelectQuestions
        <4>. QED
          BY <4>1
      <3>3. {i \in DOMAIN e : e[i].image = "none"} = {}
        BY <2>4, <3>2
      <3>4. SelectQuestions(e) = {}
        BY <3>3 DEF SelectQuestions
      <3>. QED
        BY <2>0, <2>3, <2>6, <3>4 DEF ImageQuestions, Elements, e
    <2>. QED
      BY <2>5, <2>6
  <1>. QED
    BY <1>1, <1>2

LEMMA SetImageType ==
  ASSUME NEW given \in Seq(DraftService), NEW n, KnowsService(given, n), NEW image \in Images
  PROVE  SetImage(given, n, image) \in Seq(DraftService)
  <1>. DEFINE T == {j \in 1..Len(given) : given[j].name = n}
              i == FirstIndex(given, LAMBDA s : s.name = n)
              old == given[i].image
              called == IF old = "none" THEN {n}
                        ELSE {Plain(old), DefaultName(old, TRUE)} \cup {w \in {Plain("web")} : image # old}
  <1>0. Len(given) \in Nat /\ DOMAIN given = 1..Len(given)
    OBVIOUS
  <1>1. n \in NamesOf(given)
    BY DEF KnowsService, NamesOf
  <1>2. PICK k \in DOMAIN given : given[k].name = n /\ \A j \in 1..(k - 1) : given[j].name # n
    BY <1>1, ServiceIs
  <1>3. i \in DOMAIN given
    <2>. HIDE DEF T
    <2>. QED
      BY <1>2 DEF FirstIndex
  <1>4. SetImage(given, n, image) =
          [given EXCEPT ![i].image = image, ![i].name = IF @ \in called THEN Plain(image) ELSE @]
    BY DEF SetImage
  <1>. HIDE DEF i, called
  <1>. DEFINE nm == IF given[i].name \in called THEN Plain(image) ELSE given[i].name
              new == [[given[i] EXCEPT !.image = image] EXCEPT !.name = nm]
  <1>5. given[i] \in DraftService
    BY <1>3
  <1>6. nm \in Names \cup {NoName} /\ image \in Written
    BY <1>5, Bounds DEF DraftService
  <1>7. [given[i] EXCEPT !.image = image].name = given[i].name
    BY <1>5 DEF DraftService
  <1>8. SetImage(given, n, image) = [given EXCEPT ![i] = new]
    BY <1>3, <1>4, <1>7
  <1>. HIDE DEF nm
  <1>9. new \in DraftService
    BY <1>5, <1>6 DEF DraftService
  <1>. HIDE DEF new
  <1>. QED
    BY <1>3, <1>8, <1>9

-----------------------------------------------------------------------------
(* What is offered about a question is about a service of the              *)
(* specification, and a target that is offered is one of those it needs.   *)
Ops == {"dependsOn", "noDatabase", "removeEdge"}

LEMMA OfferIs ==
  ASSUME NEW s \in Seq(SpecService), NEW q, q.about \in {"target", "cycle"},
         q.about = "target" => q.of \in NamesOf(s), NEW c \in Offers(s, q)
  PROVE  /\ c.of \in NamesOf(s) /\ c.op \in Ops
         /\ c.op = "dependsOn" => c.on \in OfKind(s, Targets(Service(s, c.of)))
  <1>1. CASE q.about = "cycle"
    <2>1. PICK e \in OnCycle(s) : c = RemoveEdge(e)
      BY <1>1 DEF Offers
    <2>2. e \in NamesOf(s) \X NamesOf(s)
      BY DEF OnCycle
    <2>. QED
      BY <2>1, <2>2 DEF RemoveEdge, Ops
  <1>2. CASE q.about = "target"
    <2>1. \/ c = NoDatabase(q.of)
          \/ \E n \in OfKind(s, Targets(Service(s, q.of))) : c = DependsOn(q.of, n)
      BY <1>2 DEF Offers
    <2>. QED
      BY <1>2, <2>1 DEF NoDatabase, DependsOn, Ops
  <1>. QED
    BY <1>1, <1>2

LEMMA KindIs ==
  ASSUME NEW s, NEW t, s.image = t.image
  PROVE  Kind(s) = Kind(t) /\ Targets(s) = Targets(t)
  BY DEF Kind, Targets

(* A change keeps the names and the images, and changes one service.       *)
LEMMA Applied ==
  ASSUME NEW s \in Seq(SpecService), NEW c, c.of \in NamesOf(s), c.op \in Ops,
         c.op = "dependsOn" => c.on \in Names
  PROVE  /\ Apply(s, c) \in Seq(SpecService) /\ DOMAIN Apply(s, c) = DOMAIN s /\ Apply(s, c) # <<>>
         /\ \A i \in DOMAIN s :
              /\ Apply(s, c)[i].name = s[i].name /\ Apply(s, c)[i].image = s[i].image
              /\ s[i].name # c.of => Apply(s, c)[i] = s[i]
              /\ s[i].name = c.of /\ c.op = "dependsOn" => Apply(s, c)[i].deps = {c.on}
  <1>. DEFINE new(i) == IF s[i].name = c.of THEN [s[i] EXCEPT !.deps = Changed(s[i].deps, c, s)] ELSE s[i]
  <1>0. Len(s) \in Nat /\ DOMAIN s = 1..Len(s) /\ s # <<>>
    BY DEF NamesOf, Elements
  <1>1. \A i \in DOMAIN s : s[i] \in SpecService
    OBVIOUS
  <1>2. \A i \in DOMAIN s : Changed(s[i].deps, c, s) \subseteq Names
    <2>1. \A i \in DOMAIN s : s[i].deps \subseteq Names
      BY <1>1 DEF SpecService
    <2>. QED
      BY <2>1 DEF Changed, Ops
  <1>3. c.op = "dependsOn" => \A deps : Changed(deps, c, s) = {c.on}
    BY DEF Changed
  <1>4. \A i \in DOMAIN s :
          /\ new(i) \in SpecService /\ new(i).name = s[i].name /\ new(i).image = s[i].image
          /\ s[i].name # c.of => new(i) = s[i]
          /\ s[i].name = c.of /\ c.op = "dependsOn" => new(i).deps = {c.on}
    BY <1>1, <1>2, <1>3 DEF SpecService
  <1>5. Apply(s, c) = [i \in DOMAIN s |-> new(i)]
    BY DEF Apply
  <1>. HIDE DEF new
  <1>. QED
    BY <1>0, <1>4, <1>5

LEMMA SameNames ==
  ASSUME NEW s \in Seq(SpecService), NEW t \in Seq(SpecService), DOMAIN t = DOMAIN s,
         \A i \in DOMAIN s : t[i].name = s[i].name /\ t[i].image = s[i].image
  PROVE  NamesOf(t) = NamesOf(s) /\ \A k : OfKind(t, k) = OfKind(s, k)
  <1>1. NamesOf(t) = NamesOf(s)
    BY DEF NamesOf, Elements
  <1>2. \A i \in DOMAIN s : Kind(t[i]) = Kind(s[i])
    BY KindIs
  <1>3. \A k : \A r \in Seq(SpecService) : \A n :
          n \in OfKind(r, k) <=> \E j \in DOMAIN r : Kind(r[j]) = k /\ r[j].name = n
    BY DEF OfKind, Elements
  <1>4. ASSUME NEW k PROVE OfKind(t, k) = OfKind(s, k)
    <2>1. \A n : n \in OfKind(t, k) <=> n \in OfKind(s, k)
      BY <1>2, <1>3
    <2>. QED
      BY <2>1
  <1>. QED
    BY <1>1, <1>4

(* The choices so far stand in s.                                          *)
Stand(s, ch) ==
  \A n \in DOMAIN ch :
    n \in NamesOf(s) /\ Service(s, n).deps \cap OfKind(s, Targets(Service(s, n))) = {ch[n]}

LEMMA ChoiceStands ==
  ASSUME NEW s \in Seq(SpecService), NEW q, q.about \in {"target", "cycle"},
         q.about = "target" => q.of \in NamesOf(s), NEW c \in Offers(s, q),
         Stand(s, chosen), Remember(c), \A n \in DOMAIN chosen : n \in Names /\ chosen[n] \in Names
  PROVE  /\ Apply(s, c) \in Seq(SpecService) /\ Apply(s, c) # <<>>
         /\ \A n \in DOMAIN chosen' : n \in Names /\ chosen'[n] \in Names
         /\ Stand(Apply(s, c), chosen')
  <1>. DEFINE t == Apply(s, c)
  <1>1. /\ c.of \in NamesOf(s) /\ c.op \in Ops
        /\ c.op = "dependsOn" => c.on \in OfKind(s, Targets(Service(s, c.of)))
    BY OfferIs
  <1>2. NamesOf(s) \subseteq Names /\ \A k : OfKind(s, k) \subseteq NamesOf(s)
    BY InSpec DEF OfKind, NamesOf
  <1>3. /\ t \in Seq(SpecService) /\ DOMAIN t = DOMAIN s /\ t # <<>>
        /\ \A i \in DOMAIN s :
              /\ t[i].name = s[i].name /\ t[i].image = s[i].image
              /\ s[i].name # c.of => t[i] = s[i]
              /\ s[i].name = c.of /\ c.op = "dependsOn" => t[i].deps = {c.on}
    BY <1>1, <1>2, Applied
  <1>. HIDE DEF t
  <1>4. NamesOf(t) = NamesOf(s) /\ \A k : OfKind(t, k) = OfKind(s, k)
    BY <1>3, SameNames
  <1>5. ASSUME NEW n \in NamesOf(s)
        PROVE  /\ Targets(Service(t, n)) = Targets(Service(s, n))
               /\ n # c.of => Service(t, n) = Service(s, n)
               /\ n = c.of /\ c.op = "dependsOn" => Service(t, n).deps = {c.on}
    <2>1. PICK i \in DOMAIN s : s[i].name = n /\ \A j \in 1..(i - 1) : s[j].name # n
      BY ServiceIs
    <2>2. \A j \in 1..(i - 1) : j \in DOMAIN s
      OBVIOUS
    <2>3. i \in DOMAIN t /\ t[i].name = n /\ \A j \in 1..(i - 1) : t[j].name # n
      BY <1>3, <2>1, <2>2
    <2>4. Service(s, n) = s[i] /\ Service(t, n) = t[i]
      BY <1>3, <2>1, <2>3, ServiceIs
    <2>. QED
      BY <1>3, <2>1, <2>4, KindIs
  <1>6. CASE c.op = "dependsOn"
    <2>1. chosen' = [n \in DOMAIN chosen \cup {c.of} |-> IF n = c.of THEN c.on ELSE chosen[n]]
      BY <1>6 DEF Remember
    <2>2. c.of \in Names /\ c.on \in Names /\ c.on \in OfKind(t, Targets(Service(t, c.of)))
      BY <1>1, <1>2, <1>4, <1>5, <1>6
    <2>3. ASSUME NEW n \in DOMAIN chosen'
          PROVE  /\ n \in NamesOf(t)
                 /\ Service(t, n).deps \cap OfKind(t, Targets(Service(t, n))) = {chosen'[n]}
      <3>1. CASE n = c.of
        BY <1>1, <1>4, <1>5, <1>6, <2>1, <2>2, <3>1
      <3>2. CASE n # c.of
        <4>1. n \in DOMAIN chosen /\ chosen'[n] = chosen[n]
          BY <2>1, <3>2
        <4>2. n \in NamesOf(s) /\ Service(s, n).deps \cap OfKind(s, Targets(Service(s, n))) = {chosen[n]}
          BY <4>1 DEF Stand
        <4>. QED
          BY <1>4, <1>5, <3>2, <4>1, <4>2
      <3>. QED
        BY <3>1, <3>2
    <2>. QED
      BY <1>3, <2>1, <2>2, <2>3 DEF Stand, t
  <1>7. CASE c.op # "dependsOn"
    <2>1. chosen' = [n \in DOMAIN chosen \ {c.of} |-> chosen[n]]
      BY <1>7 DEF Remember
    <2>2. ASSUME NEW n \in DOMAIN chosen'
          PROVE  /\ n \in NamesOf(t)
                 /\ Service(t, n).deps \cap OfKind(t, Targets(Service(t, n))) = {chosen'[n]}
      <3>1. n # c.of /\ n \in DOMAIN chosen /\ chosen'[n] = chosen[n]
        BY <2>1
      <3>2. n \in NamesOf(s) /\ Service(s, n).deps \cap OfKind(s, Targets(Service(s, n))) = {chosen[n]}
        BY <3>1 DEF Stand
      <3>. QED
        BY <1>4, <1>5, <3>1, <3>2
    <2>. QED
      BY <1>3, <2>1, <2>2 DEF Stand, t
  <1>. QED
    BY <1>6, <1>7

-----------------------------------------------------------------------------
(* The state but for the guard.                                            *)
StateOK ==
  /\ pc \in {"start", "propose", "validate", "repair", "assess", "build", "asked", "done"}
  /\ tools \in Toolboxes /\ config \in Guard!Config /\ signal \in Signals
  /\ draft \in Seq(DraftService) /\ spec \in Seq(SpecService)
  /\ question \in [about : {"nothing", "image", "target", "cycle"}, of : Names \cup {NoName},
                   kinds : SUBSET Kinds]
  /\ result \in {"none", "planned", "unrepaired", "blocked", "error"}
  /\ looked \in Seq(Seq(SpecService))
  /\ \A n \in DOMAIN chosen : n \in Names /\ chosen[n] \in Names

TalkInv == StateOK /\ PlanInv /\ AnswerInv /\ AnswersStand

LEMMA StandIs == AnswersStand <=> Stand(spec, chosen)
  BY DEF AnswersStand, Stand

LEMMA StandAfter == AnswersStand' <=> Stand(spec', chosen')
  BY DEF AnswersStand, Stand

LEMMA InitTalk == Init => TalkInv
  <1>. SUFFICES ASSUME Init PROVE TalkInv
    OBVIOUS
  <1>1. <<>> \in Seq(SpecService) /\ <<>> \in Seq(Seq(SpecService)) /\ DOMAIN <<>> = {}
    OBVIOUS
  <1>2. StateOK
    BY <1>1, PlannerAssumption DEF Init, StateOK, PlannerAssumption, NoQuestion
  <1>. QED
    BY <1>1, <1>2 DEF Init, TalkInv, PlanInv, AnswerInv, AnswersStand, Asking

(* A question about the image: nothing has been chosen yet.                *)
LEMMA AskStep ==
  ASSUME TalkInv, NEW d \in Seq(DraftService), AskAboutImage(d), DOMAIN chosen = {}, result = "none",
         UNCHANGED <<setting, looked, chosen>>
  PROVE  TalkInv'
  <1>1. PICK q \in ImageQuestions(d, signal) :
          /\ draft' = q.draft /\ spec' = Build(q.draft) /\ pc' = "asked" /\ result' = result
          /\ question' = [about |-> "image", of |-> q.of, kinds |-> q.kinds]
    BY DEF AskAboutImage, Go, Question
  <1>2. q.draft \in Seq(DraftService) /\ q.of \in Names \cup {NoName} /\ q.kinds \subseteq Kinds
    BY QuestionsType
  <1>3. spec' \in Seq(SpecService)
    BY <1>1, <1>2, Built
  <1>4. StateOK'
    BY <1>1, <1>2, <1>3 DEF StateOK, TalkInv, setting
  <1>. QED
    BY <1>1, <1>4 DEF TalkInv, PlanInv, AnswerInv, AnswersStand, Asking

(* A specification that is submitted or assessed is asked about or built.  *)
LEMMA AskOrBuildStep ==
  ASSUME NEW s \in Seq(SpecService), AskOrBuild(s), result = "none"
  PROVE  /\ pc' \in {"build", "asked"} /\ result' = "none"
         /\ pc' = "build" => Certain(s)
         /\ question' \in [about : {"nothing", "target", "cycle"}, of : Names \cup {NoName}, kinds : SUBSET Kinds]
         /\ pc' = "asked" => question'.about \in {"target", "cycle"}
         /\ pc' = "asked" /\ question'.about = "target" => question'.of \in NamesOf(s)
  <1>1. CASE Certain(s)
    BY <1>1 DEF AskOrBuild, Go, NoQuestion
  <1>2. CASE ~Certain(s)
    <2>1. NamesOf(s) \subseteq Names
      BY InSpec
    <2>2. \/ Uncertainty(s).about = "cycle" /\ Uncertainty(s).of = NoName
          \/ Uncertainty(s).about = "target" /\ Uncertainty(s).of \in NamesOf(s)
      BY UncertaintyIs
    <2>3. /\ pc' = "asked" /\ result' = result
          /\ question' = [about |-> Uncertainty(s).about, of |-> Uncertainty(s).of, kinds |-> {}]
      BY <1>2 DEF AskOrBuild, Go, Question
    <2>. QED
      BY <2>1, <2>2, <2>3
  <1>. QED
    BY <1>1, <1>2

LEMMA SubmitStep ==
  ASSUME TalkInv, NEW s \in Seq(SpecService), Submit(s), result = "none", UNCHANGED <<setting, looked>>,
         draft' \in Seq(DraftService), ImageQuestions(draft', signal) = {},
         \A n \in DOMAIN chosen' : n \in Names /\ chosen'[n] \in Names, Stand(s, chosen')
  PROVE  TalkInv'
  <1>1. spec' = s /\ AnswersStand'
    BY StandAfter DEF Submit
  <1>2. CASE Valid(s)
    <2>1. AskOrBuild(s)
      BY <1>2 DEF Submit
    <2>2. /\ pc' \in {"build", "asked"} /\ result' = "none"
          /\ pc' = "build" => Certain(s)
          /\ question' \in [about : {"nothing", "target", "cycle"}, of : Names \cup {NoName}, kinds : SUBSET Kinds]
          /\ pc' = "asked" => question'.about \in {"target", "cycle"}
          /\ pc' = "asked" /\ question'.about = "target" => question'.of \in NamesOf(s)
      BY <2>1, AskOrBuildStep
    <2>3. question'.about \in {"nothing", "target", "cycle"}
      BY <2>2
    <2>4. StateOK'
      BY <1>1, <2>2 DEF StateOK, TalkInv, setting
    <2>5. signal' = signal
      BY DEF setting
    <2>. QED
      BY <1>1, <2>2, <2>3, <2>4, <2>5 DEF TalkInv, PlanInv, AnswerInv, Asking
  <1>3. CASE ~Valid(s)
    <2>1. pc' = "done" /\ result' = "error" /\ question' = question
      BY <1>3 DEF Submit, Finish
    <2>. QED
      BY <1>1, <2>1 DEF StateOK, TalkInv, setting, PlanInv, AnswerInv, Asking
  <1>. QED
    BY <1>2, <1>3

LEMMA ContinueStep ==
  ASSUME TalkInv, NEW d \in Seq(DraftService), NEW s \in Seq(SpecService), Continue(d, s),
         result = "none", UNCHANGED <<setting, looked>>,
         \A n \in DOMAIN chosen' : n \in Names /\ chosen'[n] \in Names,
         \/ s = <<>> /\ DOMAIN chosen = {} /\ chosen' = chosen
         \/ s # <<>> /\ ImageQuestions(d, signal) = {} /\ Stand(s, chosen')
  PROVE  TalkInv'
  <1>1. CASE AskAboutImage(d)
    <2>1. ImageQuestions(d, signal) # {}
      BY <1>1 DEF AskAboutImage
    <2>2. DOMAIN chosen = {} /\ chosen' = chosen
      BY <2>1
    <2>. QED
      BY <1>1, <2>2, AskStep
  <1>2. CASE /\ ImageQuestions(d, signal) = {} /\ draft' = ResolveImages(d)
             /\ Submit(IF s # <<>> THEN s ELSE Build(ResolveImages(d)))
    <2>1. draft' \in Seq(DraftService) /\ ImageQuestions(draft', signal) = {}
      BY <1>2, ResolvedDraft, NoMoreQuestions
    <2>2. Build(draft') \in Seq(SpecService)
      BY <2>1, Built
    <2>3. CASE s = <<>>
      <3>1. Submit(Build(draft')) /\ Stand(Build(draft'), chosen')
        BY <1>2, <2>3 DEF Stand
      <3>. QED
        BY <2>1, <2>2, <3>1, SubmitStep
    <2>4. CASE s # <<>>
      <3>1. Submit(s) /\ Stand(s, chosen')
        BY <1>2, <2>4
      <3>. QED
        BY <2>1, <3>1, SubmitStep
    <2>. QED
      BY <2>3, <2>4
  <1>. QED
    BY <1>1, <1>2 DEF Continue

LEMMA RunStep == ASSUME TalkInv, GuardInv, Run PROVE TalkInv'
  <1>1. result = "none"
    BY DEF GuardInv, Run, Start, Propose, Validate, Repair, Assess, BuildPlan
  <1>2. CASE Start
    <2>1. pc = "start" /\ DOMAIN chosen = {} /\ UNCHANGED <<setting, looked, chosen>>
      BY <1>2 DEF Start, TalkInv, AnswerInv
    <2>2. CASE AskAboutImage(draft)
      BY <1>1, <2>1, <2>2, AskStep DEF TalkInv, StateOK
    <2>3. CASE /\ ImageQuestions(draft, signal) = {} /\ draft' = ResolveImages(draft)
               /\ pc' = "propose" /\ UNCHANGED <<result, spec, question>>
      <3>1. draft' \in Seq(DraftService) /\ ImageQuestions(draft', signal) = {}
        BY <2>3, ResolvedDraft, NoMoreQuestions DEF TalkInv, StateOK
      <3>. QED
        BY <1>1, <2>1, <2>3, <3>1 DEF TalkInv, StateOK, PlanInv, AnswerInv, AnswersStand, Asking, setting
    <2>. QED
      BY <1>2, <2>2, <2>3 DEF Start, Go
  <1>3. CASE Propose
    <2>1. spec' \in Seq(SpecService)
      BY <1>3, Built, PlannerAssumption DEF Propose, TalkInv, StateOK, PlannerAssumption
    <2>2. /\ pc = "propose" /\ looked' = <<>> /\ UNCHANGED <<setting, draft, question, chosen>>
          /\ \/ pc' = "validate" /\ result' = result
             \/ pc' = "done" /\ result' = "error"
      BY <1>3 DEF Propose, Go, Finish
    <2>. QED
      BY <1>1, <2>1, <2>2 DEF TalkInv, StateOK, PlanInv, AnswerInv, AnswersStand, Asking, setting
  <1>4. CASE Validate
    <2>1. /\ pc = "validate" /\ UNCHANGED <<setting, draft, spec, question, looked, chosen>>
          /\ \/ pc' \in {"assess", "repair"} /\ result' = result
             \/ pc' = "done" /\ result' = "blocked"
      BY <1>4 DEF Validate, Go, Finish
    <2>. QED
      BY <1>1, <2>1 DEF TalkInv, StateOK, PlanInv, AnswerInv, AnswersStand, Asking, setting
  <1>5. CASE Repair
    <2>1. spec' \in Seq(SpecService)
      <3>1. Repairs \subseteq Seq(SpecService)
        BY PlannerAssumption DEF Repairs, TalkInv, StateOK, PlannerAssumption
      <3>. QED
        BY <1>5, <3>1 DEF Repair, TalkInv, StateOK
    <2>2. /\ pc = "repair" /\ UNCHANGED <<setting, draft, question, chosen>>
          /\ looked' = Append(looked, spec)
          /\ \/ pc' = "validate" /\ result' = result
             \/ pc' = "done" /\ result' \in {"blocked", "unrepaired"}
      BY <1>5 DEF Repair, Go, Finish
    <2>. QED
      BY <1>1, <2>1, <2>2 DEF TalkInv, StateOK, PlanInv, AnswerInv, AnswersStand, Asking, setting
  <1>6. CASE Assess
    <2>1. /\ pc = "assess" /\ AskOrBuild(spec) /\ UNCHANGED <<setting, draft, spec, guard, looked, chosen>>
          /\ spec \in Seq(SpecService)
      BY <1>6 DEF Assess, TalkInv, StateOK
    <2>2. /\ pc' \in {"build", "asked"} /\ result' = "none"
          /\ pc' = "build" => Certain(spec)
          /\ question' \in [about : {"nothing", "target", "cycle"}, of : Names \cup {NoName}, kinds : SUBSET Kinds]
          /\ pc' = "asked" => question'.about \in {"target", "cycle"}
          /\ pc' = "asked" /\ question'.about = "target" => question'.of \in NamesOf(spec)
      BY <1>1, <2>1, AskOrBuildStep
    <2>3. question'.about \in {"nothing", "target", "cycle"}
      BY <2>2
    <2>4. StateOK'
      BY <2>1, <2>2 DEF StateOK, TalkInv, setting
    <2>. QED
      BY <1>1, <2>1, <2>2, <2>3, <2>4 DEF TalkInv, PlanInv, AnswerInv, AnswersStand, Asking, setting
  <1>7. CASE BuildPlan
    <2>1. /\ pc = "build" /\ pc' = "done" /\ UNCHANGED <<setting, draft, spec, guard, question, looked, chosen>>
          /\ (result' = "planned" /\ Valid(spec)) \/ result' = "error"
      BY <1>7 DEF BuildPlan, Finish
    <2>. QED
      BY <1>1, <2>1 DEF TalkInv, StateOK, PlanInv, AnswerInv, AnswersStand, Asking, setting
  <1>. QED
    BY <1>2, <1>3, <1>4, <1>5, <1>6, <1>7 DEF Run

LEMMA UserStep == ASSUME TalkInv, GuardInv, User PROVE TalkInv'
  <1>1. result = "none" /\ pc = "asked" /\ UNCHANGED <<setting, looked>>
    BY DEF GuardInv, User, AnswerImage, Answer, Other, Nonsense
  <1>0. /\ draft \in Seq(DraftService) /\ spec \in Seq(SpecService) /\ <<>> \in Seq(SpecService)
        /\ \A n \in DOMAIN chosen : n \in Names /\ chosen[n] \in Names
        /\ Stand(spec, chosen)
    BY StandIs DEF TalkInv, StateOK
  <1>2. ASSUME UNCHANGED <<spec, draft, question, chosen>>, pc' = "done", result' = "error" PROVE TalkInv'
    BY <1>1, <1>2 DEF TalkInv, StateOK, PlanInv, AnswerInv, AnswersStand, Asking, setting
  <1>3. CASE AnswerImage
    <2>1. PICK image \in Images :
            IF KnowsService(draft, question.of)
              THEN Continue(SetImage(draft, question.of, image), <<>>)
              ELSE Finish("error") /\ UNCHANGED <<draft, spec, question>>
      BY <1>3 DEF AnswerImage
    <2>2. chosen' = chosen /\ DOMAIN chosen = {} /\ UNCHANGED setting
      BY <1>3 DEF AnswerImage, TalkInv, AnswerInv, Asking
    <2>3. CASE KnowsService(draft, question.of)
      <3>1. SetImage(draft, question.of, image) \in Seq(DraftService)
        BY <1>0, <2>3, SetImageType
      <3>. QED
        BY <1>0, <1>1, <2>1, <2>2, <2>3, <3>1, ContinueStep
    <2>4. CASE ~KnowsService(draft, question.of)
      BY <1>2, <2>1, <2>2, <2>4 DEF Finish
    <2>. QED
      BY <2>3, <2>4
  <1>4. CASE Answer \/ Other
    <2>1. question.about \in {"target", "cycle"}
      BY <1>4 DEF Answer, Other
    <2>2. PICK c \in Offers(spec, question) : Accepted(c)
      BY <1>4 DEF Answer, Other, Meant
    <2>3. /\ ImageQuestions(draft, signal) = {}
          /\ question.about = "target" => question.of \in NamesOf(spec)
      BY <1>1, <2>1 DEF TalkInv, AnswerInv, Asking
    <2>4. /\ Apply(spec, c) \in Seq(SpecService) /\ Apply(spec, c) # <<>>
          /\ \A n \in DOMAIN chosen' : n \in Names /\ chosen'[n] \in Names
          /\ Stand(Apply(spec, c), chosen')
      BY <1>0, <2>1, <2>2, <2>3, ChoiceStands DEF Accepted
    <2>5. Continue(draft, Apply(spec, c))
      BY <2>2 DEF Accepted
    <2>. QED
      BY <1>0, <1>1, <2>3, <2>4, <2>5, ContinueStep
  <1>5. CASE Nonsense
    BY <1>2, <1>5 DEF Nonsense, Finish
  <1>. QED
    BY <1>3, <1>4, <1>5 DEF User

LEMMA GuardTyped ==
  ASSUME TalkInv, GuardInv, guard \in Guard!Guards, Next
  PROVE  guard' \in Guard!Guards
  <1>. DEFINE X == {<<>>} \cup Seq(SpecService)
  <1>1. Guard!Guards = Shape(X) /\ config \in Guard!Config /\ spec \in X /\ X = X \cup {spec}
    BY DEF Guard!Guards, Guard!Nowhere, Shape, Calls, TalkInv, StateOK
  <1>. HIDE DEF X
  <1>2. CASE guard' = guard
    BY <1>2
  <1>3. CASE Propose
    <2>1. Guard!NewGuard \in Shape({<<>>})
      BY New
    <2>. QED
      BY <1>3, <2>1 DEF Propose, Shape, Guard!Guards, Guard!Nowhere, Calls
  <1>4. CASE Validate
    <2>1. guard.reason = "none" /\ guard' = Guard!CheckToolCap(guard, config, "validate")
      BY <1>4 DEF Validate, GuardInv, Looping, CountInv
    <2>2. "validate" \in Calls
      BY DEF Calls
    <2>. QED
      BY <1>1, <2>1, <2>2, CallCounted
  <1>5. CASE Repair
    <2>. DEFINE t == Guard!TickIteration(guard, config)
                o == Guard!ObserveStep(t, config, spec)
                c == Guard!CheckToolCap(o, config, "repair")
    <2>1. guard.reason = "none"
      BY <1>5 DEF Repair, GuardInv, Looping, CountInv
    <2>2. guard' = c \/ (c.reason = "none" /\ guard' = Guard!RecordProgress(c, config, spec' # spec))
      BY <1>5 DEF Repair, Guard!Stopped
    <2>3. t \in Shape(X)
      BY <1>1, <2>1, Tick
    <2>. HIDE DEF t
    <2>4. o \in Shape(X)
      BY <1>1, <2>3, StepObserved
    <2>. HIDE DEF o
    <2>5. c \in Shape(X)
      <3>1. CASE o.reason = "none"
        <4>1. "repair" \in Calls
          BY DEF Calls
        <4>. QED
          BY <1>1, <2>4, <3>1, <4>1, CallCounted
      <3>2. CASE o.reason # "none"
        BY <2>4, <3>2 DEF Guard!CheckToolCap, Guard!Stopped
      <3>. QED
        BY <3>1, <3>2
    <2>. HIDE DEF c
    <2>6. CASE guard' = c
      BY <1>1, <2>5, <2>6
    <2>7. CASE c.reason = "none" /\ guard' = Guard!RecordProgress(c, config, spec' # spec)
      BY <1>1, <2>5, <2>7, ProgressRecorded
    <2>. QED
      BY <2>2, <2>6, <2>7
  <1>. QED
    BY <1>2, <1>3, <1>4, <1>5 DEF Next, Run, User, Start, Assess, BuildPlan, AnswerImage, Answer, Other, Nonsense

-----------------------------------------------------------------------------
LEMMA NamesFinite ==
  ASSUME NEW s \in Seq(SpecService)
  PROVE  /\ IsFiniteSet(NamesOf(s))
         /\ Cardinality(NamesOf(s)) = Len(s) => \A i, j \in DOMAIN s : s[i].name = s[j].name => i = j
  <1>. DEFINE f == [i \in 1..Len(s) |-> s[i].name]
  <1>0. Len(s) \in Nat /\ DOMAIN s = 1..Len(s)
    OBVIOUS
  <1>1. f \in Surjection(1..Len(s), NamesOf(s))
    <2>1. f \in [1..Len(s) -> NamesOf(s)]
      BY <1>0 DEF NamesOf, Elements
    <2>2. \A n \in NamesOf(s) : \E i \in 1..Len(s) : f[i] = n
      BY <1>0 DEF NamesOf, Elements
    <2>. HIDE DEF f
    <2>. QED
      BY <2>1, <2>2 DEF Surjection
  <1>2. IsFiniteSet(1..Len(s)) /\ Cardinality(1..Len(s)) = Len(s)
    BY <1>0, FS_Interval
  <1>3. /\ IsFiniteSet(NamesOf(s))
        /\ Cardinality(NamesOf(s)) = Len(s) => f \in Injection(1..Len(s), NamesOf(s))
    <2>. HIDE DEF f
    <2>. QED
      BY <1>1, <1>2, FS_Surjection
  <1>4. f \in Injection(1..Len(s), NamesOf(s)) => \A i, j \in 1..Len(s) : f[i] = f[j] => i = j
    BY DEF Injection, IsInjective
  <1>. QED
    BY <1>0, <1>3, <1>4

(* Without a cycle some service of every set waits for none of the set:    *)
(* the one that reaches fewest.                                            *)
LEMMA NoneStuck ==
  ASSUME NEW s \in Seq(SpecService), Valid(s), OnCycle(s) = {},
         NEW S, S \subseteq NamesOf(s), S # {}
  PROVE  \E n \in S : DepsOf(s, n) \cap S = {}
  <1>. DEFINE Closed == {T \in SUBSET NamesOf(s) : \A k \in T : DepsOf(s, k) \subseteq T}
              R(n) == {m \in NamesOf(s) : Reaches(s, n, m)}
              Sizes == {Cardinality(R(n)) : n \in S}
  <1>1. \A n, m : Reaches(s, n, m) <=> \A T \in Closed : n \in T => m \in T
    BY DEF Reaches
  <1>2. \A n \in NamesOf(s) : DepsOf(s, n) \subseteq NamesOf(s) \ {n}
    BY DEF DepsOf, Valid
  <1>3. IsFiniteSet(NamesOf(s))
    BY NamesFinite
  <1>4. \A n : IsFiniteSet(R(n)) /\ Cardinality(R(n)) \in Nat
    BY <1>3, FS_Subset, FS_CardinalityType
  <1>5. \A n, m \in NamesOf(s) : m \in DepsOf(s, n) => R(m) \subseteq R(n) /\ n \in R(n)
    BY <1>1
  <1>6. PICK n \in S : \A m \in S : Cardinality(R(n)) <= Cardinality(R(m))
    <2>1. Sizes \subseteq Nat /\ Sizes # {}
      BY <1>4
    <2>2. PICK k \in Sizes : \A j \in Sizes : k <= j
      <3>. HIDE DEF Sizes
      <3>. QED
        BY <2>1, Least
    <2>3. PICK n \in S : k = Cardinality(R(n))
      OBVIOUS
    <2>. QED
      BY <2>2, <2>3
  <1>7. ASSUME NEW m \in S, m \in DepsOf(s, n) PROVE FALSE
    <2>1. n \in NamesOf(s) /\ m \in NamesOf(s) /\ n # m
      BY <1>2, <1>7
    <2>2. ~Reaches(s, m, n)
      <3>1. <<n, m>> \notin OnCycle(s)
        OBVIOUS
      <3>. QED
        BY <1>7, <2>1, <3>1 DEF OnCycle
    <2>3. R(m) \subseteq R(n) /\ n \in R(n) /\ n \notin R(m)
      BY <1>5, <1>7, <2>1, <2>2
    <2>4. Cardinality(R(m)) <= Cardinality(R(n)) /\ Cardinality(R(n)) # Cardinality(R(m))
      <3>. HIDE DEF R
      <3>. QED
        BY <1>4, <2>3, FS_Subset
    <2>5. Cardinality(R(n)) <= Cardinality(R(m))
      BY <1>6
    <2>. HIDE DEF R
    <2>. QED
      BY <1>4, <2>4, <2>5
  <1>. QED
    BY <1>7

LEMMA OneBase ==
  ASSUME NEW D, IsFiniteSet(D), Cardinality({n.base : n \in D}) = 1
  PROVE  \A n, m \in D : n.base = m.base
  <1>. DEFINE B == {n.base : n \in D}
              f == [n \in D |-> n.base]
  <1>1. f \in Surjection(D, B)
    BY DEF Surjection
  <1>2. IsFiniteSet(B)
    <2>. HIDE DEF f, B
    <2>. QED
      BY <1>1, FS_Surjection
  <1>3. PICK b : B = {b}
    <2>. HIDE DEF B
    <2>1. Cardinality(B) = 1
      BY DEF B
    <2>. QED
      BY <1>2, <2>1, FS_Singleton
  <1>. QED
    BY <1>3

LEMMA CertainIsTargeted ==
  ASSUME StateOK, Certain(spec), NEW s \in Elements(spec)
  PROVE  Targeted(s)
  <1>. DEFINE candidates == OfKind(spec, Targets(s))
              taken == s.deps \cap candidates
  <1>1. ~Ambiguous(s, spec)
    BY DEF Certain
  <1>2. IsFiniteSet(candidates) /\ Cardinality(candidates) \in Nat
    <2>1. spec \in Seq(SpecService) /\ candidates \subseteq NamesOf(spec)
      BY DEF StateOK, OfKind, NamesOf
    <2>2. IsFiniteSet(NamesOf(spec))
      BY <2>1, NamesFinite
    <2>. HIDE DEF candidates
    <2>. QED
      BY <2>1, <2>2, FS_Subset, FS_CardinalityType
  <1>3. \/ Kind(s) = "database" \/ ~(Cardinality(candidates) > 1) \/ Cardinality(taken) = 1
        \/ Kind(s) = "backend" /\ OneGroup(candidates, taken)
    BY <1>1 DEF Ambiguous
  <1>4. OneGroup(candidates, taken) => \A n, m \in candidates : n.base = m.base
    <2>. HIDE DEF candidates, taken
    <2>. QED
      BY <1>2, OneBase DEF OneGroup
  <1>5. ~(Cardinality(candidates) > 1) => Cardinality(candidates) <= 1
    <2>. HIDE DEF candidates
    <2>. QED
      BY <1>2
  <1>6. /\ Targeted(s) <=> \/ Kind(s) = "database" \/ Cardinality(candidates) <= 1 \/ Cardinality(taken) = 1
                           \/ Kind(s) = "backend" /\ (Cardinality(taken) = 0 \/ \A n, m \in candidates : n.base = m.base)
    BY DEF Targeted
  <1>. QED
    BY <1>3, <1>4, <1>5, <1>6

LEMMA Sound == ASSUME StateOK, PlanInv PROVE PlannedIsSound
  <1>. SUFFICES ASSUME result = "planned"
                PROVE  /\ \A i, j \in DOMAIN spec : spec[i].name = spec[j].name => i = j
                       /\ \A S \in (SUBSET NamesOf(spec)) \ {{}} : \E n \in S : DepsOf(spec, n) \cap S = {}
                       /\ \A s \in Elements(spec) : s.deps \subseteq NamesOf(spec) /\ Targeted(s)
    BY DEF PlannedIsSound
  <1>1. Valid(spec) /\ Certain(spec) /\ OnCycle(spec) = {} /\ spec \in Seq(SpecService)
    BY DEF PlanInv, Certain, StateOK
  <1>2. \A i, j \in DOMAIN spec : spec[i].name = spec[j].name => i = j
    BY <1>1, NamesFinite DEF Valid
  <1>3. \A S \in (SUBSET NamesOf(spec)) \ {{}} : \E n \in S : DepsOf(spec, n) \cap S = {}
    BY <1>1, NoneStuck
  <1>4. \A s \in Elements(spec) : s.deps \subseteq NamesOf(spec) /\ Targeted(s)
    BY <1>1, CertainIsTargeted DEF Valid
  <1>. QED
    BY <1>2, <1>3, <1>4

-----------------------------------------------------------------------------
(* The counters of the guard are the repairs made, whatever the tools, the *)
(* configuration of the guard and the user's answers.                      *)
THEOREM GuardCounts == Spec => [](Shaped /\ GuardInv)
  <1>1. ASSUME Shaped, GuardInv, [Next]_vars PROVE Shaped' /\ GuardInv'
    <2>1. CASE UNCHANGED vars
      BY <1>1, <2>1 DEF vars, setting, Shaped, GuardInv, Looping, CountInv, RowInv, Row,
                        Overrun
    <2>. QED
      BY <1>1, <2>1, ProposeStep, ValidateStep, RepairStep, DialogueStep
         DEF Next, Run, User
  <1>. QED
    BY <1>1, InitGuard, PTL DEF Spec

(* The guard stops the loop for the reason it gives, and a loop that goes  *)
(* on has given it none: for every configuration and whatever tools answer. *)
THEOREM GuardExact == Spec => []GuardIsExact
  <1>1. GuardInv /\ Shaped => GuardIsExact
    <2>. SUFFICES ASSUME GuardInv, Shaped, pc \in {"validate", "assess"}
                  PROVE  /\ ~Overrun.iteration_budget_exhausted
                         /\ ~Overrun.quagmire_repeat /\ ~Overrun.no_progress
      BY DEF GuardInv, GuardIsExact
    <2>1. CountInv /\ RowInv
      BY DEF GuardInv, Looping
    <2>2. PICK X : guard \in Shape(X)
      BY DEF Shaped
    <2>3. PICK Y : looked \in Seq(Y)
      BY DEF Shaped
    <2>4. /\ config.repeatTolerance \in Nat \ {0} /\ config.noProgressTolerance \in Nat \ {0}
          /\ config.maxIterations \in Nat /\ Len(looked) \in Nat
          /\ guard.repeat \in Nat /\ guard.noProgress \in Nat
      BY <2>2, <2>3 DEF Shaped, Guard!Config, Shape
    <2>5. ~(Len(looked) > config.maxIterations)
      BY <2>1, <2>4 DEF CountInv
    <2>6. ASSUME NEW s, NEW k \in Nat \ {0}, Row(k, s)
          PROVE  k \in 1..Len(looked) /\ s = looked[Len(looked)]
      BY <2>3, <2>4, <2>6, RowIs, RowsEnd DEF Row
    <2>7. ~\E s \in Elements(looked) : Row(config.repeatTolerance, s)
      BY <2>1, <2>4, <2>6 DEF RowInv
    <2>8. ~Row(config.noProgressTolerance, spec)
      BY <2>1, <2>4, <2>6 DEF RowInv
    <2>. QED
      BY <2>5, <2>7, <2>8 DEF Overrun
  <1>. QED
    BY <1>1, GuardCounts, PTL

(* The state of the dialogue is what its types say, whatever drafts,       *)
(* catalogs and answers there are.                                         *)
THEOREM DialogueHolds == Spec => [](TalkInv /\ guard \in Guard!Guards)
  <1>. DEFINE I == TalkInv /\ guard \in Guard!Guards
  <1>1. Init => I
    <2>1. Init => guard \in Guard!Guards
      BY New DEF Init, Guard!Guards, Guard!NewGuard, Guard!Nowhere, Guard!Reasons
    <2>. QED
      BY <2>1, InitTalk
  <1>2. ASSUME I, GuardInv, [Next]_vars PROVE I'
    <2>1. CASE Next
      BY <1>2, <2>1, RunStep, UserStep, GuardTyped DEF Next
    <2>2. CASE UNCHANGED vars
      BY <1>2, <2>2 DEF vars, setting, TalkInv, StateOK, PlanInv, AnswerInv, Asking, AnswersStand
    <2>. QED
      BY <1>2, <2>1, <2>2
  <1>3. I /\ GuardInv /\ [Next]_vars => I'
    BY <1>2
  <1>. QED
    BY <1>1, <1>3, GuardCounts, PTL DEF Spec

(* Every variable has its type: the dialogue never builds, changes or asks *)
(* about what is not a draft, a specification or a name of one.            *)
THEOREM TypeCorrect == Spec => []TypeOK
  <1>1. TalkInv /\ guard \in Guard!Guards => TypeOK
    BY DEF TalkInv, StateOK, TypeOK
  <1>. QED
    BY <1>1, DialogueHolds, PTL

(* The target the user has chosen for a service stays its only one of that *)
(* kind, whatever is asked and answered after that.                        *)
THEOREM ChoicesStand == Spec => []AnswersStand
  <1>1. TalkInv => AnswersStand
    BY DEF TalkInv
  <1>. QED
    BY <1>1, DialogueHolds, PTL

(* A plan has unique names, nothing that waits for each other in a circle, *)
(* and every proxy and backend has the one target it needs.                *)
THEOREM PlanSound == Spec => []PlannedIsSound
  <1>1. TalkInv => PlannedIsSound
    BY Sound DEF TalkInv
  <1>. QED
    BY <1>1, DialogueHolds, PTL

(* Types, counters, plans and answers together: what a dialogue keeps.     *)
THEOREM DialogueCorrect == Spec => []DialogueInv
  <1>1. TalkInv /\ guard \in Guard!Guards /\ GuardInv => DialogueInv
    BY DEF TalkInv, StateOK, TypeOK, DialogueInv
  <1>. QED
    BY <1>1, DialogueHolds, GuardCounts, PTL
=============================================================================
