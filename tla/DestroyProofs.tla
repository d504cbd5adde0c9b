--------------------------- MODULE DestroyProofs ---------------------------
(***************************************************************************)
(* The theorems about Destroy, for any projects, objects, names, prefixes  *)
(* and bounds.                                                             *)
(*                                                                         *)
(* What a command has accounted for (Covered) is preserved by each removal *)
(* because a removal takes an object from todo only if it is gone or goes  *)
(* to errors; what was deployed stays in sight (Owned) because the state   *)
(* is cleared only after what is left was told.                            *)
(***************************************************************************)
EXTENDS Destroy, TLAPS

(* Where a command is and what its variables hold there.                   *)
Shape ==
  /\ pc # "containers" => stopped = {}
  /\ pc \in {"idle", "list", "verify", "clear"} => todo = {}
  /\ pc = "prompt" /\ kind = "destroy" => todo = {}
  /\ pc \in {"prompt", "verify", "clear"} => kind # "cleanup"
  /\ pc = "verify" => kind = "destroy"
  /\ kind = "cleanup" => ~withVolumes
  /\ \A o \in todo : o \in Named /\ Wanted(o)
  /\ pc # "idle" => outcome = "none"
  /\ pc # "idle" /\ kind = "destroy-all" => saved = on

Listed ==
  \/ pc \in {"containers", "others", "clear"}
  \/ pc = "prompt" /\ kind = "destroy-all"

(* The cleanup has not listed the networks before it turns to them.        *)
Unlisted(o) == kind = "cleanup" /\ pc = "containers" /\ o \in Networks

(* What is to go and still there is in one of the command's sets.          *)
Covered ==
  /\ Listed => \A o \in Named : Wanted(o) /\ Present(o) =>
                 o \in todo \cup errors \cup fresh \/ Unlisted(o)
  /\ Accounted

(* What is deployed is there, is removable, is not what others created     *)
(* meanwhile, and is told of before its snapshot is cleared.               *)
Owned ==
  /\ \A o \in mine : Present(o) /\ o \notin Protected
  /\ pc # "idle" => mine \cap fresh = {}
  /\ pc = "clear" => mine \cap Named \subseteq known
  /\ NoSilentOrphans

Inv == TypeOK /\ Shape /\ Covered /\ Owned

-----------------------------------------------------------------------------

LEMMA InitInv == Init => Inv
<1> SUFFICES ASSUME Init PROVE Inv
  OBVIOUS
<1> USE DestroyAssumption
<1>1. mine \subseteq Objects /\ \A o \in mine : \E p \in saved : o \in Desired[p]
  BY DEF Init
<1>2. docker \in [Objects -> {"absent", "up", "down"}]
  BY DEF Init
<1>3. commands \in 0..MaxCommands /\ faults \in 0..MaxFaults /\ outside \in 0..MaxOutside
  BY DEF Init
<1>4. TypeOK
  BY <1>1, <1>2, <1>3 DEF Init, TypeOK
<1>5. Shape
  BY DEF Init, Shape
<1>6. Covered
  BY DEF Init, Covered, Listed, Accounted
<1>7. Owned
  BY <1>1 DEF Init, Owned, NoSilentOrphans, Present
<1> QED
  BY <1>4, <1>5, <1>6, <1>7 DEF Inv

-----------------------------------------------------------------------------
(* A call on o changes nothing else, never brings an object into being, and*)
(* what it fails to remove is among the errors afterwards.                 *)
LEMMA Call ==
  ASSUME TypeOK, NEW o \in Objects, NEW status \in {"absent", "down"},
         status = "down" => o \in Containers,
         Succeeds(o, status) \/ Throws(o, status)
  PROVE  /\ docker' \in [Objects -> {"absent", "up", "down"}]
         /\ faults' \in 0..MaxFaults
         /\ errors \subseteq errors' /\ errors' \subseteq Objects
         /\ \A x \in Objects \ {o} : docker'[x] = docker[x]
         /\ Present(o)' => Present(o)
         /\ Present(o)' /\ (status = "absent" \/ Throws(o, status)) => o \in errors'
         /\ docker' # docker => gate
         /\ mine' \subseteq mine
         /\ (\A x \in mine : Present(x)) => \A x \in mine' : Present(x)'
<1> USE DestroyAssumption DEF TypeOK, Present
<1>1. ASSUME gate, Applies(o), Execute(o, status)
      PROVE  /\ docker' \in [Objects -> {"absent", "up", "down"}]
             /\ \A x \in Objects \ {o} : docker'[x] = docker[x]
             /\ docker'[o] = status
             /\ Present(o)' => Present(o)
             /\ mine' \subseteq mine
             /\ (\A x \in mine : Present(x)) => \A x \in mine' : Present(x)'
  BY <1>1 DEF Execute, Applies
<1>2. CASE Succeeds(o, status) /\ ~Throws(o, status)
  BY <1>1, <1>2 DEF Succeeds
<1>3. CASE Throws(o, status)
  <2>1. CASE ~Applies(o) /\ UNCHANGED world /\ Note(o)
    BY <2>1 DEF Note, world
  <2>2. CASE /\ faults < MaxFaults /\ faults' = faults + 1
             /\ UNCHANGED <<docker, mine>> /\ errors' = errors \cup {o}
    BY <2>2
  <2>3. CASE /\ faults < MaxFaults /\ faults' = faults + 1
             /\ gate /\ Applies(o) /\ Execute(o, status) /\ errors' = errors \cup {o}
    <3>1. faults' \in 0..MaxFaults
      BY <2>3
    <3>2. QED
      BY <1>1, <2>3, <3>1
  <2>4. QED
    BY <1>3, <2>1, <2>2, <2>3 DEF Throws
<1>4. QED
  BY <1>2, <1>3

LEMMA TypeStep == TypeOK /\ Shape /\ [Next]_vars => TypeOK'
<1> SUFFICES ASSUME TypeOK, Shape, [Next]_vars PROVE TypeOK'
  OBVIOUS
<1> USE DestroyAssumption
<1> DEFINE Bounded == /\ docker \in [Objects -> {"absent", "up", "down"}]
                      /\ commands \in 0..MaxCommands /\ faults \in 0..MaxFaults
                      /\ outside \in 0..MaxOutside
<1>b. Bounded'
  <2>0. Bounded
    BY DEF TypeOK
  <2>1. CASE UNCHANGED world /\ UNCHANGED others
    BY <2>0, <2>1 DEF world, others
  <2>2. CASE Fault /\ UNCHANGED others
    BY <2>0, <2>2 DEF Fault, others
  <2>3. ASSUME NEW o \in Objects, NEW status \in {"absent", "down"},
               status = "down" => o \in Containers,
               Succeeds(o, status) \/ Throws(o, status), UNCHANGED others
        PROVE  Bounded'
    BY <2>0, <2>3, Call DEF others
  <2>4. CASE \E k \in {"destroy", "destroy-all", "cleanup"}, ps \in SUBSET Projects,
               v \in BOOLEAN : Begin(k, ps, v)
    BY <2>0, <2>4 DEF Begin, world
  <2>5. CASE Approve \/ Reject \/ List \/ TurnToOthers \/ Tried \/ Verify \/ Clear \/ Die
    BY <2>1, <2>2, <2>5 DEF Approve, Reject, List, TurnToOthers, Tried, Verify, Clear,
       Die, End, world, others
  <2>6. CASE Stop \/ Remove \/ RemoveOther
    BY <2>3, <2>6 DEF Stop, Remove, RemoveOther, TypeOK, Objects
  <2>7. CASE Outside
    BY <2>0, <2>7 DEF Outside, Execute
  <2>8. CASE \E p \in Projects : Redeploy(p)
    BY <2>0, <2>8 DEF Redeploy
  <2>9. CASE UNCHANGED vars
    BY <2>1, <2>9 DEF vars, world, others
  <2> QED
    BY <2>4, <2>5, <2>6, <2>7, <2>8, <2>9 DEF Next, Command
<1> HIDE DEF Bounded
<1>t. Targets \subseteq Objects /\ StillPresent \subseteq Objects
  BY DEF Targets, StillPresent, Named
<1>f. ASSUME NEW result \in {"error", "nothing"}, UNCHANGED world \/ Fault, End(result),
             UNCHANGED <<errors, saved, known>>, UNCHANGED fresh \/ fresh' = {}
      PROVE  TypeOK'
  BY <1>f, <1>b DEF End, Fault, TypeOK, Bounded, job, world, others
<1>1. ASSUME NEW k \in {"destroy", "destroy-all", "cleanup"}, NEW ps \in SUBSET Projects,
             NEW v \in BOOLEAN, Begin(k, ps, v)
      PROVE  TypeOK'
  BY <1>1, <1>b DEF Begin, TypeOK, world, Bounded
<1>2. CASE Approve
  BY <1>2, <1>b DEF Approve, TypeOK, Bounded, Shape, vars, job, world, work, others
<1>3. CASE Reject
  BY <1>3, <1>b DEF Reject, End, TypeOK, Bounded, job, world, others
<1>4. CASE List
  <2>1. CASE End("nothing") \/ (Fault /\ End("error"))
    BY <1>4, <2>1, <1>f DEF List, Fault
  <2>2. CASE ~End("nothing") /\ ~(Fault /\ End("error"))
    BY <1>4, <2>2, <1>b, <1>t DEF List, TypeOK, Bounded, Shape, job, world, others
  <2>3. QED
    BY <2>1, <2>2
<1>5. CASE Stop
  BY <1>5, <1>b, Call DEF Stop, TypeOK, Bounded, job, others, Objects
<1>6. CASE Remove
  BY <1>6, <1>b, Call DEF Remove, TypeOK, Bounded, job, others, Objects
<1>7. CASE TurnToOthers
  <2>1. CASE Fault /\ End("error")
    BY <1>7, <2>1, <1>f DEF TurnToOthers, End
  <2>2. CASE ~(Fault /\ End("error"))
    BY <1>7, <2>2, <1>b, <1>t DEF TurnToOthers, TypeOK, Bounded, job, world, others
  <2>3. QED
    BY <2>1, <2>2
<1>8. CASE RemoveOther
  BY <1>8, <1>b, Call DEF RemoveOther, TypeOK, Bounded, Shape, job, others
<1>9. CASE Tried
  BY <1>9, <1>b DEF Tried, Tell, Result, End, TypeOK, Bounded, Shape, job, world, others, Objects
<1>10. CASE Verify
  <2>1. CASE Fault /\ End("error")
    BY <1>10, <2>1, <1>f DEF Verify, End
  <2>2. CASE ~(Fault /\ End("error"))
    <3>1. errors' \subseteq Objects /\ known' \subseteq Objects
      BY <1>10, <2>2, <1>t DEF Verify, Tell, TypeOK, Objects
    <3>2. QED
      BY <1>10, <2>2, <3>1, <1>b DEF Verify, TypeOK, Bounded, Shape, job, world, others
  <2>3. QED
    BY <2>1, <2>2
<1>11. CASE Clear
  BY <1>11, <1>b DEF Clear, SavedAfter, Result, End, Fault, TypeOK, Bounded, Shape, job, world, others
<1>12. CASE Die
  BY <1>12, <1>b DEF Die, End, TypeOK, Bounded, job, world, others
<1>13. CASE Outside
  BY <1>13, <1>b DEF Outside, Execute, TypeOK, Bounded, job, work
<1>14. ASSUME NEW p \in Projects, Redeploy(p) PROVE TypeOK'
  BY <1>14, <1>b DEF Redeploy, TypeOK, Bounded, job, work
<1>15. CASE UNCHANGED vars
  BY <1>15 DEF vars, job, world, work, others, TypeOK
<1> QED
  BY <1>1, <1>2, <1>3, <1>4, <1>5, <1>6, <1>7, <1>8, <1>9, <1>10, <1>11, <1>12, <1>13,
     <1>14, <1>15 DEF Next, Command

LEMMA ShapeStep == TypeOK /\ Shape /\ [Next]_vars => Shape'
<1> SUFFICES ASSUME TypeOK, Shape, [Next]_vars PROVE Shape'
  OBVIOUS
<1>e. ASSUME NEW result, End(result) PROVE Shape'
  BY <1>e DEF End, Shape, job
<1>1. ASSUME NEW k \in {"destroy", "destroy-all", "cleanup"}, NEW ps \in SUBSET Projects,
             NEW v \in BOOLEAN, Begin(k, ps, v)
      PROVE  Shape'
  BY <1>1 DEF Begin, Shape, TypeOK, world
<1>2. CASE Approve
  BY <1>2 DEF Approve, TypeOK, Shape, job, work, Named, Wanted
<1>3. CASE List /\ pc' # "idle"
  BY <1>3 DEF List, End, Shape, Targets, Named, Wanted, job
<1>4. CASE Stop
  <2>1. stopped = {} /\ todo' \subseteq todo /\ pc = "containers" /\ pc' = pc
    BY <1>4 DEF Stop
  <2>2. QED
    BY <1>4, <2>1 DEF Stop, Shape, Named, Wanted, job
<1>5. CASE Remove
  <2>1. stopped' = {} /\ todo' \subseteq todo /\ pc = "containers" /\ pc' = pc
    BY <1>5 DEF Remove
  <2>2. QED
    BY <1>5, <2>1 DEF Remove, Shape, Named, Wanted, job
<1>6. CASE TurnToOthers /\ pc' # "idle"
  <2>1. stopped = {}
    BY <1>6 DEF TurnToOthers, TypeOK
  <2>2. QED
    BY <1>6, <2>1 DEF TurnToOthers, End, Shape, Targets, Named, Wanted, job
<1>7. CASE RemoveOther
  <2>1. todo' \subseteq todo /\ pc = "others" /\ pc' = pc
    BY <1>7 DEF RemoveOther
  <2>2. QED
    BY <1>7, <2>1 DEF RemoveOther, Shape, Named, Wanted, job
<1>8. CASE Tried /\ pc' # "idle"
  BY <1>8 DEF Tried, End, Shape, TypeOK, Named, Wanted, job
<1>9. CASE Verify /\ pc' # "idle"
  BY <1>9 DEF Verify, End, Shape, Named, Wanted, job
<1>10. CASE Outside
  BY <1>10 DEF Outside, Shape, Named, Wanted, job, work
<1>11. ASSUME NEW p \in Projects, Redeploy(p) PROVE Shape'
  BY <1>11 DEF Redeploy, Shape, Named, Wanted, job, work
<1>12. CASE UNCHANGED vars
  BY <1>12 DEF vars, job, work, Shape, Named, Wanted
<1>13. CASE Reject \/ Clear \/ Die
  BY <1>13, <1>e DEF Reject, Clear, Die
<1>14. CASE (List \/ TurnToOthers \/ Tried \/ Verify) /\ pc' = "idle"
  BY <1>14, <1>e DEF List, TurnToOthers, Tried, Verify
<1> QED
  BY <1>1, <1>2, <1>3, <1>4, <1>5, <1>6, <1>7, <1>8, <1>9, <1>10, <1>11, <1>12, <1>13,
     <1>14 DEF Next, Command

-----------------------------------------------------------------------------

(* A removal takes o from todo only if o is gone or among the errors.      *)
LEMMA CoveredCall ==
  ASSUME TypeOK, Shape, Covered, Listed, pc' = pc, pc # "idle",
         UNCHANGED <<job, fresh, outcome>>,
         NEW o \in Objects, NEW status \in {"absent", "down"},
         status = "down" => o \in Containers,
         Succeeds(o, status) \/ Throws(o, status),
         todo' = todo \/ (todo' = todo \ {o} /\ (status = "absent" \/ Throws(o, status)))
  PROVE  Covered'
<1>1. /\ errors \subseteq errors'
      /\ \A x \in Objects : Present(x)' => Present(x)
      /\ Present(o)' /\ o \notin todo' /\ o \in todo => o \in errors'
  BY Call DEF Present
<1>2. Listed' /\ Named' = Named /\ \A x : (Wanted(x)' <=> Wanted(x)) /\ (Unlisted(x)' <=> Unlisted(x))
  BY DEF Listed, Named, Wanted, Unlisted, job
<1>3. Accounted'
  BY DEF Shape, Accounted
<1>4. ASSUME NEW x \in Named, Wanted(x), Present(x)'
      PROVE  x \in todo' \cup errors' \cup fresh' \/ Unlisted(x)
  <2>1. x \in Objects /\ Present(x)
    BY <1>1, <1>4 DEF Named
  <2>2. x \in todo \cup errors \cup fresh \/ Unlisted(x)
    BY <1>4, <2>1 DEF Covered
  <2>3. QED
    BY <1>1, <1>4, <2>2
<1>5. QED
  BY <1>2, <1>3, <1>4 DEF Covered

LEMMA CoveredStep == TypeOK /\ Shape /\ Covered /\ [Next]_vars => Covered'
<1> SUFFICES ASSUME TypeOK, Shape, Covered, [Next]_vars PROVE Covered'
  OBVIOUS
<1> USE DestroyAssumption
<1>e. ASSUME NEW result \in {"rejected", "nothing", "error", "died"}, End(result)
      PROVE  Covered'
  BY <1>e DEF End, Covered, Listed, Accounted
<1>r. ASSUME End(Result), UNCHANGED world, UNCHANGED <<errors, fresh>>,
             Listed, todo = {}, pc # "containers"
      PROVE  Covered'
  <2>1. Named' = Named /\ \A o : (Wanted(o)' <=> Wanted(o)) /\ (Present(o)' <=> Present(o))
    BY <1>r DEF End, Named, Wanted, Present, job, world
  <2>2. \A o \in Named : Wanted(o) /\ Present(o) => o \in errors \cup fresh
    BY <1>r DEF Covered, Unlisted
  <2>3. QED
    BY <1>r, <2>1, <2>2 DEF End, Result, Covered, Listed, Accounted
<1>1. ASSUME NEW k \in {"destroy", "destroy-all", "cleanup"}, NEW ps \in SUBSET Projects,
             NEW v \in BOOLEAN, Begin(k, ps, v)
      PROVE  Covered'
  BY <1>1 DEF Begin, Covered, Listed, Accounted
<1>2. CASE Approve
  <2>1. Named' = Named /\ \A o : (Wanted(o)' <=> Wanted(o)) /\ (Present(o)' <=> Present(o))
    BY <1>2 DEF Approve, Named, Wanted, Present, job, world
  <2>2. Accounted'
    BY <1>2 DEF Approve, Shape, Accounted
  <2>3. Listed' => /\ Listed /\ UNCHANGED <<todo, errors, fresh>>
                   /\ \A o : ~Unlisted(o)
    <3>1. kind \in {"destroy", "destroy-all"} /\ pc = "prompt"
      BY <1>2 DEF Approve, TypeOK, Shape
    <3>2. Listed' => kind = "destroy-all"
      BY <1>2, <3>1 DEF Approve, Listed
    <3>3. QED
      BY <1>2, <3>1, <3>2 DEF Approve, Listed, Unlisted, work
  <2>4. QED
    BY <2>1, <2>2, <2>3 DEF Covered
<1>3. CASE List /\ pc' # "idle"
  <2>1. Named' = Named /\ \A o : (Wanted(o)' <=> Wanted(o)) /\ (Present(o)' <=> Present(o))
    BY <1>3 DEF List, End, Named, Wanted, Present, job, world
  <2>2. \A o \in Named : Wanted(o) /\ Present(o) => o \in todo' \/ Unlisted(o)'
    BY <1>3 DEF List, End, Targets, Unlisted, Named, Objects, Wanted, Shape, job
  <2>3. outcome' = "none"
    BY <1>3 DEF List, End, Shape
  <2>4. QED
    BY <2>1, <2>2, <2>3 DEF Covered, Accounted
<1>4. CASE Stop
  <2>1. PICK c \in todo \cap Containers :
           \/ Succeeds(c, "down") /\ todo' = todo
           \/ Throws(c, "down") /\ todo' = todo \ {c}
    BY <1>4 DEF Stop
  <2>2. QED
    BY <1>4, <2>1, CoveredCall DEF Stop, Listed, Objects
<1>5. CASE Remove
  <2>1. PICK c \in stopped : /\ Succeeds(c, "absent") \/ Throws(c, "absent")
                            /\ todo' = todo \ {c}
    BY <1>5 DEF Remove
  <2>2. c \in Objects
    BY DEF TypeOK
  <2>3. QED
    BY <1>5, <2>1, <2>2, CoveredCall DEF Remove, Listed
<1>6. CASE TurnToOthers /\ pc' # "idle"
  <2>1. Named' = Named /\ \A o : (Wanted(o)' <=> Wanted(o)) /\ (Present(o)' <=> Present(o))
    BY <1>6 DEF TurnToOthers, End, Named, Wanted, Present, job, world
  <2>2. outcome' = "none" /\ errors' = errors
    BY <1>6 DEF TurnToOthers, End, Shape
  <2>3. ASSUME NEW o \in Named, Wanted(o), Present(o)
        PROVE  o \in todo' \cup errors \cup fresh'
    <3>1. o \in todo \cup errors \cup fresh \/ Unlisted(o)
      BY <1>6, <2>3 DEF TurnToOthers, Covered, Listed
    <3>2. CASE kind # "cleanup"
      BY <1>6, <3>1, <3>2 DEF TurnToOthers, End, Unlisted
    <3>3. CASE kind = "cleanup" /\ o \in Networks
      BY <1>6, <2>3, <3>3 DEF TurnToOthers, End, Targets, Named
    <3>4. CASE kind = "cleanup" /\ o \in Containers
      BY <1>6, <3>1, <3>4 DEF TurnToOthers, End, Unlisted
    <3>5. QED
      BY <2>3, <3>2, <3>3, <3>4 DEF Named, Objects, Wanted, Shape
  <2>4. QED
    BY <2>1, <2>2, <2>3 DEF Covered, Accounted
<1>7. CASE RemoveOther
  <2>1. PICK o \in todo : /\ Succeeds(o, "absent") \/ Throws(o, "absent")
                         /\ todo' = todo \ {o}
    BY <1>7 DEF RemoveOther
  <2>2. o \in Objects
    BY DEF TypeOK
  <2>3. QED
    BY <1>7, <2>1, <2>2, CoveredCall DEF RemoveOther, Listed
<1>8. CASE Tried
  <2>1. CASE kind = "cleanup" /\ End(Result)
    BY <1>8, <1>r, <2>1 DEF Tried, Listed
  <2>2. CASE ~(kind = "cleanup" /\ End(Result))
    <3>1. Named' = Named /\ \A o : (Wanted(o)' <=> Wanted(o)) /\ (Present(o)' <=> Present(o))
      BY <1>8, <2>2 DEF Tried, Named, Wanted, Present, job, world
    <3>2. QED
      BY <1>8, <2>2, <3>1 DEF Tried, Shape, Covered, Listed, Accounted, Unlisted, job
  <2>3. QED
    BY <2>1, <2>2
<1>9. CASE Verify /\ pc' # "idle"
  <2>1. Named' = Named /\ \A o : (Wanted(o)' <=> Wanted(o)) /\ (Present(o)' <=> Present(o))
    BY <1>9 DEF Verify, End, Named, Wanted, Present, job, world
  <2>2. \A o \in Named : Wanted(o) /\ Present(o) => o \in errors'
    BY <1>9 DEF Verify, End, StillPresent
  <2>3. QED
    BY <1>9, <2>1, <2>2 DEF Verify, End, Shape, Covered, Accounted
<1>10. CASE Clear /\ ~End("error")
  BY <1>10, <1>r DEF Clear, Listed, Shape
<1>11. CASE Outside
  <2>1. Named' = Named /\ \A o : (Wanted(o)' <=> Wanted(o)) /\ (Unlisted(o)' <=> Unlisted(o))
    BY <1>11 DEF Outside, Named, Wanted, Unlisted, job
  <2>2. \A o \in Named : Present(o)' => Present(o) \/ o \in fresh'
    BY <1>11 DEF Outside, Execute, Named, Present, TypeOK
  <2>3. fresh \subseteq fresh' /\ UNCHANGED <<todo, errors, outcome>> /\ Listed' = Listed
    BY <1>11 DEF Outside, work, job, Listed
  <2>4. QED
    BY <2>1, <2>2, <2>3 DEF Covered, Accounted
<1>12. ASSUME NEW p \in Projects, Redeploy(p) PROVE Covered'
  <2>1. Named' = Named /\ \A o : Wanted(o)' <=> Wanted(o)
    BY <1>12 DEF Redeploy, Named, Wanted, job
  <2>2. \A o \in Named : Present(o)' => Present(o) \/ o \in fresh'
    BY <1>12 DEF Redeploy, Named, Present
  <2>3. fresh \subseteq fresh' /\ UNCHANGED <<errors, outcome>> /\ ~Listed'
    BY <1>12 DEF Redeploy, work, Listed
  <2>4. QED
    BY <2>1, <2>2, <2>3 DEF Covered, Accounted
<1>13. CASE UNCHANGED vars
  <2>1. Named' = Named /\ \A o : (Wanted(o)' <=> Wanted(o)) /\ (Present(o)' <=> Present(o))
    BY <1>13 DEF vars, Named, Wanted, Present, job, world
  <2>2. QED
    BY <1>13, <2>1 DEF vars, job, work, Covered, Listed, Accounted, Unlisted
<1>14. CASE Reject \/ Die \/ (Clear /\ End("error"))
  BY <1>14, <1>e DEF Reject, Die
<1>15. CASE (List \/ TurnToOthers \/ Verify) /\ pc' = "idle"
  BY <1>15, <1>e DEF List, TurnToOthers, Verify
<1> QED
  BY <1>1, <1>2, <1>3, <1>4, <1>5, <1>6, <1>7, <1>8, <1>9, <1>10, <1>11, <1>12, <1>13,
     <1>14, <1>15 DEF Next, Command

LEMMA OwnedStep == TypeOK /\ Shape /\ Covered /\ Owned /\ [Next]_vars => Owned'
<1> SUFFICES ASSUME TypeOK, Shape, Covered, Owned, [Next]_vars PROVE Owned'
  OBVIOUS
<1> USE DestroyAssumption
<1> DEFINE There == \A o \in mine : Present(o) /\ o \notin Protected
<1>e. ASSUME NEW result, End(result), UNCHANGED <<saved, known, mine, docker>>
      PROVE  Owned'
  BY <1>e DEF End, Owned, Present, NoSilentOrphans
<1>k. ASSUME UNCHANGED <<job, mine, docker, saved>>, fresh' \subseteq fresh,
             known \subseteq known', pc # "idle", pc' = "clear" => mine \cap Named \subseteq known'
      PROVE  Owned'
  <2>1. Named' = Named
    BY <1>k DEF Named, job
  <2>2. QED
    BY <1>k, <2>1 DEF Owned, Present, NoSilentOrphans
<1>c. ASSUME NEW o \in Objects, NEW status \in {"absent", "down"},
             status = "down" => o \in Containers,
             Succeeds(o, status) \/ Throws(o, status),
             UNCHANGED <<saved, known, fresh>>, pc # "idle", pc' # "clear"
      PROVE  Owned'
  BY <1>c, Call DEF Owned, NoSilentOrphans
<1>t. ASSUME NEW S, Tell(S), \A o \in mine \cap Named : Wanted(o) => o \in S
      PROVE  mine \cap Named \subseteq known' /\ known \subseteq known'
  BY <1>t DEF Tell, Owned, Wanted
<1>1. ASSUME NEW k \in {"destroy", "destroy-all", "cleanup"}, NEW ps \in SUBSET Projects,
             NEW v \in BOOLEAN, Begin(k, ps, v)
      PROVE  Owned'
  BY <1>1 DEF Begin, Owned, Present, NoSilentOrphans, world
<1>2. CASE Approve
  BY <1>2, <1>k DEF Approve, world
<1>3. CASE List /\ pc' # "idle"
  BY <1>3, <1>k DEF List, End, world, job, Owned
<1>4. CASE Stop
  BY <1>4, <1>c DEF Stop, Objects
<1>5. CASE Remove
  BY <1>5, <1>c DEF Remove, TypeOK
<1>6. CASE TurnToOthers /\ pc' # "idle"
  BY <1>6, <1>k DEF TurnToOthers, End, world, job
<1>7. CASE RemoveOther
  BY <1>7, <1>c DEF RemoveOther, TypeOK
<1>8. CASE Tried /\ pc' # "idle"
  <2>1. pc' = "clear" => Tell(errors)
    BY <1>8 DEF Tried, End
  <2>2. \A o \in mine \cap Named : Wanted(o) => o \in errors
    BY <1>8 DEF Tried, Covered, Listed, Unlisted, Owned
  <2>3. known \subseteq known'
    BY <1>8, <2>1, <2>2, <1>t DEF Tried, End
  <2>4. QED
    BY <1>8, <1>k, <1>t, <2>1, <2>2, <2>3 DEF Tried, End, world, job
<1>9. CASE Verify /\ pc' # "idle"
  <2>1. \A o \in mine \cap Named : Wanted(o) => o \in errors'
    BY <1>9 DEF Verify, End, StillPresent, Owned
  <2>2. mine \cap Named \subseteq known' /\ known \subseteq known'
    BY <1>9, <1>t, <2>1 DEF Verify, End
  <2>3. QED
    BY <1>9, <1>k, <2>2 DEF Verify, End, world, job, Owned
<1>10. CASE Clear
  <2>1. ASSUME NEW o \in mine, NEW p \in saved, o \in Prefixed[p], o \notin known,
               saved' = SavedAfter
        PROVE  \E q \in saved' : o \in Prefixed[q]
    <3>1. o \notin Named /\ o \in Objects
      BY <1>10, <2>1 DEF Clear, Owned, TypeOK
    <3>2. p \notin on
      BY <2>1, <3>1 DEF Named
    <3>3. kind = "destroy"
      BY <1>10, <3>2 DEF Clear, Shape, TypeOK
    <3>4. QED
      BY <2>1, <3>2, <3>3 DEF SavedAfter
  <2>2. NoSilentOrphans'
    BY <1>10, <2>1 DEF Clear, Fault, End, world, Owned, NoSilentOrphans
  <2>3. QED
    BY <1>10, <2>2 DEF Clear, Fault, End, world, Owned, Present
<1>11. CASE Outside
  <2>1. PICK o \in Objects, status \in {"absent", "up", "down"} :
          Execute(o, status) /\ fresh' = IF Present(o) THEN fresh ELSE fresh \cup {o}
    BY <1>11 DEF Outside
  <2>2. mine' \subseteq mine /\ \A x \in mine' : Present(x)'
    BY <2>1 DEF Execute, Owned, Present, TypeOK
  <2>3. Named' = Named /\ UNCHANGED <<pc, saved, known>>
    BY <1>11 DEF Outside, Named, job
  <2>4. QED
    BY <2>1, <2>2, <2>3 DEF Owned, NoSilentOrphans
<1>12. ASSUME NEW p \in Projects, Redeploy(p) PROVE Owned'
  <2>1. \A o \in mine' : Present(o)' /\ o \notin Protected
    BY <1>12 DEF Redeploy, Owned, Present, TypeOK
  <2>2. NoSilentOrphans'
    <3> SUFFICES ASSUME NEW o \in mine'
                 PROVE  o \in known' \/ \E q \in saved' : o \in Prefixed[q]
      BY DEF NoSilentOrphans
    <3>1. CASE o \in Desired[p]
      BY <1>12, <3>1 DEF Redeploy
    <3>2. CASE o \notin Desired[p]
      BY <1>12, <3>2 DEF Redeploy, Owned, NoSilentOrphans
    <3> QED
      BY <3>1, <3>2
  <2>3. QED
    BY <1>12, <2>1, <2>2 DEF Redeploy, Owned
<1>13. CASE UNCHANGED vars
  BY <1>13 DEF vars, job, world, Owned, Present, NoSilentOrphans, Named
<1>14. CASE Reject \/ Die
  BY <1>14, <1>e DEF Reject, Die, world
<1>15. CASE (List \/ TurnToOthers \/ Tried \/ Verify) /\ pc' = "idle"
  BY <1>15, <1>e DEF List, TurnToOthers, Tried, Verify, Fault, world
<1> QED
  BY <1>1, <1>2, <1>3, <1>4, <1>5, <1>6, <1>7, <1>8, <1>9, <1>10, <1>11, <1>12, <1>13,
     <1>14, <1>15 DEF Next, Command

LEMMA Inductive == Spec => []Inv
<1>1. Inv /\ [Next]_vars => Inv'
  BY TypeStep, ShapeStep, CoveredStep, OwnedStep DEF Inv
<1>2. QED
  BY InitInv, <1>1, PTL DEF Spec

-----------------------------------------------------------------------------
(* The types; and mutations are allowed exactly while a command removes.   *)
THEOREM TypeCorrect == Spec => []TypeOK
<1>1. Inv => TypeOK
  BY DEF Inv
<1>2. QED
  BY Inductive, <1>1, PTL

(* The report of destroy, destroy-all and the attempt cleanup is complete. *)
THEOREM ReportComplete == Spec => []Accounted
<1>1. Inv => Accounted
  BY DEF Inv, Covered
<1>2. QED
  BY Inductive, <1>1, PTL

(* What was deployed stays in sight when the saved state is cleared, even  *)
(* if its removal failed, at whatever point a command throws or is killed. *)
THEOREM NothingLost == Spec => []NoSilentOrphans
<1>1. Inv => NoSilentOrphans
  BY DEF Inv, Owned
<1>2. QED
  BY Inductive, <1>1, PTL

(* Commands touch only unprotected objects with a prefix of theirs, while  *)
(* mutations are allowed, and volumes only with --remove-volumes.          *)
THEOREM OnlyNamed == Spec => Untouched
<1> DEFINE A == \A o \in Objects :
                  docker'[o] # docker[o] /\ UNCHANGED others =>
                    gate /\ Wanted(o) /\ o \in Named
<1>1. Inv /\ [Next]_vars => [A]_vars
  <2> SUFFICES ASSUME TypeOK, Shape, Next, NEW o \in Objects, docker'[o] # docker[o],
                      UNCHANGED others
               PROVE  gate /\ Wanted(o) /\ o \in Named
    BY DEF Inv
  <2> USE DestroyAssumption
  <2>1. ~Outside /\ ~\E p \in Projects : Redeploy(p)
    BY DEF Outside, Redeploy, others, TypeOK
  <2>2. ~UNCHANGED docker
    OBVIOUS
  <2>3. PICK x \in todo, status \in {"absent", "down"} :
          (status = "down" => x \in Containers) /\ (Succeeds(x, status) \/ Throws(x, status))
    BY <2>1, <2>2 DEF Next, Command, Begin, Approve, Reject, List, Stop, Remove, TurnToOthers,
       RemoveOther, Tried, Verify, Clear, Die, Fault, world, TypeOK
  <2>4. x \in Objects
    BY DEF TypeOK
  <2>5. gate /\ x = o
    BY <2>2, <2>3, <2>4, Call
  <2>6. QED
    BY <2>5 DEF Shape
<1>2. QED
  BY Inductive, <1>1, PTL DEF Spec, Untouched

=============================================================================
