---------------------------- MODULE DeployProofs ----------------------------
(***************************************************************************)
(* Proofs about Deploy for every specification and every number of faults  *)
(* and outside actions.  The argument: the two outcomes of a call touch    *)
(* only the object they name (lemmas CallSucceeds and CallThrows), so the  *)
(* invariant IInv is a matter of which objects the engine names.           *)
(* On top of IInv stand OrderInv, KindInv, UpInv and OwnedInv, each proved  *)
(* with it, and the refinement of Saga.                                    *)
(***************************************************************************)
EXTENDS Deploy, TLAPS

WorldOK ==
  /\ docker \in [Objects -> Status]
  /\ owner \in [Objects -> Owner]
  /\ late \subseteq Ops \X Objects
  /\ unanswered \subseteq Objects
  /\ faults \in 0..MaxFaults

EngineOK ==
  /\ pc \in {"idle"} \cup Working \cup Undoing \cup Ended
  /\ gate \in BOOLEAN
  /\ seen \in [Objects -> Status]
  /\ todo \subseteq Objects \cup Images
  /\ created \subseteq Objects
  /\ attempted \subseteq Desired
  /\ started \subseteq Desired
  /\ cleaned \subseteq Objects
  /\ leftovers \subseteq Objects
  /\ tries \in 1..MaxPullAttempts

OthersOK ==
  /\ first \in [Objects -> Status]
  /\ touched \subseteq Objects
  /\ outside \in 0..MaxOutside

LEMMA TypeParts == TypeOK <=> WorldOK /\ EngineOK /\ OthersOK
  BY DEF TypeOK, WorldOK, EngineOK, OthersOK

(* Whatever a request does, it does to its own object.                     *)
LEMMA ExecuteEffect ==
  ASSUME docker \in [Objects -> Status], owner \in [Objects -> Owner],
         NEW op \in Ops, NEW o \in Objects, NEW who \in Owner \ {"nobody"},
         \A x \in Objects : owner[x] = "nobody" <=> docker[x] = "absent",
         Applies(op, o), Execute(op, o, who)
  PROVE  /\ docker' \in [Objects -> Status]
         /\ owner' \in [Objects -> Owner]
         /\ \A x \in Objects : owner'[x] = "nobody" <=> docker'[x] = "absent"
         /\ \A x \in Objects \ {o} : docker'[x] = docker[x] /\ owner'[x] = owner[x]
         /\ docker'[o] = "absent" <=> op = "remove"
  <1>1. /\ After(op, o) \in Status
        /\ After(op, o) = "absent" <=> op = "remove"
    BY DEF After, Applies, Status, Ops
  <1>2. /\ OwnerAfter(op, o, who) \in Owner
        /\ OwnerAfter(op, o, who) = "nobody" <=> op = "remove"
    BY DEF OwnerAfter, Applies, Owner, Ops
  <1>. QED
    BY <1>1, <1>2 DEF Execute

(* A call that returns.                                                    *)
LEMMA CallSucceeds ==
  ASSUME WorldOK, NEW op \in Ops, NEW o \in Objects,
         \A x \in Objects : owner[x] = "nobody" <=> docker[x] = "absent",
         Succeeds(op, o)
  PROVE  /\ WorldOK'
         /\ \A x \in Objects : owner'[x] = "nobody" <=> docker'[x] = "absent"
         /\ \A x \in Objects \ {o} : docker'[x] = docker[x] /\ owner'[x] = owner[x]
         /\ docker'[o] = "absent" <=> op = "remove"
         /\ o \notin Volumes => (docker[o] = "absent" <=> op = "create")
         /\ docker[o] = "absent" /\ op # "create" => docker' = docker
         /\ late' = late
  <1>1. "attempt" \in Owner \ {"nobody"}
    BY DEF Owner
  <1>. QED
    BY <1>1, ExecuteEffect DEF Succeeds, WorldOK, Applies

(* A call that throws: its object may have changed, and its request may    *)
(* still be on its way, but not both.                                      *)
LEMMA CallThrows ==
  ASSUME WorldOK, NEW op \in Ops, NEW o \in Objects, MaxFaults \in Nat,
         \A x \in Objects : owner[x] = "nobody" <=> docker[x] = "absent",
         Throws(op, o)
  PROVE  /\ WorldOK'
         /\ \A x \in Objects : owner'[x] = "nobody" <=> docker'[x] = "absent"
         /\ \A x \in Objects \ {o} : docker'[x] = docker[x] /\ owner'[x] = owner[x]
         /\ late' \subseteq late \cup {<<op, o>>}
         /\ late' = late \/ (docker' = docker /\ owner' = owner)
         /\ docker[o] = "absent" /\ op # "create" => docker' = docker
  <1>1. "attempt" \in Owner \ {"nobody"}
    BY DEF Owner
  <1>2. faults' \in 0..MaxFaults /\ unanswered' \subseteq Objects
    BY DEF Throws, WorldOK
  <1>3. CASE UNCHANGED <<docker, owner, late>>
    BY <1>2, <1>3 DEF WorldOK
  <1>4. CASE Applies(op, o) /\ Execute(op, o, "attempt") /\ UNCHANGED late
    BY <1>1, <1>2, <1>4, ExecuteEffect DEF WorldOK, Applies
  <1>5. CASE /\ op = "create" /\ o \notin Volumes /\ Applies(op, o)
             /\ docker' = [docker EXCEPT ![o] = "created"]
             /\ owner'  = [owner  EXCEPT ![o] = "attempt"]
             /\ UNCHANGED late
    <2>1. docker[o] = "absent"
      BY <1>5 DEF Applies
    <2>. QED
      BY <1>2, <1>5, <2>1 DEF WorldOK, Status, Owner
  <1>6. CASE late' = late \cup {<<op, o>>} /\ UNCHANGED <<docker, owner>>
    BY <1>2, <1>6 DEF WorldOK
  <1>7. Containers \cap Volumes = {}
    BY DeployAssumption DEF DeployAssumption
  <1>. QED
    BY <1>3, <1>4, <1>5, <1>6, <1>7 DEF Throws

(* One call of the engine, whatever its outcome, keeps the daemon's part   *)
(* of the invariant, provided a container it names is in the journal by    *)
(* then and a creation names an object nobody has seen.                    *)
LEMMA CallKeepsDaemon ==
  ASSUME IInv, UNCHANGED others, NEW op \in Ops, NEW o \in Objects,
         Succeeds(op, o) \/ Throws(op, o),
         attempted' \in {attempted, attempted \cup {o}},
         attempted' \subseteq Desired,
         o \in Desired => o \in attempted',
         o \in touched \/ op # "create" \/ docker[o] = "absent",
         o \in touched \/ o \in attempted \/ o \notin attempted' \/ first[o] = "absent",
         op = "create" => late = {} /\ (o \in Volumes => o \notin created),
         created' = created \/ (op = "create" /\ Succeeds(op, o))
  PROVE  WorldOK' /\ DaemonInv'
  <1>0. WorldOK /\ MaxFaults \in Nat
    BY TypeParts, DeployAssumption DEF IInv, DeployAssumption
  <1>1. \A x \in Objects : owner[x] = "nobody" <=> docker[x] = "absent"
    BY DEF IInv, DaemonInv
  <1>2. /\ WorldOK'
        /\ \A x \in Objects : owner'[x] = "nobody" <=> docker'[x] = "absent"
        /\ \A x \in Objects \ {o} : docker'[x] = docker[x] /\ owner'[x] = owner[x]
        /\ late' \subseteq late \cup {<<op, o>>}
        /\ late' = late \/ (docker' = docker /\ owner' = owner)
        /\ docker[o] = "absent" /\ op # "create" => docker' = docker
    <2>1. CASE Succeeds(op, o)
      BY <1>0, <1>1, <2>1, CallSucceeds
    <2>2. CASE Throws(op, o)
      BY <1>0, <1>1, <2>2, CallThrows
    <2>. QED
      BY <2>1, <2>2
  <1>3. touched' = touched /\ first' = first
    BY DEF others
  <1>4. ASSUME NEW c \in Desired \ (touched' \cup attempted')
        PROVE  docker'[c] = first'[c] /\ owner'[c] # "attempt"
    BY <1>2, <1>3, <1>4 DEF IInv, DaemonInv, Objects, Containers
  <1>5. ASSUME NEW c \in attempted' \ touched'
        PROVE  first'[c] = "absent"
    BY <1>3, <1>5 DEF IInv, DaemonInv
  <1>6. ASSUME NEW p \in Ops, NEW c \in Desired, <<p, c>> \in late'
        PROVE  c \in attempted'
    BY <1>2, <1>6 DEF IInv, DaemonInv
  <1>7. ASSUME NEW x \in Objects \ touched', <<"create", x>> \in late'
        PROVE  docker'[x] = "absent"
    <2>1. CASE <<"create", x>> \in late
      <3>1. docker[x] = "absent" /\ op # "create"
        BY <1>3, <1>7, <2>1 DEF IInv, DaemonInv
      <3>. QED
        BY <1>2, <3>1
    <2>2. CASE <<"create", x>> \notin late
      <3>1. op = "create" /\ x = o /\ docker' = docker
        BY <1>2, <1>7, <2>2
      <3>. QED
        BY <1>3, <1>7, <3>1
    <2>. QED
      BY <2>1, <2>2
  <1>8. ASSUME NEW x \in Volumes, <<"create", x>> \in late'
        PROVE  x \notin created'
    <2>1. CASE created' = created
      BY <1>2, <1>8, <2>1 DEF IInv, DaemonInv
    <2>2. CASE op = "create" /\ Succeeds(op, o)
      BY <1>8, <2>2 DEF Succeeds
    <2>. QED
      BY <2>1, <2>2
  <1>. QED
    BY <1>2, <1>4, <1>5, <1>6, <1>7, <1>8 DEF DaemonInv

(* What was cleaned stays gone: the engine does not create during cleanup.  *)
LEMMA CallKeepsGone ==
  ASSUME IInv, UNCHANGED others, NEW op \in Ops, NEW o \in Objects,
         Succeeds(op, o) \/ Throws(op, o),
         op # "create" \/ cleaned = {},
         cleaned' \in {cleaned, cleaned \cup {o}},
         o \in cleaned' => \/ o \in cleaned
                           \/ /\ op = "remove" /\ Succeeds(op, o)
                              /\ o \in Volumes => o \in created
  PROVE  GoneInv'
  <1>0. WorldOK /\ MaxFaults \in Nat /\ touched' = touched
    BY TypeParts, DeployAssumption DEF IInv, DeployAssumption, others
  <1>1. \A x \in Objects : owner[x] = "nobody" <=> docker[x] = "absent"
    BY DEF IInv, DaemonInv
  <1>2. cleaned \subseteq Objects
    BY DEF IInv, TypeOK
  <1>3. ASSUME NEW x \in cleaned \ touched
        PROVE  docker'[x] = "absent" /\ <<"create", x>> \notin late'
    <2>1. docker[x] = "absent" /\ <<"create", x>> \notin late /\ op # "create"
      BY <1>3 DEF IInv, GoneInv
    <2>2. CASE Succeeds(op, o)
      BY <1>0, <1>1, <1>2, <1>3, <2>1, <2>2, CallSucceeds
    <2>3. CASE Throws(op, o)
      <3>1. /\ late' \subseteq late \cup {<<op, o>>}
            /\ \A y \in Objects \ {o} : docker'[y] = docker[y]
            /\ docker[o] = "absent" => docker' = docker
        BY <1>0, <1>1, <2>1, <2>3, CallThrows
      <3>. QED
        BY <1>2, <1>3, <2>1, <3>1
    <2>. QED
      BY <2>2, <2>3
  <1>4. ASSUME o \notin touched, op = "remove", Succeeds(op, o),
               o \in Volumes => o \in created
        PROVE  docker'[o] = "absent" /\ <<"create", o>> \notin late'
    <2>1. /\ docker'[o] = "absent" /\ late' = late
          /\ o \notin Volumes => docker[o] # "absent"
      BY <1>0, <1>1, <1>4, CallSucceeds
    <2>. QED
      BY <1>4, <2>1 DEF IInv, DaemonInv
  <1>. QED
    BY <1>0, <1>3, <1>4 DEF GoneInv

(* Giving up: the cleanup begins with every container of the journal.      *)
LEMMA UndoKeepsIInv ==
  ASSUME IInv, pc \in Working, Undo(attempted'), UNCHANGED others,
         WorldOK', DaemonInv', created' = created,
         attempted \subseteq attempted', attempted' \subseteq Desired,
         started' \subseteq Desired
  PROVE  IInv'
  <1>1. cleaned' = {}
    BY DEF IInv, JournalInv, Undo, report
  <1>2. todo' = attempted'
    BY DEF IInv, JournalInv, TypeOK, Undo, Containers
  <1>3. pc' = "undoContainers"
    BY DEF Undo
  <1>4. TypeOK'
    <2>1. EngineOK'
      BY <1>1, <1>2, <1>3
         DEF IInv, TypeOK, EngineOK, Undo, Undoing, report, Objects, Containers
    <2>2. OthersOK'
      BY DEF IInv, TypeOK, OthersOK, others
    <2>. QED
      BY <2>1, <2>2 DEF TypeOK, WorldOK, EngineOK, OthersOK
  <1>5. LoopInv'
    BY <1>2, <1>3 DEF LoopInv
  <1>6. SeenInv' /\ QuietInv'
    BY <1>3 DEF SeenInv, QuietInv, Working
  <1>7. JournalInv'
    BY <1>1, <1>2, <1>3 DEF IInv, JournalInv, Working
  <1>8. GoneInv'
    BY <1>1 DEF GoneInv
  <1>. QED
    BY <1>4, <1>5, <1>6, <1>7, <1>8 DEF IInv

(* A step that leaves the daemon and the journal alone keeps their parts.   *)
LEMMA QuietStep ==
  ASSUME IInv, UNCHANGED <<docker, late, owner, created, attempted, others>>
  PROVE  DaemonInv'
  BY DEF IInv, DaemonInv, others

(* A read that throws.                                                     *)
LEMMA ReadThrowsStep ==
  ASSUME IInv, pc \in Working, ReadThrows, Undo(attempted), UNCHANGED <<journal, others>>
  PROVE  IInv'
  <1>1. WorldOK'
    BY DeployAssumption DEF IInv, TypeOK, WorldOK, ReadThrows, DeployAssumption
  <1>2. DaemonInv'
    BY QuietStep DEF ReadThrows, journal
  <1>. QED
    BY <1>1, <1>2, UndoKeepsIInv DEF journal, IInv, TypeOK, Undo

(* A call on something that is not a desired container, and that throws.    *)
LEMMA ThrownOnOther ==
  ASSUME IInv, pc \in Working, NEW op \in Ops, NEW o \in Objects \ Desired,
         Throws(op, o), Undo(attempted), UNCHANGED <<journal, others>>,
         op = "create" => /\ o \in touched \/ docker[o] = "absent"
                          /\ o \notin created
  PROVE  IInv'
  <1>1. late = {} /\ attempted' = attempted /\ created' = created /\ started' = started
    BY DEF IInv, QuietInv, journal
  <1>2. attempted \subseteq Desired /\ started \subseteq Desired
    BY DEF IInv, TypeOK
  <1>3. WorldOK' /\ DaemonInv'
    BY <1>1, <1>2, CallKeepsDaemon
  <1>. QED
    BY <1>1, <1>2, <1>3, UndoKeepsIInv

(* A step that calls nothing.                                              *)
LEMMA MoveStep ==
  ASSUME IInv, UNCHANGED <<world, others, created, attempted>>
  PROVE  /\ WorldOK' /\ OthersOK' /\ DaemonInv'
         /\ late' = late /\ docker' = docker /\ touched' = touched /\ first' = first
         /\ cleaned' = cleaned => GoneInv'
  <1>1. WorldOK' /\ OthersOK'
    BY DEF IInv, TypeOK, WorldOK, OthersOK, world, others
  <1>2. DaemonInv'
    BY QuietStep DEF world
  <1>. QED
    BY <1>1, <1>2 DEF IInv, GoneInv, world, others

LEMMA InitIInv == Init => IInv
  <1>. SUFFICES ASSUME Init PROVE IInv
    OBVIOUS
  <1>1. TypeOK
    <2>1. owner \in [Objects -> Owner] /\ seen \in [Objects -> Status]
      BY DEF Init, Status, Owner
    <2>2. 1 \in 1..MaxPullAttempts /\ 0 \in 0..MaxFaults /\ 0 \in 0..MaxOutside
      BY DeployAssumption DEF DeployAssumption
    <2>. QED
      BY <2>1, <2>2 DEF Init, TypeOK
  <1>2. LoopInv /\ SeenInv /\ JournalInv /\ QuietInv /\ GoneInv
    BY DEF Init, LoopInv, SeenInv, JournalInv, QuietInv, GoneInv, Working
  <1>3. DaemonInv
    BY DEF Init, DaemonInv, Objects, Containers
  <1>. QED
    BY <1>1, <1>2, <1>3 DEF IInv

(* The scan: nothing has been journalled, so every container is as found.  *)
LEMMA ScanKeepsIInv == ASSUME IInv, ScanContainers PROVE IInv'
  <1>1. pc = "scan" /\ pc \in Working /\ UNCHANGED <<journal, others>>
    BY DEF ScanContainers, Working
  <1>2. CASE ReadThrows /\ Undo(attempted)
    BY <1>1, <1>2, ReadThrowsStep
  <1>3. CASE /\ seen' = [o \in Objects |-> IF o \in Containers THEN docker[o] ELSE seen[o]]
             /\ todo' = {c \in Stale : docker[c] # "absent"}
             /\ pc' = "stale"
             /\ UNCHANGED <<gate, tries, report, world>>
    <2>1. /\ WorldOK' /\ OthersOK' /\ DaemonInv'
          /\ late' = late /\ touched' = touched /\ first' = first /\ GoneInv'
      BY <1>1, <1>3, MoveStep DEF journal, report
    <2>2. attempted = {} /\ cleaned = {} /\ late = {}
      BY <1>1 DEF IInv, JournalInv, QuietInv, Working
    <2>3. EngineOK'
      BY <1>1, <1>3
         DEF IInv, TypeOK, EngineOK, Working, journal, report, Objects, Containers
    <2>4. LoopInv' /\ QuietInv'
      BY <1>3, <2>1, <2>2 DEF LoopInv, QuietInv
    <2>5. SeenInv'
      BY <1>3, <2>1, <2>2 DEF IInv, DaemonInv, SeenInv, Objects, Containers
    <2>6. JournalInv'
      BY <1>1, <1>3, <2>2 DEF IInv, JournalInv, journal, report
    <2>. QED
      BY <2>1, <2>3, <2>4, <2>5, <2>6, TypeParts
         DEF IInv, TypeOK, WorldOK, EngineOK, OthersOK
  <1>. QED
    BY <1>2, <1>3 DEF ScanContainers

(* The stale loop names only containers the specification does not ask for. *)
LEMMA StaleKeepsIInv == ASSUME IInv, StopStale \/ RemoveStale PROVE IInv'
  <1>1. /\ pc \in {"stale", "staleRemove"} /\ pc \in Working
        /\ UNCHANGED <<journal, others>>
    BY DEF StopStale, RemoveStale, Working
  <1>2. PICK c \in todo, op \in {"stop", "remove"} :
          \/ /\ Succeeds(op, c)
             /\ todo' \in {todo, todo \ {c}}
             /\ pc' \in {"stale", "staleRemove"}
             /\ UNCHANGED <<gate, seen, tries, report>>
          \/ Throws(op, c) /\ Undo(attempted)
    BY DEF StopStale, RemoveStale
  <1>3. c \in Objects \ Desired /\ op \in Ops /\ op # "create"
    BY <1>1, <1>2, DeployAssumption
       DEF IInv, LoopInv, Objects, Containers, Ops, DeployAssumption
  <1>4. CASE Throws(op, c) /\ Undo(attempted)
    BY <1>1, <1>3, <1>4, ThrownOnOther
  <1>5. CASE /\ Succeeds(op, c)
             /\ todo' \in {todo, todo \ {c}}
             /\ pc' \in {"stale", "staleRemove"}
             /\ UNCHANGED <<gate, seen, tries, report>>
    <2>1. /\ attempted = {} /\ attempted' = {} /\ cleaned = {} /\ cleaned' = {}
          /\ late = {} /\ created' = created
      BY <1>1, <1>5 DEF IInv, JournalInv, QuietInv, Working, journal, report
    <2>2. WorldOK' /\ DaemonInv' /\ late' = late
      <3>1. WorldOK' /\ DaemonInv'
        BY <1>1, <1>3, <1>5, <2>1, CallKeepsDaemon
      <3>. QED
        BY <1>5, <3>1 DEF Succeeds
    <2>3. EngineOK' /\ OthersOK'
      BY <1>1, <1>5
         DEF IInv, TypeOK, EngineOK, OthersOK, Working, journal, report, others
    <2>4. LoopInv' /\ QuietInv' /\ GoneInv'
      BY <1>1, <1>5, <2>1, <2>2 DEF IInv, LoopInv, QuietInv, GoneInv
    <2>5. SeenInv' /\ JournalInv'
      BY <1>1, <1>5, <2>1
         DEF IInv, SeenInv, JournalInv, Working, journal, report, others
    <2>. QED
      BY <2>2, <2>3, <2>4, <2>5 DEF IInv, TypeOK, WorldOK, EngineOK, OthersOK
  <1>. QED
    BY <1>2, <1>4, <1>5

LEMMA CheckKeepsIInv == ASSUME IInv, CheckExisting PROVE IInv'
  <1>1. pc = "stale" /\ pc \in Working /\ todo = {} /\ UNCHANGED <<journal, world, others>>
    BY DEF CheckExisting, Working
  <1>2. /\ WorldOK' /\ OthersOK' /\ DaemonInv'
        /\ late' = late /\ touched' = touched /\ first' = first
        /\ cleaned' = cleaned => GoneInv'
    BY <1>1, MoveStep DEF journal
  <1>3. CASE Undo(attempted)
    BY <1>1, <1>2, <1>3, UndoKeepsIInv DEF IInv, TypeOK, journal
  <1>4. CASE pc' = "listNetworks" /\ UNCHANGED <<gate, todo, seen, tries, report>>
    BY <1>1, <1>2, <1>4
       DEF IInv, TypeOK, WorldOK, OthersOK, LoopInv, SeenInv, JournalInv, QuietInv,
           Working, journal, report
  <1>. QED
    BY <1>3, <1>4 DEF CheckExisting

(* The lists of networks and volumes.                                      *)
LEMMA ListKeepsIInv ==
  ASSUME IInv, NEW at, NEW kind, NEW next, ListExisting(at, kind, next),
         \/ at = "listNetworks" /\ kind = Networks /\ next = "networks"
         \/ at = "listVolumes" /\ kind = Volumes /\ next = "volumes"
  PROVE  IInv'
  <1>1. pc = at /\ pc \in Working /\ UNCHANGED <<journal, others>>
    BY DEF ListExisting, Working
  <1>2. CASE ReadThrows /\ Undo(attempted)
    BY <1>1, <1>2, ReadThrowsStep
  <1>3. CASE /\ seen' = [o \in Objects |-> IF o \in kind THEN docker[o] ELSE seen[o]]
             /\ todo' = kind
             /\ pc' = next
             /\ UNCHANGED <<gate, tries, report, world>>
    <2>1. /\ WorldOK' /\ OthersOK' /\ DaemonInv' /\ docker' = docker
          /\ late' = late /\ touched' = touched /\ first' = first /\ GoneInv'
      BY <1>1, <1>3, MoveStep DEF journal, report
    <2>2. attempted = {} /\ cleaned = {} /\ late = {}
      BY <1>1 DEF IInv, JournalInv, QuietInv, Working
    <2>3. kind \subseteq Objects /\ kind \cap Containers = {}
      BY DeployAssumption DEF Objects, DeployAssumption
    <2>4. EngineOK'
      BY <1>1, <1>3, <2>3 DEF IInv, TypeOK, EngineOK, Working, journal, report
    <2>5. LoopInv' /\ QuietInv'
      BY <1>3, <2>1, <2>2 DEF LoopInv, QuietInv
    <2>6. SeenInv'
      <3>1. \A c \in Desired : seen'[c] = seen[c]
        BY <1>3, <2>3 DEF Objects, Containers
      <3>2. \A o \in todo' : docker'[o] = seen'[o]
        BY <1>3, <2>1, <2>3
      <3>. QED
        BY <1>1, <2>1, <3>1, <3>2 DEF IInv, SeenInv, Working
    <2>7. JournalInv'
      BY <1>1, <1>3, <2>2 DEF IInv, JournalInv, journal, report
    <2>. QED
      BY <2>1, <2>4, <2>5, <2>6, <2>7 DEF IInv, TypeOK, WorldOK, EngineOK, OthersOK
  <1>. QED
    BY <1>2, <1>3 DEF ListExisting

(* The network and volume loops: what they create, the list did not show.  *)
LEMMA ProvideKeepsIInv ==
  ASSUME IInv, NEW at, NEW next, NEW nextTodo, Provide(at, next, nextTodo),
         \/ at = "networks" /\ next = "listVolumes" /\ nextTodo = {}
         \/ at = "volumes" /\ next = "pull" /\ nextTodo = Images
  PROVE  IInv'
  <1>1. pc = at /\ pc \in Working /\ UNCHANGED others /\ touched' = touched
    BY DEF Provide, Working, others
  <1>2. attempted = {} /\ cleaned = {} /\ late = {}
    BY <1>1 DEF IInv, JournalInv, QuietInv, Working
  <1>3. \A o \in todo : o \in Objects \ Containers /\ o \notin Desired
    BY <1>1, DeployAssumption
       DEF IInv, LoopInv, Objects, Containers, DeployAssumption
  <1>4. \A o \in todo : /\ o \notin created
                        /\ seen[o] = "absent" => o \in touched \/ docker[o] = "absent"
    BY <1>1 DEF IInv, SeenInv, JournalInv
  <1>5. ASSUME WorldOK', DaemonInv', late' = late,
               UNCHANGED <<gate, seen, tries, report, attempted, started>>,
               \/ pc' = next /\ todo' = nextTodo /\ created' = created
               \/ /\ pc' = pc
                  /\ \E o \in todo : /\ todo' = todo \ {o}
                                     /\ created' \in {created, created \cup {o}}
                                     /\ \A x \in Objects \ {o} : docker'[x] = docker[x]
        PROVE  IInv'
    <2>1. EngineOK' /\ OthersOK'
      BY <1>1, <1>3, <1>5
         DEF IInv, TypeOK, EngineOK, OthersOK, Working, report, others
    <2>2. LoopInv' /\ QuietInv' /\ GoneInv'
      BY <1>1, <1>2, <1>5 DEF IInv, LoopInv, QuietInv, GoneInv, report
    <2>3. SeenInv'
      BY <1>1, <1>3, <1>5 DEF IInv, SeenInv, Working, others
    <2>4. JournalInv'
      BY <1>1, <1>2, <1>3, <1>5, DeployAssumption
         DEF IInv, JournalInv, LoopInv, Working, report, Containers, DeployAssumption
    <2>. QED
      BY <1>5, <2>1, <2>2, <2>3, <2>4 DEF IInv, TypeOK, WorldOK, EngineOK, OthersOK
  <1>6. CASE /\ todo = {}
             /\ pc' = next /\ todo' = nextTodo
             /\ UNCHANGED <<gate, seen, tries, journal, report, world>>
    <2>1. WorldOK' /\ DaemonInv' /\ late' = late
      BY <1>1, <1>6, MoveStep DEF journal
    <2>. QED
      BY <1>5, <1>6, <2>1 DEF journal
  <1>7. ASSUME NEW o \in todo, seen[o] # "absent", todo' = todo \ {o},
               UNCHANGED <<pc, gate, seen, tries, journal, report, world>>
        PROVE  IInv'
    <2>1. WorldOK' /\ DaemonInv' /\ late' = late /\ docker' = docker
      BY <1>1, <1>7, MoveStep DEF journal
    <2>. QED
      BY <1>5, <1>7, <2>1 DEF journal
  <1>8. ASSUME NEW o \in todo, seen[o] = "absent",
               Succeeds("create", o), created' = created \cup {o}, todo' = todo \ {o},
               UNCHANGED <<pc, gate, seen, tries, attempted, started, report>>
        PROVE  IInv'
    <2>1. WorldOK' /\ DaemonInv'
      BY <1>1, <1>2, <1>3, <1>4, <1>8, CallKeepsDaemon DEF Ops
    <2>2. late' = late /\ \A x \in Objects \ {o} : docker'[x] = docker[x]
      BY <1>3, <1>8 DEF Succeeds, Execute, IInv, TypeOK
    <2>. QED
      BY <1>5, <1>8, <2>1, <2>2
  <1>9. ASSUME NEW o \in todo, seen[o] = "absent",
               Throws("create", o), Undo(attempted), UNCHANGED journal
        PROVE  IInv'
    BY <1>1, <1>3, <1>4, <1>9, ThrownOnOther DEF Ops
  <1>. QED
    BY <1>6, <1>7, <1>8, <1>9 DEF Provide

LEMMA PullKeepsIInv == ASSUME IInv, PullImages PROVE IInv'
  <1>1. pc = "pull" /\ pc \in Working /\ UNCHANGED <<journal, world, others>>
    BY DEF PullImages, Working
  <1>2. attempted = {} /\ cleaned = {} /\ late = {}
    BY <1>1 DEF IInv, JournalInv, QuietInv, Working
  <1>3. /\ WorldOK' /\ OthersOK' /\ DaemonInv'
        /\ late' = late /\ touched' = touched /\ first' = first
        /\ cleaned' = cleaned => GoneInv'
    BY <1>1, MoveStep DEF journal
  <1>4. CASE Undo(attempted)
    BY <1>1, <1>3, <1>4, UndoKeepsIInv DEF IInv, TypeOK, journal
  <1>5. ASSUME UNCHANGED <<gate, seen, report>>, tries' \in {1, tries, tries + 1},
               tries' <= MaxPullAttempts,
               \/ pc' = "create" /\ todo' = Desired
               \/ pc' = pc /\ todo' \subseteq todo
        PROVE  IInv'
    <2>1. EngineOK'
      BY <1>1, <1>5, DeployAssumption
         DEF IInv, TypeOK, EngineOK, Working, journal, report, Objects, Containers,
             DeployAssumption
    <2>2. LoopInv' /\ QuietInv' /\ SeenInv' /\ JournalInv'
      BY <1>1, <1>2, <1>3, <1>5
         DEF IInv, LoopInv, QuietInv, SeenInv, JournalInv, Working, journal, report
    <2>. QED
      BY <1>3, <1>5, <2>1, <2>2
         DEF IInv, TypeOK, WorldOK, EngineOK, OthersOK, report
  <1>6. 1 <= MaxPullAttempts /\ tries <= MaxPullAttempts /\ tries \in Nat
        /\ (tries < MaxPullAttempts => tries + 1 <= MaxPullAttempts)
    BY DeployAssumption DEF IInv, TypeOK, DeployAssumption
  <1>. QED
    BY <1>4, <1>5, <1>6 DEF PullImages, report

(* The create loop: a container the scan did not show is absent, unless    *)
(* somebody else created it meanwhile.                                     *)
LEMMA CreateKeepsIInv == ASSUME IInv, CreateContainer PROVE IInv'
  <1>1. pc = "create" /\ pc \in Working /\ UNCHANGED others
        /\ touched' = touched /\ first' = first
    BY DEF CreateContainer, Working, others
  <1>2. PICK c \in todo :
          /\ First(c)
          /\ \/ /\ seen[c] # "absent"
                /\ started' = started \cup {c}
                /\ todo' = todo \ {c}
                /\ UNCHANGED <<pc, gate, seen, tries, created, attempted, report, world>>
             \/ /\ seen[c] = "absent"
                /\ attempted' = attempted \cup {c}
                /\ \/ /\ Succeeds("create", c)
                      /\ created' = created \cup {c}
                      /\ pc' = "start"
                      /\ UNCHANGED <<gate, todo, seen, tries, report>>
                   \/ /\ Throws("create", c)
                      /\ Undo(attempted')
                      /\ UNCHANGED created
                /\ UNCHANGED started
    BY DEF CreateContainer
  <1>3. cleaned = {} /\ late = {} /\ todo \cap attempted = {} /\ todo \subseteq Desired
        /\ attempted \subseteq Desired /\ started \subseteq Desired
    BY <1>1 DEF IInv, JournalInv, QuietInv, LoopInv, Working, TypeOK
  <1>4. c \in Objects /\ c \in Desired /\ c \notin attempted
    BY <1>3 DEF Objects, Containers
  <1>5. ASSUME seen[c] = "absent", c \notin touched
        PROVE  first[c] = "absent" /\ docker[c] = "absent"
    BY <1>1, <1>4, <1>5 DEF IInv, SeenInv, DaemonInv, Working
  <1>6. ASSUME seen[c] = "absent", attempted' = attempted \cup {c},
               Succeeds("create", c) \/ (Throws("create", c) /\ created' = created)
        PROVE  WorldOK' /\ DaemonInv'
    <2>1. c \notin Volumes
      BY <1>4, DeployAssumption DEF Containers, DeployAssumption
    <2>. QED
      BY <1>1, <1>3, <1>4, <1>5, <1>6, <2>1, CallKeepsDaemon DEF Ops
  <1>7. CASE /\ seen[c] # "absent"
             /\ started' = started \cup {c}
             /\ todo' = todo \ {c}
             /\ UNCHANGED <<pc, gate, seen, tries, created, attempted, report, world>>
    <2>1. WorldOK' /\ OthersOK' /\ DaemonInv' /\ late' = late /\ GoneInv'
      BY <1>1, <1>7, MoveStep DEF report
    <2>2. EngineOK'
      BY <1>4, <1>7 DEF IInv, TypeOK, EngineOK, report
    <2>3. LoopInv' /\ QuietInv' /\ SeenInv' /\ JournalInv'
      BY <1>1, <1>3, <1>7, <2>1
         DEF IInv, LoopInv, QuietInv, SeenInv, JournalInv, Working, report
    <2>. QED
      BY <2>1, <2>2, <2>3 DEF IInv, TypeOK, WorldOK, EngineOK, OthersOK
  <1>8. CASE /\ seen[c] = "absent"
             /\ attempted' = attempted \cup {c}
             /\ Succeeds("create", c)
             /\ created' = created \cup {c}
             /\ pc' = "start"
             /\ UNCHANGED <<gate, todo, seen, tries, report, started>>
    <2>1. WorldOK' /\ DaemonInv'
      BY <1>6, <1>8
    <2>2. late' = late
      BY <1>8 DEF Succeeds
    <2>3. EngineOK' /\ OthersOK'
      BY <1>1, <1>4, <1>8
         DEF IInv, TypeOK, EngineOK, OthersOK, Working, report, others
    <2>4. LoopInv'
      <3>1. \A d \in todo : d \in attempted' <=> First(d)
        <4>1. \A d \in todo : First(d) => d = c
          <5>1. \A d, e \in todo : /\ Rank[d] \in Nat /\ Rank[e] \in Nat
                                   /\ Rank[d] = Rank[e] => d = e
            BY <1>3, DeployAssumption DEF Containers, DeployAssumption
          <5>. QED
            BY <1>2, <5>1 DEF First
        <4>. QED
          BY <1>2, <1>3, <1>8, <4>1
      <3>2. \A d \in todo : First(d)' <=> First(d)
        BY <1>8 DEF First
      <3>. QED
        BY <1>3, <1>8, <3>1, <3>2 DEF LoopInv
    <2>5. QuietInv' /\ SeenInv' /\ GoneInv'
      BY <1>1, <1>3, <1>8, <2>2 DEF IInv, QuietInv, SeenInv, GoneInv, Working, report
    <2>6. JournalInv'
      BY <1>1, <1>3, <1>4, <1>8, DeployAssumption
         DEF IInv, JournalInv, Working, report, DeployAssumption
    <2>. QED
      BY <2>1, <2>3, <2>4, <2>5, <2>6 DEF IInv, TypeOK, WorldOK, EngineOK, OthersOK
  <1>9. CASE /\ seen[c] = "absent"
             /\ attempted' = attempted \cup {c}
             /\ Throws("create", c)
             /\ Undo(attempted')
             /\ UNCHANGED <<created, started>>
    <2>1. WorldOK' /\ DaemonInv'
      BY <1>6, <1>9
    <2>. QED
      BY <1>1, <1>3, <1>4, <1>9, <2>1, UndoKeepsIInv
  <1>. QED
    BY <1>2, <1>7, <1>8, <1>9

LEMMA StartKeepsIInv == ASSUME IInv, StartContainer PROVE IInv'
  <1>1. pc = "start" /\ pc \in Working /\ UNCHANGED <<created, attempted, others>>
        /\ touched' = touched /\ first' = first
    BY DEF StartContainer, Working, others
  <1>2. PICK c \in todo :
          /\ First(c)
          /\ \/ /\ Succeeds("start", c)
                /\ started' = started \cup {c}
                /\ todo' = todo \ {c}
                /\ pc' = "create"
                /\ UNCHANGED <<gate, seen, tries, report>>
             \/ Throws("start", c) /\ Undo(attempted) /\ UNCHANGED started
    BY DEF StartContainer
  <1>3. cleaned = {} /\ late = {} /\ todo \subseteq Desired
        /\ attempted \subseteq Desired /\ started \subseteq Desired
        /\ \A d \in todo : d \in attempted <=> First(d)
    BY <1>1 DEF IInv, JournalInv, QuietInv, LoopInv, Working, TypeOK
  <1>4. c \in Objects /\ c \in Desired /\ c \in attempted
    BY <1>2, <1>3 DEF Objects, Containers
  <1>5. WorldOK' /\ DaemonInv'
    BY <1>1, <1>2, <1>3, <1>4, CallKeepsDaemon DEF Ops
  <1>6. CASE /\ Succeeds("start", c)
             /\ started' = started \cup {c}
             /\ todo' = todo \ {c}
             /\ pc' = "create"
             /\ UNCHANGED <<gate, seen, tries, report>>
    <2>1. EngineOK' /\ OthersOK'
      BY <1>1, <1>4, <1>6
         DEF IInv, TypeOK, EngineOK, OthersOK, Working, report, others
    <2>2. todo' \cap attempted' = {}
      <3>1. \A d \in todo : First(d) => d = c
        <4>1. \A d, e \in todo : /\ Rank[d] \in Nat /\ Rank[e] \in Nat
                                 /\ Rank[d] = Rank[e] => d = e
          BY <1>3, DeployAssumption DEF Containers, DeployAssumption
        <4>. QED
          BY <1>2, <4>1 DEF First
      <3>. QED
        BY <1>1, <1>3, <1>6, <3>1
    <2>3. LoopInv'
      BY <1>3, <1>6, <2>2 DEF LoopInv
    <2>4. QuietInv' /\ SeenInv' /\ GoneInv' /\ JournalInv'
      BY <1>1, <1>3, <1>6
         DEF IInv, QuietInv, SeenInv, GoneInv, JournalInv, Working, report, Succeeds
    <2>. QED
      BY <1>5, <2>1, <2>3, <2>4 DEF IInv, TypeOK, WorldOK, EngineOK, OthersOK
  <1>7. CASE Throws("start", c) /\ Undo(attempted) /\ UNCHANGED started
    BY <1>1, <1>3, <1>5, <1>7, UndoKeepsIInv
  <1>. QED
    BY <1>2, <1>6, <1>7

(* The cleanup of containers: whatever leaves the loop enters the report.   *)
LEMMA UndoContainersKeepsIInv == ASSUME IInv, UndoStop \/ UndoRemove PROVE IInv'
  <1>1. /\ pc \in {"undoContainers", "undoRemove"}
        /\ UNCHANGED <<gate, seen, tries, journal, others>>
        /\ touched' = touched /\ first' = first
        /\ created' = created /\ attempted' = attempted /\ started' = started
    BY DEF UndoStop, UndoRemove, others, journal
  <1>2. PICK c \in todo, op \in {"stop", "remove"} :
          \/ /\ op = "stop" /\ Succeeds(op, c)
             /\ pc' = "undoRemove" /\ UNCHANGED <<todo, report>>
          \/ /\ op = "remove" /\ Succeeds(op, c)
             /\ pc' = "undoContainers" /\ Cleaned(c)
          \/ Throws(op, c) /\ pc' = "undoContainers" /\ LeftOver(c)
    BY DEF UndoStop, UndoRemove
  <1>3. c \in Objects /\ c \in attempted /\ attempted \subseteq Desired
        /\ todo \subseteq attempted /\ c \notin Volumes
    BY <1>1, DeployAssumption
       DEF IInv, TypeOK, LoopInv, Objects, Containers, DeployAssumption
  <1>4. op \in Ops /\ op # "create" /\ (Succeeds(op, c) \/ Throws(op, c))
    BY <1>2 DEF Ops
  <1>5. WorldOK' /\ DaemonInv'
    BY <1>1, <1>3, <1>4, CallKeepsDaemon
  <1>6. GoneInv'
    BY <1>1, <1>2, <1>3, <1>4, CallKeepsGone DEF Cleaned, LeftOver, report
  <1>7. EngineOK' /\ OthersOK'
    BY <1>1, <1>2, <1>3
       DEF IInv, TypeOK, EngineOK, OthersOK, Undoing, Cleaned, LeftOver, report, others
  <1>8. LoopInv'
    BY <1>1, <1>2, <1>3 DEF LoopInv, Cleaned, LeftOver, report
  <1>9. QuietInv' /\ SeenInv'
    BY <1>2 DEF QuietInv, SeenInv, Working
  <1>10. JournalInv'
    <2>1. attempted' \subseteq todo' \cup cleaned' \cup leftovers'
      BY <1>1, <1>2 DEF IInv, JournalInv, Cleaned, LeftOver, report
    <2>. QED
      BY <1>1, <1>2, <2>1 DEF IInv, JournalInv, Working
  <1>. QED
    BY <1>5, <1>6, <1>7, <1>8, <1>9, <1>10 DEF IInv, TypeOK, WorldOK, EngineOK, OthersOK

LEMMA UndoObjectsKeepsIInv ==
  ASSUME IInv, NEW at \in {"undoNetworks", "undoVolumes"}, UndoObjects(at)
  PROVE  IInv'
  <1>1. /\ pc = at /\ UNCHANGED <<pc, gate, seen, tries, journal, others>>
        /\ touched' = touched /\ first' = first
        /\ created' = created /\ attempted' = attempted /\ started' = started
    BY DEF UndoObjects, others, journal
  <1>2. PICK o \in todo : \/ Succeeds("remove", o) /\ Cleaned(o)
                          \/ Throws("remove", o) /\ LeftOver(o)
    BY DEF UndoObjects
  <1>3. o \in Objects /\ o \notin Desired
        /\ todo \subseteq created \cap (Networks \cup Volumes)
    BY <1>1, DeployAssumption DEF IInv, LoopInv, Objects, Containers, DeployAssumption
  <1>4. attempted \subseteq Desired
    BY DEF IInv, TypeOK
  <1>5. WorldOK' /\ DaemonInv'
    BY <1>1, <1>2, <1>3, <1>4, CallKeepsDaemon DEF Ops
  <1>6. GoneInv'
    BY <1>1, <1>2, <1>3, CallKeepsGone DEF Cleaned, LeftOver, Ops
  <1>7. EngineOK' /\ OthersOK'
    BY <1>1, <1>2, <1>3
       DEF IInv, TypeOK, EngineOK, OthersOK, Cleaned, LeftOver, others
  <1>8. LoopInv' /\ QuietInv' /\ SeenInv'
    BY <1>1, <1>2, <1>3 DEF LoopInv, QuietInv, SeenInv, Working, Cleaned, LeftOver
  <1>9. JournalInv'
    BY <1>1, <1>2 DEF IInv, JournalInv, Working, Cleaned, LeftOver
  <1>. QED
    BY <1>5, <1>6, <1>7, <1>8, <1>9 DEF IInv, TypeOK, WorldOK, EngineOK, OthersOK

(* Steps that call nothing and end a loop or the attempt.                  *)
LEMMA TurnKeepsIInv == ASSUME IInv, Begin \/ Return \/ UndoNext PROVE IInv'
  <1>1. /\ UNCHANGED <<seen, tries, journal, report, world, others>>
        /\ touched' = touched /\ first' = first
        /\ created' = created /\ attempted' = attempted /\ started' = started
        /\ cleaned' = cleaned /\ leftovers' = leftovers
    BY DEF Begin, Return, UndoNext, journal, report, others
  <1>2. /\ WorldOK' /\ OthersOK' /\ DaemonInv' /\ GoneInv'
        /\ late' = late
    BY <1>1, MoveStep
  <1>3. CASE Begin
    BY <1>1, <1>2, <1>3
       DEF IInv, TypeOK, WorldOK, OthersOK, LoopInv, SeenInv, JournalInv, QuietInv,
           Begin, Working, Ended
  <1>4. CASE Return
    BY <1>1, <1>2, <1>4
       DEF IInv, TypeOK, WorldOK, OthersOK, LoopInv, SeenInv, JournalInv, QuietInv,
           Return, Working, Ended
  <1>5. CASE UndoNext
    <2>1. todo' \subseteq Objects /\ pc' \in {"undoNetworks", "undoVolumes", "failed"}
          /\ pc \in Undoing /\ todo = {} /\ gate' \in BOOLEAN
          /\ (pc' \in {"undoNetworks", "undoVolumes"} =>
                todo' \subseteq Networks \cup Volumes)
      BY <1>5 DEF UndoNext, Objects, Undoing, IInv, TypeOK
    <2>2. EngineOK'
      BY <1>1, <2>1 DEF IInv, TypeOK, EngineOK, Undoing, Ended
    <2>3. LoopInv' /\ SeenInv' /\ QuietInv'
      BY <2>1 DEF LoopInv, SeenInv, QuietInv, Working
    <2>4. JournalInv'
      <3>1. attempted \subseteq cleaned \cup leftovers
        BY <2>1 DEF IInv, JournalInv, Undoing
      <3>. QED
        BY <1>1, <2>1, <3>1 DEF IInv, JournalInv, Working
    <2>. QED
      BY <1>2, <2>2, <2>3, <2>4 DEF IInv, TypeOK, WorldOK, EngineOK, OthersOK
  <1>. QED
    BY <1>3, <1>4, <1>5

(* A request of the attempt that takes effect after its caller gave up.     *)
LEMMA LateKeepsIInv == ASSUME IInv, LateEffect PROVE IInv'
  <1>1. PICK r \in late :
          /\ late' = late \ {r}
          /\ IF Applies(r[1], r[2]) THEN Execute(r[1], r[2], "attempt")
                                    ELSE UNCHANGED <<docker, owner>>
          /\ UNCHANGED <<pc, gate, todo, seen, tries, journal, report, unanswered,
                         faults, others>>
    BY DEF LateEffect
  <1>2. PICK op \in Ops, o \in Objects : r = <<op, o>>
    BY <1>1 DEF IInv, TypeOK
  <1>3. /\ touched' = touched /\ first' = first
        /\ created' = created /\ attempted' = attempted /\ started' = started
        /\ cleaned' = cleaned /\ leftovers' = leftovers
    BY <1>1 DEF journal, report, others
  <1>4. pc \notin Working
    BY <1>1 DEF IInv, QuietInv
  <1>5. o \in Desired => o \in attempted
    BY <1>1, <1>2 DEF IInv, DaemonInv
  <1>6. /\ docker' \in [Objects -> Status] /\ owner' \in [Objects -> Owner]
        /\ \A x \in Objects : owner'[x] = "nobody" <=> docker'[x] = "absent"
        /\ \A x \in Objects \ {o} : docker'[x] = docker[x] /\ owner'[x] = owner[x]
        /\ docker[o] = "absent" /\ op # "create" => docker' = docker
    <2>1. /\ docker \in [Objects -> Status] /\ owner \in [Objects -> Owner]
          /\ \A x \in Objects : owner[x] = "nobody" <=> docker[x] = "absent"
          /\ "attempt" \in Owner \ {"nobody"}
      BY DEF IInv, TypeOK, DaemonInv, Owner
    <2>2. CASE Applies(op, o)
      BY <1>1, <1>2, <2>1, <2>2, ExecuteEffect DEF Applies
    <2>3. CASE ~Applies(op, o)
      BY <1>1, <1>2, <2>1, <2>3
    <2>. QED
      BY <2>2, <2>3
  <1>7. TypeOK'
    BY <1>1, <1>3, <1>6 DEF IInv, TypeOK, others
  <1>8. LoopInv' /\ SeenInv' /\ JournalInv'
    BY <1>1, <1>3, <1>4 DEF IInv, LoopInv, SeenInv, JournalInv, Working, First
  <1>9. QuietInv'
    BY <1>1 DEF IInv, QuietInv
  <1>10. ASSUME NEW x \in Objects \ touched, <<"create", x>> \in late'
         PROVE  docker'[x] = "absent"
    <2>1. docker[x] = "absent" /\ <<"create", x>> # r
      BY <1>1, <1>10 DEF IInv, DaemonInv
    <2>. QED
      BY <1>2, <1>6, <2>1
  <1>11. DaemonInv'
    <2>1. \A c \in Desired \ (touched \cup attempted) :
            docker'[c] = first[c] /\ owner'[c] # "attempt"
      BY <1>5, <1>6 DEF IInv, DaemonInv, Objects, Containers
    <2>. QED
      BY <1>1, <1>3, <1>6, <1>10, <2>1 DEF IInv, DaemonInv
  <1>12. GoneInv'
    <2>1. ASSUME NEW x \in cleaned \ touched
          PROVE  docker'[x] = "absent" /\ <<"create", x>> \notin late'
      <3>1. docker[x] = "absent" /\ <<"create", x>> \notin late /\ x \in Objects
        BY <2>1 DEF IInv, GoneInv, TypeOK
      <3>. QED
        BY <1>1, <1>2, <1>6, <3>1
    <2>. QED
      BY <1>3, <2>1 DEF GoneInv
  <1>. QED
    BY <1>7, <1>8, <1>9, <1>11, <1>12 DEF IInv

(* Whatever somebody else does, the promises exclude the object.           *)
LEMMA OutsideKeepsIInv == ASSUME IInv, Outside PROVE IInv'
  <1>1. PICK op \in Ops, o \in Objects :
          /\ Applies(op, o)
          /\ Execute(op, o, "other")
          /\ touched' = touched \cup {o}
    BY DEF Outside
  <1>2. /\ outside < MaxOutside /\ outside' = outside + 1
        /\ UNCHANGED <<pc, gate, todo, seen, tries, journal, report, late, unanswered,
                       faults, first>>
        /\ created' = created /\ attempted' = attempted /\ started' = started
        /\ cleaned' = cleaned /\ leftovers' = leftovers
    BY DEF Outside, journal, report
  <1>3. /\ docker' \in [Objects -> Status] /\ owner' \in [Objects -> Owner]
        /\ \A x \in Objects : owner'[x] = "nobody" <=> docker'[x] = "absent"
        /\ \A x \in Objects \ {o} : docker'[x] = docker[x] /\ owner'[x] = owner[x]
    <2>1. /\ docker \in [Objects -> Status] /\ owner \in [Objects -> Owner]
          /\ \A x \in Objects : owner[x] = "nobody" <=> docker[x] = "absent"
          /\ "other" \in Owner \ {"nobody"}
      BY DEF IInv, TypeOK, DaemonInv, Owner
    <2>. QED
      BY <1>1, <2>1, ExecuteEffect
  <1>4. TypeOK'
    BY <1>1, <1>2, <1>3, DeployAssumption DEF IInv, TypeOK, DeployAssumption
  <1>5. \A x \in Objects \ touched' : docker'[x] = docker[x] /\ owner'[x] = owner[x]
    BY <1>1, <1>3
  <1>6. LoopInv' /\ JournalInv' /\ QuietInv'
    BY <1>2 DEF IInv, LoopInv, JournalInv, QuietInv, First
  <1>7. SeenInv'
    <2>1. pc \in {"networks", "volumes"} => todo \subseteq Objects
      BY DEF IInv, LoopInv, Objects
    <2>. QED
      BY <1>1, <1>2, <1>5, <2>1 DEF IInv, SeenInv
  <1>8. DaemonInv'
    <2>1. Desired \subseteq Objects
      BY DEF Objects, Containers
    <2>. QED
      BY <1>1, <1>2, <1>3, <1>5, <2>1 DEF IInv, DaemonInv
  <1>9. GoneInv'
    BY <1>1, <1>2, <1>5 DEF IInv, GoneInv, TypeOK
  <1>. QED
    BY <1>4, <1>6, <1>7, <1>8, <1>9 DEF IInv

LEMMA StutterKeepsIInv == ASSUME IInv, UNCHANGED vars PROVE IInv'
  <1>1. /\ UNCHANGED <<pc, gate, todo, seen, tries>>
        /\ UNCHANGED <<created, attempted, started, cleaned, leftovers>>
        /\ UNCHANGED <<docker, late, owner, unanswered, faults>>
        /\ UNCHANGED <<first, touched, outside>>
    BY DEF vars, journal, report, world, others
  <1>. QED
    BY <1>1 DEF IInv, TypeOK, LoopInv, SeenInv, JournalInv, QuietInv, DaemonInv,
                GoneInv, First
-----------------------------------------------------------------------------
(* IInv holds in every state the deployment reaches.                       *)
THEOREM Inductive == Spec => []IInv
  <1>1. ASSUME IInv, [Next]_vars PROVE IInv'
    <2>1. CASE ScanContainers
      BY <1>1, <2>1, ScanKeepsIInv
    <2>2. CASE StopStale \/ RemoveStale
      BY <1>1, <2>2, StaleKeepsIInv
    <2>3. CASE CheckExisting
      BY <1>1, <2>3, CheckKeepsIInv
    <2>4. CASE ListNetworks \/ ListVolumes
      BY <1>1, <2>4, ListKeepsIInv DEF ListNetworks, ListVolumes
    <2>5. CASE CreateNetworks \/ CreateVolumes
      BY <1>1, <2>5, ProvideKeepsIInv DEF CreateNetworks, CreateVolumes
    <2>6. CASE PullImages
      BY <1>1, <2>6, PullKeepsIInv
    <2>7. CASE CreateContainer
      BY <1>1, <2>7, CreateKeepsIInv
    <2>8. CASE StartContainer
      BY <1>1, <2>8, StartKeepsIInv
    <2>9. CASE UndoStop \/ UndoRemove
      BY <1>1, <2>9, UndoContainersKeepsIInv
    <2>10. CASE UndoNetworks \/ UndoVolumes
      BY <1>1, <2>10, UndoObjectsKeepsIInv DEF UndoNetworks, UndoVolumes
    <2>11. CASE Begin \/ Return \/ UndoNext
      BY <1>1, <2>11, TurnKeepsIInv
    <2>12. CASE LateEffect
      BY <1>1, <2>12, LateKeepsIInv
    <2>13. CASE Outside
      BY <1>1, <2>13, OutsideKeepsIInv
    <2>14. CASE UNCHANGED vars
      BY <1>1, <2>14, StutterKeepsIInv
    <2>. QED
      BY <1>1, <2>1, <2>2, <2>3, <2>4, <2>5, <2>6, <2>7, <2>8, <2>9, <2>10, <2>11,
         <2>12, <2>13, <2>14 DEF Next, Engine
  <1>. QED
    BY <1>1, InitIInv, PTL DEF Spec

(* Every variable keeps its type: in particular a pull is tried at most    *)
(* MaxPullAttempts times.                                                  *)
THEOREM TypeCorrect == Spec => []TypeOK
  <1>1. IInv => TypeOK
    BY DEF IInv
  <1>. QED
    BY <1>1, Inductive, PTL

(* A container found by the attempt is never in its journal, and only      *)
(* journalled containers change.                                           *)
THEOREM FoundIsKept == Spec => []PreExistingUntouched
  <1>1. IInv => PreExistingUntouched
    <2>. SUFFICES ASSUME IInv, NEW c \in Desired \ touched, first[c] # "absent"
                  PROVE  docker[c] = first[c] /\ owner[c] = "other"
      BY DEF PreExistingUntouched
    <2>1. c \notin attempted
      BY DEF IInv, DaemonInv
    <2>2. docker[c] = first[c] /\ owner[c] # "attempt" /\ c \in Objects
      BY <2>1 DEF IInv, DaemonInv, Objects, Containers
    <2>3. owner[c] # "nobody" /\ owner[c] \in Owner
      BY <2>2 DEF IInv, DaemonInv, TypeOK
    <2>. QED
      BY <2>2, <2>3 DEF Owner
  <1>. QED
    BY <1>1, Inductive, PTL

(* Once the attempt has failed, every journalled container is in the report, *)
(* and those reported as cleaned are gone.                                 *)
THEOREM FailureIsReported == Spec => []ContainersReported
  <1>1. IInv => ContainersReported
    <2>. SUFFICES ASSUME IInv, pc = "failed", NEW c \in Desired \ touched,
                         owner[c] = "attempt"
                  PROVE  c \in leftovers
      BY DEF ContainersReported
    <2>1. c \in attempted /\ c \in Objects
      BY DEF IInv, DaemonInv, Objects, Containers
    <2>2. c \in cleaned \cup leftovers
      BY <2>1 DEF IInv, JournalInv
    <2>3. docker[c] # "absent"
      BY <2>1 DEF IInv, DaemonInv
    <2>. QED
      BY <2>2, <2>3 DEF IInv, GoneInv
  <1>. QED
    BY <1>1, Inductive, PTL

(* No request of the attempt can bring back what its cleanup removed.      *)
THEOREM CleanedStaysGone == Spec => []CleanedIsGone
  <1>1. IInv => CleanedIsGone
    BY DEF IInv, GoneInv, CleanedIsGone
  <1>. QED
    BY <1>1, Inductive, PTL
-----------------------------------------------------------------------------
(* The start order.  Of every call only its effect on the engine's own     *)
(* variables matters here.                                                 *)
LEMMA InitOrder == Init => OrderInv
  BY DEF Init, OrderInv, DependencyOrder

(* A container is created when all that stand before it in the order were  *)
(* visited, and undone when all that stand behind it were.                 *)
LEMMA OrderStep == ASSUME IInv, OrderInv, [Next]_vars PROVE OrderInv'
  <1>0. /\ DependsOn \in [Desired -> SUBSET Desired] /\ Rank \in [Containers -> Nat]
        /\ \A c \in Desired : \A d \in DependsOn[c] : Rank[d] < Rank[c]
        /\ Desired \subseteq Containers /\ attempted \subseteq Desired
        /\ Desired \cap (Stale \cup Networks \cup Volumes) = {}
    BY DeployAssumption DEF DeployAssumption, IInv, TypeOK, Containers
  <1>1. ASSUME pc \in Working, Undo(attempted'), attempted' \in SUBSET Desired,
               \A c \in attempted' : DependsOn[c] \subseteq started', UNCHANGED cleaned
        PROVE  OrderInv'
    <2>1. cleaned' = {} /\ leftovers' = {} /\ pc' = "undoContainers"
      BY <1>1 DEF Undo, report, IInv, JournalInv, OrderInv
    <2>. QED
      BY <1>1, <2>1 DEF OrderInv, DependencyOrder, Working
  <1>2. CASE Begin \/ ScanContainers \/ StopStale \/ RemoveStale \/ CheckExisting \/ Return
    <2>1. UNCHANGED journal /\ (pc \in Working \/ pc = "idle")
      BY <1>2 DEF Begin, ScanContainers, StopStale, RemoveStale, CheckExisting, Return,
                  Working
    <2>2. CASE Undo(attempted) /\ pc \in Working
      BY <1>0, <1>1, <2>1, <2>2 DEF journal, Undo, report, OrderInv, DependencyOrder
    <2>3. CASE /\ UNCHANGED report
               /\ pc' \in {"refused", "scan", "stale", "staleRemove", "listNetworks", "done"}
      BY <2>1, <2>3 DEF journal, report, OrderInv, DependencyOrder, Working
    <2>. QED
      BY <1>2, <2>1, <2>2, <2>3
         DEF Begin, ScanContainers, StopStale, RemoveStale, CheckExisting, Return, Working
  <1>3. CASE ListNetworks \/ ListVolumes \/ CreateNetworks \/ CreateVolumes \/ PullImages
    <2>1. /\ attempted' = attempted /\ started' = started /\ pc \in Working
          /\ pc \notin {"create", "start"}
      BY <1>3 DEF ListNetworks, ListVolumes, ListExisting, CreateNetworks, CreateVolumes,
                  Provide, PullImages, journal, Working
    <2>2. CASE Undo(attempted)
      BY <1>0, <1>1, <2>1, <2>2 DEF Undo, report, OrderInv, DependencyOrder
    <2>3. CASE /\ UNCHANGED report
               /\ \/ pc' \in Working \ {"create", "start"}
                  \/ pc' = "create" /\ todo' = Desired
      BY <2>1, <2>3 DEF report, OrderInv, DependencyOrder, Working
    <2>. QED
      BY <1>3, <2>1, <2>2, <2>3
         DEF ListNetworks, ListVolumes, ListExisting, CreateNetworks, CreateVolumes,
             Provide, PullImages, Working
  <1>4. CASE CreateContainer
    <2>1. PICK c \in todo : /\ First(c)
              /\ \/ /\ started' = started \cup {c} /\ todo' = todo \ {c}
                    /\ UNCHANGED <<pc, attempted, report>>
                 \/ /\ attempted' = attempted \cup {c} /\ UNCHANGED started
                    /\ \/ pc' = "start" /\ UNCHANGED <<todo, report>>
                       \/ Undo(attempted')
      BY <1>4 DEF CreateContainer
    <2>2. c \in Desired /\ pc = "create" /\ todo \subseteq Desired
      BY <1>4 DEF CreateContainer, IInv, LoopInv
    <2>3. DependsOn[c] \subseteq started
      <3>1. ASSUME NEW d \in DependsOn[c] PROVE d \notin todo
        BY <1>0, <2>1, <2>2, <3>1 DEF First
      <3>. QED
        BY <1>0, <2>2, <3>1 DEF OrderInv
    <2>4. CASE started' = started \cup {c} /\ todo' = todo \ {c}
               /\ UNCHANGED <<pc, attempted, report>>
      BY <2>2, <2>4 DEF OrderInv, DependencyOrder, report, Working
    <2>5. CASE attempted' = attempted \cup {c} /\ UNCHANGED <<started, todo, report>>
               /\ pc' = "start"
      <3>1. cleaned = {} /\ leftovers = {}
        BY <2>2 DEF IInv, JournalInv, OrderInv, Working
      <3>. QED
        BY <2>2, <2>3, <2>5, <3>1 DEF OrderInv, DependencyOrder, report, Working
    <2>6. CASE attempted' = attempted \cup {c} /\ UNCHANGED started /\ Undo(attempted')
      BY <1>0, <1>1, <2>2, <2>3, <2>6 DEF OrderInv, DependencyOrder, Undo, report, Working
    <2>. QED
      BY <2>1, <2>4, <2>5, <2>6
  <1>5. CASE StartContainer
    <2>1. /\ pc = "start" /\ attempted' = attempted
          /\ \/ /\ \E c \in todo : started' = started \cup {c} /\ todo' = todo \ {c}
                /\ pc' = "create" /\ UNCHANGED report
             \/ Undo(attempted) /\ UNCHANGED started
      BY <1>5 DEF StartContainer
    <2>2. CASE Undo(attempted) /\ UNCHANGED started
      BY <1>0, <1>1, <2>1, <2>2 DEF OrderInv, DependencyOrder, Undo, report, Working
    <2>. QED
      BY <2>1, <2>2 DEF OrderInv, DependencyOrder, report, Working
  <1>6. CASE UndoStop \/ UndoRemove
    <2>1. /\ pc \in {"undoContainers", "undoRemove"}
          /\ pc' \in {"undoContainers", "undoRemove"}
          /\ attempted' = attempted /\ started' = started
      BY <1>6 DEF UndoStop, UndoRemove, journal
    <2>2. CASE UNCHANGED report
      BY <2>1, <2>2 DEF OrderInv, DependencyOrder, report, Working
    <2>3. CASE \E c \in todo : Last(c) /\ (Cleaned(c) \/ LeftOver(c))
      <3>1. PICK x \in todo : Last(x) /\ cleaned' \cup leftovers' = cleaned \cup leftovers \cup {x}
        BY <2>3 DEF Cleaned, LeftOver
      <3>2. todo \subseteq attempted /\ attempted \subseteq todo \cup cleaned \cup leftovers
        BY <2>1 DEF IInv, LoopInv, JournalInv
      <3>3. ASSUME NEW c \in attempted, NEW d \in DependsOn[c],
                   d \in cleaned' \cup leftovers'
            PROVE  c \in cleaned' \cup leftovers'
        <4>1. CASE d \in cleaned \cup leftovers
          BY <3>1, <3>3, <4>1 DEF OrderInv, DependencyOrder
        <4>2. CASE d = x
          <5>1. c \notin todo
            BY <1>0, <3>1, <3>2, <3>3, <4>2 DEF Last
          <5>. QED
            BY <3>1, <3>2, <5>1
        <4>. QED
          BY <3>1, <3>3, <4>1, <4>2
      <3>. QED
        BY <2>1, <3>3 DEF OrderInv, DependencyOrder, Working
    <2>. QED
      BY <1>6, <2>2, <2>3 DEF UndoStop, UndoRemove
  <1>7. CASE UndoNetworks \/ UndoVolumes \/ UndoNext
    <2>1. /\ pc \in Undoing /\ pc' \in Undoing \cup {"failed"}
          /\ attempted' = attempted /\ started' = started
      BY <1>7 DEF UndoNetworks, UndoVolumes, UndoObjects, UndoNext, Undoing, journal
    <2>2. cleaned \subseteq cleaned' /\ leftovers \subseteq leftovers'
      BY <1>7 DEF UndoNetworks, UndoVolumes, UndoObjects, UndoNext, Cleaned, LeftOver, report
    <2>3. \A d \in Desired : d \in cleaned' \cup leftovers' => d \in cleaned \cup leftovers
      <3>1. pc \in {"undoNetworks", "undoVolumes"} => todo \cap Desired = {}
        BY <1>0 DEF IInv, LoopInv
      <3>. QED
        BY <1>7, <3>1
           DEF UndoNetworks, UndoVolumes, UndoObjects, UndoNext, Cleaned, LeftOver, report
    <2>. QED
      BY <1>0, <2>1, <2>2, <2>3 DEF OrderInv, DependencyOrder, Undoing, Working
  <1>8. CASE LateEffect \/ Outside \/ UNCHANGED vars
    BY <1>8 DEF LateEffect, Outside, vars, journal, report, OrderInv, DependencyOrder
  <1>. QED
    BY <1>2, <1>3, <1>4, <1>5, <1>6, <1>7, <1>8 DEF Next, Engine

(* A container is created after its dependencies and undone before them,   *)
(* for every specification and every order of faults.                      *)
THEOREM OrderIsKept == Spec => []DependencyOrder
  <1>1. OrderInv => DependencyOrder
    BY DEF OrderInv
  <1>. QED
    BY <1>1, InitOrder, OrderStep, Inductive, PTL DEF Spec
-----------------------------------------------------------------------------
(* What has been provided is up.  A call that returns leaves its object up *)
(* or, when it removes, absent.                                            *)
LEMMA CallOutcome ==
  ASSUME WorldOK, NEW op \in Ops, NEW o \in Objects, Succeeds(op, o)
  PROVE  /\ op \in {"create", "start"} => docker'[o] = "up"
         /\ op = "remove" => docker'[o] = "absent"
         /\ \A x \in Objects \ {o} : docker'[x] = docker[x]
  BY DEF Succeeds, Execute, After, WorldOK

LEMMA InitUp == Init => KindInv /\ UpInv
  BY DEF Init, KindInv, UpInv, Working, Objects

(* A request, whoever makes it and whenever it is carried out, leaves a    *)
(* network or volume up or absent.                                         *)
LEMMA ExecuteKeepsKind ==
  ASSUME TypeOK, KindInv, NEW op \in Ops, NEW o \in Objects, NEW who,
         o \in Networks \cup Volumes => op \in {"create", "remove"},
         Execute(op, o, who)
  PROVE  \A x \in Networks \cup Volumes : docker'[x] \in {"absent", "up"}
  BY DEF TypeOK, KindInv, Execute, After, Objects

LEMMA CallKeepsKind ==
  ASSUME TypeOK, KindInv, NEW op \in Ops, NEW o \in Objects,
         o \in Networks \cup Volumes => op \in {"create", "remove"},
         Succeeds(op, o) \/ Throws(op, o)
  PROVE  KindInv'
  <1>1. CASE Execute(op, o, "attempt") /\ UNCHANGED late
    BY <1>1, ExecuteKeepsKind DEF KindInv
  <1>2. CASE /\ o \in Containers /\ docker' = [docker EXCEPT ![o] = "created"]
             /\ UNCHANGED late
    <2>1. o \notin Networks \cup Volumes
      BY <1>2, DeployAssumption DEF DeployAssumption
    <2>. QED
      BY <1>2, <2>1 DEF TypeOK, KindInv, Objects
  <1>3. CASE late' \subseteq late \cup {<<op, o>>} /\ UNCHANGED docker
    BY <1>3 DEF KindInv
  <1>. QED
    BY <1>1, <1>2, <1>3 DEF Succeeds, Throws

LEMMA KindStep == ASSUME IInv, KindInv, [Next]_vars PROVE KindInv'
  <1>0. /\ TypeOK /\ Ops = {"create", "start", "stop", "remove"}
        /\ Desired \cup Stale \cup Networks \cup Volumes \subseteq Objects
        /\ (Desired \cup Stale) \cap (Networks \cup Volumes) = {}
    BY DeployAssumption DEF DeployAssumption, IInv, Ops, Objects, Containers
  <1>1. ASSUME UNCHANGED <<docker, late>> PROVE KindInv'
    BY <1>1 DEF KindInv
  <1>2. CASE \E op \in {"create", "start", "stop", "remove"}, o \in todo :
                /\ o \in Desired \cup Stale \cup Networks \cup Volumes
                /\ o \in Networks \cup Volumes => op \in {"create", "remove"}
                /\ Succeeds(op, o) \/ Throws(op, o)
    BY <1>0, <1>2, CallKeepsKind
  <1>3. CASE StopStale \/ RemoveStale
    <2>1. todo \subseteq Stale
      BY <1>3 DEF StopStale, RemoveStale, IInv, LoopInv
    <2>. QED
      BY <1>0, <1>2, <1>3, <2>1 DEF StopStale, RemoveStale
  <1>4. CASE CreateNetworks \/ CreateVolumes
    <2>1. todo \subseteq Networks \cup Volumes
      BY <1>4 DEF CreateNetworks, CreateVolumes, Provide, IInv, LoopInv
    <2>. QED
      BY <1>0, <1>1, <1>2, <1>4, <2>1 DEF CreateNetworks, CreateVolumes, Provide, world
  <1>5. CASE CreateContainer \/ StartContainer
    <2>1. todo \subseteq Desired
      BY <1>5 DEF CreateContainer, StartContainer, IInv, LoopInv
    <2>. QED
      BY <1>0, <1>1, <1>2, <1>5, <2>1 DEF CreateContainer, StartContainer, world
  <1>6. CASE UndoStop \/ UndoRemove
    <2>1. todo \subseteq Desired
      BY <1>6 DEF UndoStop, UndoRemove, IInv, LoopInv, TypeOK
    <2>. QED
      BY <1>0, <1>2, <1>6, <2>1 DEF UndoStop, UndoRemove
  <1>7. CASE UndoNetworks \/ UndoVolumes
    <2>1. todo \subseteq Networks \cup Volumes
      BY <1>7 DEF UndoNetworks, UndoVolumes, UndoObjects, IInv, LoopInv
    <2>. QED
      BY <1>0, <1>2, <1>7, <2>1 DEF UndoNetworks, UndoVolumes, UndoObjects
  <1>8. CASE LateEffect
    <2>1. PICK r \in late : /\ late' = late \ {r}
                            /\ \/ Execute(r[1], r[2], "attempt")
                               \/ UNCHANGED docker
      BY <1>8 DEF LateEffect
    <2>2. PICK op \in Ops, o \in Objects : r = <<op, o>>
      BY <1>0, <2>1 DEF TypeOK
    <2>3. o \in Networks \cup Volumes => op \in {"create", "remove"}
      BY <2>1, <2>2 DEF KindInv
    <2>4. \A x \in Networks \cup Volumes : docker'[x] \in {"absent", "up"}
      <3>1. CASE UNCHANGED docker
        BY <3>1 DEF KindInv
      <3>2. CASE Execute(op, o, "attempt")
        BY <1>0, <2>3, <3>2, ExecuteKeepsKind
      <3>. QED
        BY <2>1, <2>2, <3>1, <3>2
    <2>. QED
      BY <2>1, <2>4 DEF KindInv
  <1>9. CASE Outside
    <2>1. PICK op \in Ops, o \in Objects :
            /\ o \in Containers \/ op \in {"create", "remove"}
            /\ Execute(op, o, "other")
      BY <1>9 DEF Outside
    <2>2. \A x \in Networks \cup Volumes : docker'[x] \in {"absent", "up"}
      BY <1>0, <2>1, ExecuteKeepsKind DEF Containers
    <2>. QED
      BY <1>9, <2>2 DEF Outside, KindInv
  <1>10. CASE Begin \/ ScanContainers \/ CheckExisting \/ ListNetworks \/ ListVolumes
              \/ PullImages \/ Return \/ UndoNext \/ UNCHANGED vars
    BY <1>1, <1>10 DEF Begin, ScanContainers, CheckExisting, ListNetworks, ListVolumes,
                       ListExisting, PullImages, Return, UndoNext, ReadThrows, vars, world
  <1>. QED
    BY <1>3, <1>4, <1>5, <1>6, <1>7, <1>8, <1>9, <1>10 DEF Next, Engine

(* Nothing of the attempt is under way besides its one call, so what is up *)
(* stays up unless that call, or another user, names it.                   *)
LEMMA UpStep == ASSUME IInv, KindInv, UpInv, [Next]_vars PROVE UpInv'
  <1>0. /\ WorldOK /\ Ops = {"create", "start", "stop", "remove"}
        /\ Desired \cup Stale \cup Networks \cup Volumes \subseteq Objects
        /\ Desired \cap (Stale \cup Networks \cup Volumes) = {}
        /\ Stale \cap (Networks \cup Volumes) = {} /\ Networks \cap Volumes = {}
        /\ docker \in [Objects -> Status] /\ seen \in [Objects -> Status]
    BY DeployAssumption, TypeParts
       DEF DeployAssumption, IInv, Ops, Objects, Containers, WorldOK, EngineOK
  <1>1. ASSUME pc' \in Undoing \cup {"refused", "scan", "failed"} PROVE UpInv'
    BY <1>1 DEF UpInv, Undoing, Working
  <1>2. ASSUME Undo(attempted) \/ Undo(attempted') PROVE UpInv'
    BY <1>1, <1>2 DEF Undo, Undoing
  <1>3. ASSUME UNCHANGED <<docker, touched, seen>>,
               pc' = pc /\ todo' = todo
        PROVE  UpInv'
    BY <1>3 DEF UpInv, Up
  <1>4. CASE ScanContainers \/ StopStale \/ RemoveStale
    <2>1. Undo(attempted) \/ pc' \in {"stale", "staleRemove"}
      BY <1>4 DEF ScanContainers, StopStale, RemoveStale
    <2>2. ASSUME pc' \in {"stale", "staleRemove"} PROVE UpInv'
      BY <2>2 DEF UpInv, Working
    <2>. QED
      BY <1>2, <2>1, <2>2
  <1>5. CASE CheckExisting
    <2>1. CASE Undo(attempted)
      BY <1>2, <2>1
    <2>2. CASE /\ pc' = "listNetworks" /\ seen' = seen
               /\ \A c \in Desired : seen[c] \in {"absent", "up"}
      BY <2>2 DEF UpInv
    <2>. QED
      BY <1>5, <2>1, <2>2 DEF CheckExisting
  <1>6. CASE ListNetworks \/ ListVolumes
    <2>1. \/ Undo(attempted)
          \/ /\ pc = "listNetworks" /\ pc' = "networks" /\ todo' = Networks
             /\ seen' = [o \in Objects |-> IF o \in Networks THEN docker[o] ELSE seen[o]]
             /\ UNCHANGED <<docker, touched>>
          \/ /\ pc = "listVolumes" /\ pc' = "volumes" /\ todo' = Volumes
             /\ seen' = [o \in Objects |-> IF o \in Volumes THEN docker[o] ELSE seen[o]]
             /\ UNCHANGED <<docker, touched>>
      BY <1>6 DEF ListNetworks, ListVolumes, ListExisting, world, others
    <2>2. pc \in {"listNetworks", "listVolumes"} =>
            \A c \in Desired : seen[c] \in {"absent", "up"}
      BY DEF UpInv, Working
    <2>. QED
      BY <1>0, <1>2, <2>1, <2>2 DEF UpInv, Up
  <1>7. CASE CreateNetworks \/ CreateVolumes
    <2>1. \/ Undo(attempted)
          \/ /\ todo = {} /\ UNCHANGED <<docker, touched, seen>>
             /\ \/ pc = "networks" /\ pc' = "listVolumes"
                \/ pc = "volumes" /\ pc' = "pull"
          \/ /\ pc \in {"networks", "volumes"} /\ UNCHANGED <<pc, seen, touched>>
             /\ \E o \in todo : /\ todo' = todo \ {o}
                               /\ \/ seen[o] # "absent" /\ UNCHANGED docker
                                  \/ Succeeds("create", o)
      BY <1>7 DEF CreateNetworks, CreateVolumes, Provide, world, others
    <2>2. CASE /\ todo = {} /\ UNCHANGED <<docker, touched, seen>>
               /\ \/ pc = "networks" /\ pc' = "listVolumes"
                  \/ pc = "volumes" /\ pc' = "pull"
      BY <2>2 DEF UpInv, Up, Working
    <2>3. ASSUME pc \in {"networks", "volumes"}, UNCHANGED <<pc, seen, touched>>,
                 NEW o \in todo, todo' = todo \ {o},
                 \/ seen[o] # "absent" /\ UNCHANGED docker
                 \/ Succeeds("create", o)
          PROVE  UpInv'
      <3>1. o \in Objects /\ o \in Networks \cup Volumes
        BY <1>0, <2>3 DEF IInv, LoopInv
      <3>2. o \in touched \/ docker'[o] = "up"
        <4>1. CASE seen[o] # "absent" /\ UNCHANGED docker
          BY <2>3, <3>1, <4>1 DEF IInv, SeenInv, KindInv
        <4>2. CASE Succeeds("create", o)
          BY <1>0, <3>1, <4>2, CallOutcome
        <4>. QED
          BY <2>3, <4>1, <4>2
      <3>3. \A x \in Objects \ {o} : docker'[x] = docker[x]
        BY <1>0, <2>3, <3>1, CallOutcome
      <3>. QED
        BY <1>0, <2>3, <3>2, <3>3 DEF UpInv, Up
    <2>. QED
      BY <1>2, <2>1, <2>2, <2>3
  <1>8. CASE PullImages
    <2>1. \/ Undo(attempted)
          \/ /\ pc = "pull" /\ UNCHANGED <<docker, touched, seen>>
             /\ pc' = "pull" \/ (pc' = "create" /\ todo' = Desired)
      BY <1>8 DEF PullImages, world, others
    <2>. QED
      BY <1>2, <2>1 DEF UpInv, Up, Working
  <1>9. CASE CreateContainer \/ StartContainer
    <2>1. \/ Undo(attempted) \/ Undo(attempted')
          \/ /\ UNCHANGED <<seen, touched>>
             /\ \E c \in todo :
                  \/ /\ pc = "create" /\ pc' = "create" /\ todo' = todo \ {c}
                     /\ seen[c] # "absent" /\ UNCHANGED docker
                  \/ /\ pc = "create" /\ pc' = "start" /\ UNCHANGED todo
                     /\ Succeeds("create", c)
                  \/ /\ pc = "start" /\ pc' = "create" /\ todo' = todo \ {c}
                     /\ Succeeds("start", c)
      BY <1>9 DEF CreateContainer, StartContainer, world, others
    <2>2. ASSUME NEW c \in todo, UNCHANGED <<seen, touched>>, pc \in {"create", "start"},
                 pc' \in {"create", "start"}, todo' \in {todo, todo \ {c}},
                 \A x \in Objects \ {c} : docker'[x] = docker[x],
                 c \in todo' \/ c \in touched \/ docker'[c] = "up"
          PROVE  UpInv'
      <3>1. c \in Desired
        BY <2>2 DEF IInv, LoopInv
      <3>. QED
        BY <1>0, <2>2, <3>1 DEF UpInv, Up, Working
    <2>3. ASSUME NEW c \in todo, pc = "create", seen[c] # "absent"
          PROVE  c \in touched \/ docker[c] = "up"
      <3>1. c \in Desired /\ c \notin attempted
        BY <2>3 DEF IInv, LoopInv
      <3>2. c \in touched \/ docker[c] = seen[c]
        BY <2>3, <3>1 DEF IInv, SeenInv, DaemonInv, Working
      <3>. QED
        BY <2>3, <3>1, <3>2 DEF UpInv, Working
    <2>4. \A c \in todo : pc \in {"create", "start"} => c \in Objects
      BY <1>0 DEF IInv, LoopInv
    <2>5. ASSUME NEW c \in todo, UNCHANGED <<seen, touched>>,
                 \/ /\ pc = "create" /\ pc' = "create" /\ todo' = todo \ {c}
                    /\ seen[c] # "absent" /\ UNCHANGED docker
                 \/ /\ pc = "create" /\ pc' = "start" /\ UNCHANGED todo
                    /\ Succeeds("create", c)
                 \/ /\ pc = "start" /\ pc' = "create" /\ todo' = todo \ {c}
                    /\ Succeeds("start", c)
          PROVE  UpInv'
      <3>1. CASE pc = "create" /\ seen[c] # "absent" /\ UNCHANGED docker
        BY <2>2, <2>3, <2>5, <3>1
      <3>2. CASE Succeeds("create", c)
        BY <1>0, <2>2, <2>4, <2>5, <3>2, CallOutcome
      <3>3. CASE Succeeds("start", c)
        BY <1>0, <2>2, <2>4, <2>5, <3>3, CallOutcome
      <3>. QED
        BY <2>5, <3>1, <3>2, <3>3
    <2>. QED
      BY <1>2, <2>1, <2>5
  <1>10. CASE Return
    BY <1>10 DEF Return, UpInv, Up, Working, world, others
  <1>11. CASE Begin \/ UndoStop \/ UndoRemove \/ UndoNetworks \/ UndoVolumes \/ UndoNext
    BY <1>1, <1>11 DEF Begin, UndoStop, UndoRemove, UndoNetworks, UndoVolumes, UndoObjects,
                       UndoNext, Undoing
  <1>12. CASE LateEffect
    <2>1. late # {} /\ pc' = pc
      BY <1>12 DEF LateEffect
    <2>2. pc \in Undoing \cup {"failed"}
      BY <2>1 DEF IInv, TypeOK, QuietInv, Ended
    <2>. QED
      BY <1>1, <2>1, <2>2
  <1>13. CASE Outside
    <2>1. PICK o \in Objects : /\ docker' = [docker EXCEPT ![o] = docker'[o]]
                               /\ touched' = touched \cup {o}
      BY <1>0, <1>13 DEF Outside, Execute
    <2>2. UNCHANGED <<pc, todo, seen>>
      BY <1>13 DEF Outside
    <2>. QED
      BY <1>0, <2>1, <2>2 DEF UpInv, Up
  <1>14. CASE UNCHANGED vars
    BY <1>3, <1>14 DEF vars, world, others
  <1>. QED
    BY <1>4, <1>5, <1>6, <1>7, <1>8, <1>9, <1>10, <1>11, <1>12, <1>13, <1>14
       DEF Next, Engine

(* A deployment that returns has every object of the specification up,     *)
(* whatever it found, created or kept on the way.                          *)
THEOREM SuccessIsUp == Spec => []SuccessMeansUp
  <1>1. UpInv => SuccessMeansUp
    BY DEF UpInv, Up, SuccessMeansUp
  <1>2. IInv /\ KindInv /\ UpInv /\ [Next]_vars => KindInv' /\ UpInv'
    BY KindStep, UpStep
  <1>. QED
    BY <1>1, <1>2, InitUp, Inductive, PTL DEF Spec
-----------------------------------------------------------------------------
(* The report of networks and volumes.  Only a creation makes the attempt  *)
(* the owner of an object: one that answers enters the journal, one that   *)
(* does not is unanswered.                                                 *)
LEMMA InitOwned == Init => OwnedInv
  BY DEF Init, OwnedInv, OwnedPart, Objects

LEMMA CallKeepsOwned ==
  ASSUME WorldOK, OwnedPart, touched' = touched, created \subseteq created',
         NEW op \in Ops, NEW o \in Objects,
         \/ Succeeds(op, o) /\ (op = "create" /\ o \in Networks \cup Volumes => o \in created')
         \/ Throws(op, o)
  PROVE  OwnedPart'
  <1>1. CASE /\ Succeeds(op, o)
             /\ op = "create" /\ o \in Networks \cup Volumes => o \in created'
    <2>1. /\ late' = late /\ unanswered' = unanswered
          /\ \A x \in Objects \ {o} : owner'[x] = owner[x]
          /\ owner'[o] = "attempt" => op = "create" \/ owner[o] = "attempt"
      BY <1>1 DEF Succeeds, Execute, OwnerAfter, Applies, WorldOK, Ops
    <2>. QED
      BY <1>1, <2>1 DEF OwnedPart, Objects
  <1>2. CASE Throws(op, o)
    <2>1. /\ unanswered \subseteq unanswered'
          /\ op = "create" => o \in unanswered'
          /\ late' \subseteq late \cup {<<op, o>>}
      BY <1>2 DEF Throws
    <2>2. \A x \in Objects \ {o} : owner'[x] = owner[x]
      BY <1>2 DEF Throws, Execute, WorldOK
    <2>3. owner'[o] = "attempt" => op = "create" \/ owner[o] = "attempt"
      BY <1>2 DEF Throws, Execute, OwnerAfter, Applies, WorldOK, Ops
    <2>. QED
      BY <2>1, <2>2, <2>3 DEF OwnedPart, Objects
  <1>. QED
    BY <1>1, <1>2

(* Every step keeps the link between owner, journal and lost answers.      *)
LEMMA OwnedPartStep == ASSUME IInv, OwnedPart, [Next]_vars PROVE OwnedPart'
  <1>0. /\ WorldOK /\ Ops = {"create", "start", "stop", "remove"}
        /\ Desired \cup Stale \cup Networks \cup Volumes \subseteq Objects
        /\ (Desired \cup Stale) \cap (Networks \cup Volumes) = {}
    BY DeployAssumption, TypeParts
       DEF DeployAssumption, IInv, Ops, Objects, Containers
  <1>1. ASSUME UNCHANGED <<owner, late, unanswered, touched, created>> PROVE OwnedPart'
    BY <1>1 DEF OwnedPart
  <1>2. CASE \E op \in {"create", "start", "stop", "remove"}, o \in todo :
               /\ o \in Desired \cup Stale \cup Networks \cup Volumes
               /\ touched' = touched /\ created \subseteq created'
               /\ \/ /\ Succeeds(op, o)
                     /\ op = "create" => o \in created'
                  \/ Throws(op, o)
    BY <1>0, <1>2, CallKeepsOwned
  <1>3. CASE StopStale \/ RemoveStale
    <2>1. todo \subseteq Stale
      BY <1>3 DEF StopStale, RemoveStale, IInv, LoopInv
    <2>. QED
      BY <1>0, <1>2, <1>3, <2>1 DEF StopStale, RemoveStale, journal, others
  <1>4. CASE CreateNetworks \/ CreateVolumes
    <2>1. todo \subseteq Networks \cup Volumes
      BY <1>4 DEF CreateNetworks, CreateVolumes, Provide, IInv, LoopInv
    <2>. QED
      BY <1>0, <1>1, <1>2, <1>4, <2>1
         DEF CreateNetworks, CreateVolumes, Provide, world, journal, others
  <1>5. CASE CreateContainer \/ StartContainer
    <2>1. todo \subseteq Desired
      BY <1>5 DEF CreateContainer, StartContainer, IInv, LoopInv
    <2>. QED
      BY <1>0, <1>1, <1>2, <1>5, <2>1 DEF CreateContainer, StartContainer, world, others
  <1>6. CASE UndoStop \/ UndoRemove
    <2>1. todo \subseteq Desired
      BY <1>6 DEF UndoStop, UndoRemove, IInv, LoopInv, TypeOK
    <2>. QED
      BY <1>0, <1>2, <1>6, <2>1 DEF UndoStop, UndoRemove, journal, others
  <1>7. CASE UndoNetworks \/ UndoVolumes
    <2>1. todo \subseteq Networks \cup Volumes
      BY <1>7 DEF UndoNetworks, UndoVolumes, UndoObjects, IInv, LoopInv
    <2>. QED
      BY <1>0, <1>2, <1>7, <2>1
         DEF UndoNetworks, UndoVolumes, UndoObjects, journal, others
  <1>8. CASE LateEffect
    <2>1. PICK op \in Ops, o \in Objects :
            /\ <<op, o>> \in late
            /\ late' = late \ {<<op, o>>}
            /\ \/ Applies(op, o) /\ Execute(op, o, "attempt")
               \/ UNCHANGED owner
      <3>1. PICK r \in late : /\ late' = late \ {r}
                              /\ \/ Applies(r[1], r[2]) /\ Execute(r[1], r[2], "attempt")
                                 \/ UNCHANGED owner
        BY <1>8 DEF LateEffect
      <3>2. PICK op \in Ops, o \in Objects : r = <<op, o>>
        BY <1>0, <3>1 DEF WorldOK
      <3>. QED
        BY <3>1, <3>2
    <2>2. UNCHANGED <<unanswered, touched, created>>
      BY <1>8 DEF LateEffect, journal, others
    <2>3. \A x \in Objects \ {o} : owner'[x] = owner[x]
      BY <1>0, <2>1 DEF Execute, WorldOK
    <2>4. owner'[o] = "attempt" => op = "create" \/ owner[o] = "attempt"
      BY <1>0, <2>1 DEF Execute, OwnerAfter, Applies, WorldOK
    <2>. QED
      BY <1>0, <2>1, <2>2, <2>3, <2>4 DEF OwnedPart
  <1>9. CASE Outside
    <2>1. PICK o \in Objects : /\ touched' = touched \cup {o}
                               /\ \A x \in Objects \ {o} : owner'[x] = owner[x]
      BY <1>0, <1>9 DEF Outside, Execute, WorldOK
    <2>. QED
      BY <1>0, <1>9, <2>1 DEF Outside, OwnedPart, journal
  <1>10. CASE Begin \/ ScanContainers \/ CheckExisting \/ ListNetworks \/ ListVolumes
              \/ PullImages \/ Return \/ UndoNext \/ UNCHANGED vars
    BY <1>1, <1>10 DEF Begin, ScanContainers, CheckExisting, ListNetworks, ListVolumes,
                       ListExisting, PullImages, Return, UndoNext, ReadThrows, vars, world,
                       journal, others
  <1>. QED
    BY <1>3, <1>4, <1>5, <1>6, <1>7, <1>8, <1>9, <1>10 DEF Next, Engine

(* An undo loop drops an object from its list only into the report.        *)
LEMMA OwnedStep == ASSUME IInv, OwnedInv, [Next]_vars PROVE OwnedInv'
  <1>0. OwnedPart'
    BY OwnedPartStep DEF OwnedInv, OwnedPart
  <1>1. ASSUME pc' \notin {"undoNetworks", "undoVolumes", "failed"} PROVE OwnedInv'
    BY <1>0, <1>1 DEF OwnedInv, OwnedPart
  <1>2. ASSUME UNCHANGED <<pc, todo, created, cleaned, leftovers>> PROVE OwnedInv'
    BY <1>0, <1>2 DEF OwnedInv, OwnedPart
  <1>3. CASE Begin \/ ScanContainers \/ StopStale \/ RemoveStale \/ CheckExisting
    BY <1>1, <1>3 DEF Begin, ScanContainers, StopStale, RemoveStale, CheckExisting, Undo
  <1>4. CASE ListNetworks \/ ListVolumes \/ CreateNetworks \/ CreateVolumes
    BY <1>1, <1>4 DEF ListNetworks, ListVolumes, ListExisting, CreateNetworks,
                      CreateVolumes, Provide, Undo
  <1>5. CASE PullImages \/ CreateContainer \/ StartContainer \/ Return
    BY <1>1, <1>5 DEF PullImages, CreateContainer, StartContainer, Return, Undo
  <1>6. CASE UndoStop \/ UndoRemove
    BY <1>1, <1>6 DEF UndoStop, UndoRemove
  <1>7. CASE UndoNetworks \/ UndoVolumes
    <2>1. /\ pc \in {"undoNetworks", "undoVolumes"} /\ UNCHANGED <<pc, created>>
          /\ \E o \in todo : Cleaned(o) \/ LeftOver(o)
      BY <1>7 DEF UndoNetworks, UndoVolumes, UndoObjects, journal
    <2>. QED
      BY <1>0, <2>1 DEF OwnedInv, OwnedPart, Cleaned, LeftOver
  <1>8. CASE UndoNext
    <2>1. /\ todo = {} /\ UNCHANGED <<created, cleaned, leftovers>>
          /\ \/ /\ pc = "undoContainers" /\ pc' = "undoNetworks"
                /\ todo' = created \cap Networks
             \/ /\ pc = "undoNetworks" /\ pc' = "undoVolumes"
                /\ todo' = created \cap Volumes
             \/ pc = "undoVolumes" /\ pc' = "failed"
      BY <1>8 DEF UndoNext, journal, report
    <2>. QED
      BY <1>0, <2>1 DEF OwnedInv, OwnedPart
  <1>9. CASE LateEffect \/ Outside \/ UNCHANGED vars
    BY <1>2, <1>9 DEF LateEffect, Outside, vars, journal, report
  <1>. QED
    BY <1>3, <1>4, <1>5, <1>6, <1>7, <1>8, <1>9 DEF Next, Engine

(* A failed attempt leaves no network or volume of its own behind in       *)
(* silence, except one whose creation was never answered.                  *)
THEOREM ObjectsAreReported == Spec => []ObjectsReported
  <1>1. IInv /\ OwnedInv => ObjectsReported
    <2>. SUFFICES ASSUME IInv, OwnedInv, pc = "failed", NEW o \in Networks \cup Volumes,
                         o \notin touched, owner[o] = "attempt", o \notin unanswered
                  PROVE  o \in leftovers
      BY DEF ObjectsReported
    <2>1. o \in created /\ o \in cleaned \cup leftovers /\ o \in Objects
      BY DEF OwnedInv, OwnedPart, Objects
    <2>2. docker[o] # "absent"
      BY <2>1 DEF IInv, DaemonInv
    <2>. QED
      BY <2>1, <2>2 DEF IInv, GoneInv
  <1>. QED
    BY <1>1, InitOwned, OwnedStep, Inductive, PTL DEF Spec
-----------------------------------------------------------------------------
(* The attempt as a compensating transaction.  Every call shifts at most   *)
(* one container into or out of what the attempt holds.                    *)
Shifted == Mine' = Mine \/ \E r \in Desired : Mine' \in {Mine \cup {r}, Mine \ {r}}

LEMMA OwnShift ==
  ASSUME NEW o \in Objects, touched' = touched,
         \A x \in Objects \ {o} : owner'[x] = owner[x]
  PROVE  /\ Shifted
         /\ o \notin Desired => Mine' = Mine
         /\ owner'[o] = owner[o] => Mine' = Mine
         /\ owner'[o] # "attempt" => Mine' = Mine \ {o}
         /\ Mine' \subseteq Mine \cup {o}
  <1>1. Desired \subseteq Objects
    BY DEF Objects, Containers
  <1>. QED
    BY <1>1 DEF Shifted, Mine

LEMMA CallShifts ==
  ASSUME WorldOK, NEW op \in Ops, NEW o \in Objects, touched' = touched,
         Succeeds(op, o) \/ Throws(op, o)
  PROVE  /\ Shifted
         /\ o \notin Desired => Mine' = Mine
         /\ op = "stop" => Mine' = Mine
         /\ op = "remove" => Mine' \in {Mine, Mine \ {o}}
  <1>1. \A x \in Objects \ {o} : owner'[x] = owner[x]
    BY DEF Succeeds, Throws, Execute, WorldOK
  <1>2. op = "stop" => owner'[o] = owner[o]
    BY DEF Succeeds, Throws, Execute, OwnerAfter, Applies, WorldOK
  <1>3. op = "remove" => owner'[o] = owner[o] \/ owner'[o] = "nobody"
    BY DEF Succeeds, Throws, Execute, OwnerAfter, WorldOK
  <1>. QED
    BY <1>1, <1>2, <1>3, OwnShift

(* The phases of the transaction are the stretches of the attempt.         *)
LEMMA PhaseIs ==
  /\ pc \in {"idle", "refused"} <=> Phase = "ready"
  /\ pc \in Working <=> Phase = "working"
  /\ pc \in Undoing <=> Phase = "undoing"
  /\ pc = "done" <=> Phase = "committed"
  /\ pc = "failed" => Phase = "aborted"
  BY DEF Phase, Working, Undoing

LEMMA InitSaga == Init => Saga!Init
  <1>. SUFFICES ASSUME Init PROVE Saga!Init
    OBVIOUS
  <1>1. Phase = "ready" /\ leftovers \cap Desired = {}
    BY DEF Init, Phase
  <1>2. Mine = {} /\ Avail \subseteq Desired
    BY DEF Init, Mine, Avail, Objects, Containers
  <1>. QED
    BY <1>1, <1>2 DEF Saga!Init

(* Every step of the attempt, of a late request and of another user is a   *)
(* step of the transaction or leaves it as it is.                          *)
LEMMA SagaStep ==
  ASSUME IInv, UpInv, [Next]_vars PROVE Saga!Next \/ UNCHANGED Saga!vars
  <1>0. /\ WorldOK /\ TypeOK
        /\ Desired \cup Stale \cup Networks \cup Volumes \subseteq Objects
        /\ Desired \cap (Stale \cup Networks \cup Volumes) = {}
        /\ Avail' \subseteq Desired /\ Mine \subseteq Desired
    BY DeployAssumption, TypeParts
       DEF DeployAssumption, IInv, Objects, Containers, Avail, Mine
  <1>1. /\ pc' \in {"idle", "refused"} => Phase' = "ready"
        /\ pc' \in Working => Phase' = "working"
        /\ pc' \in Undoing => Phase' = "undoing"
        /\ pc' = "done" => Phase' = "committed"
        /\ pc' = "failed" => Phase' = "aborted"
    BY DEF Phase, Working, Undoing
  <1>2. ASSUME \/ pc \in Working /\ pc' \in Working
               \/ pc \in Undoing /\ pc' \in Undoing,
               Shifted, leftovers' \cap Desired = leftovers \cap Desired
        PROVE  Saga!Next
    BY <1>0, <1>1, <1>2, PhaseIs
       DEF Saga!Next, Saga!Move, Saga!Shift, Saga!Drift, Shifted
  <1>3. ASSUME pc \in Working, Undo(attempted) \/ Undo(attempted'), Shifted
        PROVE  Saga!Next
    <2>1. pc' \in Undoing /\ leftovers' = leftovers
      BY <1>3 DEF Undo, Undoing, report
    <2>. QED
      BY <1>0, <1>1, <1>3, <2>1, PhaseIs
         DEF Saga!Next, Saga!GiveUp, Saga!Shift, Saga!Drift, Shifted
  <1>4. ASSUME UNCHANGED <<owner, touched>> PROVE Mine' = Mine /\ Shifted
    BY <1>4 DEF Mine, Shifted
  <1>5. ASSUME UNCHANGED <<docker, touched>> PROVE Avail' = Avail
    BY <1>5 DEF Avail
  <1>6. CASE Begin
    <2>1. /\ Mine' = Mine /\ Avail' = Avail /\ leftovers' = leftovers
          /\ pc = "idle" /\ pc' \in {"refused", "scan"}
      BY <1>4, <1>5, <1>6 DEF Begin, world, others, report
    <2>. QED
      BY <1>1, <2>1, PhaseIs DEF Working, Saga!Next, Saga!Start, Saga!vars
  <1>7. CASE ScanContainers \/ CheckExisting \/ ListNetworks \/ ListVolumes \/ PullImages
    <2>1. pc \in Working /\ UNCHANGED <<owner, touched>>
      BY <1>7 DEF ScanContainers, CheckExisting, ListNetworks, ListVolumes, ListExisting,
                  PullImages, ReadThrows, world, others, Working
    <2>2. Undo(attempted) \/ (pc' \in Working /\ leftovers' = leftovers)
      BY <1>7 DEF ScanContainers, CheckExisting, ListNetworks, ListVolumes, ListExisting,
                  PullImages, report, Working
    <2>. QED
      BY <1>2, <1>3, <1>4, <2>1, <2>2
  <1>8. CASE StopStale \/ RemoveStale \/ CreateNetworks \/ CreateVolumes
             \/ CreateContainer \/ StartContainer
    <2>1. todo \subseteq Objects
      BY <1>0, <1>8 DEF IInv, LoopInv, StopStale, RemoveStale, CreateNetworks, CreateVolumes,
                        Provide, CreateContainer, StartContainer
    <2>2. pc \in Working /\ touched' = touched
      BY <1>8 DEF StopStale, RemoveStale, CreateNetworks, CreateVolumes, Provide,
                  CreateContainer, StartContainer, others, Working
    <2>3. \/ UNCHANGED owner
          \/ \E op \in Ops, o \in todo : Succeeds(op, o) \/ Throws(op, o)
      BY <1>8 DEF StopStale, RemoveStale, CreateNetworks, CreateVolumes, Provide,
                  CreateContainer, StartContainer, world, Ops
    <2>4. Shifted
      BY <1>0, <1>4, <2>1, <2>2, <2>3, CallShifts
    <2>5. \/ Undo(attempted) \/ Undo(attempted')
          \/ pc' \in Working /\ leftovers' = leftovers
      BY <1>8 DEF StopStale, RemoveStale, CreateNetworks, CreateVolumes, Provide,
                  CreateContainer, StartContainer, report, Working
    <2>. QED
      BY <1>2, <1>3, <2>2, <2>4, <2>5
  <1>9. CASE Return
    <2>1. /\ Mine' = Mine /\ Avail' = Avail /\ leftovers' = leftovers
          /\ pc = "create" /\ pc' = "done" /\ todo = {}
      BY <1>4, <1>5, <1>9 DEF Return, world, others, report
    <2>2. Avail = Desired
      BY <2>1 DEF UpInv, Up, Avail
    <2>. QED
      BY <1>1, <2>1, <2>2, PhaseIs DEF Working, Saga!Next, Saga!Commit
  <1>10. CASE UndoStop \/ UndoRemove \/ UndoNetworks \/ UndoVolumes
    <2>1. PICK o \in todo, op \in {"stop", "remove"} :
            /\ Succeeds(op, o) \/ Throws(op, o)
            /\ UNCHANGED leftovers \/ LeftOver(o)
      BY <1>10 DEF UndoStop, UndoRemove, UndoNetworks, UndoVolumes, UndoObjects, Cleaned,
                   report
    <2>2. pc \in Undoing /\ pc' \in Undoing /\ touched' = touched
      BY <1>10 DEF UndoStop, UndoRemove, UndoNetworks, UndoVolumes, UndoObjects, others,
                   Undoing
    <2>3. o \in Objects /\ op \in Ops
      BY <1>0, <2>1, <2>2 DEF IInv, LoopInv, TypeOK, Undoing, Ops
    <2>4. /\ Shifted
          /\ Mine' \in {Mine, Mine \ {o}}
          /\ o \notin Desired => Mine' = Mine
      BY <1>0, <2>1, <2>2, <2>3, CallShifts
    <2>5. CASE leftovers' \cap Desired = leftovers \cap Desired
      BY <1>2, <2>2, <2>4, <2>5
    <2>6. CASE o \in Desired /\ LeftOver(o)
      BY <1>0, <1>1, <2>2, <2>4, <2>6, PhaseIs
         DEF LeftOver, Saga!Next, Saga!Report, Saga!Drift
    <2>. QED
      BY <2>1, <2>5, <2>6 DEF LeftOver
  <1>11. CASE UndoNext
    <2>1. /\ Mine' = Mine /\ Avail' = Avail /\ leftovers' = leftovers
          /\ \/ pc \in Undoing /\ pc' \in Undoing
             \/ pc = "undoVolumes" /\ pc' = "failed"
      BY <1>4, <1>5, <1>11 DEF UndoNext, world, others, report, Undoing
    <2>2. CASE pc \in Undoing /\ pc' \in Undoing
      BY <1>2, <2>1, <2>2 DEF Shifted
    <2>3. CASE pc = "undoVolumes" /\ pc' = "failed"
      <3>1. ASSUME NEW c \in Mine PROVE c \in leftovers
        <4>1. c \in attempted /\ c \in Desired \ touched /\ owner[c] = "attempt"
          BY <3>1 DEF Mine, IInv, DaemonInv
        <4>2. c \in cleaned \cup leftovers /\ docker[c] # "absent"
          BY <1>0, <2>3, <4>1 DEF IInv, JournalInv, DaemonInv
        <4>. QED
          BY <4>1, <4>2 DEF IInv, GoneInv
      <3>. QED
        BY <1>0, <1>1, <2>1, <2>3, <3>1, PhaseIs DEF Undoing, Saga!Next, Saga!Abort
    <2>. QED
      BY <2>1, <2>2, <2>3
  <1>12. CASE LateEffect
    <2>1. PICK op \in Ops, o \in Objects :
            /\ <<op, o>> \in late
            /\ \/ Applies(op, o) /\ Execute(op, o, "attempt")
               \/ UNCHANGED owner
      <3>1. PICK r \in late : \/ Applies(r[1], r[2]) /\ Execute(r[1], r[2], "attempt")
                              \/ UNCHANGED owner
        BY <1>12 DEF LateEffect
      <3>2. PICK op \in Ops, o \in Objects : r = <<op, o>>
        BY <1>0, <3>1 DEF WorldOK
      <3>. QED
        BY <3>1, <3>2
    <2>2. UNCHANGED <<pc, touched, leftovers>> /\ pc \in Undoing \cup {"failed"}
      BY <1>0, <1>12 DEF LateEffect, others, report, IInv, QuietInv, TypeOK, Ended
    <2>3. \A x \in Objects \ {o} : owner'[x] = owner[x]
      BY <1>0, <2>1 DEF Execute, WorldOK
    <2>4. CASE pc \in Undoing
      BY <1>2, <2>2, <2>3, <2>4, OwnShift
    <2>5. CASE pc = "failed"
      <3>1. Mine' \subseteq Mine \/ (o \in leftovers \cap Desired /\ Mine' = Mine \cup {o})
        <4>1. CASE o \notin Desired \/ o \in touched \/ owner'[o] = owner[o]
                   \/ owner'[o] # "attempt"
          BY <2>2, <2>3, <4>1, OwnShift DEF Mine
        <4>2. CASE o \in Desired \ touched /\ owner'[o] = "attempt" /\ owner'[o] # owner[o]
          <5>1. op = "create"
            BY <1>0, <2>1, <4>2 DEF Execute, OwnerAfter, Applies, WorldOK, Ops
          <5>2. o \in attempted
            BY <2>1, <4>2 DEF IInv, DaemonInv
          <5>3. o \in leftovers
            BY <2>1, <2>5, <4>2, <5>1, <5>2 DEF IInv, JournalInv, GoneInv
          <5>. QED
            BY <1>0, <2>2, <2>3, <4>2, <5>3 DEF Mine
        <4>. QED
          BY <4>1, <4>2
      <3>. QED
        BY <1>0, <1>1, <2>2, <2>5, <3>1, PhaseIs DEF Saga!Next, Saga!Settle, Saga!Drift
    <2>. QED
      BY <2>2, <2>4, <2>5
  <1>13. CASE Outside
    <2>1. PICK o \in Objects : /\ touched' = touched \cup {o}
                               /\ \A x \in Objects \ {o} : owner'[x] = owner[x]
      BY <1>0, <1>13 DEF Outside, Execute, WorldOK
    <2>2. Mine' = Mine \ {o}
      BY <1>0, <2>1 DEF Mine
    <2>3. pc' = pc /\ leftovers' = leftovers
      BY <1>13 DEF Outside, report
    <2>4. CASE pc \in Working \cup Undoing
      BY <1>2, <2>2, <2>3, <2>4 DEF Shifted, Mine
    <2>5. CASE pc \in {"idle"} \cup Ended
      BY <1>0, <1>1, <2>2, <2>3, <2>5, PhaseIs
         DEF Ended, Saga!Next, Saga!Settle, Saga!Drift
    <2>. QED
      BY <1>0, <2>4, <2>5 DEF TypeOK
  <1>14. CASE UNCHANGED vars
    <2>1. pc' = pc /\ leftovers' = leftovers /\ UNCHANGED <<docker, owner, touched>>
      BY <1>14 DEF vars, report, world, others
    <2>. QED
      BY <1>4, <1>5, <2>1 DEF Phase, Saga!vars
  <1>. QED
    BY <1>6, <1>7, <1>8, <1>9, <1>10, <1>11, <1>12, <1>13, <1>14 DEF Next, Engine

(* The deployment implements the compensating transaction, for every       *)
(* specification and every number of faults: it commits with all of its    *)
(* containers available or reports what it could not release.              *)
THEOREM IsSaga == Spec => SagaSpec
  <1>1. IInv /\ KindInv /\ UpInv /\ [Next]_vars => KindInv' /\ UpInv'
    BY KindStep, UpStep
  <1>2. IInv /\ UpInv /\ [Next]_vars => [Saga!Next]_(Saga!vars)
    BY SagaStep
  <1>. QED
    BY <1>1, <1>2, InitUp, InitSaga, Inductive, PTL DEF Spec, SagaSpec, Saga!Spec
=============================================================================
