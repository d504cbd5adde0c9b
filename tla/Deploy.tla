------------------------------- MODULE Deploy -------------------------------
(***************************************************************************)
(* One direct Docker deployment: ExecutionEngine.deployWithDocker and the  *)
(* compensation it runs when a step throws, cleanupPartialDeploy.          *)
(*                                                                         *)
(* The engine is sequential, but it is not alone: every call crosses an    *)
(* MCP connection that may time out while the server still carries the     *)
(* request out, and other users of the same Docker daemon act at any time. *)
(* The engine sees Docker only through the lists it reads once.            *)
(*                                                                         *)
(* A replica container, a network and a volume are all "objects".  The     *)
(* name of a desired container comes from toReplicaContainerNames; a stale *)
(* container carries the project's name prefix and is no longer desired.   *)
(***************************************************************************)
EXTENDS Naturals

CONSTANTS
  Desired,          \* containers the approved specification asks for
  Stale,            \* other container names with the project's prefix
  Networks,         \* networks of the specification
  Volumes,          \* volumes of the specification
  Images,           \* distinct images of the specification
  Rank,             \* position of a container in its loop's order
  DependsOn,        \* containers of the services a container's service needs
  MaxPullAttempts,  \* DockerPullRetryPolicy.maxAttempts
  MaxFaults,        \* bound on calls that fail for a reason of the transport
  MaxOutside        \* bound on actions of other users of the daemon

Containers == Desired \cup Stale
Objects == Containers \cup Networks \cup Volumes

(* The order of the schedule puts a service after everything it depends on *)
(* (buildServiceDependencyGraph); object names of different kinds differ.  *)
ASSUME DeployAssumption ==
  /\ Desired \cap Stale = {}
  /\ Networks \cap Volumes = {}
  /\ Containers \cap (Networks \cup Volumes) = {}
  /\ Rank \in [Containers -> Nat]
  /\ \A c, d \in Containers : Rank[c] = Rank[d] => c = d
  /\ DependsOn \in [Desired -> SUBSET Desired]
  /\ \A c \in Desired : \A d \in DependsOn[c] : Rank[d] < Rank[c]
  /\ MaxPullAttempts \in Nat \ {0}
  /\ MaxFaults \in Nat
  /\ MaxOutside \in Nat

VARIABLES
  pc,          \* where the attempt stands
  gate,        \* DockerMcpGateway.allowMutationsInternal
  docker,      \* status of every object in the daemon
  late,        \* requests that timed out and that the server still holds
  seen,        \* what the engine's lists said
  todo,        \* what the current loop has still to visit
  created,     \* createdContainers, createdNetworks and createdVolumes
  attempted,   \* attemptedContainers
  started,     \* containersStarted
  cleaned,     \* CleanupReport.succeeded
  leftovers,   \* CleanupReport.leftovers
  tries,       \* pull attempts made for the current image
  \* Observations: no step of the engine reads the variables below.
  owner,       \* who created the present incarnation of an object
  first,       \* status of every object before the attempt
  touched,     \* objects another user of the daemon has acted on
  unanswered,  \* objects whose creation got no success answer
  faults,      \* transport faults so far
  outside      \* actions of other users so far

journal == <<created, attempted, started>>
report  == <<cleaned, leftovers>>
world   == <<docker, late, owner, unanswered, faults>>
others  == <<first, touched, outside>>
vars == <<pc, gate, todo, seen, tries, journal, report, world, others>>

Status == {"absent", "created", "up", "down"}
Owner  == {"nobody", "attempt", "other"}
Ops    == {"create", "start", "stop", "remove"}

Working == {"scan", "stale", "staleRemove", "listNetworks", "networks",
            "listVolumes", "volumes", "pull", "create", "start"}
Undoing == {"undoContainers", "undoRemove", "undoNetworks", "undoVolumes"}
Ended   == {"refused", "done", "failed"}

TypeOK ==
  /\ pc \in {"idle"} \cup Working \cup Undoing \cup Ended
  /\ gate \in BOOLEAN
  /\ docker \in [Objects -> Status]
  /\ late \subseteq Ops \X Objects
  /\ seen \in [Objects -> Status]
  /\ todo \subseteq Objects \cup Images
  /\ created \subseteq Objects
  /\ attempted \subseteq Desired
  /\ started \subseteq Desired
  /\ cleaned \subseteq Objects
  /\ leftovers \subseteq Objects
  /\ tries \in 1..MaxPullAttempts
  /\ owner \in [Objects -> Owner]
  /\ first \in [Objects -> Status]
  /\ touched \subseteq Objects
  /\ unanswered \subseteq Objects
  /\ faults \in 0..MaxFaults
  /\ outside \in 0..MaxOutside

-----------------------------------------------------------------------------
(* The daemon.  run_container creates and starts; start and stop of a      *)
(* container already in that state succeed; the removal of a container is  *)
(* forced.  Creating a volume that exists and removing one that does not   *)
(* (force) succeed as well.                                                *)

Applies(op, o) ==
  IF o \in Volumes THEN op \in {"create", "remove"}
                   ELSE op = "create" <=> docker[o] = "absent"

After(op, o) == IF op = "remove" THEN "absent"
                ELSE IF op \in {"create", "start"} THEN "up"
                ELSE IF docker[o] = "up" THEN "down" ELSE docker[o]

OwnerAfter(op, o, who) == IF op = "remove" THEN "nobody"
                          ELSE IF docker[o] = "absent" THEN who ELSE owner[o]

Execute(op, o, who) ==
  /\ docker' = [docker EXCEPT ![o] = After(op, o)]
  /\ owner'  = [owner  EXCEPT ![o] = OwnerAfter(op, o, who)]

(* A call of the attempt that returns normally: executeRoute lets it pass  *)
(* and the server executes it before it answers.                           *)
Succeeds(op, o) ==
  /\ gate
  /\ Applies(op, o)
  /\ Execute(op, o, "attempt")
  /\ UNCHANGED <<late, unanswered, faults>>

(* A call that throws: refused by the gate or by the daemon, or hit by a   *)
(* fault of the transport with the request not executed, executed, half    *)
(* executed (created and not started), or still to be executed.            *)
Throws(op, o) ==
  /\ unanswered' = IF op = "create" THEN unanswered \cup {o} ELSE unanswered
  /\ \/ /\ ~gate \/ ~Applies(op, o)
        /\ UNCHANGED <<docker, owner, late, faults>>
     \/ /\ gate
        /\ faults < MaxFaults
        /\ faults' = faults + 1
        /\ \/ UNCHANGED <<docker, owner, late>>
           \/ Applies(op, o) /\ Execute(op, o, "attempt") /\ UNCHANGED late
           \/ /\ op = "create" /\ o \in Containers /\ Applies(op, o)
              /\ docker' = [docker EXCEPT ![o] = "created"]
              /\ owner'  = [owner  EXCEPT ![o] = "attempt"]
              /\ UNCHANGED late
           \/ late' = late \cup {<<op, o>>} /\ UNCHANGED <<docker, owner>>

ReadThrows ==
  /\ faults < MaxFaults
  /\ faults' = faults + 1
  /\ UNCHANGED <<docker, late, owner, unanswered>>

-----------------------------------------------------------------------------
(* deployWithDocker.                                                       *)

Init ==
  /\ pc = "idle"
  /\ gate = FALSE
  /\ docker \in [Objects -> Status]
  /\ \A o \in Networks \cup Volumes : docker[o] \in {"absent", "up"}
  /\ late = {}
  /\ seen = [o \in Objects |-> "absent"]
  /\ todo = {}
  /\ created = {} /\ attempted = {} /\ started = {}
  /\ cleaned = {} /\ leftovers = {}
  /\ tries = 1
  /\ owner = [o \in Objects |-> IF docker[o] = "absent" THEN "nobody" ELSE "other"]
  /\ first = docker
  /\ touched = {} /\ unanswered = {}
  /\ faults = 0 /\ outside = 0

(* The gateway, image and port checks throw before anything is touched.    *)
Begin ==
  /\ pc = "idle"
  /\ \/ pc' = "refused" /\ UNCHANGED gate
     \/ pc' = "scan"    /\ gate' = TRUE
  /\ UNCHANGED <<todo, seen, tries, journal, report, world, others>>

UndoWithoutAttempted(journalled) ==     \* mutant: cleans createdContainers only
  /\ pc' = "undoContainers"
  /\ gate' = TRUE
  /\ todo' = created \cap Containers
  /\ UNCHANGED <<seen, tries, report>>

(* The catch block: cleanupPartialDeploy opens the gate and starts with    *)
(* the containers of the journal.                                          *)
Undo(journalled) ==
  /\ pc' = "undoContainers"
  /\ gate' = TRUE
  /\ todo' = (created \cap Containers) \cup journalled
  /\ UNCHANGED <<seen, tries, report>>

First(c) == c \in todo /\ \A d \in todo : Rank[c] <= Rank[d]
LastForward(c) == First(c)              \* mutant: cleanup without reverse()
Last(c)  == c \in todo /\ \A d \in todo : Rank[d] <= Rank[c]

ScanContainers ==
  /\ pc = "scan"
  /\ \/ /\ seen' = [o \in Objects |-> IF o \in Containers THEN docker[o] ELSE seen[o]]
        /\ todo' = {c \in Stale : docker[c] # "absent"}
        /\ pc' = "stale"
        /\ UNCHANGED <<gate, tries, report, world>>
     \/ ReadThrows /\ Undo(attempted)
  /\ UNCHANGED <<journal, others>>

StopStale ==
  /\ pc = "stale"
  /\ \E c \in todo :
       /\ First(c)
       /\ \/ /\ Succeeds("stop", c)
             /\ pc' = "staleRemove"
             /\ UNCHANGED <<gate, todo, seen, tries, report>>
          \/ Throws("stop", c) /\ Undo(attempted)
  /\ UNCHANGED <<journal, others>>

RemoveStale ==
  /\ pc = "staleRemove"
  /\ \E c \in todo :
       /\ First(c)
       /\ \/ /\ Succeeds("remove", c)
             /\ todo' = todo \ {c}
             /\ pc' = "stale"
             /\ UNCHANGED <<gate, seen, tries, report>>
          \/ Throws("remove", c) /\ Undo(attempted)
  /\ UNCHANGED <<journal, others>>

CheckNothing ==                         \* mutant: guard dropped
  /\ pc = "stale" /\ todo = {}
  /\ pc' = "listNetworks"
  /\ UNCHANGED <<gate, todo, seen, tries, report, journal, world, others>>

(* The all-or-nothing guard, which runs after the stale containers went.   *)
CheckExisting ==
  /\ pc = "stale"
  /\ todo = {}
  /\ IF \E c \in Desired : seen[c] \notin {"absent", "up"}
       THEN Undo(attempted)
       ELSE pc' = "listNetworks" /\ UNCHANGED <<gate, todo, seen, tries, report>>
  /\ UNCHANGED <<journal, world, others>>

(* listNetworks and listVolumes, each read once before its loop.           *)
ListExisting(at, kind, next) ==
  /\ pc = at
  /\ \/ /\ seen' = [o \in Objects |-> IF o \in kind THEN docker[o] ELSE seen[o]]
        /\ todo' = kind
        /\ pc' = next
        /\ UNCHANGED <<gate, tries, report, world>>
     \/ ReadThrows /\ Undo(attempted)
  /\ UNCHANGED <<journal, others>>

ProvideUnjournalled(at, next, nextTodo) ==   \* mutant: no journal entry
  /\ pc = at
  /\ \/ todo = {} /\ pc' = next /\ todo' = nextTodo /\ UNCHANGED <<gate, world, report>>
     \/ \E o \in todo :
          /\ todo' = todo \ {o}
          /\ Succeeds("create", o)
          /\ UNCHANGED <<pc, gate, report>>
     \/ \E o \in todo : Throws("create", o) /\ Undo(attempted)
  /\ UNCHANGED <<seen, tries, journal, others>>

(* The network and volume loops: reuse what the list showed, create the    *)
(* rest; the journal entry follows the answer.                             *)
Provide(at, next, nextTodo) ==
  /\ pc = at
  /\ \/ /\ todo = {}
        /\ pc' = next /\ todo' = nextTodo
        /\ UNCHANGED <<gate, seen, tries, journal, report, world>>
     \/ \E o \in todo :
          \/ /\ seen[o] # "absent"
             /\ todo' = todo \ {o}
             /\ UNCHANGED <<pc, gate, seen, tries, journal, report, world>>
          \/ /\ seen[o] = "absent"
             /\ Succeeds("create", o)
             /\ created' = created \cup {o}
             /\ todo' = todo \ {o}
             /\ UNCHANGED <<pc, gate, seen, tries, attempted, started, report>>
          \/ /\ seen[o] = "absent"
             /\ Throws("create", o)
             /\ Undo(attempted)
             /\ UNCHANGED journal
  /\ UNCHANGED others

ListNetworks   == ListExisting("listNetworks", Networks, "networks")
CreateNetworks == Provide("networks", "listVolumes", {})
ListVolumes    == ListExisting("listVolumes", Volumes, "volumes")
CreateVolumes  == Provide("volumes", "pull", Images)

PullForever ==                          \* mutant: attempts not counted
  /\ pc = "pull"
  /\ \/ todo = {} /\ pc' = "create" /\ todo' = Desired /\ UNCHANGED tries
     \/ UNCHANGED <<pc, todo, tries>>
  /\ UNCHANGED <<gate, seen, journal, report, world, others>>

(* pullImageWithRetry: a retryable failure is tried again up to the limit. *)
PullImages ==
  /\ pc = "pull"
  /\ \/ /\ todo = {}
        /\ pc' = "create" /\ todo' = Desired
        /\ UNCHANGED <<gate, seen, tries, report>>
     \/ \E i \in todo :
          \/ /\ todo' = todo \ {i}
             /\ tries' = 1
             /\ UNCHANGED <<pc, gate, seen, report>>
          \/ /\ tries < MaxPullAttempts
             /\ tries' = tries + 1
             /\ UNCHANGED <<pc, gate, todo, seen, report>>
          \/ Undo(attempted)
  /\ UNCHANGED <<journal, world, others>>

CreateJournalledFirst ==                \* mutant: journal entry before the check
  /\ pc = "create"
  /\ \E c \in todo :
       /\ First(c)
       /\ attempted' = attempted \cup {c}
       /\ IF seen[c] # "absent"
            THEN /\ started' = started \cup {c}
                 /\ todo' = todo \ {c}
                 /\ UNCHANGED <<pc, gate, seen, tries, created, report, world>>
            ELSE /\ Throws("create", c) /\ Undo(attempted')
                 /\ UNCHANGED <<created, started>>
  /\ UNCHANGED others

CreateJournalledLast ==                 \* mutant: journal entry after the answer
  /\ pc = "create"
  /\ \E c \in todo :
       /\ First(c)
       /\ seen[c] = "absent"
       /\ Throws("create", c)
       /\ Undo(attempted)
  /\ UNCHANGED <<journal, others>>

(* One container of the start order: kept when the scan saw it, otherwise  *)
(* entered in the journal and created.                                     *)
CreateContainer ==
  /\ pc = "create"
  /\ \E c \in todo :
       /\ First(c)
       /\ \/ /\ seen[c] # "absent"
             /\ started' = started \cup {c}
             /\ todo' = todo \ {c}
             /\ UNCHANGED <<pc, gate, seen, tries, created, attempted, report, world>>
          \/ /\ seen[c] = "absent"
             /\ attempted' = attempted \cup {c}
             /\ \/ /\ Succeeds("create", c)
                   /\ created' = created \cup {c}
                   /\ pc' = "start"
                   /\ UNCHANGED <<gate, todo, seen, tries, report>>
                \/ /\ Throws("create", c)
                   /\ Undo(attempted')
                   /\ UNCHANGED created
             /\ UNCHANGED started
  /\ UNCHANGED others

StartContainer ==
  /\ pc = "start"
  /\ \E c \in todo :
       /\ First(c)
       /\ \/ /\ Succeeds("start", c)
             /\ started' = started \cup {c}
             /\ todo' = todo \ {c}
             /\ pc' = "create"
             /\ UNCHANGED <<gate, seen, tries, report>>
          \/ Throws("start", c) /\ Undo(attempted) /\ UNCHANGED started
  /\ UNCHANGED <<created, attempted, others>>

Return ==
  /\ pc = "create"
  /\ todo = {}
  /\ pc' = "done"
  /\ gate' = FALSE
  /\ UNCHANGED <<todo, seen, tries, journal, report, world, others>>

-----------------------------------------------------------------------------
(* cleanupPartialDeploy: containers, then networks, then volumes, each in  *)
(* reverse order of creation; a failure is recorded and the loop goes on.  *)

Cleaned(o) ==
  /\ cleaned' = cleaned \cup {o}
  /\ todo' = todo \ {o}
  /\ UNCHANGED leftovers

LeftOver(o) ==
  /\ leftovers' = leftovers \cup {o}
  /\ todo' = todo \ {o}
  /\ UNCHANGED cleaned

UndoStop ==
  /\ pc = "undoContainers"
  /\ \E c \in todo :
       /\ Last(c)
       /\ \/ Succeeds("stop", c) /\ pc' = "undoRemove" /\ UNCHANGED <<todo, report>>
          \/ Throws("stop", c) /\ LeftOver(c) /\ UNCHANGED pc
  /\ UNCHANGED <<gate, seen, tries, journal, others>>

UndoRemoveHopeful ==                    \* mutant: a failed removal counts as done
  /\ pc = "undoRemove"
  /\ pc' = "undoContainers"
  /\ \E c \in todo : /\ Last(c)
                     /\ Succeeds("remove", c) \/ Throws("remove", c)
                     /\ Cleaned(c)
  /\ UNCHANGED <<gate, seen, tries, journal, others>>

UndoRemove ==
  /\ pc = "undoRemove"
  /\ pc' = "undoContainers"
  /\ \E c \in todo :
       /\ Last(c)
       /\ \/ Succeeds("remove", c) /\ Cleaned(c)
          \/ Throws("remove", c) /\ LeftOver(c)
  /\ UNCHANGED <<gate, seen, tries, journal, others>>

UndoObjects(at) ==
  /\ pc = at
  /\ \E o \in todo :
       \/ Succeeds("remove", o) /\ Cleaned(o)
       \/ Throws("remove", o) /\ LeftOver(o)
  /\ UNCHANGED <<pc, gate, seen, tries, journal, others>>

UndoNetworks == UndoObjects("undoNetworks")
UndoVolumes  == UndoObjects("undoVolumes")

UndoNext ==
  /\ todo = {}
  /\ \/ pc = "undoContainers" /\ pc' = "undoNetworks"
        /\ todo' = created \cap Networks /\ UNCHANGED gate
     \/ pc = "undoNetworks" /\ pc' = "undoVolumes"
        /\ todo' = created \cap Volumes /\ UNCHANGED gate
     \/ pc = "undoVolumes" /\ pc' = "failed" /\ gate' = FALSE /\ UNCHANGED todo
  /\ UNCHANGED <<seen, tries, journal, report, world, others>>

-----------------------------------------------------------------------------
(* The rest of the world.                                                  *)

(* A request whose caller gave up is executed after all.                   *)
LateEffect ==
  \E r \in late :
    /\ late' = late \ {r}
    /\ IF Applies(r[1], r[2]) THEN Execute(r[1], r[2], "attempt")
                              ELSE UNCHANGED <<docker, owner>>
    /\ UNCHANGED <<pc, gate, todo, seen, tries, journal, report, unanswered,
                   faults, others>>

(* Another user of the daemon, or a container that exits by itself.        *)
Outside ==
  /\ outside < MaxOutside
  /\ outside' = outside + 1
  /\ \E op \in Ops, o \in Objects :
       /\ o \in Containers \/ op \in {"create", "remove"}
       /\ Applies(op, o)
       /\ Execute(op, o, "other")
       /\ touched' = touched \cup {o}
  /\ UNCHANGED <<pc, gate, todo, seen, tries, journal, report, late, unanswered,
                 faults, first>>

Engine ==
  \/ Begin \/ ScanContainers \/ StopStale \/ RemoveStale \/ CheckExisting
  \/ ListNetworks \/ CreateNetworks \/ ListVolumes \/ CreateVolumes
  \/ PullImages \/ CreateContainer \/ StartContainer \/ Return
  \/ UndoStop \/ UndoRemove \/ UndoNetworks \/ UndoVolumes \/ UndoNext

Next == Engine \/ LateEffect \/ Outside

Spec == Init /\ [][Next]_vars

(* Every request is answered or times out, and a pull sleeps for a bounded *)
(* time, so the engine always takes its next step.                         *)
FairSpec == Spec /\ WF_vars(Engine)

-----------------------------------------------------------------------------
(* What the attempt promises.                                              *)

(* A desired container that was there before the attempt, running or not,  *)
(* is never changed by it: neither the create loop nor the cleanup, however *)
(* late a request takes effect, reaches a container the scan showed.       *)
PreExistingUntouched ==
  \A c \in Desired \ touched :
    first[c] # "absent" => docker[c] = first[c] /\ owner[c] = "other"

(* A failed attempt names every container of its own that is still there:  *)
(* a container enters attemptedContainers before the call, so a lost       *)
(* answer cannot hide it from the cleanup.                                 *)
ContainersReported ==
  pc = "failed" => \A c \in Desired \ touched :
                     owner[c] = "attempt" => c \in leftovers

(* Networks and volumes enter the journal after the answer, so the only    *)
(* ones a failed attempt can leave behind unreported are those whose       *)
(* creation was never confirmed.                                           *)
ObjectsReported ==
  pc = "failed" => \A o \in (Networks \cup Volumes) \ touched :
                     owner[o] = "attempt" => o \in leftovers \cup unanswered

(* What the cleanup report lists as succeeded is gone and stays gone, even *)
(* with requests of the attempt still in flight.                           *)
CleanedIsGone ==
  \A o \in cleaned \ touched : docker[o] = "absent"

(* A deployment that returns has everything the specification asks for up. *)
SuccessMeansUp ==
  pc = "done" => \A o \in (Desired \cup Networks \cup Volumes) \ touched :
                   docker[o] = "up"

(* A container is created only after its dependencies were started or kept, *)
(* and the cleanup reaches a container only after those that need it.      *)
DependencyOrder ==
  /\ \A c \in attempted : DependsOn[c] \subseteq started
  /\ \A c \in attempted : \A d \in DependsOn[c] :
       d \in cleaned \cup leftovers => c \in cleaned \cup leftovers

(* What makes the promises above inductive.  Each loop visits what it is   *)
(* meant to visit: the create loop nothing it journalled before, the undo  *)
(* loops only what the journal holds.                                      *)
LoopInv ==
  /\ pc \in {"stale", "staleRemove"} => todo \subseteq Stale
  /\ pc = "networks" => todo \subseteq Networks
  /\ pc = "volumes" => todo \subseteq Volumes
  /\ pc \in {"create", "start"} => todo \subseteq Desired
  /\ pc = "create" => todo \cap attempted = {}
  /\ pc = "start" => \A c \in todo : c \in attempted <=> First(c)
  /\ pc \in {"undoContainers", "undoRemove"} => todo \subseteq attempted
  /\ pc \in {"undoNetworks", "undoVolumes"} =>
       todo \subseteq created \cap (Networks \cup Volumes)

(* The lists are never stale about an object nobody else touches.          *)
SeenInv ==
  /\ pc \in Working \ {"scan"} => \A c \in Desired \ touched : seen[c] = first[c]
  /\ pc \in {"networks", "volumes"} => \A o \in todo \ touched : docker[o] = seen[o]

(* Every journalled container is in the cleanup's loop or in its report.   *)
JournalInv ==
  /\ pc \in {"idle", "refused"} \cup (Working \ {"create", "start"}) => attempted = {}
  /\ created \cap Desired \subseteq attempted
  /\ created \cap Stale = {}
  /\ pc \in {"idle", "scan", "stale", "staleRemove", "listNetworks"} => created = {}
  /\ pc \in {"networks", "listVolumes"} => created \cap Volumes = {}
  /\ pc \in {"networks", "volumes"} => created \cap todo = {}
  /\ pc \in {"idle"} \cup Working \cup {"refused"} => cleaned = {}
  /\ pc \in {"undoContainers", "undoRemove"} =>
       attempted \subseteq todo \cup cleaned \cup leftovers
  /\ pc \in {"undoNetworks", "undoVolumes", "failed"} =>
       attempted \subseteq cleaned \cup leftovers

(* The first call that throws ends the work, so no request is in flight    *)
(* while the attempt works.                                                *)
QuietInv == pc \in {"idle", "refused", "done"} \cup Working => late = {}

(* Containers outside the journal are as they were found, journalled ones  *)
(* were absent, and a creation is pending only for an absent object.       *)
DaemonInv ==
  /\ \A o \in Objects : owner[o] = "nobody" <=> docker[o] = "absent"
  /\ \A c \in Desired \ (touched \cup attempted) :
       docker[c] = first[c] /\ owner[c] # "attempt"
  /\ \A c \in attempted \ touched : first[c] = "absent"
  /\ \A op \in Ops, c \in Desired : <<op, c>> \in late => c \in attempted
  /\ \A o \in Objects \ touched : <<"create", o>> \in late => docker[o] = "absent"
  /\ \A o \in Volumes : <<"create", o>> \in late => o \notin created

GoneInv ==
  \A o \in cleaned \ touched : docker[o] = "absent" /\ <<"create", o>> \notin late

IInv == TypeOK /\ LoopInv /\ SeenInv /\ JournalInv /\ QuietInv /\ DaemonInv /\ GoneInv

(* What the dependencies, the success and the report of networks and       *)
(* volumes rest on besides IInv.  The create loop has started or kept what *)
(* it no longer has to visit, and no report is written before the cleanup. *)
OrderInv ==
  /\ pc \in {"create", "start"} => Desired \ todo \subseteq started
  /\ pc \in {"idle", "refused"} \cup Working => leftovers = {}
  /\ DependencyOrder

(* Networks and volumes are there or not and are never started or stopped. *)
KindInv ==
  /\ \A o \in Networks \cup Volumes : docker[o] \in {"absent", "up"}
  /\ \A op \in Ops, o \in Networks \cup Volumes :
       <<op, o>> \in late => op \in {"create", "remove"}

(* What a loop has passed is up, and stays so unless somebody else acts.   *)
Up(S) == \A o \in S \ touched : docker[o] = "up"
UpInv ==
  /\ pc \in Working \ {"scan", "stale", "staleRemove"} =>
       \A c \in Desired : seen[c] \in {"absent", "up"}
  /\ pc = "networks" => Up(Networks \ todo)
  /\ pc \in {"listVolumes", "volumes", "pull", "create", "start", "done"} => Up(Networks)
  /\ pc = "volumes" => Up(Volumes \ todo)
  /\ pc \in {"pull", "create", "start", "done"} => Up(Volumes)
  /\ pc \in {"create", "start"} => Up(Desired \ todo)
  /\ pc = "done" => Up(Desired)

(* Only a creation makes the attempt the owner of a network or volume: the *)
(* object is in the journal, or its creation was not confirmed.            *)
OwnedPart ==
  /\ \A o \in Networks \cup Volumes : <<"create", o>> \in late => o \in unanswered
  /\ \A o \in (Networks \cup Volumes) \ touched :
       owner[o] = "attempt" => o \in created \cup unanswered

(* The undo loops pass over nothing in the journal.                        *)
OwnedInv ==
  /\ OwnedPart
  /\ pc = "undoNetworks" => created \cap Networks \subseteq todo \cup cleaned \cup leftovers
  /\ pc \in {"undoVolumes", "failed"} => created \cap Networks \subseteq cleaned \cup leftovers
  /\ pc = "undoVolumes" => created \cap Volumes \subseteq todo \cup cleaned \cup leftovers
  /\ pc = "failed" => created \cap Volumes \subseteq cleaned \cup leftovers

(* An attempt that has started ends, whatever fails and however often.     *)
AttemptEnds == pc = "scan" ~> pc \in {"done", "failed"}

(* The attempt is a compensating transaction over its containers.          *)
Phase == IF pc \in {"idle", "refused"} THEN "ready"
         ELSE IF pc \in Working THEN "working"
         ELSE IF pc \in Undoing THEN "undoing"
         ELSE IF pc = "done" THEN "committed" ELSE "aborted"
Mine  == {c \in Desired \ touched : owner[c] = "attempt"}
Avail == {c \in Desired : docker[c] = "up" \/ c \in touched}
Saga == INSTANCE Saga WITH
  R        <- Desired,
  phase    <- Phase,
  held     <- Mine,
  avail    <- Avail,
  reported <- leftovers \cap Desired
SagaSpec == Saga!Spec
=============================================================================
