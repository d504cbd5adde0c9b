------------------------------ MODULE Destroy ------------------------------
(***************************************************************************)
(* Taking a project down: the destroy and destroy-all commands of          *)
(* cli/main.ts with ExecutionEngine.destroyWithDocker, and the engine's    *)
(* cleanupAttemptScope, which the deploy loop runs after a failed attempt. *)
(*                                                                         *)
(* All three find what to remove by name: whatever starts with the name of *)
(* the project and a hyphen, in lists read at different moments.  A failed *)
(* removal is noted and the loop goes on.  destroy looks again at the end; *)
(* the other two do not.  Both commands clear the saved snapshots          *)
(* afterwards, removed or not.  One command runs at a time; other users of *)
(* the Docker daemon may act between any two steps.                        *)
(***************************************************************************)
EXTENDS Naturals

CONSTANTS
  Projects,
  Containers, Networks, Volumes,   \* names
  Protected,    \* networks isProtectedDockerNetwork refuses to touch
  Prefixed,     \* per project, the names that start with its name and "-"
  Desired,      \* per project, the objects of its specification
  Refs,         \* per project, the references saved with its snapshot
  Attached,     \* per container, its networks and volumes
  MaxCommands, MaxFaults, MaxOutside  \* bounds

Objects == Containers \cup Networks \cup Volumes

(* Snapshots are stored with canonical specifications, all of whose names  *)
(* have the prefix (namespaceInfrastructureSpec); references without it are*)
(* ignored.  A project is not called after a Docker Desktop extension: its *)
(* networks would be protected.  Names of different kinds differ.          *)
ASSUME DestroyAssumption ==
  /\ Containers \cap (Networks \cup Volumes) = {}
  /\ Networks \cap Volumes = {}
  /\ Protected \subseteq Networks
  /\ Prefixed \in [Projects -> SUBSET Objects]
  /\ Desired \in [Projects -> SUBSET Objects]
  /\ Refs \in [Projects -> SUBSET Objects]
  /\ \A p \in Projects : /\ Desired[p] \subseteq Prefixed[p] \ Protected
                         /\ Refs[p] \subseteq Prefixed[p]
  /\ Attached \in [Containers -> SUBSET (Networks \cup Volumes)]
  /\ MaxCommands \in Nat /\ MaxFaults \in Nat /\ MaxOutside \in Nat

VARIABLES
  pc, kind,
  on,           \* the projects the command is about, from the state it loaded
  withVolumes,  \* --remove-volumes
  gate,         \* DockerMcpGateway.allowMutationsInternal
  docker,       \* status of every object in the daemon
  todo,         \* what the command has still to remove
  stopped,      \* the container it has just stopped
  errors,       \* objects in removalErrors and issues, or in failed
  outcome,      \* how the last command ended
  saved,        \* projects with a verified snapshot
  \* Observations: the program does not read the variables below.
  fresh,        \* created since the list the command's outcome rests on
  mine,         \* objects a deployment of this tool brought up and still there
  known,        \* leftovers a command printed, volumes it was to preserve
  commands, faults, outside

job == <<kind, on, withVolumes>>
world == <<docker, mine, faults>>
work == <<todo, stopped, errors>>
others == <<commands, outside>>
vars == <<pc, job, gate, world, work, outcome, saved, fresh, known, others>>

Present(o) == docker[o] # "absent"
Named == {o \in Objects : \E p \in on : o \in Prefixed[p]}
Wanted(o) == o \notin Protected /\ (o \in Volumes => withVolumes)

(* The types; mutations are allowed exactly while a command removes.       *)
TypeOK ==
  /\ pc \in {"idle", "prompt", "list", "containers", "others", "verify", "clear"}
  /\ kind \in {"destroy", "destroy-all", "cleanup"} /\ on \subseteq Projects
  /\ withVolumes \in BOOLEAN /\ gate \in BOOLEAN
  /\ docker \in [Objects -> {"absent", "up", "down"}]
  /\ todo \subseteq Objects /\ errors \subseteq Objects
  /\ stopped \subseteq todo \cap Containers
  /\ outcome \in {"none", "rejected", "nothing", "passed", "failed", "error", "died"}
  /\ saved \subseteq Projects
  /\ fresh \subseteq Objects /\ mine \subseteq Objects /\ known \subseteq Objects
  /\ commands \in 0..MaxCommands /\ faults \in 0..MaxFaults
  /\ outside \in 0..MaxOutside
  /\ gate <=> pc \in {"containers", "others"} \/ (pc = "list" /\ kind = "cleanup")

Init ==
  /\ pc = "idle" /\ kind = "destroy" /\ on = {}
  /\ withVolumes = FALSE /\ gate = FALSE
  /\ saved \in SUBSET Projects
  /\ mine = UNION {Desired[p] : p \in saved}
  /\ docker = [o \in Objects |-> IF o \in mine THEN "up" ELSE "absent"]
  /\ todo = {} /\ stopped = {} /\ errors = {} /\ outcome = "none"
  /\ fresh = {} /\ known = {}
  /\ commands = 0 /\ faults = 0 /\ outside = 0

-----------------------------------------------------------------------------
(* The daemon.  A network with a running container and a volume of any     *)
(* container are in use; removing a volume that is not there succeeds      *)
(* (removeVolume forces).                                                  *)

InUse(o) == \E c \in Containers :
              /\ o \in Attached[c]
              /\ docker[c] = "up" \/ (o \in Volumes /\ Present(c))

Applies(o) == IF o \in Containers THEN Present(o)
              ELSE ~InUse(o) /\ (Present(o) \/ o \in Volumes)

Execute(o, status) ==
  /\ docker' = [docker EXCEPT ![o] = status]
  /\ mine' = IF status = "absent" THEN mine \ {o} ELSE mine

(* A call that stops or removes o, and is answered.                        *)
Succeeds(o, status) ==
  gate /\ Applies(o) /\ Execute(o, status) /\ UNCHANGED <<faults, errors>>

\* Mutated: destroy-all takes every refusal for an object that is absent.
NoteLenient(o) == errors' = IF kind = "destroy-all" THEN errors ELSE errors \cup {o}

(* A refused call.  destroy-all only warns of an object that is absent.    *)
Note(o) ==
  errors' = IF kind = "destroy-all" /\ ~Present(o) THEN errors ELSE errors \cup {o}

(* A call that throws: the daemon refuses it, or the answer is lost with   *)
(* the request executed or not.                                            *)
Throws(o, status) ==
  \/ ~Applies(o) /\ UNCHANGED world /\ Note(o)
  \/ /\ faults < MaxFaults
     /\ faults' = faults + 1
     /\ \/ UNCHANGED <<docker, mine>>
        \/ gate /\ Applies(o) /\ Execute(o, status)
     /\ errors' = errors \cup {o}

Fault == faults < MaxFaults /\ faults' = faults + 1 /\ UNCHANGED <<docker, mine>>

-----------------------------------------------------------------------------
(* The commands.                                                           *)

(* The command returns or throws; finally takes the permission back.       *)
End(result) ==
  /\ pc' = "idle" /\ gate' = FALSE /\ outcome' = result
  /\ todo' = {} /\ stopped' = {}
  /\ UNCHANGED <<job, others>>

(* A command starts: destroy needs a snapshot of its project, destroy-all  *)
(* takes all there are, the cleanup is of the project just deployed.       *)
Begin(k, ps, v) ==
  /\ pc = "idle"
  /\ commands < MaxCommands
  /\ k = "destroy" => \E p \in saved : ps = {p}
  /\ k = "destroy-all" => ps = saved
  /\ k = "cleanup" => ~v /\ \E p \in Projects : ps = {p}
  /\ commands' = commands + 1
  /\ kind' = k /\ on' = ps /\ withVolumes' = v
  /\ pc' = IF k = "destroy" THEN "prompt" ELSE "list"
  /\ gate' = (k = "cleanup")
  /\ errors' = {} /\ outcome' = "none" /\ fresh' = {}
  /\ UNCHANGED <<world, todo, stopped, saved, known, outside>>

(* destroy asks before it has looked at Docker, destroy-all about its      *)
(* targets.                                                                *)
Approve ==
  /\ pc = "prompt"
  /\ pc' = IF kind = "destroy" THEN "list" ELSE "containers"
  /\ gate' = (kind = "destroy-all")
  /\ UNCHANGED <<job, world, work, outcome, saved, fresh, known, others>>

Reject ==
  /\ pc = "prompt" /\ End("rejected")
  /\ UNCHANGED <<world, errors, saved, fresh, known>>

\* Mutated: protected networks not excepted.
TargetsUnprotected ==
  {o \in Named : (o \in Volumes => withVolumes)
                 /\ (Present(o) \/ kind = "destroy-all")}

(* What the list gives rise to: everything there with the prefix.          *)
(* destroy-all adds the saved references, there or not                     *)
(* (collectDestroyAllTargets).                                             *)
Targets ==
  {o \in Named :
     /\ Wanted(o)
     /\ \/ Present(o)
        \/ kind = "destroy-all" /\ \E p \in on : o \in Refs[p]}

(* observeActualState, or listContainers in cleanupAttemptScope.           *)
List ==
  /\ pc = "list"
  /\ \/ /\ fresh' = {}
        /\ UNCHANGED world
        /\ \/ /\ kind = "destroy-all" /\ Targets = {}
              /\ End("nothing")
           \/ /\ kind = "destroy-all" => Targets # {}
              /\ todo' = IF kind = "cleanup" THEN Targets \cap Containers ELSE Targets
              /\ pc' = IF kind = "destroy-all" THEN "prompt" ELSE "containers"
              /\ gate' = (kind # "destroy-all")
              /\ UNCHANGED <<job, stopped, outcome, others>>
     \/ Fault /\ End("error") /\ UNCHANGED fresh
  /\ UNCHANGED <<errors, saved, known>>

(* stopContainer.  The order of the containers is left open: the program   *)
(* has one order per command (sortContainersForRemoval in destroy).        *)
Stop ==
  /\ pc = "containers" /\ stopped = {}
  /\ \E c \in todo \cap Containers :
       \/ Succeeds(c, "down") /\ stopped' = {c} /\ UNCHANGED todo
       \/ Throws(c, "down") /\ todo' = todo \ {c} /\ UNCHANGED stopped
  /\ UNCHANGED <<pc, job, gate, outcome, saved, fresh, known, others>>

(* removeContainer, forced, of the container just stopped.                 *)
Remove ==
  /\ pc = "containers"
  /\ \E c \in stopped :
       /\ Succeeds(c, "absent") \/ Throws(c, "absent")
       /\ todo' = todo \ {c}
  /\ stopped' = {}
  /\ UNCHANGED <<pc, job, gate, outcome, saved, fresh, known, others>>

(* On to the networks; the cleanup lists them only now.                    *)
TurnToOthers ==
  /\ pc = "containers" /\ todo \cap Containers = {}
  /\ \/ /\ pc' = "others"
        /\ IF kind = "cleanup"
             THEN todo' = Targets \cap Networks /\ fresh' = fresh \ Networks
             ELSE UNCHANGED <<todo, fresh>>
        /\ UNCHANGED <<job, gate, world, stopped, outcome, others>>
     \/ kind = "cleanup" /\ Fault /\ End("error") /\ UNCHANGED fresh
  /\ UNCHANGED <<errors, saved, known>>

(* removeNetwork, then removeVolume.                                       *)
RemoveOther ==
  /\ pc = "others"
  /\ \E o \in todo :
       /\ o \in Volumes => todo \subseteq Volumes
       /\ Succeeds(o, "absent") \/ Throws(o, "absent")
       /\ todo' = todo \ {o}
  /\ UNCHANGED <<pc, job, gate, stopped, outcome, saved, fresh, known, others>>

Result == IF errors = {} THEN "passed" ELSE "failed"

(* What is printed before the state is cleared, or known without a word.   *)
Tell(leftovers) ==
  known' = known \cup leftovers \cup {o \in Volumes \cap Named : ~withVolumes}

(* All tried.  The deploy loop drops the report of the cleanup.            *)
Tried ==
  /\ pc = "others" /\ todo = {}
  /\ \/ /\ kind = "cleanup" /\ End(Result)
        /\ UNCHANGED known
     \/ /\ kind # "cleanup"
        /\ pc' = IF kind = "destroy" THEN "verify" ELSE "clear"
        /\ gate' = FALSE
        /\ IF kind = "destroy" THEN UNCHANGED known ELSE Tell(errors)
        /\ UNCHANGED <<job, todo, stopped, outcome, others>>
  /\ UNCHANGED <<world, errors, saved, fresh>>

(* verifyDestroy: the issues beyond the removal errors.                    *)
StillPresent == {o \in Named : Wanted(o) /\ Present(o)}

(* observeActualState once more, and the report.                           *)
Verify ==
  /\ pc = "verify"
  /\ \/ /\ errors' = errors \cup StillPresent
        /\ fresh' = {}
        /\ Tell(errors')
        /\ pc' = "clear"
        /\ UNCHANGED <<job, gate, world, todo, stopped, outcome, others>>
     \/ Fault /\ End("error") /\ UNCHANGED <<errors, fresh, known>>
  /\ UNCHANGED saved

\* Mutated: destroy clears every project.
SavedAfterAll == {}

(* clearManagedProjectState, clearManagedStateAfterDestroyAll.             *)
SavedAfter == IF kind = "destroy" THEN saved \ on ELSE {}

(* The state is cleared whatever the result.                               *)
Clear ==
  /\ pc = "clear"
  /\ \/ saved' = SavedAfter /\ End(Result) /\ UNCHANGED world
     \/ Fault /\ End("error") /\ UNCHANGED saved
  /\ UNCHANGED <<errors, fresh, known>>

(* The process is killed.                                                  *)
Die ==
  /\ pc # "idle" /\ End("died")
  /\ UNCHANGED <<world, errors, saved, fresh, known>>

-----------------------------------------------------------------------------
(* The surroundings.                                                       *)

(* Another user of the daemon creates, removes, starts or stops something. *)
Outside ==
  /\ outside < MaxOutside
  /\ outside' = outside + 1
  /\ \E o \in Objects :
       \E status \in {"absent", "up", "down"} \ {docker[o]} :
         /\ status = "down" => o \in Containers
         /\ Execute(o, status)
         /\ fresh' = IF Present(o) THEN fresh ELSE fresh \cup {o}
  /\ UNCHANGED <<pc, job, gate, faults, work, outcome, saved, known, commands>>

(* A deployment of p that is verified and saved.                           *)
Redeploy(p) ==
  /\ pc = "idle"
  /\ commands < MaxCommands
  /\ commands' = commands + 1
  /\ docker' = [o \in Objects |-> IF o \in Desired[p] THEN "up" ELSE docker[o]]
  /\ mine' = mine \cup Desired[p]
  /\ fresh' = fresh \cup Desired[p]
  /\ saved' = saved \cup {p}
  /\ known' = known \ Desired[p]
  /\ UNCHANGED <<pc, job, gate, faults, work, outcome, outside>>

Command ==
  \/ \E k \in {"destroy", "destroy-all", "cleanup"}, ps \in SUBSET Projects,
        v \in BOOLEAN : Begin(k, ps, v)
  \/ Approve \/ Reject \/ List \/ Stop \/ Remove \/ TurnToOthers \/ RemoveOther
  \/ Tried \/ Verify \/ Clear \/ Die

Next == Command \/ Outside \/ \E p \in Projects : Redeploy(p)

Spec == Init /\ [][Next]_vars

-----------------------------------------------------------------------------
(* The report is complete: once a destroy, a destroy-all or a cleanup has  *)
(* returned, every object it was to remove is gone, is among the failures, *)
(* or was created after the list was read; and it passed only if there are *)
(* no failures.  Containers restarted meanwhile, refusals and lost answers *)
(* included.                                                               *)
Accounted ==
  outcome \in {"passed", "failed"} =>
    /\ \A o \in Named : Wanted(o) /\ Present(o) => o \in errors \cup fresh
    /\ outcome = "passed" <=> errors = {}

(* Nothing this tool deployed is lost sight of: it bears the prefix of a   *)
(* project that is still saved, so destroy finds it again, or some command *)
(* printed it, or it is a volume that was to be preserved.                 *)
NoSilentOrphans ==
  \A o \in mine : o \in known \/ \E p \in saved : o \in Prefixed[p]

(* Whatever a command does to Docker, it does while mutations are allowed, *)
(* to objects with the prefix of a project it is about, never to protected *)
(* networks, and to volumes only with --remove-volumes.                    *)
Untouched ==
  [][\A o \in Objects :
       docker'[o] # docker[o] /\ UNCHANGED others =>
         gate /\ Wanted(o) /\ o \in Named]_vars

(* README.md:75: destroy "removes managed resources for a single verified  *)
(* project": it leaves alone the objects of every other saved project.     *)
SingleProject ==
  [][\A o \in Objects, q \in saved \ on :
       kind = "destroy" /\ docker'[o] # docker[o] /\ UNCHANGED others =>
         o \notin Desired[q]]_vars

=============================================================================
