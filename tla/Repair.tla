------------------------------- MODULE Repair -------------------------------
(***************************************************************************)
(* The repair command, and status --drift --repair, of cli/main.ts with    *)
(* ExecutionEngine.detectRuntimeDrift and repairWithDocker: Docker is      *)
(* observed and compared with the saved specification, the user answers    *)
(* yes, no or sync.  A repair runs the actions of the plan one after the   *)
(* other, notes those that fail and goes on, observes again and saves only *)
(* if all succeeded and nothing differs any more.  A sync derives a        *)
(* specification from what was observed before the question.               *)
(* Other users of the Docker daemon may act between any two steps.         *)
(***************************************************************************)
EXTENDS Drift, Integers

CONSTANTS
  Mentions,     \* <<container name, service>>: the name of the container, the
                \* project's included, contains the name of the service
  InitSpecs,    \* specifications that may have been saved
  InitWorlds,   \* what Docker may have when the story begins
  MaxEvents,    \* bound on commands, faults and acts of others together
  MaxCalm       \* calm is counted up to here

(* A saved specification is canonical, and only services without a number  *)
(* have replicas (names with two numbers are left out); at least its own   *)
(* containers mention a service.                                           *)
Replicable(spec) == \A k \in DOMAIN spec.svc : spec.svc[k].replicas > 1 => k.nr = 0
ASSUME RepairAssumption ==
  /\ InitWorlds \subseteq Worlds
  /\ \A spec \in InitSpecs : IsSpec(spec) /\ Canonical(spec) = spec /\ Replicable(spec)
  /\ Mentions \subseteq Names \X Keys
  /\ \A n \in Names : <<n, KeyOf(n)>> \in Mentions /\ <<n, Plain(n.base)>> \in Mentions
  /\ MaxEvents \in Nat /\ MaxCalm \in Nat

VARIABLES
  pc,
  gate,       \* DockerMcpGateway.allowMutationsInternal
  docker,
  saved,      \* desired of the verified snapshot
  seen,       \* the first observation, until it is of no use any more
  hidden,     \* containers it lists that inspect did not find
  todo,       \* what is left of the plan
  at,         \* the recreation under way: its container, service and step
  failed,     \* what actionsFailed names, as far as it is not lost
  outcome,    \* how the last command ended
  \* Observations: the program does not read the variables below.
  removed,    \* containers this command has removed, and nobody else since
  verified,   \* what the observation of the last save through a repair saw
  calm,       \* repairs, and looks that found no drift, since anything else
              \* than the program interfered; Disturbed until a command begins
              \* with which nothing does
  commands, faults, outside

ghosts == <<removed, verified, calm>>
counts == <<commands, faults, outside>>
Spare == commands + faults + outside < MaxEvents
vars == <<pc, gate, docker, saved, seen, hidden, todo, at, failed, outcome, ghosts, counts>>

NoReport == [start |-> {}, stop |-> {}, recreate |-> {}, nets |-> {}, vols |-> {},
             imgs |-> {}, unsure |-> {}]
Reports == [start : SUBSET Names, stop : SUBSET Names, recreate : SUBSET Names,
            nets : SUBSET Labels(Networks), vols : SUBSET Labels(Volumes),
            imgs : SUBSET Images, unsure : SUBSET Names]
Unseen == [conts |-> [n \in Names |-> Nothing], nets |-> {}, vols |-> {}, imgs |-> {}]
Idle == [name |-> {}, service |-> {}, step |-> "none"]
Disturbed == -1
Calms == {Disturbed} \cup 0..MaxCalm

(* The types; mutations are allowed exactly while the actions run.         *)
TypeOK ==
  /\ pc \in {"idle", "ask", "act", "check"}
  /\ docker \in Worlds /\ IsSpec(saved)
  /\ seen \in Worlds /\ hidden \subseteq Names
  /\ todo \in Reports /\ failed \in Reports
  /\ at \in [name : SUBSET Names, service : SUBSET Keys,
             step : {"none", "stop", "remove", "create", "start"}]
  /\ outcome \in {"none", "clean", "rejected", "nothing", "synced", "refused",
                  "repaired", "incomplete", "error", "died"}
  /\ removed \subseteq Names /\ verified \in Worlds \cup {Nothing}
  /\ calm \in Calms
  /\ commands \in Nat /\ faults \in Nat /\ outside \in Nat
  /\ gate <=> pc = "act"

Init ==
  /\ pc = "idle" /\ gate = FALSE
  /\ docker \in InitWorlds /\ saved \in InitSpecs
  /\ seen = Unseen /\ hidden = {}
  /\ todo = NoReport /\ failed = NoReport /\ at = Idle
  /\ outcome = "none" /\ removed = {} /\ verified = Nothing
  /\ calm = 0 /\ commands = 0 /\ faults = 0 /\ outside = 0

-----------------------------------------------------------------------------
(* The daemon, behind the tools of the MCP server.                         *)

Present(n) == docker.conts[n].status # "absent"
SetStatus(n, s) == [docker EXCEPT !.conts[n].status = s]
Without(n) == [docker EXCEPT !.conts[n] = Nothing]

(* A fault: the call throws; the request was executed or not.              *)
Fault ==
  Spare /\ faults' = faults + 1 /\ calm' = Disturbed
NoFault == UNCHANGED <<faults, calm>>

(* run_container starts what it creates and pulls a missing image; if the  *)
(* network is not there the container may be left behind, not started.  A  *)
(* container gets the first network of the list only; which one that is is *)
(* left open.                                                              *)
Created(n, def) ==
  [docker EXCEPT !.conts[n] = [status |-> "up", image |-> def.image, ports |-> def.ports],
                 !.vols = @ \cup def.mounts, !.imgs = @ \cup {def.image}]
LeftDown(n, def) ==
  [docker EXCEPT !.conts[n] = [status |-> "down", image |-> def.image, ports |-> def.ports],
                 !.vols = @ \cup def.mounts, !.imgs = @ \cup {def.image}]
MayCreate(n) == ~Present(n) /\ (saved.nets = {} \/ saved.nets \cap docker.nets # {})
MayRefuse(n) == Present(n) \/ ~(saved.nets \subseteq docker.nets)

-----------------------------------------------------------------------------
(* The command.                                                            *)

End(result) ==
  /\ pc' = "idle" /\ gate' = FALSE /\ outcome' = result
  /\ todo' = NoReport /\ at' = Idle

Calmer(c) == IF c \in {Disturbed, MaxCalm} THEN c ELSE c + 1
CalmSoFar == IF calm = Disturbed THEN 0 ELSE calm
Forget == seen' = Unseen /\ hidden' = {}

(* detectRuntimeDrift.  A container that goes away between the list and its*)
(* inspection is in the observation with what the list showed (Vanishes).  *)
Detect ==
  /\ pc = "idle" /\ Spare
  /\ commands' = commands + 1
  /\ failed' = NoReport /\ removed' = {} /\ verified' = Nothing
  /\ \/ /\ \E blind \in {{}} \cup (IF commands + faults + outside + 1 < MaxEvents THEN {{n} : n \in There(docker)} ELSE {}) :
             /\ docker' = [docker EXCEPT !.conts =
                             [n \in Names |-> IF n \in blind THEN Nothing ELSE @[n]]]
             /\ outside' = IF blind = {} THEN outside ELSE outside + 1
             /\ \E first \in Firsts(saved, docker) :
                  LET r == Report(saved, docker, blind, first)
                  IN IF Clean(r)
                       THEN End("clean") /\ Forget
                            /\ calm' = IF blind = {} THEN Calmer(CalmSoFar) ELSE Disturbed
                       ELSE /\ pc' = "ask" /\ todo' = r
                            /\ seen' = docker /\ hidden' = blind
                            /\ calm' = IF blind = {} THEN CalmSoFar ELSE Disturbed
                            /\ outcome' = "none" /\ UNCHANGED <<gate, at>>
        /\ UNCHANGED faults
     \/ /\ Fault /\ End("error") /\ Forget
        /\ UNCHANGED <<docker, outside>>
  /\ UNCHANGED saved

(* requestDriftResolutionChoice: no, or nothing.                           *)
Reject ==
  /\ pc = "ask" /\ End("rejected") /\ Forget
  /\ UNCHANGED <<docker, saved, failed, ghosts, counts>>

(* syncSnapshotToRuntime.  The check is against the same observation, in   *)
(* which whatever was not inspected is not inspected still.                *)
Sync ==
  /\ pc = "ask"
  /\ \/ \E pick \in Picks(saved, seen) :
          LET spec == Derived(saved, seen, pick)
          IN \E first \in Firsts(spec, seen) :
               IF Clean(Report(spec, seen, hidden, first))
                 THEN End("synced") /\ saved' = Canonical(spec) /\ calm' = Disturbed /\ UNCHANGED faults
                 ELSE End("refused") /\ UNCHANGED saved /\ NoFault
     \/ Fault /\ End("error") /\ UNCHANGED saved
  /\ UNCHANGED <<docker, seen, hidden, failed, removed, verified, commands, outside>>

(* yes: the actions of the plan, if there are any, unless the preflight    *)
(* throws.                                                                 *)
Accept ==
  /\ pc = "ask" /\ Forget
  /\ \/ NoActions(todo) /\ End("nothing") /\ NoFault
     \/ /\ ~NoActions(todo) /\ pc' = "act" /\ gate' = TRUE
        /\ UNCHANGED <<todo, at, outcome>> /\ NoFault
     \/ ~NoActions(todo) /\ Fault /\ End("error")
  /\ UNCHANGED <<docker, saved, failed, removed, verified, commands, outside>>

(* An action is over; a failed one is noted and the next one follows.      *)
Drop(class, x) == todo' = [todo EXCEPT ![class] = @ \ {x}]

\* Mutated: the error is swallowed.
Swallow(class, x) == UNCHANGED failed

Note(class, x) == failed' = [failed EXCEPT ![class] = @ \cup {x}]

(* startContainer, stopContainer.                                          *)
Switch(class, status) ==
  /\ pc = "act" /\ at = Idle
  /\ \E n \in todo[class] :
       /\ \/ /\ Present(n) /\ docker' = SetStatus(n, status)
             /\ UNCHANGED failed /\ NoFault
          \/ /\ ~Present(n) /\ Note(class, n) /\ UNCHANGED docker /\ NoFault
          \/ /\ Fault /\ Note(class, n)
             /\ docker' \in {docker} \cup {w \in {SetStatus(n, status)} : Present(n)}
       /\ Drop(class, n)
  /\ UNCHANGED <<pc, gate, saved, seen, hidden, at, outcome, removed, verified, commands, outside>>

(* recreate-container: the service is the first one whose name the name of *)
(* the container contains.  A container is started or stopped first.       *)
Begin ==
  /\ pc = "act" /\ at = Idle
  /\ \E n \in todo.recreate \ (todo.start \cup todo.stop) :
       LET named == {k \in DOMAIN saved.svc : <<n, k>> \in Mentions}
       IN \/ /\ named = {}
             /\ Note("recreate", n) /\ Drop("recreate", n) /\ UNCHANGED at
          \/ \E k \in named :
               /\ at' = [name |-> {n}, service |-> {k}, step |-> "stop"]
               /\ UNCHANGED <<failed, todo>>
  /\ UNCHANGED <<pc, gate, docker, saved, seen, hidden, outcome, ghosts, counts>>

(* The recreation fails: the action is noted, the container is where the   *)
(* failure left it.                                                        *)
Abort(n) == Note("recreate", n) /\ Drop("recreate", n) /\ at' = Idle
Go(step) == at' = [at EXCEPT !.step = step] /\ UNCHANGED <<todo, failed>>

(* removeExistingContainerIfPresent: it may be absent.                     *)
StopOld ==
  /\ pc = "act" /\ at.step = "stop"
  /\ \E n \in at.name :
       \/ /\ docker' = IF Present(n) THEN SetStatus(n, "down") ELSE docker
          /\ Go("remove") /\ NoFault
       \/ /\ Fault /\ Abort(n)
          /\ docker' \in {docker} \cup {w \in {SetStatus(n, "down")} : Present(n)}
  /\ UNCHANGED <<pc, gate, saved, seen, hidden, outcome, removed, verified, commands, outside>>

RemoveOld ==
  /\ pc = "act" /\ at.step = "remove"
  /\ \E n \in at.name :
       /\ \/ docker' = Without(n) /\ Go("create") /\ NoFault
          \/ Fault /\ Abort(n) /\ docker' \in {docker, Without(n)}
       /\ removed' = IF Present(n) /\ docker'.conts[n] = Nothing
                       THEN removed \cup {n} ELSE removed
  /\ UNCHANGED <<pc, gate, saved, seen, hidden, outcome, verified, commands, outside>>

Create ==
  /\ pc = "act" /\ at.step = "create"
  /\ \E n \in at.name, k \in at.service :
       LET def == saved.svc[k]
       IN \/ /\ MayCreate(n) /\ docker' = Created(n, def)
             /\ Go("start") /\ NoFault
          \/ /\ MayRefuse(n) /\ Abort(n) /\ NoFault
             /\ docker' \in {docker} \cup {w \in {LeftDown(n, def)} : ~Present(n)}
          \/ /\ Fault /\ Abort(n)
             /\ docker' \in {docker} \cup {w \in {Created(n, def), LeftDown(n, def)} : MayCreate(n)}
  /\ UNCHANGED <<pc, gate, saved, seen, hidden, outcome, removed, verified, commands, outside>>

StartNew ==
  /\ pc = "act" /\ at.step = "start"
  /\ \E n \in at.name :
       \/ /\ Present(n) /\ docker' = SetStatus(n, "up")
          /\ Drop("recreate", n) /\ at' = Idle /\ UNCHANGED failed /\ NoFault
       \/ /\ ~Present(n) /\ Abort(n) /\ UNCHANGED docker /\ NoFault
       \/ /\ Fault /\ Abort(n)
          /\ docker' \in {docker} \cup {w \in {SetStatus(n, "up")} : Present(n)}
  /\ UNCHANGED <<pc, gate, saved, seen, hidden, outcome, removed, verified, commands, outside>>

(* createNetwork, createVolume, pullImage, after the containers and in this*)
(* order.  A network that is there by now is refused.                      *)
ContainersDone == todo.start = {} /\ todo.stop = {} /\ todo.recreate = {}

Provide(class, field) ==
  /\ pc = "act" /\ at = Idle
  /\ \E x \in todo[class] :
       LET w == [docker EXCEPT ![field] = @ \cup {x}]
       IN /\ \/ /\ class = "nets" => x \notin docker.nets
                /\ docker' = w /\ UNCHANGED failed /\ NoFault
             \/ /\ class = "nets" /\ x \in docker.nets
                /\ Note(class, x) /\ UNCHANGED docker /\ NoFault
             \/ Fault /\ Note(class, x) /\ docker' \in {docker, w}
          /\ Drop(class, x)
  /\ UNCHANGED <<pc, gate, saved, seen, hidden, at, outcome, removed, verified, commands, outside>>

CreateNetwork == ContainersDone /\ Provide("nets", "nets")
CreateVolume == ContainersDone /\ todo.nets = {} /\ Provide("vols", "vols")
PullImage == ContainersDone /\ todo.nets = {} /\ todo.vols = {} /\ Provide("imgs", "imgs")

(* All actions tried.                                                      *)
Tried ==
  /\ pc = "act" /\ NoActions(todo) /\ at = Idle
  /\ pc' = "check" /\ gate' = FALSE
  /\ UNCHANGED <<docker, saved, seen, hidden, todo, at, failed, outcome, ghosts, counts>>

Applied == NoActions(failed)

\* Mutated: no second look.
RepairedUnseen(r) == Applied

(* What a repair must show to be saved: report and drift.                  *)
Repaired(r) == Applied /\ Clean(r)

(* The second observation and its report; the specification stays.  If the *)
(* observation throws, repairWithDocker does not return: its report is lost*)
(* and the command prints the error instead.                               *)
Check ==
  /\ pc = "check"
  /\ \/ \E first \in Firsts(saved, docker) :
          LET r == Report(saved, docker, {}, first)
          IN /\ End(IF Repaired(r) THEN "repaired" ELSE "incomplete")
             /\ verified' = IF Repaired(r) THEN docker ELSE verified
             /\ calm' = Calmer(calm)
             /\ UNCHANGED <<failed, faults>>
     \/ Fault /\ End("error") /\ failed' = NoReport /\ UNCHANGED verified
  /\ UNCHANGED <<docker, saved, seen, hidden, removed, commands, outside>>

(* The process is killed.                                                  *)
Die ==
  /\ pc # "idle" /\ End("died")
  /\ calm' = Disturbed
  /\ UNCHANGED <<docker, saved, seen, hidden, failed, removed, verified, counts>>

(* Another user of the daemon, or a container that exits.                  *)
Outside ==
  /\ Spare /\ outside' = outside + 1
  /\ calm' = Disturbed
  /\ \/ \E n \in There(docker) :
          docker' \in {Without(n), SetStatus(n, "up"), SetStatus(n, "down")} \ {docker}
     \/ \E l \in docker.nets : docker' = [docker EXCEPT !.nets = @ \ {l}]
     \/ \E l \in docker.vols : docker' = [docker EXCEPT !.vols = @ \ {l}]
     \/ \E i \in docker.imgs : docker' = [docker EXCEPT !.imgs = @ \ {i}]
  /\ removed' = removed \ {n \in Names : Present(n) /\ docker'.conts[n] = Nothing}
  /\ UNCHANGED <<pc, gate, saved, seen, hidden, todo, at, failed, outcome, verified,
                 commands, faults>>

Act ==
  \/ Switch("start", "up") \/ Switch("stop", "down")
  \/ Begin \/ StopOld \/ RemoveOld \/ Create \/ StartNew
  \/ CreateNetwork \/ CreateVolume \/ PullImage \/ Tried

Next == Detect \/ Reject \/ Sync \/ Accept \/ Act \/ Check \/ Die \/ Outside

Spec == Init /\ [][Next]_vars

-----------------------------------------------------------------------------
(* No container disappears unnoticed from a repair that prints its report: *)
(* what the repair has removed is there when it ends, or is among the      *)
(* failures it prints, or somebody else has removed it again.  (A repair   *)
(* whose second observation throws prints no report, see Check.)           *)
RemovedIsReported ==
  outcome \in {"repaired", "incomplete"} =>
    \A n \in removed : Present(n) \/ n \in failed.recreate

(* A repair is saved as verified on what was there after its last action:  *)
(* every replica of every service, its networks and volumes, and of every  *)
(* service a container in the state the specification asks for.            *)
Good(k, def, w) ==
  /\ Expected(k, def) \subseteq There(w) \/ def.replicas = 1
  /\ \E n \in Matching(k, def, w) :
       w.conts[n].status = def.lifecycle /\ ~Differs(def, w.conts[n])
Provided(w) ==
  /\ \A l \in saved.nets : Known(l, w.nets)
  /\ \A k \in DOMAIN saved.svc : \A l \in saved.svc[k].mounts : Known(l, w.vols)

VerifiedIsGood ==
  outcome = "repaired" =>
    /\ \A k \in DOMAIN saved.svc : Good(k, saved.svc[k], verified)
    /\ Provided(verified)

(* Repairing again and again gets there.  Once a repair (or a look that    *)
(* finds no drift) has gone through with which nothing interfered, the     *)
(* networks and volumes are there; each further one leaves a service as the*)
(* specification wants it, or has tended one more of its containers: only  *)
(* the first in the list is looked at each time, and a container that is   *)
(* recreated comes up although it is to be stopped.  So n containers need  *)
(* n + 2 repairs.  Services whose containers are taken for those of another*)
(* service are the exception.                                              *)
Astray(k, def) ==
  \E n \in Expected(k, def) \cup Matching(k, def, docker), j \in DOMAIN saved.svc \ {k} :
    <<n, j>> \in Mentions
Tended(def, c) == IF def.lifecycle = "down" THEN SameImage(def, c) ELSE c.status = "up"
TendedOf(k, def) == {n \in Matching(k, def, docker) : Tended(def, docker.conts[n])}
Settled(k, def, c) ==
  Good(k, def, docker) \/ Astray(k, def) \/ Cardinality(TendedOf(k, def)) >= c - 1

RepairConverges ==
  calm > 0 /\ pc = "idle" =>
    /\ \A k \in DOMAIN saved.svc : Settled(k, saved.svc[k], calm)
    /\ Provided(docker)

(* What a sync has saved accounts for every container with the project's   *)
(* prefix that it saw: it belongs to a service of the new specification.   *)
(* One is forgotten: the container without number next to numbered ones    *)
(* that are taken for the replicas of its service.                         *)
Overlooked(n) ==
  n.nr = 0 /\ KeyOf(n) \in DOMAIN saved.svc /\ saved.svc[KeyOf(n)].replicas > 1

SyncCoversSeen ==
  outcome = "synced" =>
    \A n \in There(seen) :
      n.own = "ours" /\ ~Overlooked(n) =>
        \E k \in DOMAIN saved.svc : n \in Matching(k, saved.svc[k], seen)

(* README.md:485: sync will "update the saved desired state from the       *)
(* current runtime state": a mount whose volume is there is kept.          *)
SyncKeepsMounts ==
  [][\A k \in DOMAIN saved.svc \cap DOMAIN saved'.svc :
       \A l \in saved.svc[k].mounts : l \in seen.vols => l \in saved'.svc[k].mounts]_vars

-----------------------------------------------------------------------------
(* What the properties rest on: an inductive invariant.                    *)

(* Where the command is: outside the actions no recreation is under way,   *)
(* and the outcome is open until it ends.                                  *)
PlaceInv ==
  /\ pc # "act" => at = Idle
  /\ at.step = "none" => at = Idle
  /\ \A n, m \in at.name : n = m
  /\ at.service \subseteq DOMAIN saved.svc
  /\ pc # "idle" => outcome = "none"
  /\ pc = "ask" => removed = {}

(* A removed container is there again, reported or about to be created.    *)
Accounted(n) == Present(n) \/ n \in failed.recreate \/ (at.step = "create" /\ n \in at.name)
RemovedInv == outcome \in {"error", "died"} \/ \A n \in removed : Accounted(n)

IInv == TypeOK /\ PlaceInv /\ RemovedInv /\ VerifiedIsGood /\ SyncCoversSeen

(* What repairing again and again rests on: what the rest of the plan will *)
(* make of a service, if nothing interferes.                               *)
Wanted(n, lifecycle) ==
  \E k \in DOMAIN saved.svc : <<n, k>> \in Mentions /\ saved.svc[k].lifecycle = lifecycle
WillBe(n) == Present(n) \/ n \in todo.recreate
OwnName(n, k, def) == n \in Expected(k, def) \/ Alias(n, k, def)
Reach(k, def) == {n \in Names : WillBe(n) /\ OwnName(n, k, def)}

WillStray(k, def) ==
  \E n \in Expected(k, def) \cup Reach(k, def), j \in DOMAIN saved.svc \ {k} : <<n, j>> \in Mentions

WillTend(n, def) ==
  \/ n \in todo.recreate
  \/ def.lifecycle = "down" /\ SameImage(def, docker.conts[n])
  \/ def.lifecycle = "up" /\ (docker.conts[n].status = "up" \/ n \in todo.start)

PortsFit(def, c) == def.ports = "open" => c.ports # "none"
WillFit(n, def) ==
  \/ n \in todo.recreate /\ def.lifecycle = "up"
  \/ /\ n \notin todo.recreate /\ SameImage(def, docker.conts[n])
     /\ \/ /\ def.lifecycle = "up" /\ PortsFit(def, docker.conts[n])
           /\ docker.conts[n].status = "up" \/ n \in todo.start
        \/ /\ def.lifecycle = "down"
           /\ docker.conts[n].status = "down" \/ n \in todo.stop

WillSettle(k, def, c) ==
  \/ /\ def.replicas = 1 \/ Expected(k, def) \subseteq There(docker) \cup todo.recreate
     /\ \E n \in Reach(k, def) : WillFit(n, def)
  \/ WillStray(k, def)
  \/ Cardinality({n \in Reach(k, def) : WillTend(n, def)}) >= c

WillProvide ==
  /\ \A l \in saved.nets : Known(l, docker.nets) \/ l \in todo.nets
  /\ \A k \in DOMAIN saved.svc : \A l \in saved.svc[k].mounts : Known(l, docker.vols) \/ l \in todo.vols

(* A recreation with which nothing interferes.                             *)
RecreationInv ==
  \A n \in at.name :
    /\ n \in todo.recreate
    /\ \E k \in at.service : at.service = {k}
    /\ \A k \in at.service :
         /\ <<n, k>> \in Mentions
         /\ at.step = "start" =>
              /\ Present(n) /\ docker.conts[n].image = saved.svc[k].image
              /\ docker.conts[n].ports = saved.svc[k].ports
    /\ at.step = "create" => ~Present(n)

PlanInv ==
  /\ \A n \in todo.start : Wanted(n, "up")
  /\ \A n \in todo.stop : Wanted(n, "down")
  /\ pc \in {"idle", "check"} => NoActions(todo)

ConvergeInv ==
  /\ Canonical(saved) = saved /\ Replicable(saved)
  /\ PlanInv
  /\ calm > 0 /\ pc \in {"idle", "ask"} =>
       Provided(docker) /\ \A k \in DOMAIN saved.svc : Settled(k, saved.svc[k], calm)
  /\ calm # Disturbed /\ pc # "idle" =>
       /\ WillProvide /\ RecreationInv
       /\ calm > 0 => /\ saved.nets \subseteq docker.nets
                      /\ \A k \in DOMAIN saved.svc : WillSettle(k, saved.svc[k], calm)

=============================================================================
