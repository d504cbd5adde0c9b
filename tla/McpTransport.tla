---------------------------- MODULE McpTransport ----------------------------
(***************************************************************************)
(* The JSON-RPC connection to the Docker MCP server: McpConnectionPlug     *)
(* (mcp-connection-plug.ts).                                               *)
(*                                                                         *)
(* The class runs on one event loop; an action is one callback with the    *)
(* promise continuations it releases.  What interleaves are the callbacks: *)
(* calls of several callers (Promise.all in the gateway), lines of the     *)
(* server's output in any order, timers, and the exit and end-of-output    *)
(* events of a server process, each of which may come long after its cause *)
(* and after the next server was started.                                  *)
(*                                                                         *)
(* The owner of the connection uses it as every command does: connect,     *)
(* then disconnect whether connect resolved or threw.  It may connect      *)
(* again afterwards.  The handshake is never skipped (skipHandshake is for *)
(* tests).  A write to a server that has died unnoticed is lost; that its  *)
(* stream has no error handler is left out.                                *)
(***************************************************************************)
EXTENDS Naturals

CONSTANTS
  Callers,     \* concurrent users of callTool
  Owner,       \* the caller of connect and disconnect
  MaxSpawns,   \* bound on servers started
  MaxCalls     \* bound on calls of callTool

ASSUME TransportAssumption ==
  /\ Owner \notin Callers
  /\ MaxSpawns \in Nat
  /\ MaxCalls \in Nat

Parties == Callers \cup {Owner}
Servers == 1..MaxSpawns
Ids     == 1..(MaxCalls + 2 * MaxSpawns)   \* a handshake makes two requests

VARIABLES
  child,              \* the server in use, also the readline's; 0 for null
  connected,
  shutdownRequested,
  requestId,          \* the next id
  pending,            \* ids in pendingRequests, each with its timer
  asker,              \* whose promise a pending entry settles
  info, tools,        \* server the cached name and tool list came from, or 0
  phase,              \* where the owner stands
  awaits,             \* id of the request a party waits for, 0 for none
  outcome,            \* how a caller's latest call ended
  proc,               \* the server processes
  wire,               \* requests a server may still answer
  open,               \* servers whose output has not ended
  spawns, calls,      \* servers started, calls made
  \* Observations: which request a party sent last, and which one the
  \* answer it got belongs to, numbered in the order of sending.
  sends, asked, answered

link    == <<child, connected, shutdownRequested>>
cache   == <<info, tools>>
book    == <<requestId, pending, asker>>
clients == <<phase, awaits, outcome>>
servers == <<proc, wire, open>>
counts  == <<spawns, calls>>
seen    == <<sends, asked, answered>>
vars == <<link, cache, book, clients, servers, counts, seen>>

Phases    == {"idle", "spawned", "initialize", "listing", "ready", "failed"}
Processes == {"unborn", "stillborn", "up", "killed", "dead", "gone"}

TypeOK ==
  /\ child \in 0..MaxSpawns
  /\ connected \in BOOLEAN /\ shutdownRequested \in BOOLEAN
  /\ requestId \in 1..(MaxCalls + 2 * MaxSpawns + 1)
  /\ pending \subseteq Ids
  /\ asker \in [Ids -> Parties]
  /\ info \in 0..MaxSpawns /\ tools \in 0..MaxSpawns
  /\ phase \in Phases
  /\ awaits \in [Parties -> Ids \cup {0}]
  /\ outcome \in [Callers -> {"none", "ok", "error"}]
  /\ proc \in [Servers -> Processes]
  /\ wire \in [Servers -> SUBSET (Ids \X Ids)]
  /\ open \subseteq Servers
  /\ spawns \in 0..MaxSpawns /\ calls \in 0..MaxCalls
  /\ sends \in Ids \cup {0}
  /\ asked \in [Parties -> Ids \cup {0}]
  /\ answered \in [Parties -> Ids \cup {0}]

Init ==
  /\ child = 0 /\ connected = FALSE /\ shutdownRequested = FALSE
  /\ requestId = 1 /\ pending = {} /\ asker = [i \in Ids |-> Owner]
  /\ info = 0 /\ tools = 0
  /\ phase = "idle"
  /\ awaits = [p \in Parties |-> 0]
  /\ outcome = [c \in Callers |-> "none"]
  /\ proc = [s \in Servers |-> "unborn"]
  /\ wire = [s \in Servers |-> {}]
  /\ open = {}
  /\ spawns = 0 /\ calls = 0
  /\ sends = 0
  /\ asked = [p \in Parties |-> 0]
  /\ answered = [p \in Parties |-> 0]

-----------------------------------------------------------------------------
(* Requests.                                                               *)

(* child.stdin.writable: Node closes the stream when it reports the exit.  *)
Writable == child # 0 /\ proc[child] \in {"up", "dead"}

(* sendRequest, after the check: rest are the other pending entries, lines *)
(* what the servers may still answer otherwise.                            *)
SendRequest(p, rest, lines) ==
  /\ requestId' = requestId + 1
  /\ pending' = rest \cup {requestId}
  /\ asker' = [asker EXCEPT ![requestId] = p]
  /\ awaits' = [awaits EXCEPT ![p] = requestId]
  /\ sends' = sends + 1
  /\ asked' = [asked EXCEPT ![p] = sends + 1]
  /\ wire' = IF proc[child] = "up"
             THEN [lines EXCEPT ![child] = @ \cup {<<requestId, sends + 1>>}]
             ELSE lines

(* The promises of these entries are rejected: a caller's call throws ...  *)
(* (Mutant: the handshake's are forgotten.)                                *)
AskersButOwner(ids) == {asker[i] : i \in ids} \ {Owner}
Askers(ids) == {asker[i] : i \in ids}

Reject(ids) ==
  /\ pending' = pending \ ids
  /\ awaits' = [p \in Parties |-> IF p \in Askers(ids) THEN 0 ELSE awaits[p]]
  /\ outcome' = [c \in Callers |-> IF c \in Askers(ids) THEN "error" ELSE outcome[c]]
  /\ UNCHANGED <<requestId, asker>>

(* ... and so does a connect that waits for its handshake.                 *)
PhaseAfterReject(ids) == IF Owner \in Askers(ids) THEN "failed" ELSE phase

-----------------------------------------------------------------------------
(* The owner.                                                              *)

(* connect up to its first await.  A command that cannot be started gives  *)
(* a child without a pid; its error event comes before setImmediate, when  *)
(* nothing is pending that its handler could reject.                       *)
Connect(started) ==
  /\ phase = "idle" /\ ~connected
  /\ spawns < MaxSpawns
  /\ spawns' = spawns + 1
  /\ shutdownRequested' = FALSE
  /\ child' = spawns + 1
  /\ proc' = [proc EXCEPT ![spawns + 1] = IF started THEN "up" ELSE "stillborn"]
  /\ open' = open \cup {spawns + 1}
  /\ phase' = "spawned"
  /\ UNCHANGED <<connected, cache, book, awaits, outcome, wire, calls, seen>>

(* connect after setImmediate: the pid check and the first request.        *)
Initialize ==
  /\ phase = "spawned"
  /\ IF Writable
     THEN /\ SendRequest(Owner, pending, wire)
          /\ phase' = "initialize"
          /\ UNCHANGED <<outcome, answered>>
     ELSE /\ phase' = "failed"
          /\ UNCHANGED <<book, awaits, outcome, wire, seen>>
  /\ UNCHANGED <<link, cache, proc, open, counts>>

(* kill is a signal: the process ends when it ends.  (Mutant: only for a   *)
(* connection that was established.)                                       *)
KilledIfConnected == [s \in Servers |-> IF s = child /\ proc[s] = "up" /\ connected
                                        THEN "killed" ELSE proc[s]]

Killed == [s \in Servers |-> IF s = child /\ proc[s] = "up"
                             THEN "killed" ELSE proc[s]]

Disconnect ==
  /\ phase \in {"ready", "failed"}
  /\ shutdownRequested' = TRUE /\ connected' = FALSE
  /\ info' = 0 /\ tools' = 0
  /\ Reject(pending)
  /\ child' = 0
  /\ proc' = Killed
  /\ phase' = "idle"
  /\ UNCHANGED <<wire, open, counts, seen>>

-----------------------------------------------------------------------------
(* callTool.  While connected the stream is writable (CurrentServer).      *)

CallTool(c) ==
  /\ calls < MaxCalls /\ awaits[c] = 0
  /\ calls' = calls + 1
  /\ IF connected /\ Writable
     THEN /\ SendRequest(c, pending, wire)
          /\ outcome' = [outcome EXCEPT ![c] = "none"]
     ELSE /\ outcome' = [outcome EXCEPT ![c] = "error"]
          /\ UNCHANGED <<book, awaits, wire, sends, asked>>
  /\ UNCHANGED <<link, cache, phase, proc, open, spawns, answered>>

-----------------------------------------------------------------------------
(* handleLine.  A server answers its requests in any order; it may have    *)
(* written an answer before it died.                                       *)

Line(s, r) == s \in open /\ r \in wire[s]

Unread(s, r) == [wire EXCEPT ![s] = @ \ {r}]

(* The entry leaves the map and the party whose promise it is goes on.     *)
(* (Mutant: answers are taken in the order of the requests.)               *)
Resolved(r) == r[1] \in pending
WaitingLongest(r) == asker[CHOOSE i \in pending : \A j \in pending : i <= j]
Waiting(r)  == asker[r[1]]

(* An id nobody waits for any more.                                        *)
LateLine(s, r) ==
  /\ Line(s, r) /\ ~Resolved(r)
  /\ wire' = Unread(s, r)
  /\ UNCHANGED <<link, cache, book, clients, proc, open, counts, seen>>

(* An error answer; for the first request also one without serverInfo.     *)
ErrorLine(s, r) ==
  /\ Line(s, r) /\ Resolved(r)
  /\ wire' = Unread(s, r)
  /\ Reject({r[1]})
  /\ phase' = PhaseAfterReject({r[1]})
  /\ UNCHANGED <<link, cache, proc, open, counts, seen>>

CallAnswered(s, r) ==
  /\ Line(s, r) /\ Resolved(r) /\ Waiting(r) \in Callers
  /\ wire' = Unread(s, r)
  /\ pending' = pending \ {r[1]}
  /\ awaits' = [awaits EXCEPT ![Waiting(r)] = 0]
  /\ outcome' = [outcome EXCEPT ![Waiting(r)] = "ok"]
  /\ answered' = [answered EXCEPT ![Waiting(r)] = r[2]]
  /\ UNCHANGED <<link, cache, requestId, asker, phase, proc, open, counts, sends, asked>>

(* performHandshake after the first answer ...                             *)
Initialized(s, r) ==
  /\ Line(s, r) /\ Resolved(r) /\ Waiting(r) = Owner /\ phase = "initialize"
  /\ info' = s
  /\ answered' = [answered EXCEPT ![Owner] = r[2]]
  /\ SendRequest(Owner, pending \ {r[1]}, Unread(s, r))
  /\ phase' = "listing"
  /\ UNCHANGED <<link, tools, outcome, proc, open, counts>>

(* ... and after the second, with the end of connect.                      *)
Listed(s, r) ==
  /\ Line(s, r) /\ Resolved(r) /\ Waiting(r) = Owner /\ phase = "listing"
  /\ wire' = Unread(s, r)
  /\ tools' = s
  /\ answered' = [answered EXCEPT ![Owner] = r[2]]
  /\ pending' = pending \ {r[1]}
  /\ awaits' = [awaits EXCEPT ![Owner] = 0]
  /\ connected' = TRUE
  /\ phase' = "ready"
  /\ UNCHANGED <<child, shutdownRequested, info, requestId, asker,
                 outcome, proc, open, counts, sends, asked>>

-----------------------------------------------------------------------------
(* Timers and the events of a server process.                              *)

(* Every entry has its timer.  (Mutant: tool calls only.)                  *)
ExpiresForCalls(i) == i \in pending /\ asker[i] # Owner
Expires(i) == i \in pending

Timeout(i) ==
  /\ Expires(i)
  /\ Reject({i})
  /\ phase' = PhaseAfterReject({i})
  /\ UNCHANGED <<link, cache, servers, counts, seen>>

Die(s) ==
  /\ proc[s] \in {"up", "killed"}
  /\ proc' = [proc EXCEPT ![s] = "dead"]
  /\ UNCHANGED <<link, cache, book, clients, wire, open, counts, seen>>

(* The exit handler does not look at which server it is about.             *)
Exit(s) ==
  /\ proc[s] = "dead"
  /\ proc' = [proc EXCEPT ![s] = "gone"]
  /\ connected' = FALSE
  /\ IF shutdownRequested
     THEN UNCHANGED <<book, clients>>
     ELSE Reject(pending) /\ phase' = PhaseAfterReject(pending)
  /\ UNCHANGED <<child, shutdownRequested, cache, wire, open, counts, seen>>

(* The end of the output; the reader was closed in disconnect if it is not *)
(* the one in use.                                                         *)
EndOfOutput(s) ==
  /\ s \in open /\ proc[s] \in {"dead", "gone", "stillborn"}
  /\ open' = open \ {s}
  /\ IF child = s /\ ~shutdownRequested
     THEN Reject(pending) /\ phase' = PhaseAfterReject(pending)
     ELSE UNCHANGED <<book, clients>>
  /\ UNCHANGED <<link, cache, proc, wire, counts, seen>>

-----------------------------------------------------------------------------
OwnerNext == (\E b \in BOOLEAN : Connect(b)) \/ Initialize \/ Disconnect

LineNext(s, r) == \/ LateLine(s, r) \/ ErrorLine(s, r) \/ CallAnswered(s, r)
                  \/ Initialized(s, r) \/ Listed(s, r)

ServerNext(s) == \/ \E r \in wire[s] : LineNext(s, r)
                 \/ Die(s) \/ Exit(s) \/ EndOfOutput(s)

Next == \/ OwnerNext
        \/ \E c \in Callers : CallTool(c)
        \/ \E s \in Servers : ServerNext(s)
        \/ \E i \in Ids : Timeout(i)

Spec == Init /\ [][Next]_vars

(* setImmediate and setTimeout fire; a server owes nothing.                *)
FairSpec == /\ Spec
            /\ WF_vars(Initialize)
            /\ \A i \in Ids : WF_vars(Timeout(i))

-----------------------------------------------------------------------------
(* A call that succeeds got the answer to its own request: not to another  *)
(* caller's, to one of its own that had timed out, or to one sent to an    *)
(* earlier server whose output is still being read.                        *)
AnswerMatches ==
  \A c \in Callers : outcome[c] = "ok" => answered[c] = asked[c]

(* Whoever waits, waits for an entry of the map, so that a timer, an       *)
(* answer or the end of the connection reaches it; and the map holds       *)
(* nothing else.                                                           *)
WaitersArePending ==
  /\ pending = {awaits[p] : p \in Parties} \ {0}
  /\ \A p \in Parties : awaits[p] # 0 => asker[awaits[p]] = p

(* While connected, the server in use is not known to be gone, and name    *)
(* and tool list are its own, not an earlier server's.                     *)
CurrentServer ==
  connected => phase = "ready" /\ Writable /\ info = child /\ tools = child

(* After disconnect no server is left running unsignalled and nobody waits *)
(* for an answer, whatever connect had come to.                            *)
NothingLeftOpen ==
  phase = "idle" => /\ \A s \in Servers : proc[s] # "up"
                    /\ \A p \in Parties : awaits[p] = 0
                    /\ ~connected

(* Every call and every connect ends, with a server that never answers and *)
(* never dies as well.                                                     *)
EveryCallSettles ==
  /\ \A c \in Callers : awaits[c] # 0 ~> awaits[c] = 0
  /\ phase \in {"spawned", "initialize", "listing"} ~> phase \in {"ready", "failed"}

-----------------------------------------------------------------------------
(* What the four properties rest on: an inductive invariant.               *)

Handshaking == {"initialize", "listing"}

(* Every entry belongs to the party that waits for it.                     *)
BookInv ==
  /\ \A i \in pending : i < requestId /\ awaits[asker[i]] = i
  /\ \A p \in Parties : awaits[p] # 0 => /\ awaits[p] \in pending
                                        /\ asker[awaits[p]] = p
                                        /\ asked[p] = awaits[p]
  /\ awaits[Owner] # 0 <=> phase \in Handshaking

(* Ids are used once, and only the server in use can answer an entry.      *)
TrafficInv ==
  /\ sends + 1 = requestId
  /\ \A s \in Servers : \A r \in wire[s] :
       r[1] = r[2] /\ r[1] < requestId /\ (r[1] \in pending => s = child)

(* Requests a started handshake has still to make.                         *)
Reserved == IF phase = "spawned" THEN 2 ELSE IF phase = "initialize" THEN 1 ELSE 0

BudgetInv == requestId + Reserved <= 1 + calls + 2 * spawns

LinkInv ==
  /\ child # 0 <=> phase # "idle"
  /\ child # 0 => /\ child = spawns /\ ~shutdownRequested
                  /\ proc[child] \notin {"unborn", "killed"}
  /\ phase = "idle" => pending = {}
  /\ \A s \in Servers : proc[s] = "up" => s = child
  /\ phase \in Handshaking => Writable
  /\ phase = "listing" => info = child

IInv == TypeOK /\ BookInv /\ TrafficInv /\ BudgetInv /\ LinkInv
        /\ CurrentServer /\ AnswerMatches

=============================================================================
