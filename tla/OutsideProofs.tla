---------------------------- MODULE OutsideProofs ----------------------------
(***************************************************************************)
(* Proofs about the two things every command stands on: the connection to  *)
(* the MCP server and the store of verified snapshots.                     *)
(*                                                                         *)
(* McpTransport, for any callers and any number of servers and calls.  The *)
(* argument: a step sends one request (lemma SendKeeps), drops some entries*)
(* of the map (lemma RejectKeeps), or leaves the map alone; ids are never  *)
(* used twice, so the line of a server finds its own entry or none.        *)
(*                                                                         *)
(* StateStore, for any number of processes, projects and stamps.  The types*)
(* hold however commands overlap; that reads are kept, that the history is *)
(* kept and that commands are atomic hold when they do not, which the      *)
(* theorems assume: the second command of two would write back what it read*)
(* before the first.                                                       *)
(***************************************************************************)
EXTENDS McpTransport, StateStore, TLAPS


BookTypes ==
  /\ requestId \in 1..(MaxCalls + 2 * MaxSpawns + 1)
  /\ pending \subseteq Ids
  /\ asker \in [Ids -> Parties]
  /\ awaits \in [Parties -> Ids \cup {0}]
  /\ wire \in [Servers -> SUBSET (Ids \X Ids)]
  /\ sends \in Ids \cup {0}
  /\ asked \in [Parties -> Ids \cup {0}]
  /\ answered \in [Parties -> Ids \cup {0}]

LinkTypes ==
  /\ child \in 0..MaxSpawns
  /\ info \in 0..MaxSpawns /\ tools \in 0..MaxSpawns
  /\ proc \in [Servers -> Processes]
  /\ open \subseteq Servers
  /\ spawns \in 0..MaxSpawns /\ calls \in 0..MaxCalls

FlagTypes ==
  /\ connected \in BOOLEAN /\ shutdownRequested \in BOOLEAN
  /\ phase \in Phases
  /\ outcome \in [Callers -> {"none", "ok", "error"}]

LEMMA TypeParts == TypeOK <=> BookTypes /\ LinkTypes /\ FlagTypes
  BY DEF TypeOK, BookTypes, LinkTypes, FlagTypes

(* The ids are the numbers up to MaxCalls + 2 * MaxSpawns.                 *)
LEMMA IdFacts ==
  /\ MaxCalls + 2 * MaxSpawns \in Nat
  /\ Ids \subseteq Nat \ {0}
  /\ 0 \notin Servers
  /\ Servers \subseteq Nat
  /\ Owner \in Parties /\ Callers \subseteq Parties
  BY TransportAssumption DEF TransportAssumption, Ids, Servers, Parties

(* The entries without the phase of the owner.                             *)
Entries ==
  /\ \A i \in pending : i < requestId /\ awaits[asker[i]] = i
  /\ \A p \in Parties : awaits[p] # 0 => /\ awaits[p] \in pending
                                        /\ asker[awaits[p]] = p
                                        /\ asked[p] = awaits[p]

(* Sending a request for a party that waits for nothing but an entry just  *)
(* resolved.                                                               *)
LEMMA SendKeeps ==
  ASSUME BookTypes, Entries, TrafficInv,
         NEW p \in Parties, NEW rest \in SUBSET pending,
         NEW lines \in [Servers -> SUBSET (Ids \X Ids)],
         \A s \in Servers : lines[s] \subseteq wire[s],
         \A i \in pending \ rest : asker[i] = p,
         \A i \in rest : asker[i] # p,
         requestId \in Ids, child \in Servers, child' = child,
         answered' \in [Parties -> Ids \cup {0}],
         SendRequest(p, rest, lines)
  PROVE  /\ BookTypes' /\ Entries' /\ TrafficInv'
         /\ awaits'[p] # 0
         /\ \A q \in Parties \ {p} : awaits'[q] = awaits[q] /\ asked'[q] = asked[q]
         /\ requestId' = requestId + 1
  <1>. DEFINE new == requestId
  <1>1. new \notin pending /\ new \in Nat \ {0} /\ sends + 1 = new
    BY IdFacts DEF Entries, TrafficInv
  <1>2. /\ requestId' = new + 1 /\ pending' = rest \cup {new}
        /\ asker' = [asker EXCEPT ![new] = p]
        /\ awaits' = [awaits EXCEPT ![p] = new]
        /\ sends' = new /\ asked' = [asked EXCEPT ![p] = new]
    BY <1>1 DEF SendRequest
  <1>3. \A s \in Servers : /\ wire'[s] \subseteq lines[s] \cup {<<new, new>>}
                           /\ s # child => wire'[s] = lines[s]
    BY <1>1 DEF SendRequest
  <1>4. wire' \in [Servers -> SUBSET (Ids \X Ids)]
    BY <1>1 DEF SendRequest
  <1>5. BookTypes'
    BY <1>1, <1>2, <1>4, IdFacts DEF BookTypes, Ids
  <1>6. /\ awaits'[p] = new /\ asked'[p] = new
        /\ \A q \in Parties \ {p} : awaits'[q] = awaits[q] /\ asked'[q] = asked[q]
        /\ asker'[new] = p
        /\ \A i \in pending : asker'[i] = asker[i]
    BY <1>1, <1>2 DEF BookTypes
  <1>7. \A i \in pending' : i < requestId' /\ awaits'[asker'[i]] = i
    <2>1. \A i \in rest : i < requestId' /\ awaits'[asker'[i]] = i
      BY <1>1, <1>2, <1>6, IdFacts DEF Entries, BookTypes
    <2>. QED
      BY <2>1, <1>1, <1>2, <1>6
  <1>8. ASSUME NEW q \in Parties, awaits'[q] # 0
        PROVE  awaits'[q] \in pending' /\ asker'[awaits'[q]] = q /\ asked'[q] = awaits'[q]
    <2>1. CASE q = p
      BY <2>1, <1>2, <1>6
    <2>2. CASE q # p
      <3>1. /\ awaits'[q] = awaits[q] /\ asked'[q] = asked[q]
            /\ awaits[q] \in pending /\ asker[awaits[q]] = q /\ asked[q] = awaits[q]
        BY <2>2, <1>6, <1>8 DEF Entries
      <3>2. awaits[q] \in rest
        BY <3>1, <2>2
      <3>. QED
        BY <3>1, <3>2, <1>2, <1>6
    <2>. QED
      BY <2>1, <2>2
  <1>9. TrafficInv'
    <2>1. ASSUME NEW s \in Servers, NEW r \in wire'[s]
          PROVE  r[1] = r[2] /\ r[1] < requestId' /\ (r[1] \in pending' => s = child')
      <3>1. CASE r = <<new, new>> /\ s = child
        BY <3>1, <1>1, <1>2
      <3>2. CASE r \in lines[s]
        <4>1. r \in wire[s] /\ r \in Ids \X Ids
          BY <3>2
        <4>2. r[1] = r[2] /\ r[1] < new /\ (r[1] \in pending => s = child) /\ r[1] \in Nat
          BY <4>1, IdFacts DEF TrafficInv
        <4>. QED
          BY <4>2, <1>1, <1>2
      <3>. QED
        BY <3>1, <3>2, <1>3
    <2>. QED
      BY <2>1, <1>1, <1>2 DEF TrafficInv
  <1>. QED
    BY <1>1, <1>2, <1>5, <1>6, <1>7, <1>8, <1>9 DEF Entries

(* Rejecting entries of the map.                                           *)
LEMMA RejectKeeps ==
  ASSUME BookTypes, Entries, NEW ids \in SUBSET pending, Reject(ids),
         UNCHANGED <<sends, asked, answered>>,
         outcome \in [Callers -> {"none", "ok", "error"}], AnswerMatches
  PROVE  /\ requestId' = requestId /\ asker' = asker
         /\ pending' \subseteq pending /\ awaits' \in [Parties -> Ids \cup {0}]
         /\ Entries' /\ AnswerMatches'
         /\ outcome' \in [Callers -> {"none", "ok", "error"}]
         /\ \A p \in Parties : awaits'[p] = IF p \in Askers(ids) THEN 0 ELSE awaits[p]
         /\ \A p \in Askers(ids) : p \in Parties /\ awaits[p] # 0
  <1>1. /\ requestId' = requestId /\ asker' = asker /\ pending' = pending \ ids
        /\ \A p \in Parties : awaits'[p] = IF p \in Askers(ids) THEN 0 ELSE awaits[p]
        /\ awaits' \in [Parties -> Ids \cup {0}]
    BY DEF Reject, BookTypes
  <1>2. \A i \in pending : awaits[asker[i]] = i /\ asker[i] \in Parties /\ i # 0
    BY IdFacts DEF Entries, BookTypes
  <1>3. \A p \in Askers(ids) : p \in Parties /\ awaits[p] # 0
    BY <1>2 DEF Askers
  <1>4. \A i \in pending' : asker[i] \notin Askers(ids)
    BY <1>1, <1>2 DEF Askers
  <1>5. \A i \in pending' : i < requestId' /\ awaits'[asker'[i]] = i
    BY <1>1, <1>2, <1>4 DEF Entries
  <1>6. ASSUME NEW p \in Parties, awaits'[p] # 0
        PROVE  awaits'[p] \in pending' /\ asker'[awaits'[p]] = p /\ asked'[p] = awaits'[p]
    <2>1. awaits'[p] = awaits[p] /\ p \notin Askers(ids)
      BY <1>1, <1>6
    <2>2. awaits[p] \in pending /\ asker[awaits[p]] = p /\ asked[p] = awaits[p]
      BY <2>1, <1>6 DEF Entries
    <2>3. awaits[p] \notin ids
      BY <2>1, <2>2 DEF Askers
    <2>. QED
      BY <1>1, <2>1, <2>2, <2>3
  <1>7. AnswerMatches' /\ outcome' \in [Callers -> {"none", "ok", "error"}]
    BY DEF Reject, AnswerMatches
  <1>. QED
    BY <1>1, <1>3, <1>5, <1>6, <1>7 DEF Entries
-----------------------------------------------------------------------------
OwnerWaits == awaits[Owner] # 0 <=> phase \in Handshaking

LEMMA InvParts ==
  IInv <=> /\ BookTypes /\ LinkTypes /\ FlagTypes
           /\ Entries /\ OwnerWaits /\ TrafficInv /\ BudgetInv
           /\ LinkInv /\ CurrentServer /\ AnswerMatches
  BY TypeParts DEF IInv, BookInv, Entries, OwnerWaits

LEMMA InvPartsNext ==
  ASSUME BookTypes', LinkTypes', FlagTypes', Entries', OwnerWaits', TrafficInv',
         BudgetInv', LinkInv', CurrentServer', AnswerMatches'
  PROVE  IInv'
  <1>1. TypeOK'
    BY DEF TypeOK, BookTypes, LinkTypes, FlagTypes
  <1>2. BookInv'
    BY DEF BookInv, Entries, OwnerWaits
  <1>. QED
    BY <1>1, <1>2 DEF IInv

(* The facts of IInv that every step below starts from.                    *)
LEMMA Start ==
  ASSUME IInv
  PROVE  /\ child \in 0..MaxSpawns /\ spawns \in 0..MaxSpawns /\ MaxSpawns \in Nat
         /\ connected => phase = "ready"
         /\ phase # "idle" => child \in Servers /\ child = spawns
         /\ \A p \in Parties : phase = "idle" => awaits[p] = 0
  <1>1. child \in 0..MaxSpawns /\ spawns \in 0..MaxSpawns /\ MaxSpawns \in Nat
    BY InvParts, TransportAssumption DEF TransportAssumption, LinkTypes
  <1>2. connected => phase = "ready"
    BY DEF IInv, CurrentServer
  <1>3. phase # "idle" => child \in Servers /\ child = spawns
    BY <1>1 DEF IInv, LinkInv, Servers
  <1>4. \A p \in Parties : phase = "idle" => awaits[p] = 0
    BY InvParts DEF Entries, LinkInv
  <1>. QED
    BY <1>1, <1>2, <1>3, <1>4

THEOREM InitIInv == Init => IInv
  <1>. SUFFICES ASSUME Init PROVE IInv
    OBVIOUS
  <1>1. BookTypes /\ LinkTypes
    BY IdFacts, TransportAssumption
    DEF Init, BookTypes, LinkTypes, TransportAssumption, Processes
  <1>2. FlagTypes
    BY Zenon DEF Init, FlagTypes, Phases
  <1>3. Entries /\ OwnerWaits /\ TrafficInv /\ BudgetInv
    BY IdFacts DEF Init, Entries, OwnerWaits, TrafficInv, BudgetInv, Reserved, Handshaking
  <1>4. LinkInv /\ CurrentServer /\ AnswerMatches
    BY DEF Init, LinkInv, CurrentServer, AnswerMatches, Handshaking
  <1>. QED
    BY <1>1, <1>2, <1>3, <1>4, InvParts

-----------------------------------------------------------------------------
(* One lemma per action.                                                   *)

LEMMA ConnectStep ==
  ASSUME IInv, NEW started \in BOOLEAN, Connect(started)
  PROVE  IInv'
  <1>. USE DEF Connect, book, cache, counts, seen
  <1>1. /\ child = 0 /\ pending = {} /\ spawns + 1 \in Servers /\ spawns' = spawns + 1
        /\ \A p \in Parties : awaits[p] = 0
    BY Start DEF IInv, LinkInv, Servers
  <1>2. BookTypes' /\ Entries' /\ OwnerWaits' /\ TrafficInv' /\ AnswerMatches'
    BY <1>1, InvParts, IdFacts
    DEF BookTypes, Entries, OwnerWaits, TrafficInv, AnswerMatches, Handshaking
  <1>3. LinkTypes'
    BY <1>1, InvParts, Start DEF LinkTypes, Servers, Processes
  <1>4. FlagTypes'
    BY Zenon, InvParts DEF FlagTypes, Phases
  <1>5. BudgetInv'
    BY InvParts, Start DEF BookTypes, LinkTypes, BudgetInv, Reserved
  <1>6. LinkInv'
    <2>1. \A s \in Servers : /\ s # spawns + 1 => proc'[s] = proc[s]
                             /\ s = spawns + 1 => proc'[s] \in {"up", "stillborn"}
      BY <1>1, InvParts DEF LinkTypes
    <2>2. \A s \in Servers : proc[s] # "up"
      BY <1>1, IdFacts, InvParts DEF LinkInv
    <2>3. child' = spawns + 1 /\ child' # 0 /\ phase' = "spawned" /\ ~shutdownRequested'
      BY Start
    <2>. QED
      BY <1>1, <2>1, <2>2, <2>3 DEF LinkInv, Handshaking
  <1>7. CurrentServer'
    BY DEF CurrentServer
  <1>. QED
    BY <1>2, <1>3, <1>4, <1>5, <1>6, <1>7, InvPartsNext

LEMMA InitializeStep ==
  ASSUME IInv, Initialize
  PROVE  IInv'
  <1>. USE DEF Initialize, link, cache, counts
  <1>1. /\ phase = "spawned" /\ child \in Servers /\ child' = child /\ ~connected
        /\ UNCHANGED <<shutdownRequested, connected, info, proc, spawns, outcome, answered>>
    BY Start DEF seen
  <1>2. LinkTypes'
    BY InvParts DEF LinkTypes
  <1>3. FlagTypes'
    BY Zenon, InvParts, <1>1 DEF FlagTypes, Phases
  <1>4. CASE Writable /\ SendRequest(Owner, pending, wire) /\ phase' = "initialize"
    <2>1. requestId \in Ids
      BY <1>1, InvParts, IdFacts, TransportAssumption
      DEF TransportAssumption, BookTypes, LinkTypes, BudgetInv, Reserved, Ids
    <2>2. \A i \in pending : asker[i] # Owner
      BY <1>1, InvParts, IdFacts DEF Entries, OwnerWaits, Handshaking, BookTypes
    <2>3. /\ BookTypes' /\ Entries' /\ TrafficInv'
          /\ awaits'[Owner] # 0 /\ requestId' = requestId + 1
          /\ \A q \in Callers : asked'[q] = asked[q]
      <3>1. /\ BookTypes /\ Entries /\ TrafficInv
            /\ answered' \in [Parties -> Ids \cup {0}]
            /\ wire \in [Servers -> SUBSET (Ids \X Ids)]
        BY <1>1, InvParts DEF BookTypes
      <3>. QED
        BY <1>1, <1>4, <2>1, <2>2, <3>1, SendKeeps, IdFacts, TransportAssumption
        DEF TransportAssumption
    <2>4. OwnerWaits' /\ AnswerMatches'
      BY <1>1, <1>4, <2>3, InvParts DEF OwnerWaits, AnswerMatches, Handshaking
    <2>5. BudgetInv'
      BY <1>1, <1>4, <2>3, InvParts DEF BudgetInv, Reserved, BookTypes, LinkTypes
    <2>6. LinkInv' /\ CurrentServer'
      BY <1>1, <1>4, InvParts DEF LinkInv, CurrentServer, Writable, Handshaking
    <2>. QED
      BY <1>2, <1>3, <2>3, <2>4, <2>5, <2>6, InvPartsNext
  <1>5. CASE ~Writable /\ phase' = "failed" /\ UNCHANGED <<book, awaits, outcome, wire, seen>>
    <2>. USE DEF book, seen
    <2>1. BookTypes' /\ Entries' /\ TrafficInv' /\ AnswerMatches'
      BY <1>1, <1>5, InvParts DEF BookTypes, Entries, TrafficInv, AnswerMatches
    <2>2. OwnerWaits' /\ BudgetInv'
      BY <1>1, <1>5, InvParts
      DEF OwnerWaits, BudgetInv, Reserved, Handshaking, BookTypes, LinkTypes
    <2>3. LinkInv' /\ CurrentServer'
      BY <1>1, <1>5, InvParts DEF LinkInv, CurrentServer, Handshaking
    <2>. QED
      BY <1>2, <1>3, <2>1, <2>2, <2>3, InvPartsNext
  <1>. QED
    BY <1>4, <1>5

(* What Timeout, ErrorLine, Exit and EndOfOutput have in common: entries   *)
(* are rejected, and a server may be reported gone if all of them are.     *)
LEMMA RejectStep ==
  ASSUME IInv, NEW ids \in SUBSET pending, Reject(ids),
         phase' = PhaseAfterReject(ids),
         UNCHANGED <<child, shutdownRequested, info, tools,
                     spawns, calls, sends, asked, answered>>,
         connected' = connected \/ connected' = FALSE,
         wire' \in [Servers -> SUBSET (Ids \X Ids)],
         \A s \in Servers : wire'[s] \subseteq wire[s],
         open' \subseteq open,
         proc' \in [Servers -> Processes],
         \/ proc' = proc
         \/ /\ connected' = FALSE /\ ids = pending
            /\ \A s \in Servers : \/ proc'[s] = proc[s]
                                  \/ proc[s] = "dead" /\ proc'[s] = "gone"
  PROVE  IInv'
  <1>1. /\ requestId' = requestId /\ asker' = asker
        /\ pending' \subseteq pending /\ awaits' \in [Parties -> Ids \cup {0}]
        /\ Entries' /\ AnswerMatches'
        /\ outcome' \in [Callers -> {"none", "ok", "error"}]
        /\ \A p \in Parties : awaits'[p] = IF p \in Askers(ids) THEN 0 ELSE awaits[p]
        /\ \A p \in Askers(ids) : p \in Parties /\ awaits[p] # 0
    <2>1. /\ BookTypes /\ Entries /\ AnswerMatches
          /\ outcome \in [Callers -> {"none", "ok", "error"}]
      BY InvParts DEF FlagTypes
    <2>. QED
      BY <2>1, RejectKeeps
  <1>2. BookTypes' /\ LinkTypes'
    BY <1>1, InvParts DEF BookTypes, LinkTypes
  <1>3. \/ Owner \in Askers(ids) /\ phase' = "failed" /\ phase \in Handshaking
        \/ Owner \notin Askers(ids) /\ phase' = phase
    BY <1>1, InvParts DEF PhaseAfterReject, OwnerWaits
  <1>4. FlagTypes'
    <2>1. phase' \in Phases
      BY <1>3, InvParts DEF FlagTypes, Phases
    <2>2. connected' \in BOOLEAN /\ shutdownRequested' \in BOOLEAN
      BY Zenon, InvParts DEF FlagTypes
    <2>. QED
      BY <1>1, <2>1, <2>2 DEF FlagTypes
  <1>5. OwnerWaits' /\ BudgetInv'
    BY <1>1, <1>3, InvParts, IdFacts
    DEF OwnerWaits, BudgetInv, Reserved, Handshaking, BookTypes, LinkTypes
  <1>6. TrafficInv'
    BY <1>1, InvParts DEF TrafficInv
  <1>7. phase' \in Handshaking => proc' = proc
    <2>1. ASSUME phase' \in Handshaking, ids = pending PROVE FALSE
      <3>1. Owner \notin Askers(pending) /\ awaits[Owner] # 0
        BY <1>3, <2>1, InvParts DEF Handshaking, OwnerWaits
      <3>2. awaits[Owner] \in pending /\ asker[awaits[Owner]] = Owner
        BY <3>1, InvParts, IdFacts DEF Entries
      <3>. QED
        BY <3>1, <3>2 DEF Askers
    <2>. QED
      BY <2>1
  <1>8. LinkInv'
    BY <1>1, <1>3, <1>7, InvParts, Start DEF LinkInv, Handshaking, Writable
  <1>9. CurrentServer'
    BY <1>3, <1>7, InvParts, Start DEF CurrentServer, Writable, Handshaking
  <1>. QED
    BY <1>1, <1>2, <1>4, <1>5, <1>6, <1>8, <1>9, InvPartsNext

LEMMA UnreadFact ==
  ASSUME BookTypes, NEW s \in Servers, NEW r \in wire[s]
  PROVE  /\ Unread(s, r) \in [Servers -> SUBSET (Ids \X Ids)]
         /\ \A t \in Servers : Unread(s, r)[t] \subseteq wire[t]
         /\ r \in Ids \X Ids
  BY DEF BookTypes, Unread

LEMMA ErrorLineStep ==
  ASSUME IInv, NEW s \in Servers, NEW r \in wire[s], ErrorLine(s, r)
  PROVE  IInv'
  <1>1. {r[1]} \in SUBSET pending
    BY DEF ErrorLine, Resolved
  <1>2. BookTypes /\ LinkTypes
    BY InvParts
  <1>3. /\ wire' \in [Servers -> SUBSET (Ids \X Ids)]
        /\ \A t \in Servers : wire'[t] \subseteq wire[t]
    BY <1>2, UnreadFact DEF ErrorLine
  <1>. QED
    BY <1>1, <1>2, <1>3, RejectStep DEF ErrorLine, link, cache, counts, seen, LinkTypes

LEMMA TimeoutStep ==
  ASSUME IInv, NEW i \in Ids, Timeout(i)
  PROVE  IInv'
  <1>1. {i} \in SUBSET pending
    BY DEF Timeout, Expires
  <1>2. BookTypes /\ LinkTypes
    BY InvParts
  <1>. QED
    BY <1>1, <1>2, RejectStep
    DEF Timeout, link, cache, servers, counts, seen, LinkTypes, BookTypes

LEMMA DisconnectStep ==
  ASSUME IInv, Disconnect
  PROVE  IInv'
  <1>. USE DEF Disconnect, counts, seen
  <1>1. /\ requestId' = requestId /\ asker' = asker
        /\ pending' \subseteq pending /\ awaits' \in [Parties -> Ids \cup {0}]
        /\ Entries' /\ AnswerMatches'
        /\ outcome' \in [Callers -> {"none", "ok", "error"}]
        /\ \A p \in Parties : awaits'[p] = IF p \in Askers(pending) THEN 0 ELSE awaits[p]
    <2>1. /\ BookTypes /\ Entries /\ AnswerMatches
          /\ outcome \in [Callers -> {"none", "ok", "error"}]
      BY InvParts DEF FlagTypes
    <2>. QED
      BY <2>1, RejectKeeps
  <1>2. pending' = {}
    BY DEF Reject
  <1>3. BookTypes'
    BY <1>1, InvParts DEF BookTypes
  <1>4. /\ proc' \in [Servers -> Processes]
        /\ \A s \in Servers : proc'[s] # "up"
    BY InvParts DEF LinkTypes, Processes, LinkInv, Killed
  <1>5. LinkTypes'
    BY <1>4, InvParts, Start DEF LinkTypes
  <1>6. FlagTypes'
    <2>1. connected' \in BOOLEAN /\ shutdownRequested' \in BOOLEAN /\ phase' \in Phases
      BY Zenon DEF Phases
    <2>. QED
      BY <1>1, <2>1 DEF FlagTypes
  <1>7. OwnerWaits' /\ BudgetInv' /\ TrafficInv'
    <2>1. awaits[Owner] = 0
      BY InvParts, IdFacts DEF OwnerWaits, Handshaking, BookTypes
    <2>2. awaits'[Owner] = 0
      BY <1>1, <2>1, IdFacts
    <2>. QED
      BY <1>1, <1>2, <2>2, InvParts
      DEF OwnerWaits, BudgetInv, TrafficInv, Reserved, Handshaking
  <1>8. LinkInv' /\ CurrentServer'
    BY <1>2, <1>4 DEF LinkInv, CurrentServer, Handshaking
  <1>. QED
    BY <1>1, <1>3, <1>5, <1>6, <1>7, <1>8, InvPartsNext

LEMMA CallToolStep ==
  ASSUME IInv, NEW c \in Callers, CallTool(c)
  PROVE  IInv'
  <1>. USE DEF CallTool, link, cache
  <1>1. /\ c \in Parties /\ c # Owner /\ awaits[c] = 0 /\ calls' = calls + 1
        /\ UNCHANGED <<child, connected, shutdownRequested, info, tools,
                       phase, proc, open, spawns, answered>>
    BY TransportAssumption, IdFacts DEF TransportAssumption
  <1>2. LinkTypes'
    BY <1>1, InvParts, TransportAssumption DEF TransportAssumption, LinkTypes
  <1>3. FlagTypes' /\ CurrentServer'
    <2>1. phase' \in Phases /\ connected' \in BOOLEAN /\ shutdownRequested' \in BOOLEAN
      BY Zenon, <1>1, InvParts DEF FlagTypes
    <2>2. outcome' \in [Callers -> {"none", "ok", "error"}]
      BY InvParts DEF FlagTypes
    <2>3. CurrentServer'
      BY <1>1, InvParts DEF CurrentServer, Writable
    <2>. QED
      BY <2>1, <2>2, <2>3 DEF FlagTypes
  <1>4. CASE /\ connected /\ SendRequest(c, pending, wire)
             /\ outcome' = [outcome EXCEPT ![c] = "none"]
    <2>1. phase = "ready" /\ child \in Servers
      BY <1>4, Start
    <2>2. requestId \in Ids
      BY InvParts, IdFacts, TransportAssumption
      DEF TransportAssumption, BookTypes, LinkTypes, BudgetInv, Reserved, Ids
    <2>3. \A i \in pending : asker[i] # c
      BY <1>1, InvParts, IdFacts DEF Entries, BookTypes
    <2>4. /\ BookTypes' /\ Entries' /\ TrafficInv'
          /\ requestId' = requestId + 1
          /\ \A q \in Parties \ {c} : awaits'[q] = awaits[q] /\ asked'[q] = asked[q]
      <3>1. /\ BookTypes /\ Entries /\ TrafficInv
            /\ answered' \in [Parties -> Ids \cup {0}]
            /\ wire \in [Servers -> SUBSET (Ids \X Ids)]
        BY <1>1, InvParts DEF BookTypes
      <3>. QED
        BY <1>1, <1>4, <2>1, <2>2, <2>3, <3>1, SendKeeps
    <2>5. OwnerWaits' /\ AnswerMatches'
      BY <1>1, <1>4, <2>4, InvParts, IdFacts DEF OwnerWaits, AnswerMatches, FlagTypes
    <2>6. BudgetInv'
      BY <1>1, <2>1, <2>4, InvParts DEF BudgetInv, Reserved, BookTypes, LinkTypes
    <2>7. LinkInv'
      BY <1>1, <2>1, InvParts DEF LinkInv, Writable, Handshaking
    <2>. QED
      BY <1>2, <1>3, <2>4, <2>5, <2>6, <2>7, InvPartsNext
  <1>5. CASE /\ outcome' = [outcome EXCEPT ![c] = "error"]
             /\ UNCHANGED <<book, awaits, wire, sends, asked>>
    <2>. USE DEF book
    <2>1. BookTypes' /\ Entries' /\ TrafficInv' /\ OwnerWaits' /\ LinkInv'
      BY <1>1, <1>5, InvParts
      DEF BookTypes, Entries, TrafficInv, OwnerWaits, LinkInv, Writable
    <2>2. AnswerMatches' /\ BudgetInv'
      BY <1>1, <1>5, InvParts
      DEF AnswerMatches, BudgetInv, Reserved, FlagTypes, BookTypes, LinkTypes
    <2>. QED
      BY <1>2, <1>3, <2>1, <2>2, InvPartsNext
  <1>. QED
    BY <1>4, <1>5

LEMMA LateLineStep ==
  ASSUME IInv, NEW s \in Servers, NEW r \in wire[s], LateLine(s, r)
  PROVE  IInv'
  <1>. USE DEF LateLine, link, cache, book, clients, counts, seen
  <1>1. /\ wire' \in [Servers -> SUBSET (Ids \X Ids)]
        /\ \A t \in Servers : wire'[t] \subseteq wire[t]
    BY InvParts, UnreadFact
  <1>2. BookTypes' /\ LinkTypes' /\ Entries' /\ OwnerWaits' /\ TrafficInv'
    BY <1>1, InvParts DEF BookTypes, LinkTypes, Entries, OwnerWaits, TrafficInv
  <1>3. FlagTypes'
    BY InvParts DEF FlagTypes
  <1>4. BudgetInv' /\ LinkInv' /\ CurrentServer' /\ AnswerMatches'
    BY InvParts DEF BudgetInv, Reserved, LinkInv, CurrentServer, AnswerMatches, Writable
  <1>. QED
    BY <1>2, <1>3, <1>4, InvPartsNext

LEMMA DieStep ==
  ASSUME IInv, NEW s \in Servers, Die(s)
  PROVE  IInv'
  <1>. USE DEF Die, link, cache, book, clients, counts, seen
  <1>1. /\ proc' \in [Servers -> Processes] /\ proc'[s] = "dead"
        /\ \A t \in Servers \ {s} : proc'[t] = proc[t]
        /\ proc[s] \in {"up", "killed"}
    BY InvParts DEF LinkTypes, Processes
  <1>2. BookTypes' /\ LinkTypes' /\ Entries' /\ OwnerWaits' /\ TrafficInv'
    BY <1>1, InvParts DEF BookTypes, LinkTypes, Entries, OwnerWaits, TrafficInv
  <1>3. FlagTypes'
    BY InvParts DEF FlagTypes
  <1>4. BudgetInv' /\ AnswerMatches'
    BY InvParts DEF BudgetInv, Reserved, AnswerMatches
  <1>5. LinkInv' /\ CurrentServer'
    BY <1>1, InvParts, Start DEF LinkInv, CurrentServer, Writable, Handshaking
  <1>. QED
    BY <1>2, <1>3, <1>4, <1>5, InvPartsNext

LEMMA CallAnsweredStep ==
  ASSUME IInv, NEW s \in Servers, NEW r \in wire[s], CallAnswered(s, r)
  PROVE  IInv'
  <1>. DEFINE id == r[1]
              c == Waiting(r)
  <1>. USE DEF CallAnswered
  <1>1. /\ id \in pending /\ id # 0 /\ r[2] = id /\ r[2] \in Ids
        /\ c = asker[id] /\ c \in Callers /\ c \in Parties /\ c # Owner
        /\ awaits[c] = id /\ asked[c] = id
    BY InvParts, IdFacts, UnreadFact, TransportAssumption
    DEF TransportAssumption, Resolved, Waiting, Entries, TrafficInv, BookTypes
  <1>2. /\ UNCHANGED <<child, connected, shutdownRequested, info, tools,
                       requestId, asker, phase, proc, open, spawns, calls, sends, asked>>
        /\ pending' = pending \ {id}
        /\ awaits' = [awaits EXCEPT ![c] = 0]
        /\ outcome' = [outcome EXCEPT ![c] = "ok"]
        /\ answered' = [answered EXCEPT ![c] = id]
    BY <1>1 DEF link, cache, counts
  <1>3. /\ wire' \in [Servers -> SUBSET (Ids \X Ids)]
        /\ \A t \in Servers : wire'[t] \subseteq wire[t]
    BY InvParts, UnreadFact
  <1>4. BookTypes' /\ LinkTypes'
    BY <1>1, <1>2, <1>3, InvParts DEF BookTypes, LinkTypes
  <1>5. FlagTypes'
    BY <1>1, <1>2, InvParts DEF FlagTypes
  <1>6. Entries'
    BY <1>1, <1>2, InvParts DEF Entries, BookTypes
  <1>7. OwnerWaits' /\ TrafficInv' /\ BudgetInv'
    BY <1>1, <1>2, <1>3, InvParts, IdFacts
    DEF OwnerWaits, TrafficInv, BudgetInv, Reserved, BookTypes
  <1>8. LinkInv' /\ CurrentServer'
    BY <1>2, InvParts DEF LinkInv, CurrentServer, Writable
  <1>9. AnswerMatches'
    BY <1>1, <1>2, InvParts, IdFacts DEF AnswerMatches, FlagTypes, BookTypes
  <1>. QED
    BY <1>4, <1>5, <1>6, <1>7, <1>8, <1>9, InvPartsNext

(* The answer to a request of the handshake comes from the server in use.  *)
LEMMA OwnersAnswer ==
  ASSUME IInv, NEW s \in Servers, NEW r \in wire[s], Resolved(r), Waiting(r) = Owner
  PROVE  /\ s = child /\ r \in Ids \X Ids /\ r[1] \in pending
         /\ awaits[Owner] = r[1] /\ asker[r[1]] = Owner
         /\ \A i \in pending \ {r[1]} : asker[i] # Owner
  BY InvParts, UnreadFact DEF TrafficInv, Resolved, Waiting, Entries

LEMMA InitializedStep ==
  ASSUME IInv, NEW s \in Servers, NEW r \in wire[s], Initialized(s, r)
  PROVE  IInv'
  <1>. DEFINE rest == pending \ {r[1]}
              lines == Unread(s, r)
  <1>. USE DEF Initialized, link, counts
  <1>1. /\ phase = "initialize" /\ phase' = "listing" /\ info' = s
        /\ UNCHANGED <<child, connected, shutdownRequested, tools, outcome,
                       proc, open, spawns, calls>>
        /\ SendRequest(Owner, rest, lines)
        /\ s = child /\ ~connected
    BY OwnersAnswer, Start
  <1>2. /\ BookTypes' /\ Entries' /\ TrafficInv'
        /\ awaits'[Owner] # 0 /\ requestId' = requestId + 1
        /\ \A q \in Callers : asked'[q] = asked[q]
    <2>1. /\ BookTypes /\ Entries /\ TrafficInv
          /\ answered' \in [Parties -> Ids \cup {0}]
      BY OwnersAnswer, InvParts DEF BookTypes
    <2>2. /\ lines \in [Servers -> SUBSET (Ids \X Ids)]
          /\ \A t \in Servers : lines[t] \subseteq wire[t]
      BY <2>1, UnreadFact
    <2>3. /\ rest \in SUBSET pending
          /\ \A i \in pending \ rest : asker[i] = Owner
          /\ \A i \in rest : asker[i] # Owner
      BY OwnersAnswer
    <2>4. requestId \in Ids
      BY <1>1, InvParts, IdFacts, TransportAssumption
      DEF TransportAssumption, BookTypes, LinkTypes, BudgetInv, Reserved, Ids
    <2>. QED
      BY <1>1, <2>1, <2>2, <2>3, <2>4, SendKeeps, IdFacts, TransportAssumption
      DEF TransportAssumption
  <1>3. LinkTypes'
    BY <1>1, InvParts DEF LinkTypes
  <1>4. FlagTypes'
    BY Zenon, <1>1, InvParts DEF FlagTypes, Phases
  <1>5. OwnerWaits' /\ BudgetInv'
    BY <1>1, <1>2, InvParts
    DEF OwnerWaits, BudgetInv, Reserved, Handshaking, BookTypes, LinkTypes
  <1>6. AnswerMatches'
    <2>1. \A c \in Callers : answered'[c] = answered[c]
      BY InvParts, TransportAssumption, IdFacts DEF TransportAssumption, BookTypes
    <2>. QED
      BY <1>1, <1>2, <2>1, InvParts DEF AnswerMatches
  <1>7. LinkInv' /\ CurrentServer'
    BY <1>1, InvParts DEF LinkInv, CurrentServer, Writable, Handshaking
  <1>. QED
    BY <1>2, <1>3, <1>4, <1>5, <1>6, <1>7, InvPartsNext

LEMMA ListedStep ==
  ASSUME IInv, NEW s \in Servers, NEW r \in wire[s], Listed(s, r)
  PROVE  IInv'
  <1>. USE DEF Listed, counts
  <1>1. /\ s = child /\ r \in Ids \X Ids /\ r[1] \in pending
        /\ awaits[Owner] = r[1] /\ asker[r[1]] = Owner
        /\ phase = "listing" /\ phase' = "ready"
    BY OwnersAnswer
  <1>2. /\ wire' \in [Servers -> SUBSET (Ids \X Ids)]
        /\ \A t \in Servers : wire'[t] \subseteq wire[t]
    BY InvParts, UnreadFact
  <1>3. BookTypes'
    BY <1>1, <1>2, InvParts, IdFacts DEF BookTypes
  <1>4. LinkTypes'
    BY InvParts, Start, <1>1 DEF LinkTypes
  <1>5. FlagTypes'
    BY Zenon, InvParts DEF FlagTypes, Phases
  <1>6. Entries'
    BY <1>1, InvParts, IdFacts DEF Entries, BookTypes
  <1>7. OwnerWaits' /\ TrafficInv' /\ BudgetInv'
    BY <1>1, <1>2, InvParts, IdFacts
    DEF OwnerWaits, TrafficInv, BudgetInv, Reserved, Handshaking, BookTypes
  <1>8. LinkInv' /\ CurrentServer'
    BY <1>1, InvParts DEF LinkInv, CurrentServer, Writable, Handshaking
  <1>9. AnswerMatches'
    <2>1. \A c \in Callers : answered'[c] = answered[c]
      BY InvParts, TransportAssumption, IdFacts DEF TransportAssumption, BookTypes
    <2>. QED
      BY <2>1, InvParts DEF AnswerMatches
  <1>. QED
    BY <1>3, <1>4, <1>5, <1>6, <1>7, <1>8, <1>9, InvPartsNext

LEMMA ExitStep ==
  ASSUME IInv, NEW s \in Servers, Exit(s)
  PROVE  IInv'
  <1>. USE DEF Exit, cache, counts, seen
  <1>1. BookTypes /\ LinkTypes
    BY InvParts
  <1>2. /\ proc' \in [Servers -> Processes]
        /\ \A t \in Servers : \/ proc'[t] = proc[t]
                              \/ proc[t] = "dead" /\ proc'[t] = "gone"
    BY <1>1 DEF LinkTypes, Processes
  <1>3. CASE Reject(pending) /\ phase' = PhaseAfterReject(pending)
    <2>1. pending \in SUBSET pending
      OBVIOUS
    <2>. QED
      BY <1>1, <1>2, <1>3, <2>1, RejectStep DEF BookTypes, LinkTypes
  <1>4. CASE shutdownRequested /\ UNCHANGED <<book, clients>>
    <2>. USE DEF book, clients
    <2>1. phase = "idle" /\ child = 0
      BY <1>4, InvParts DEF LinkInv
    <2>2. BookTypes' /\ LinkTypes' /\ Entries' /\ OwnerWaits' /\ TrafficInv'
      BY <1>2, <1>4, InvParts DEF BookTypes, LinkTypes, Entries, OwnerWaits, TrafficInv
    <2>3. FlagTypes'
      BY Zenon, <1>4, InvParts DEF FlagTypes
    <2>4. BudgetInv' /\ AnswerMatches'
      BY <1>4, InvParts DEF BudgetInv, Reserved, AnswerMatches
    <2>5. LinkInv' /\ CurrentServer'
      BY <1>2, <1>4, <2>1, InvParts DEF LinkInv, CurrentServer, Handshaking
    <2>. QED
      BY <2>2, <2>3, <2>4, <2>5, InvPartsNext
  <1>. QED
    BY <1>3, <1>4

LEMMA EndOfOutputStep ==
  ASSUME IInv, NEW s \in Servers, EndOfOutput(s)
  PROVE  IInv'
  <1>. USE DEF EndOfOutput, link, cache, counts, seen
  <1>1. BookTypes /\ LinkTypes
    BY InvParts
  <1>2. CASE Reject(pending) /\ phase' = PhaseAfterReject(pending)
    <2>1. pending \in SUBSET pending
      OBVIOUS
    <2>. QED
      BY <1>1, <1>2, <2>1, RejectStep DEF BookTypes, LinkTypes
  <1>3. CASE UNCHANGED <<book, clients>>
    <2>. USE DEF book, clients
    <2>1. BookTypes' /\ LinkTypes' /\ Entries' /\ OwnerWaits' /\ TrafficInv'
      BY <1>3, InvParts DEF BookTypes, LinkTypes, Entries, OwnerWaits, TrafficInv
    <2>2. FlagTypes'
      BY <1>3, InvParts DEF FlagTypes
    <2>3. BudgetInv' /\ AnswerMatches' /\ LinkInv' /\ CurrentServer'
      BY <1>3, InvParts
      DEF BudgetInv, Reserved, AnswerMatches, LinkInv, CurrentServer, Writable
    <2>. QED
      BY <2>1, <2>2, <2>3, InvPartsNext
  <1>. QED
    BY <1>2, <1>3

LEMMA StutterStep ==
  ASSUME IInv, UNCHANGED vars
  PROVE  IInv'
  <1>. USE DEF vars, link, cache, book, clients, servers, counts, seen
  <1>1. BookTypes' /\ LinkTypes' /\ Entries' /\ OwnerWaits' /\ TrafficInv'
    BY InvParts DEF BookTypes, LinkTypes, Entries, OwnerWaits, TrafficInv
  <1>2. FlagTypes'
    BY InvParts DEF FlagTypes
  <1>3. BudgetInv' /\ AnswerMatches' /\ LinkInv' /\ CurrentServer'
    BY InvParts
    DEF BudgetInv, Reserved, AnswerMatches, LinkInv, CurrentServer, Writable
  <1>. QED
    BY <1>1, <1>2, <1>3, InvPartsNext

LEMMA NextIInv == IInv /\ [Next]_vars => IInv'
  <1>. SUFFICES ASSUME IInv, [Next]_vars PROVE IInv'
    OBVIOUS
  <1>1. CASE OwnerNext
    BY <1>1, ConnectStep, InitializeStep, DisconnectStep DEF OwnerNext
  <1>2. CASE \E c \in Callers : CallTool(c)
    BY <1>2, CallToolStep
  <1>3. CASE \E s \in Servers : ServerNext(s)
    <2>1. PICK s \in Servers : ServerNext(s)
      BY <1>3
    <2>2. CASE \E r \in wire[s] : LineNext(s, r)
      <3>1. PICK r \in wire[s] : LineNext(s, r)
        BY <2>2
      <3>. QED
        BY <3>1, LateLineStep, ErrorLineStep, CallAnsweredStep, InitializedStep, ListedStep
        DEF LineNext
    <2>. QED
      BY <2>1, <2>2, DieStep, ExitStep, EndOfOutputStep DEF ServerNext
  <1>4. CASE \E i \in Ids : Timeout(i)
    BY <1>4, TimeoutStep
  <1>5. CASE UNCHANGED vars
    BY <1>5, StutterStep
  <1>. QED
    BY <1>1, <1>2, <1>3, <1>4, <1>5 DEF Next

-----------------------------------------------------------------------------
(* IInv holds in every state of every run.                                 *)
THEOREM Invariance == Spec => []IInv
  BY InitIInv, NextIInv, PTL DEF Spec

(* Every variable keeps its type; in particular a connection never runs    *)
(* out of the ids that its calls and handshakes need.                      *)
THEOREM TypeCorrect == Spec => []TypeOK
  <1>1. IInv => TypeOK
    BY DEF IInv
  <1>. QED
    BY <1>1, Invariance, PTL

(* A call that succeeds got the answer to its own request (sendRequest,    *)
(* handleLine), whatever times out, dies or is answered late.              *)
THEOREM AnswersMatch == Spec => []AnswerMatches
  <1>1. IInv => AnswerMatches
    BY DEF IInv
  <1>. QED
    BY <1>1, Invariance, PTL

(* pendingRequests holds exactly the requests somebody waits for.          *)
THEOREM WaitersPending == Spec => []WaitersArePending
  <1>1. IInv => WaitersArePending
    <2>. SUFFICES ASSUME IInv PROVE WaitersArePending
      OBVIOUS
    <2>1. \A i \in pending : i # 0 /\ asker[i] \in Parties /\ awaits[asker[i]] = i
      BY InvParts, IdFacts DEF BookTypes, Entries
    <2>2. \A p \in Parties : awaits[p] # 0 => awaits[p] \in pending /\ asker[awaits[p]] = p
      BY InvParts DEF Entries
    <2>. QED
      BY <2>1, <2>2 DEF WaitersArePending
  <1>. QED
    BY <1>1, Invariance, PTL

(* While connected, cache and stream belong to the server in use.          *)
THEOREM CurrentServerThm == Spec => []CurrentServer
  <1>1. IInv => CurrentServer
    BY DEF IInv
  <1>. QED
    BY <1>1, Invariance, PTL

(* disconnect leaves no server and no caller behind, also when connect     *)
(* threw.                                                                  *)
THEOREM DisconnectCloses == Spec => []NothingLeftOpen
  <1>1. IInv => NothingLeftOpen
    <2>. SUFFICES ASSUME IInv, phase = "idle"
                  PROVE  /\ \A s \in Servers : proc[s] # "up"
                         /\ \A p \in Parties : awaits[p] = 0
                         /\ ~connected
      BY DEF NothingLeftOpen
    <2>1. child = 0 /\ \A s \in Servers : proc[s] = "up" => s = child
      BY InvParts DEF LinkInv
    <2>. QED
      BY <2>1, Start, IdFacts
  <1>. QED
    BY <1>1, Invariance, PTL

-----------------------------------------------------------------------------
(* The store.                                                              *)
USE DEF Stamps, Operations, Snapshots

(* A command under way has a project, and a stamp once it has loaded.       *)
Formed ==
    \A c \in Commands :
        /\ command[c].pc = "idle" => command[c] = Idle
        /\ command[c].pc # "idle" => command[c].project \in Projects
        /\ command[c].pc \notin {"idle", "loading"} => command[c].at # 0

TypeInv == StoreTypeOK /\ Formed

LEMMA IdleFacts ==
  /\ clock \in Nat => Idle \in Work
  /\ Idle.pc = "idle" /\ Idle.at = 0
  BY DEF Idle, Null, Kinds, Work

LEMMA InitTypes == StoreInit => TypeInv
  BY IdleFacts, MaxStampsAssumption DEF StoreInit, TypeInv, StoreTypeOK, Formed

(* A step replaces the work of one command.                                *)
LEMMA Works ==
  ASSUME Formed, command \in [Commands -> Work],
         NEW c \in Commands, NEW w,
         command' = [command EXCEPT ![c] = w],
         \/ w = Idle
         \/ /\ w.pc # "idle" /\ w.project \in Projects
            /\ w.pc # "loading" => w.at # 0
  PROVE  Formed'
  BY IdleFacts DEF Formed

LEMMA StepTypes == TypeInv /\ [StoreNext]_storeVars => TypeInv'
<1> SUFFICES ASSUME TypeInv, [StoreNext]_storeVars
             PROVE  TypeInv'
  OBVIOUS
<1>t. /\ clock \in 0 .. MaxStamps /\ clock \in Nat /\ current \in Snapshots
      /\ rows \in [Projects -> Stamps] /\ history \subseteq Operations
      /\ command \in [Commands -> Work]
      /\ allowed \in [Projects -> SUBSET [at : Stamps, leaves : Stamps]]
      /\ finished \subseteq Stamps /\ logged \subseteq Operations /\ Formed
  BY MaxStampsAssumption DEF TypeInv, StoreTypeOK
<1>1. CASE UNCHANGED storeVars
  BY <1>1 DEF storeVars, TypeInv, StoreTypeOK, Formed, Work
<1>2. ASSUME NEW c \in Commands, NEW kind \in Kinds, NEW p \in Projects,
             LoadCurrent(c, kind, p)
      PROVE  TypeInv'
  <2> DEFINE w == [Idle EXCEPT !.pc = "loading", !.kind = kind, !.project = p,
                               !.current = current]
  <2>1. command' = [command EXCEPT ![c] = w] /\ UNCHANGED <<tables, clock, observers>>
    BY <1>2 DEF LoadCurrent
  <2>2. w \in Work /\ w.pc = "loading" /\ w.project = p
    BY <1>t, IdleFacts DEF Work
  <2>3. Formed'
    <3> HIDE DEF w
    <3> QED
      BY <1>t, <2>1, <2>2, Works
  <2>4. command' \in [Commands -> Work]
    <3> HIDE DEF w
    <3> QED
      BY <1>t, <2>1, <2>2
  <2>5. Work' = Work /\ UNCHANGED <<current, rows, history, clock, allowed, finished, logged>>
    BY <2>1 DEF Work, tables, observers
  <2> QED
    BY <1>t, <2>3, <2>4, <2>5 DEF TypeInv, StoreTypeOK
<1>3. ASSUME NEW c \in Commands, LoadHistory(c)
      PROVE  TypeInv'
  <2> DEFINE w == [command[c] EXCEPT !.pc = "loaded", !.at = clock + 1,
                     !.history = history, !.before = finished]
  <2>1. /\ clock' = clock + 1 /\ clock' \in 0 .. MaxStamps
        /\ Stamps \subseteq Stamps' /\ clock + 1 \in Stamps'
    BY <1>3, <1>t, MaxStampsAssumption DEF LoadHistory
  <2>2. Leaves(w) \in Stamps'
    BY <2>1 DEF Leaves
  <2>3. allowed' \in [Projects -> SUBSET [at : Stamps', leaves : Stamps']]
    BY <1>3, <1>t, <2>1, <2>2 DEF LoadHistory
  <2>4. logged' \subseteq Operations'
    BY <1>3, <1>t, <2>1 DEF LoadHistory
  <2>5. command' = [command EXCEPT ![c] = w]
    BY <1>3 DEF LoadHistory
  <2>6. Operations \subseteq Operations' /\ Snapshots \subseteq Snapshots'
    BY <2>1
  <2>7. Work \subseteq Work'
    BY <2>1, <2>6 DEF Work
  <2>8. /\ command[c] \in Work /\ command[c].pc = "loading"
        /\ command[c].project \in Projects
    BY <1>3, <1>t DEF LoadHistory, Formed
  <2>9. w \in Work'
    BY <1>t, <2>1, <2>6, <2>8 DEF Work
  <2>10. w.pc = "loaded" /\ w.project \in Projects /\ w.at # 0
    BY <1>t, <2>8 DEF Work
  <2>11. Formed'
    <3> HIDE DEF w
    <3> QED
      BY <1>t, <2>5, <2>10, Works
  <2>12. command' \in [Commands -> Work']
    <3> HIDE DEF w
    <3> QED
      BY <1>t, <2>5, <2>7, <2>9
  <2> QED
    BY <1>3, <1>t, <2>1, <2>3, <2>4, <2>6, <2>11, <2>12
    DEF LoadHistory, tables, TypeInv, StoreTypeOK
<1>4. ASSUME NEW c \in Commands, Write(c)
      PROVE  TypeInv'
  <2> DEFINE w == [command[c] EXCEPT !.pc =
                     IF command[c].kind = "save" THEN "stored" ELSE "written"]
  <2>0. /\ command[c] \in Work /\ command[c].pc = "loaded"
        /\ command[c].project \in Projects /\ command[c].at # 0
    BY <1>4, <1>t DEF Write, Formed
  <2>1. /\ NextCurrent(command[c]) \in Snapshots
        /\ NextHistory(command[c]) \subseteq Operations
    BY <2>0 DEF NextCurrent, NextHistory, Own, Null, Work
  <2>2. Upserted(NextCurrent(command[c])) \in [Projects -> Stamps]
    BY <1>t, <2>1 DEF Upserted, Null
  <2>3. w \in Work /\ w.pc \notin {"idle", "loading"}
        /\ w.project \in Projects /\ w.at # 0
    BY <2>0 DEF Work
  <2>4. command' = [command EXCEPT ![c] = w]
    BY <1>4 DEF Write
  <2> HIDE DEF w
  <2>5. Formed'
    BY <1>t, <2>3, <2>4, Works
  <2> QED
    BY <1>4, <1>t, <2>1, <2>2, <2>3, <2>4, <2>5
    DEF Write, observers, TypeInv, StoreTypeOK, Work
<1>5. ASSUME NEW c \in Commands, DeleteRows(c)
      PROVE  TypeInv'
  <2> DEFINE w == [command[c] EXCEPT !.pc =
                     IF command[c].kind = "discard" THEN "rowless" ELSE "stored"]
  <2>0. /\ command[c] \in Work /\ command[c].pc = "written"
        /\ command[c].project \in Projects /\ command[c].at # 0
    BY <1>5, <1>t DEF DeleteRows, Formed
  <2>3. w \in Work /\ w.pc \notin {"idle", "loading"}
        /\ w.project \in Projects /\ w.at # 0
    BY <2>0 DEF Work
  <2>4. command' = [command EXCEPT ![c] = w]
    BY <1>5 DEF DeleteRows
  <2> HIDE DEF w
  <2>5. Formed'
    BY <1>t, <2>3, <2>4, Works
  <2>6. rows' \in [Projects -> Stamps]
    BY <1>5, <1>t DEF DeleteRows
  <2> QED
    BY <1>5, <1>t, <2>3, <2>4, <2>5, <2>6
    DEF DeleteRows, observers, TypeInv, StoreTypeOK, Work
<1>6. ASSUME NEW c \in Commands, DeleteOperations(c)
      PROVE  TypeInv'
  <2> DEFINE w == [command[c] EXCEPT !.pc = "stored"]
  <2>0. /\ command[c] \in Work /\ command[c].pc = "rowless"
        /\ command[c].project \in Projects /\ command[c].at # 0
    BY <1>6, <1>t DEF DeleteOperations, Formed
  <2>3. w \in Work /\ w.pc \notin {"idle", "loading"}
        /\ w.project \in Projects /\ w.at # 0
    BY <2>0 DEF Work
  <2>4. command' = [command EXCEPT ![c] = w]
    BY <1>6 DEF DeleteOperations
  <2> HIDE DEF w
  <2>5. Formed'
    BY <1>t, <2>3, <2>4, Works
  <2> QED
    BY <1>6, <1>t, <2>3, <2>4, <2>5
    DEF DeleteOperations, observers, TypeInv, StoreTypeOK, Work
<1>7. ASSUME NEW c \in Commands, Return(c)
      PROVE  TypeInv'
  <2>0. /\ command[c] \in Work /\ command[c].pc = "stored"
        /\ command[c].project \in Projects /\ command[c].at # 0
    BY <1>7, <1>t DEF Return, Formed
  <2>1. Own(command[c]) \in Operations /\ command[c].at \in Stamps
    BY <2>0 DEF Own, Work
  <2>2. /\ command' = [command EXCEPT ![c] = Idle]
        /\ UNCHANGED <<current, rows, history, clock>>
        /\ finished' \subseteq Stamps /\ logged' \subseteq Operations
    BY <1>7, <1>t, <2>1 DEF Return, tables
  <2>3. allowed' \in [Projects -> SUBSET [at : Stamps, leaves : Stamps]]
    BY <1>7, <1>t DEF Return
  <2>4. Formed'
    BY <1>t, <2>2, Works
  <2> QED
    BY <1>t, <2>2, <2>3, <2>4, IdleFacts DEF TypeInv, StoreTypeOK, Work
<1>8. ASSUME NEW c \in Commands, Abort(c)
      PROVE  TypeInv'
  <2>1. command[c].at \in Stamps
    BY <1>t DEF Work
  <2>2. /\ command' = [command EXCEPT ![c] = Idle]
        /\ UNCHANGED <<current, rows, history, clock, allowed, logged>>
        /\ finished' \subseteq Stamps
    BY <1>8, <1>t, <2>1 DEF Abort, tables
  <2>3. Formed'
    BY <1>t, <2>2, Works
  <2> QED
    BY <1>t, <2>2, <2>3, IdleFacts DEF TypeInv, StoreTypeOK, Work
<1> QED
  BY <1>1, <1>2, <1>3, <1>4, <1>5, <1>6, <1>7, <1>8 DEF StoreNext

(* Types: every stamp anywhere has been handed out, however commands        *)
(* overlap.                                                                *)
THEOREM StoreTypeCorrect == StoreSpec => []StoreTypeOK
<1>1. TypeInv => StoreTypeOK
  BY DEF TypeInv
<1> QED
  BY <1>1, InitTypes, StepTypes, PTL DEF StoreSpec
-----------------------------------------------------------------------------
(* Commands one at a time.  What a command under way relies on and has     *)
(* done: it knows the tables it loaded until it writes; it is among the    *)
(* commands the snapshots of its projects may be due to; and once its last *)
(* change of the rows is made, they are what it leaves.                    *)
Knows(w) == /\ w.pc \in {"loading", "loaded"} => w.current = current
            /\ w.pc = "loaded" => w.history = history

Answers(w) ==
    w.pc \notin {"idle", "loading"} =>
        /\ w.at \notin w.before
        /\ \A p \in On(w) : [at |-> w.at, leaves |-> Leaves(w)] \in allowed[p]
        /\ w.kind = "discard" => \A h \in logged : h.project # w.project

Reached(w) ==
    /\ w.pc = "written" => w.kind # "save"
    /\ w.pc = "rowless" => w.kind = "discard"
    /\ w.pc = "written" => current.project \notin On(w)
    /\ w.pc \in {"rowless", "stored"} => \A p \in On(w) : rows[p] = Leaves(w)
    /\ w.pc \in {"written", "stored"} /\ w.kind # "discard" => Own(w) \in history

OneAtATime == \A c, d \in Commands :
                  c # d => command[c] = Idle \/ command[d] = Idle

\* The single row is the row of its project.
Agree == current # Null => rows[current.project] = current.at

Due == \A p \in Projects : \E a \in allowed[p] : a.leaves = rows[p]

OnTrack(c) == Knows(command[c]) /\ Answers(command[c]) /\ Reached(command[c])

StoreIInv == /\ TypeInv
        /\ OneAtATime /\ Agree /\ Due /\ Logged
        /\ \A c \in Commands : OnTrack(c)

LEMMA IdleOnTrack ==
  ASSUME NEW c \in Commands, command[c] = Idle
  PROVE  OnTrack(c)
  BY IdleFacts DEF OnTrack, Knows, Answers, Reached

(* What the invariant says of the command that acts.                       *)
LEMMA Acting ==
  ASSUME StoreIInv, NEW c \in Commands, command[c] # Idle
  PROVE  /\ command[c] \in Work /\ command[c].project \in Projects
         /\ command[c].pc # "idle"
         /\ \A d \in Commands : d # c => command[d] = Idle
         /\ OnTrack(c)
         /\ On(command[c]) \subseteq Projects
<1>1. command[c] \in Work /\ command[c].pc # "idle"
  BY IdleFacts DEF StoreIInv, TypeInv, StoreTypeOK, Formed, Work
<1>2. command[c].project \in Projects
  BY <1>1 DEF StoreIInv, TypeInv, Formed
<1> QED
  BY <1>1, <1>2 DEF StoreIInv, OneAtATime, On

LEMMA OneStays ==
  ASSUME OneAtATime, NEW c \in Commands, NEW w, command \in [Commands -> Work],
         \A d \in Commands : d # c => command[d] = Idle,
         command' = [command EXCEPT ![c] = w]
  PROVE  /\ OneAtATime'
         /\ \A d \in Commands : d # c => OnTrack(d)'
         /\ command'[c] = w
<1>1. \A d \in Commands : d # c => command'[d] = Idle
  OBVIOUS
<1>2. \A d \in Commands : d # c => OnTrack(d)'
  BY <1>1, IdleFacts DEF OnTrack, Knows, Answers, Reached
<1> QED
  BY <1>1, <1>2 DEF OneAtATime

LEMMA InitHolds == StoreInit => StoreIInv
<1> SUFFICES ASSUME StoreInit PROVE StoreIInv
  OBVIOUS
<1>1. TypeInv
  BY InitTypes
<1>2. \A c \in Commands : command[c] = Idle
  BY DEF StoreInit
<1>3. OneAtATime /\ Agree /\ Logged
  BY <1>2 DEF StoreInit, OneAtATime, Agree, Logged
<1>4. Due
  BY DEF StoreInit, Due
<1> QED
  BY <1>1, <1>2, <1>3, <1>4, IdleOnTrack DEF StoreIInv

LEMMA StepHolds ==
  ASSUME ~Concurrent, StoreIInv, [StoreNext]_storeVars
  PROVE  StoreIInv'
<1>0. TypeInv'
  BY StepTypes DEF StoreIInv
<1>t. /\ clock \in Nat /\ current \in Snapshots
      /\ rows \in [Projects -> Stamps] /\ history \subseteq Operations
      /\ command \in [Commands -> Work]
      /\ allowed \in [Projects -> SUBSET [at : Stamps, leaves : Stamps]]
      /\ finished \subseteq Stamps /\ logged \subseteq Operations /\ Formed
      /\ OneAtATime /\ Agree /\ Due /\ Logged
  BY MaxStampsAssumption DEF StoreIInv, TypeInv, StoreTypeOK
<1>1. CASE UNCHANGED storeVars
  BY <1>0, <1>1 DEF storeVars, StoreIInv, OneAtATime, Agree, Due, Logged, OnTrack, Knows,
                    Answers, Reached, On, Leaves, Own
<1>2. ASSUME NEW c \in Commands, NEW kind \in Kinds, NEW p \in Projects,
             LoadCurrent(c, kind, p)
      PROVE  StoreIInv'
  <2> DEFINE w == [Idle EXCEPT !.pc = "loading", !.kind = kind, !.project = p,
                               !.current = current]
  <2>1. /\ command' = [command EXCEPT ![c] = w]
        /\ UNCHANGED <<current, rows, history, clock, allowed, finished, logged>>
        /\ \A d \in Commands : command[d] = Idle
    BY <1>2 DEF LoadCurrent, tables, observers
  <2>2. w.pc = "loading" /\ w.current = current
    BY IdleFacts DEF Work, Idle
  <2> HIDE DEF w
  <2>3. /\ OneAtATime' /\ command'[c] = w
        /\ \A d \in Commands : d # c => OnTrack(d)'
    BY <1>t, <2>1, OneStays
  <2>4. OnTrack(c)'
    BY <2>1, <2>2, <2>3 DEF OnTrack, Knows, Answers, Reached
  <2> QED
    BY <1>0, <1>t, <2>1, <2>3, <2>4 DEF StoreIInv, Agree, Due, Logged
<1>3. ASSUME NEW c \in Commands, LoadHistory(c)
      PROVE  StoreIInv'
  <2> DEFINE w == [command[c] EXCEPT !.pc = "loaded", !.at = clock + 1,
                     !.history = history, !.before = finished]
             own == [at |-> w.at, leaves |-> Leaves(w)]
  <2>0. command[c] # Idle /\ command[c].pc = "loading"
    BY <1>3, IdleFacts DEF LoadHistory
  <2>1. /\ command[c] \in Work /\ command[c].current = current
        /\ \A d \in Commands : d # c => command[d] = Idle
    BY <2>0, Acting DEF OnTrack, Knows
  <2>2. /\ command' = [command EXCEPT ![c] = w]
        /\ UNCHANGED <<current, rows, history, finished>>
    BY <1>3 DEF LoadHistory, tables
  <2>3. \A p \in Projects :
           /\ allowed[p] \subseteq allowed'[p]
           /\ p \in On(w) => own \in allowed'[p]
    BY <1>3 DEF LoadHistory
  <2>4. /\ logged' \subseteq logged
        /\ w.kind = "discard" => \A h \in logged' : h.project # w.project
    BY <1>3 DEF LoadHistory
  <2>5. /\ w.pc = "loaded" /\ w.current = current /\ w.history = history
        /\ w.before = finished /\ w.at = clock + 1 /\ w.project = command[c].project
        /\ w.kind = command[c].kind
    BY <2>1 DEF Work
  <2>6. w.at \notin w.before
    BY <1>t, <2>5
  <2>7. On(w) \subseteq Projects
    BY <2>0, <2>5, Acting DEF On
  <2> HIDE DEF w
  <2>8. Due'
    BY <1>t, <2>2, <2>3 DEF Due
  <2>9. /\ OneAtATime' /\ command'[c] = w
        /\ \A d \in Commands : d # c => OnTrack(d)'
    BY <1>t, <2>1, <2>2, OneStays
  <2>10. OnTrack(c)'
    <3>1. Knows(command[c])'
      BY <2>2, <2>5, <2>9 DEF Knows
    <3>2. Answers(command[c])'
      <4>1. On(command[c])' = On(w) /\ Leaves(command[c])' = Leaves(w)
        BY <2>9 DEF On, Leaves
      <4> QED
        BY <2>3, <2>4, <2>6, <2>7, <2>9, <4>1 DEF Answers
    <3>3. Reached(command[c])'
      BY <2>5, <2>9 DEF Reached
    <3> QED
      BY <3>1, <3>2, <3>3 DEF OnTrack
  <2> QED
    BY <1>0, <1>t, <2>2, <2>4, <2>8, <2>9, <2>10 DEF StoreIInv, Agree, Logged
<1>4. ASSUME NEW c \in Commands, Write(c)
      PROVE  StoreIInv'
  <2> DEFINE u == command[c]
             w == [u EXCEPT !.pc = IF u.kind = "save" THEN "stored" ELSE "written"]
  <2>0. u # Idle /\ u.pc = "loaded"
    BY <1>4, IdleFacts DEF Write
  <2>1. /\ u \in Work /\ u.project \in Projects /\ On(u) \subseteq Projects
        /\ u.current = current /\ u.history = history
        /\ u.at # 0 /\ u.at \notin u.before
        /\ \A p \in On(u) : [at |-> u.at, leaves |-> Leaves(u)] \in allowed[p]
        /\ u.kind = "discard" => \A h \in logged : h.project # u.project
        /\ \A d \in Commands : d # c => command[d] = Idle
    BY <1>t, <2>0, Acting DEF OnTrack, Knows, Answers, Formed
  <2>2. /\ command' = [command EXCEPT ![c] = w]
        /\ current' = NextCurrent(u) /\ rows' = Upserted(NextCurrent(u))
        /\ history' = NextHistory(u)
        /\ UNCHANGED <<clock, allowed, finished, logged>>
    BY <1>4 DEF Write, observers
  <2>3. /\ w.kind = u.kind /\ w.project = u.project /\ w.at = u.at
        /\ w.before = u.before
        /\ w.pc = IF u.kind = "save" THEN "stored" ELSE "written"
    BY <2>1 DEF Work
  <2>4. On(w) = On(u) /\ Leaves(w) = Leaves(u) /\ Own(w) = Own(u)
    BY <2>3 DEF On, Leaves, Own
  <2> HIDE DEF w
  <2>5. /\ OneAtATime' /\ command'[c] = w
        /\ \A d \in Commands : d # c => OnTrack(d)'
    BY <1>t, <2>1, <2>2, OneStays
  <2>6. Logged' /\ (u.kind # "discard" => Own(u) \in history')
    BY <1>t, <2>1, <2>2 DEF Logged, NextHistory
  <2>7. Answers(command[c])'
    BY <2>1, <2>2, <2>3, <2>5 DEF Answers, On, Leaves
  <2>8. CASE u.kind = "save"
    <3>1. On(u) = {u.project} /\ Leaves(u) = u.at /\ NextCurrent(u) = Own(u)
      BY <2>8 DEF On, Leaves, NextCurrent
    <3>2. rows' = [p \in Projects |-> IF p = u.project THEN u.at ELSE rows[p]]
      <4>1. Own(u).project = u.project /\ Own(u).at = u.at
        BY DEF Own
      <4> QED
        BY <2>2, <3>1, <4>1 DEF Upserted
    <3>3. Agree' /\ \A p \in On(u) : rows'[p] = Leaves(u)
      BY <1>t, <2>1, <2>2, <3>1, <3>2 DEF Agree, Own
    <3>4. Due'
      <4>1. [at |-> u.at, leaves |-> u.at] \in allowed[u.project]
        BY <2>1, <3>1
      <4> QED
        BY <1>t, <2>1, <2>2, <3>2, <4>1 DEF Due
    <3>5. w.pc = "stored" /\ w.kind = "save"
      BY <2>3, <2>8
    <3>6. OnTrack(c)'
      <4>1. On(command[c])' = On(u) /\ Leaves(command[c])' = Leaves(u)
            /\ Own(command[c])' = Own(u)
        BY <2>4, <2>5 DEF On, Leaves, Own
      <4> QED
        BY <2>5, <2>6, <2>7, <2>8, <3>3, <3>5, <4>1 DEF OnTrack, Knows, Reached
    <3> QED
      BY <1>0, <2>5, <2>6, <3>3, <3>4, <3>6 DEF StoreIInv
  <2>9. CASE u.kind # "save"
    <3>1. /\ current' = IF current.project \in On(u) THEN Null ELSE current
          /\ rows' = Upserted(current')
      BY <2>1, <2>2, <2>9 DEF NextCurrent
    <3>2. rows' = rows
      BY <1>t, <3>1, NoneAssumption DEF Upserted, Agree, Null
    <3>3. Agree' /\ Due'
      BY <1>t, <2>2, <3>1, <3>2 DEF Agree, Due
    <3>4. current'.project \notin On(u)
      BY <2>1, <3>1, NoneAssumption DEF Null
    <3>5. w.pc = "written" /\ w.kind # "save"
      BY <2>3, <2>9
    <3>6. OnTrack(c)'
      <4>1. On(command[c])' = On(u) /\ Leaves(command[c])' = Leaves(u)
            /\ Own(command[c])' = Own(u)
        BY <2>4, <2>5 DEF On, Leaves, Own
      <4> QED
        BY <2>3, <2>5, <2>6, <2>7, <3>4, <3>5, <4>1 DEF OnTrack, Knows, Reached
    <3> QED
      BY <1>0, <2>5, <2>6, <3>3, <3>6 DEF StoreIInv
  <2> QED
    BY <2>8, <2>9
<1>5. ASSUME NEW c \in Commands, DeleteRows(c)
      PROVE  StoreIInv'
  <2> DEFINE u == command[c]
             w == [u EXCEPT !.pc = IF u.kind = "discard" THEN "rowless" ELSE "stored"]
  <2>0. u # Idle /\ u.pc = "written"
    BY <1>5, IdleFacts DEF DeleteRows
  <2>1. /\ u \in Work /\ u.project \in Projects /\ On(u) \subseteq Projects
        /\ u.at \notin u.before /\ u.kind # "save"
        /\ \A p \in On(u) : [at |-> u.at, leaves |-> Leaves(u)] \in allowed[p]
        /\ u.kind = "discard" => \A h \in logged : h.project # u.project
        /\ current.project \notin On(u)
        /\ u.kind # "discard" => Own(u) \in history
        /\ \A d \in Commands : d # c => command[d] = Idle
    BY <2>0, Acting DEF OnTrack, Answers, Reached
  <2>2. /\ command' = [command EXCEPT ![c] = w]
        /\ rows' = [p \in Projects |-> IF p \in On(u) THEN 0 ELSE rows[p]]
        /\ UNCHANGED <<current, history, clock, allowed, finished, logged>>
    BY <1>5 DEF DeleteRows, observers
  <2>3. /\ w.kind = u.kind /\ w.project = u.project /\ w.at = u.at
        /\ w.before = u.before
        /\ w.pc = IF u.kind = "discard" THEN "rowless" ELSE "stored"
    BY <2>1 DEF Work
  <2> HIDE DEF w
  <2>4. /\ OneAtATime' /\ command'[c] = w
        /\ \A d \in Commands : d # c => OnTrack(d)'
    BY <1>t, <2>1, <2>2, OneStays
  <2>5. Leaves(u) = 0
    BY <2>1 DEF Leaves
  <2>6. On(command[c])' = On(u) /\ Leaves(command[c])' = Leaves(u)
        /\ Own(command[c])' = Own(u)
    BY <2>3, <2>4 DEF On, Leaves, Own
  <2>7. Agree' /\ Logged'
    BY <1>t, <2>1, <2>2 DEF Agree, Logged, Null
  <2>8. Due'
    BY <1>t, <2>1, <2>2, <2>5 DEF Due
  <2>9. OnTrack(c)'
    <3>1. Answers(command[c])'
      BY <2>1, <2>2, <2>3, <2>4, <2>6 DEF Answers
    <3>2. Reached(command[c])'
      BY <2>1, <2>2, <2>3, <2>4, <2>5, <2>6 DEF Reached
    <3> QED
      BY <2>3, <2>4, <3>1, <3>2 DEF OnTrack, Knows
  <2> QED
    BY <1>0, <2>4, <2>7, <2>8, <2>9 DEF StoreIInv
<1>6. ASSUME NEW c \in Commands, DeleteOperations(c)
      PROVE  StoreIInv'
  <2> DEFINE u == command[c]
             w == [u EXCEPT !.pc = "stored"]
  <2>0. u # Idle /\ u.pc = "rowless"
    BY <1>6, IdleFacts DEF DeleteOperations
  <2>1. /\ u \in Work /\ u.project \in Projects /\ On(u) \subseteq Projects
        /\ u.at \notin u.before /\ u.kind = "discard"
        /\ \A p \in On(u) : [at |-> u.at, leaves |-> Leaves(u)] \in allowed[p]
        /\ \A p \in On(u) : rows[p] = Leaves(u)
        /\ \A h \in logged : h.project # u.project
        /\ \A d \in Commands : d # c => command[d] = Idle
    BY <2>0, Acting DEF OnTrack, Answers, Reached
  <2>2. /\ command' = [command EXCEPT ![c] = w]
        /\ history' = {h \in history : h.project # u.project}
        /\ UNCHANGED <<current, rows, clock, allowed, finished, logged>>
    BY <1>6 DEF DeleteOperations, observers
  <2>3. /\ w.kind = u.kind /\ w.project = u.project /\ w.at = u.at
        /\ w.before = u.before /\ w.pc = "stored"
    BY <2>1 DEF Work
  <2> HIDE DEF w
  <2>4. /\ OneAtATime' /\ command'[c] = w
        /\ \A d \in Commands : d # c => OnTrack(d)'
    BY <1>t, <2>1, <2>2, OneStays
  <2>5. On(command[c])' = On(u) /\ Leaves(command[c])' = Leaves(u)
    BY <2>3, <2>4 DEF On, Leaves
  <2>7. Logged' /\ Agree' /\ Due'
    BY <1>t, <2>1, <2>2 DEF Logged, Agree, Due
  <2>8. OnTrack(c)'
    BY <2>1, <2>2, <2>3, <2>4, <2>5 DEF OnTrack, Knows, Answers, Reached
  <2> QED
    BY <1>0, <2>4, <2>7, <2>8 DEF StoreIInv
<1>7. ASSUME NEW c \in Commands, Return(c)
      PROVE  StoreIInv'
  <2> DEFINE u == command[c]
  <2>0. u # Idle /\ u.pc = "stored"
    BY <1>7, IdleFacts DEF Return
  <2>1. /\ u \in Work /\ u.at \notin u.before
        /\ \A p \in On(u) : [at |-> u.at, leaves |-> Leaves(u)] \in allowed[p]
        /\ \A p \in On(u) : rows[p] = Leaves(u)
        /\ u.kind # "discard" => Own(u) \in history
        /\ \A d \in Commands : d # c => command[d] = Idle
    BY <2>0, Acting DEF OnTrack, Answers, Reached
  <2>2. /\ command' = [command EXCEPT ![c] = Idle]
        /\ allowed' = [p \in Projects |-> IF p \in On(u)
                         THEN {a \in allowed[p] : a.at \notin u.before}
                         ELSE allowed[p]]
        /\ logged' = IF u.kind = "discard" THEN logged ELSE logged \cup {Own(u)}
        /\ UNCHANGED <<current, rows, history, clock>>
    BY <1>7 DEF Return, tables
  <2>3. /\ OneAtATime' /\ command'[c] = Idle
        /\ \A d \in Commands : d # c => OnTrack(d)'
    BY <1>t, <2>1, <2>2, OneStays
  <2>4. OnTrack(c)'
    BY <2>3, IdleFacts DEF OnTrack, Knows, Answers, Reached
  <2>5. Due'
    <3>1. ASSUME NEW p \in Projects
          PROVE  \E a \in allowed'[p] : a.leaves = rows'[p]
      <4>1. CASE p \in On(u)
        <5> DEFINE own == [at |-> u.at, leaves |-> Leaves(u)]
        <5>1. own \in allowed[p] /\ own.at \notin u.before /\ own.leaves = rows[p]
          BY <2>1, <4>1
        <5> QED
          BY <2>2, <4>1, <5>1
      <4>2. CASE p \notin On(u)
        BY <1>t, <2>2, <4>2 DEF Due
      <4> QED
        BY <4>1, <4>2
    <3> QED
      BY <3>1 DEF Due
  <2>6. Logged' /\ Agree'
    BY <1>t, <2>1, <2>2 DEF Logged, Agree
  <2> QED
    BY <1>0, <2>3, <2>4, <2>5, <2>6 DEF StoreIInv
<1>8. ASSUME NEW c \in Commands, Abort(c)
      PROVE  StoreIInv'
  <2>1. \A d \in Commands : d # c => command[d] = Idle
    BY <1>8, Acting DEF Abort
  <2>2. /\ command' = [command EXCEPT ![c] = Idle]
        /\ UNCHANGED <<current, rows, history, clock, allowed, logged>>
    BY <1>8 DEF Abort, tables
  <2>3. /\ OneAtATime' /\ command'[c] = Idle
        /\ \A d \in Commands : d # c => OnTrack(d)'
    BY <1>t, <2>1, <2>2, OneStays
  <2>4. OnTrack(c)'
    BY <2>3, IdleFacts DEF OnTrack, Knows, Answers, Reached
  <2> QED
    BY <1>0, <1>t, <2>2, <2>3, <2>4 DEF StoreIInv, Agree, Due, Logged
<1> QED
  BY <1>1, <1>2, <1>3, <1>4, <1>5, <1>6, <1>7, <1>8 DEF StoreNext

LEMMA StoreInvariance == ~Concurrent => (StoreSpec => []StoreIInv)
<1>1. ASSUME ~Concurrent
      PROVE  StoreIInv /\ [StoreNext]_storeVars => StoreIInv'
  BY <1>1, StepHolds
<1>2. ASSUME ~Concurrent
      PROVE  StoreSpec => []StoreIInv
  BY <1>1, <1>2, InitHolds, PTL DEF StoreSpec
<1> QED
  BY <1>2

(* With rows that agree with the single row, both reads find the row.      *)
LEMMA ReadsRows ==
  ASSUME StoreTypeOK, Agree, NEW p \in Projects
  PROVE  Loaded(p) = rows[p] /\ ListedState(p) = rows[p]
  BY NoneAssumption DEF StoreTypeOK, Agree, Loaded, ListedState, Null

(* As long as commands do not overlap, what any read finds of a project is *)
(* what the last command on it left, or one that died: whichever step it   *)
(* died at, and whatever other projects were saved or cleared in between.  *)
THEOREM KeptOneAtATime == ~Concurrent => (StoreSpec => []Kept)
<1>1. StoreIInv => Kept
  BY ReadsRows DEF StoreIInv, TypeInv, Due, Kept
<1>2. ASSUME ~Concurrent
      PROVE  StoreSpec => []Kept
  BY <1>1, <1>2, StoreInvariance, PTL
<1> QED
  BY <1>2

(* The same for the history, which each command replaces as a whole.       *)
THEOREM LoggedOneAtATime == ~Concurrent => (StoreSpec => []Logged)
<1>1. StoreIInv => Logged
  BY DEF StoreIInv
<1>2. ASSUME ~Concurrent
      PROVE  StoreSpec => []Logged
  BY <1>1, <1>2, StoreInvariance, PTL
<1> QED
  BY <1>2

-----------------------------------------------------------------------------
(* A command is a request of VerifiedStates from the moment it is stamped, *)
(* a save effective with its write and a clear with its delete; nothing    *)
(* else changes what the reads find.                                       *)
LEMMA PendingOf ==
  ASSUME NEW w
  PROVE  /\ w.pc \in {"idle", "loading"} => Pending(w) = Abstract!NoRequest
         /\ w.pc \in {"loaded", "written"} =>
              Pending(w) = [on |-> On(w), leaves |-> Leaves(w), stage |-> "asked"]
         /\ w.pc \in {"rowless", "stored"} =>
              Pending(w) = [on |-> On(w), leaves |-> Leaves(w), stage |-> "effective"]
  BY DEF Pending, Abstract!NoRequest

LEMMA PendingIdle == Pending(Idle) = Abstract!NoRequest
  BY IdleFacts DEF Pending, Abstract!NoRequest

LEMMA InitAbstract == StoreInit => Abstract!Init
<1> SUFFICES ASSUME StoreInit PROVE Abstract!Init
  OBVIOUS
<1>1. \A p \in Projects : Loaded(p) = 0
  BY DEF StoreInit, Loaded, Null
<1>2. \A c \in Commands : Pending(command[c]) = Abstract!NoRequest
  BY PendingIdle DEF StoreInit
<1> QED
  BY <1>1, <1>2 DEF Abstract!Init

LEMMA StepAbstract ==
  ASSUME StoreIInv, StoreIInv', [StoreNext]_storeVars
  PROVE  [Abstract!Next]_(Abstract!vars)
<1> DEFINE verified == [p \in Projects |-> Loaded(p)]
           request == [c \in Commands |-> Pending(command[c])]
<1>t. /\ clock \in Nat /\ rows \in [Projects -> Stamps] /\ command \in [Commands -> Work]
      /\ verified = rows /\ verified' = rows'
  <2>1. rows \in [Projects -> Stamps] /\ rows' \in [Projects -> Stamps']
    BY DEF StoreIInv, TypeInv, StoreTypeOK
  <2>2. \A p \in Projects : Loaded(p) = rows[p]
    BY ReadsRows DEF StoreIInv, TypeInv
  <2>3. \A p \in Projects : Loaded(p)' = rows'[p]
    BY NoneAssumption DEF StoreIInv, TypeInv, StoreTypeOK, Agree, Loaded, Null
  <2> QED
    BY <2>1, <2>2, <2>3, MaxStampsAssumption DEF StoreIInv, TypeInv, StoreTypeOK
<1> SUFFICES \/ UNCHANGED <<verified, request>>
             \/ Abstract!Next
  BY DEF Abstract!vars
<1>1. CASE UNCHANGED storeVars
  <2>1. command' = command /\ rows' = rows
    BY <1>1 DEF storeVars
  <2> QED
    BY <1>t, <2>1 DEF Pending, On, Leaves
<1>r. ASSUME NEW c \in Commands, NEW w, command' = [command EXCEPT ![c] = w]
      PROVE  request' = [request EXCEPT ![c] = Pending(w)]
  BY <1>t, <1>r DEF Pending, On, Leaves
<1>u. \A c \in Commands :
         command[c] # Idle => /\ command[c] \in Work
                              /\ On(command[c]) \subseteq Projects
                              /\ On(command[c]) # {}
                              /\ OnTrack(c)
  BY Acting DEF On
<1>2. ASSUME NEW c \in Commands, NEW kind \in Kinds, NEW p \in Projects,
             LoadCurrent(c, kind, p)
      PROVE  UNCHANGED <<verified, request>>
  <2> DEFINE w == [Idle EXCEPT !.pc = "loading", !.kind = kind, !.project = p,
                               !.current = current]
  <2>1. command' = [command EXCEPT ![c] = w] /\ rows' = rows /\ command[c] = Idle
    BY <1>2 DEF LoadCurrent, tables
  <2>2. Pending(w) = Pending(Idle)
    BY PendingOf, PendingIdle, IdleFacts DEF Idle
  <2> HIDE DEF w
  <2>3. request' = request
    BY <1>r, <2>1, <2>2
  <2> QED
    BY <1>t, <2>1, <2>3
<1>3. ASSUME NEW c \in Commands, LoadHistory(c)
      PROVE  Abstract!Next
  <2> DEFINE w == [command[c] EXCEPT !.pc = "loaded", !.at = clock + 1,
                     !.history = history, !.before = finished]
  <2>0. command[c] # Idle /\ command[c].pc = "loading"
    BY <1>3, IdleFacts DEF LoadHistory
  <2>1. /\ command' = [command EXCEPT ![c] = w] /\ rows' = rows
        /\ clock + 1 \in 0 .. MaxStamps
    BY <1>3, <1>t, MaxStampsAssumption DEF LoadHistory, tables
  <2>2. /\ w.pc = "loaded" /\ w.at = clock + 1 /\ w.project \in Projects
        /\ w.kind = command[c].kind
    BY <1>u, <2>0, Acting DEF Work
  <2> HIDE DEF w
  <2>3. request' = [request EXCEPT ![c] = [on |-> On(w), leaves |-> Leaves(w),
                                           stage |-> "asked"]]
    <3>1. Pending(w) = [on |-> On(w), leaves |-> Leaves(w), stage |-> "asked"]
      BY <2>2 DEF Pending
    <3> QED
      BY <1>r, <2>1, <3>1
  <2>4. request[c] = Abstract!NoRequest
    BY <2>0, PendingOf
  <2>5. /\ Leaves(w) \in 0 .. MaxStamps
        /\ On(w) \in SUBSET Projects
        /\ (On(w) = Projects /\ Leaves(w) = 0) \/ \E p \in Projects : On(w) = {p}
    BY <2>1, <2>2, MaxStampsAssumption DEF Leaves, On
  <2>6. Abstract!Issue(c, On(w), Leaves(w))
    BY <1>t, <2>1, <2>3, <2>4, <2>5 DEF Abstract!Issue
  <2> QED
    BY <2>5, <2>6 DEF Abstract!Next
<1>e. ASSUME NEW c \in Commands, NEW w,
             command[c] # Idle, command[c].pc \in {"loaded", "written"},
             command' = [command EXCEPT ![c] = w],
             w.pc \in {"rowless", "stored"}, On(w) = On(command[c]),
             Leaves(w) = Leaves(command[c]),
             rows' = [p \in Projects |-> IF p \in On(command[c])
                        THEN Leaves(command[c]) ELSE rows[p]]
      PROVE  Abstract!Next
  <2> DEFINE u == command[c]
  <2>1. /\ request[c] = [on |-> On(u), leaves |-> Leaves(u), stage |-> "asked"]
        /\ Pending(w) = [on |-> On(u), leaves |-> Leaves(u), stage |-> "effective"]
    BY <1>e DEF Pending
  <2>2. request[c].stage = "asked"
    BY <2>1
  <2>3. request' = [request EXCEPT ![c].stage = "effective"]
    <3>1. Pending(w) = [request[c] EXCEPT !.stage = "effective"]
      BY <2>1
    <3>2. request' = [request EXCEPT ![c] = Pending(w)]
      BY <1>e, <1>r
    <3> HIDE DEF request
    <3> QED
      BY <3>1, <3>2
  <2>4. verified' = [p \in Projects |-> IF p \in request[c].on
                       THEN request[c].leaves ELSE verified[p]]
    BY <1>e, <1>t, <2>1
  <2>5. Abstract!TakeEffect(c)
    BY <2>2, <2>3, <2>4 DEF Abstract!TakeEffect
  <2> QED
    BY <2>5 DEF Abstract!Next
<1>4. ASSUME NEW c \in Commands, Write(c)
      PROVE  UNCHANGED <<verified, request>> \/ Abstract!Next
  <2> DEFINE u == command[c]
             w == [u EXCEPT !.pc = IF u.kind = "save" THEN "stored" ELSE "written"]
  <2>0. u # Idle /\ u.pc = "loaded"
    BY <1>4, IdleFacts DEF Write
  <2>1. /\ u \in Work /\ u.current = current /\ u.project \in Projects
    BY <1>u, <2>0, Acting DEF OnTrack, Knows
  <2>2. /\ command' = [command EXCEPT ![c] = w] /\ rows' = Upserted(NextCurrent(u))
    BY <1>4 DEF Write
  <2>3. /\ w.kind = u.kind /\ w.project = u.project /\ w.at = u.at
        /\ w.pc = IF u.kind = "save" THEN "stored" ELSE "written"
    BY <2>1 DEF Work
  <2>4. On(w) = On(u) /\ Leaves(w) = Leaves(u)
    BY <2>3 DEF On, Leaves
  <2> HIDE DEF w
  <2>5. CASE u.kind = "save"
    <3>1. NextCurrent(u).project = u.project /\ NextCurrent(u).at = u.at
      BY <2>5 DEF NextCurrent, Own
    <3>2. rows' = [p \in Projects |-> IF p \in On(u) THEN Leaves(u) ELSE rows[p]]
      BY <2>2, <2>5, <3>1 DEF Upserted, On, Leaves
    <3> QED
      BY <1>e, <2>0, <2>2, <2>3, <2>4, <2>5, <3>2
  <2>6. CASE u.kind # "save"
    <3>1. rows' = rows
      BY <1>t, <2>1, <2>2, <2>6, NoneAssumption
      DEF Upserted, NextCurrent, Null, StoreIInv, Agree
    <3>2. Pending(w) = Pending(u)
      BY <2>0, <2>3, <2>4, <2>6 DEF Pending
    <3>3. request' = request
      BY <1>r, <2>2, <3>2
    <3> QED
      BY <1>t, <3>1, <3>3
  <2> QED
    BY <2>5, <2>6
<1>5. ASSUME NEW c \in Commands, DeleteRows(c)
      PROVE  Abstract!Next
  <2> DEFINE u == command[c]
             w == [u EXCEPT !.pc = IF u.kind = "discard" THEN "rowless" ELSE "stored"]
  <2>0. u # Idle /\ u.pc = "written"
    BY <1>5, IdleFacts DEF DeleteRows
  <2>1. u \in Work /\ u.kind # "save"
    BY <1>u, <2>0 DEF OnTrack, Reached
  <2>2. /\ command' = [command EXCEPT ![c] = w]
        /\ rows' = [p \in Projects |-> IF p \in On(u) THEN 0 ELSE rows[p]]
    BY <1>5 DEF DeleteRows
  <2>3. /\ w.kind = u.kind /\ w.project = u.project /\ w.at = u.at
        /\ w.pc \in {"rowless", "stored"}
    BY <2>1 DEF Work
  <2>4. On(w) = On(u) /\ Leaves(w) = Leaves(u) /\ Leaves(u) = 0
    BY <2>1, <2>3 DEF On, Leaves
  <2> HIDE DEF w
  <2> QED
    BY <1>e, <2>0, <2>2, <2>3, <2>4
<1>6. ASSUME NEW c \in Commands, DeleteOperations(c)
      PROVE  UNCHANGED <<verified, request>>
  <2> DEFINE u == command[c]
             w == [u EXCEPT !.pc = "stored"]
  <2>0. u # Idle /\ u.pc = "rowless" /\ command' = [command EXCEPT ![c] = w]
        /\ rows' = rows
    BY <1>6, IdleFacts DEF DeleteOperations
  <2>1. /\ w.kind = u.kind /\ w.project = u.project /\ w.at = u.at
        /\ w.pc = "stored"
    BY <1>u, <2>0 DEF Work
  <2> HIDE DEF w
  <2>2. Pending(w) = Pending(u)
    BY <2>0, <2>1 DEF Pending, On, Leaves
  <2>3. request' = request
    BY <1>r, <2>0, <2>2
  <2> QED
    BY <1>t, <2>0, <2>3
<1>7. ASSUME NEW c \in Commands, Return(c)
      PROVE  Abstract!Next
  <2>1. /\ command[c].pc = "stored" /\ rows' = rows
        /\ command' = [command EXCEPT ![c] = Idle]
    BY <1>7 DEF Return, tables
  <2>2. request[c].stage = "effective"
    BY <2>1 DEF Pending
  <2>3. request' = [request EXCEPT ![c] = Abstract!NoRequest]
    BY <1>r, <2>1, PendingIdle
  <2>4. Abstract!Answer(c)
    BY <1>t, <2>1, <2>2, <2>3 DEF Abstract!Answer
  <2> QED
    BY <2>4 DEF Abstract!Next
<1>8. ASSUME NEW c \in Commands, Abort(c)
      PROVE  Abstract!Next
  <2>1. rows' = rows /\ command' = [command EXCEPT ![c] = Idle]
    BY <1>8 DEF Abort, tables
  <2>2. request' = [request EXCEPT ![c] = Abstract!NoRequest]
    BY <1>r, <2>1, PendingIdle
  <2>3. Abstract!Fail(c)
    BY <1>t, <2>1, <2>2 DEF Abstract!Fail
  <2> QED
    BY <2>3 DEF Abstract!Next
<1> QED
  BY <1>1, <1>2, <1>3, <1>4, <1>5, <1>6, <1>7, <1>8 DEF StoreNext

(* A store used by one command at a time is the store of VerifiedStates:   *)
(* the transactions, deletes and the rewritten single row of a command     *)
(* amount to one change of the snapshots it is on, or to none.             *)
THEOREM AtomicOneAtATime == ~Concurrent => (StoreSpec => Atomic)
<1>1. ASSUME ~Concurrent
      PROVE  StoreSpec => Atomic
  BY <1>1, StoreInvariance, InitAbstract, StepAbstract, PTL DEF Atomic, StoreSpec
<1> QED
  BY <1>1
=============================================================================
