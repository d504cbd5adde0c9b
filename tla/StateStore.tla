----------------------------- MODULE StateStore -----------------------------
(***************************************************************************)
(* The store of verified snapshots (src/state/sqlite-state-store.ts), as   *)
(* the commands of the CLI use it, each a process of its own on the same   *)
(* SQLite file.  A snapshot is known by the stamp of the command that saved*)
(* it.  The tables: state_snapshots has a single row, the snapshot saved   *)
(* last; project_state_snapshots a row per project; state_operations the   *)
(* history.                                                                *)
(*                                                                         *)
(* A command loads the single row and the history in two statements,       *)
(* computes what is to be stored, and writes it in one transaction, which  *)
(* stores the single row it loaded again unless it is of the command's own *)
(* project.  A clear or a discard then deletes the project's row over a    *)
(* second connection.  Each step may be the last: a write finds the file   *)
(* busy, or the process is killed.                                         *)
(***************************************************************************)
EXTENDS Naturals, FiniteSets

CONSTANTS Commands,   \* processes
          Projects,
          None,       \* the project of no snapshot
          MaxStamps,  \* bound: commands that get past loading
          Concurrent  \* whether commands may overlap

ASSUME NoneAssumption == None \notin Projects
ASSUME ConcurrentAssumption == Concurrent \in BOOLEAN
ASSUME MaxStampsAssumption == MaxStamps \in Nat

VARIABLES current,  \* state_snapshots: the single row
          rows,     \* project_state_snapshots: the stamp of each row, 0 for none
          history,  \* state_operations
          command,  \* what each process is doing
          clock,    \* stamps handed out
          allowed,  \* observer: the commands each project's snapshot may be due to
          finished, \* observer: stamps of commands that have returned or died
          logged    \* observer: operations that returned, less those discarded

tables == <<current, rows, history>>
observers == <<allowed, finished, logged>>
storeVars == <<current, rows, history, command, clock, allowed, finished, logged>>

Kinds == {"save", "clear", "discard", "clear-all"}
Null == [project |-> None, at |-> 0]
Idle == [pc |-> "idle", kind |-> "save", project |-> None, at |-> 0,
         current |-> Null, history |-> {}, before |-> {}]

StoreInit == /\ current = Null
        /\ rows = [p \in Projects |-> 0]
        /\ history = {}
        /\ command = [c \in Commands |-> Idle]
        /\ clock = 0
        /\ allowed = [p \in Projects |-> {[at |-> 0, leaves |-> 0]}]
        /\ finished = {0}
        /\ logged = {}

-----------------------------------------------------------------------------
(* What a command makes of what it loaded.                                 *)

On(w) == IF w.kind = "clear-all" THEN Projects ELSE {w.project}
Leaves(w) == IF w.kind = "save" THEN w.at ELSE 0
Own(w) == [project |-> w.project, at |-> w.at]

\* Mutated: a clear takes the project's row only
NextCurrentStays(w) == IF w.kind = "save" THEN Own(w) ELSE w.current

\* nextState.current; a clear of all finds its project among all
NextCurrent(w) == IF w.kind = "save" THEN Own(w)
                  ELSE IF w.current.project \in On(w) THEN Null ELSE w.current

\* Mutated: history: [operation]
NextHistoryAlone(w) == IF w.kind = "discard" THEN {} ELSE {Own(w)}

\* nextState.history
NextHistory(w) == IF w.kind = "discard"
                     THEN {h \in w.history : h.project # w.project}
                     ELSE w.history \cup {Own(w)}

\* Mutated: ON CONFLICT(project_name) DO NOTHING
UpsertedOnce(s) == [p \in Projects |->
                      IF p = s.project /\ rows[p] = 0 THEN s.at ELSE rows[p]]

\* upsertProjectSnapshots: only the row of the current snapshot's project
Upserted(s) == [p \in Projects |-> IF p = s.project THEN s.at ELSE rows[p]]

-----------------------------------------------------------------------------
(* One command.                                                            *)

\* loadState's first statement.  A destroy has found a snapshot of its project
\* before, a prompt and many Docker calls ago: nothing is known of it now.
LoadCurrent(c, kind, p) ==
    /\ command[c] = Idle
    /\ clock < MaxStamps
    /\ Concurrent \/ \A d \in Commands : command[d] = Idle
    /\ command' = [command EXCEPT ![c] = [Idle EXCEPT !.pc = "loading",
                     !.kind = kind, !.project = p, !.current = current]]
    /\ UNCHANGED <<tables, clock, observers>>

\* loadState's second statement; then the command takes its time stamp.
LoadHistory(c) ==
    /\ command[c].pc = "loading"
    /\ clock < MaxStamps
    /\ clock' = clock + 1
    /\ LET w == [command[c] EXCEPT !.pc = "loaded", !.at = clock + 1,
                   !.history = history, !.before = finished]
       IN /\ command' = [command EXCEPT ![c] = w]
          /\ allowed' = [p \in Projects |-> allowed[p] \cup
               IF p \in On(w) THEN {[at |-> w.at, leaves |-> Leaves(w)]} ELSE {}]
          /\ logged' = IF w.kind = "discard"
                          THEN {h \in logged : h.project # w.project} ELSE logged
    /\ UNCHANGED <<tables, finished>>

\* saveState: one transaction over the three tables.
Write(c) ==
    /\ command[c].pc = "loaded"
    /\ current' = NextCurrent(command[c])
    /\ rows' = Upserted(NextCurrent(command[c]))
    /\ history' = NextHistory(command[c])
    /\ command' = [command EXCEPT ![c].pc =
                     IF command[c].kind = "save" THEN "stored" ELSE "written"]
    /\ UNCHANGED <<clock, observers>>

\* deleteProjectSnapshot, deleteAllProjectSnapshots
DeleteRows(c) ==
    /\ command[c].pc = "written"
    /\ rows' = [p \in Projects |-> IF p \in On(command[c]) THEN 0 ELSE rows[p]]
    /\ command' = [command EXCEPT ![c].pc =
                     IF command[c].kind = "discard" THEN "rowless" ELSE "stored"]
    /\ UNCHANGED <<current, history, clock, observers>>

\* deleteProjectOperations
DeleteOperations(c) ==
    /\ command[c].pc = "rowless"
    /\ history' = {h \in history : h.project # command[c].project}
    /\ command' = [command EXCEPT ![c].pc = "stored"]
    /\ UNCHANGED <<current, rows, clock, observers>>

\* The command returns: what had finished before it was stamped is superseded.
Return(c) ==
    LET w == command[c]
    IN /\ w.pc = "stored"
       /\ command' = [command EXCEPT ![c] = Idle]
       /\ allowed' = [p \in Projects |-> IF p \in On(w)
                        THEN {a \in allowed[p] : a.at \notin w.before}
                        ELSE allowed[p]]
       /\ finished' = finished \cup {w.at}
       /\ logged' = IF w.kind = "discard" THEN logged ELSE logged \cup {Own(w)}
       /\ UNCHANGED <<tables, clock>>

\* A statement throws, or the process dies.
Abort(c) ==
    /\ command[c] # Idle
    /\ command' = [command EXCEPT ![c] = Idle]
    /\ finished' = finished \cup {command[c].at}
    /\ UNCHANGED <<tables, clock, allowed, logged>>

StoreNext == \E c \in Commands :
            \/ \E kind \in Kinds, p \in Projects : LoadCurrent(c, kind, p)
            \/ LoadHistory(c)
            \/ Write(c)
            \/ DeleteRows(c)
            \/ DeleteOperations(c)
            \/ Return(c)
            \/ Abort(c)

StoreSpec == StoreInit /\ [][StoreNext]_storeVars

-----------------------------------------------------------------------------
(* What the readers see, and what they may rely on.                        *)

\* loadProjectState: the project's row, or the single row if it has none
Loaded(p) == IF rows[p] # 0 THEN rows[p]
             ELSE IF current.project = p THEN current.at ELSE 0

\* listProjectStates: the rows
ListedState(p) == rows[p]

Stamps == 0 .. clock
Operations == [project : Projects, at : Stamps \ {0}]
Snapshots == Operations \cup {Null}
Work == [pc : {"idle", "loading", "loaded", "written", "rowless", "stored"},
         kind : Kinds, project : Projects \cup {None}, at : Stamps,
         current : Snapshots, history : SUBSET Operations,
         before : SUBSET Stamps]

(* Type invariant; a single row without a snapshot is of no project, and   *)
(* every stamp in a table has been handed out to a command.                *)
StoreTypeOK ==
    /\ clock \in 0 .. MaxStamps
    /\ current \in Snapshots
    /\ rows \in [Projects -> Stamps]
    /\ history \subseteq Operations
    /\ command \in [Commands -> Work]
    /\ allowed \in [Projects -> SUBSET [at : Stamps, leaves : Stamps]]
    /\ finished \subseteq Stamps
    /\ logged \subseteq Operations

(* Whatever status, adjust and destroy read of a project, by name or from  *)
(* the list, is what a command left that may be the project's last: one    *)
(* that has returned and that no later one superseded, or one that is      *)
(* under way or died.  A project that was destroyed stays destroyed, a     *)
(* snapshot that was saved stays verified, and the two reads agree         *)
(* although one of them falls back to the single row.                      *)
Kept == \A p \in Projects :
            \E a \in allowed[p] : a.leaves = Loaded(p) /\ a.leaves = ListedState(p)

(* The history holds every operation that returned, until its project is   *)
(* discarded, although each command replaces the whole table by what it    *)
(* loaded.                                                                 *)
Logged == logged \subseteq history

(* Each command takes effect on the snapshots of its projects at one       *)
(* instant, or not at all if it dies: the three tables and two             *)
(* transactions of a clear implement the store of VerifiedStates.          *)
Pending(w) == IF w.pc \in {"idle", "loading"}
                 THEN [on |-> {}, leaves |-> 0, stage |-> "none"]
                 ELSE [on |-> On(w), leaves |-> Leaves(w),
                       stage |-> IF w.pc \in {"rowless", "stored"}
                                    THEN "effective" ELSE "asked"]

Abstract == INSTANCE VerifiedStates WITH
                Stamps <- 0 .. MaxStamps,
                verified <- [p \in Projects |-> Loaded(p)],
                request <- [c \in Commands |-> Pending(command[c])]

Atomic == Abstract!Init /\ [][Abstract!Next]_(Abstract!vars)
=============================================================================
