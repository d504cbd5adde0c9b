--------------------------- MODULE VerifiedStates ---------------------------
(***************************************************************************)
(* What the state store promises the commands of the CLI, with no word of  *)
(* SQLite: each project has at most one verified snapshot, and a command   *)
(* that saves or clears changes it in a single instant between being       *)
(* stamped and answering.  One that dies midway has changed it or has not. *)
(***************************************************************************)
EXTENDS Naturals

CONSTANTS Commands, Projects,
          Stamps    \* 0 stands for no snapshot

VARIABLES verified,  \* the stamp of each project's snapshot, 0 for none
          request    \* what each command has asked for and not heard back

vars == <<verified, request>>

NoRequest == [on |-> {}, leaves |-> 0, stage |-> "none"]

Init == /\ verified = [p \in Projects |-> 0]
        /\ request = [c \in Commands |-> NoRequest]

\* A request names the projects it is on and what it leaves there: a save one
\* project and a snapshot, a clear one or all of them and nothing.
Issue(c, on, leaves) ==
    /\ request[c] = NoRequest
    /\ \/ on = Projects /\ leaves = 0
       \/ \E p \in Projects : on = {p}
    /\ request' = [request EXCEPT ![c] =
                     [on |-> on, leaves |-> leaves, stage |-> "asked"]]
    /\ UNCHANGED verified

TakeEffect(c) ==
    /\ request[c].stage = "asked"
    /\ verified' = [p \in Projects |-> IF p \in request[c].on
                                          THEN request[c].leaves
                                          ELSE verified[p]]
    /\ request' = [request EXCEPT ![c].stage = "effective"]

Answer(c) ==
    /\ request[c].stage = "effective"
    /\ request' = [request EXCEPT ![c] = NoRequest]
    /\ UNCHANGED verified

Fail(c) ==
    /\ request' = [request EXCEPT ![c] = NoRequest]
    /\ UNCHANGED verified

Next == \E c \in Commands :
            \/ \E on \in SUBSET Projects, leaves \in Stamps : Issue(c, on, leaves)
            \/ TakeEffect(c)
            \/ Answer(c)
            \/ Fail(c)

Spec == Init /\ [][Next]_vars
=============================================================================
