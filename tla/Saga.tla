-------------------------------- MODULE Saga --------------------------------
(***************************************************************************)
(* A compensating transaction over a set R of resources, seen from outside. *)
(* It commits with every resource available, or it gives up, releases what *)
(* it holds, and reports whatever it could not release.  Resources may     *)
(* become available or be lost on their own; a resource may still come to  *)
(* be held after the transaction gave up, but then it has been reported.   *)
(***************************************************************************)
CONSTANT R

VARIABLES
  phase,     \* where the transaction stands
  held,      \* resources it created that still exist
  avail,     \* resources that are usable
  reported   \* resources it admits it may not have released

vars == <<phase, held, avail, reported>>

TypeOK ==
  /\ phase \in {"ready", "working", "undoing", "committed", "aborted"}
  /\ held \subseteq R
  /\ avail \subseteq R
  /\ reported \subseteq R

Init ==
  /\ phase = "ready"
  /\ held = {}
  /\ avail \subseteq R
  /\ reported = {}

(* Availability is up to the resources; it only matters when committing.   *)
Drift == avail' \subseteq R

Start ==
  /\ phase = "ready" /\ phase' = "working"
  /\ UNCHANGED <<held, avail, reported>>

(* At most one resource at a time is gained or lost.                       *)
Shift == held' = held \/ \E r \in R : held' \in {held \cup {r}, held \ {r}}

(* Work and compensation before the decision.                              *)
Move ==
  /\ phase \in {"working", "undoing"}
  /\ UNCHANGED <<phase, reported>>
  /\ Shift
  /\ Drift

(* The step that gives up may itself have gained a resource.               *)
GiveUp ==
  /\ phase = "working" /\ phase' = "undoing"
  /\ Shift
  /\ Drift
  /\ UNCHANGED reported

(* A release that fails is reported, whether it took effect or not.        *)
Report ==
  /\ phase = "undoing" /\ UNCHANGED phase
  /\ \E r \in R : /\ reported' = reported \cup {r}
                   /\ held' \in {held, held \ {r}}
  /\ Drift

Commit ==
  /\ phase = "working" /\ phase' = "committed"
  /\ avail = R
  /\ UNCHANGED <<held, avail, reported>>

Abort ==
  /\ phase = "undoing" /\ phase' = "aborted"
  /\ held \subseteq reported
  /\ UNCHANGED <<held, avail, reported>>

(* Outside the transaction's own steps.                                    *)
Settle ==
  /\ phase \in {"ready", "committed", "aborted"}
  /\ UNCHANGED <<phase, reported>>
  /\ \/ held' \subseteq held
     \/ phase = "aborted" /\ \E r \in reported : held' = held \cup {r}
  /\ Drift

Next == Start \/ Move \/ GiveUp \/ Report \/ Commit \/ Abort \/ Settle

Spec == Init /\ [][Next]_vars
=============================================================================
