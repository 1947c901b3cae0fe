-------------------------- MODULE ExclusiveExecution --------------------------
(***************************************************************************)
(* What repository admission promises to everything above it: the runs of   *)
(* one repository execute one at a time, and a run executes at most once.   *)
(* "Executing" covers the coordinator's worker AND the role sessions it     *)
(* started on remote Runtimes, which may outlive the worker.                *)
(***************************************************************************)
CONSTANTS Run,       \* the submissions for one repository
          Nobody     \* "no run is executing"

VARIABLES executing, \* the run that executes, or Nobody
          begun      \* every run that ever executed

vars == <<executing, begun>>

TypeOK == /\ executing \in Run \cup {Nobody}
          /\ begun \subseteq Run

Init == executing = Nobody /\ begun = {}

Begin(r) == /\ executing = Nobody
            /\ r \notin begun
            /\ executing' = r
            /\ begun' = begun \cup {r}

End(r) == /\ executing = r
          /\ executing' = Nobody
          /\ UNCHANGED begun

Next == \E r \in Run : Begin(r) \/ End(r)

Spec == Init /\ [][Next]_vars
===============================================================================
