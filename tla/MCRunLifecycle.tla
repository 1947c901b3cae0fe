---------------------------- MODULE MCRunLifecycle ----------------------------
(* Runs meet only where admission counts them.  Either one run is checked with *)
(* its heartbeat and the sweep, while the other is never submitted, or both    *)
(* are, with heartbeats that have stopped and a store that takes no save: the  *)
(* limit is about phases, which neither the threads nor the records touch.     *)
EXTENDS RunLifecycle, TLC
CONSTANTS r1, r2
VARIABLE alone

NoHeartbeat == [stage |-> "new", status |-> "queued", permanent |-> FALSE, unsettled |-> FALSE,
                beat |-> "off", copy |-> "none", ledger |-> {}, swept |-> FALSE,
                posted |-> "nothing", claim |-> "none", rounds |-> 0]
LifecycleInit ==
    \/ alone = TRUE /\ Init
    \/ /\ alone = FALSE /\ console = FALSE
       /\ run = [r \in Run |-> NoHeartbeat] /\ record = [r \in Run |-> "absent"]

LifecycleNext ==
    /\ UNCHANGED alone
    /\ IF alone
       THEN \/ Submit(r1) \/ Worker(r1) \/ Heartbeat(r1) \/ Reconcile(r1)
            \/ ReconcileRecords(r1) \/ Crash
       ELSE UNCHANGED record /\ \E r \in Run : Submit(r) \/ Worker(r)
LifecycleSpec == /\ LifecycleInit /\ [][LifecycleNext]_<<vars, alone>>
                 /\ \A r \in Run : WF_vars(Worker(r)) /\ WF_vars(Heartbeat(r))
=============================================================================
