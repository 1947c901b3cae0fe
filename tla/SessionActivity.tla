--------------------------- MODULE SessionActivity ---------------------------
(***************************************************************************)
(* The coordinator's session and its builds                                 *)
(* (orchestrator-agent/session_activity.py, main.py).  AgentCore Runtime     *)
(* reclaims a session that looks idle; a build goes on after the response    *)
(* that started it, so the tracker registers an asynchronous task while the  *)
(* engine counts builds, for at most a bounded window.  A watcher thread and *)
(* every closing response observe the count, one at a time under a lock; the *)
(* engine's count changes between an observer's reading and its acting.      *)
(***************************************************************************)
EXTENDS Integers

CONSTANTS MaxWork,    \* bound: builds the engine runs at once
          Cap,        \* max_s, in ticks of the Runtime's idle clock
          IdleLimit   \* ticks after which the Runtime reclaims an idle session

ASSUME ActivityAssumption == MaxWork \in Nat /\ Cap \in Nat \ {0} /\ IdleLimit \in Nat \ {0}

NoWindow == -1
NotReading == -1
Failures == 1         \* what observe assumes when the count cannot be read

VARIABLES work,       \* ENGINE.active_count()
          request,    \* "open", "closing" (main's finally clause), or "none"
          task,       \* _task_id is set: the SDK reports HealthyBusy
          window,     \* _started_at: ticks since activity was first seen
          exhausted,  \* _exhausted
          seen,       \* the count an observer read and has not acted on
          observed,   \* an observer acted since the last tick
          idle,       \* ticks the Runtime has seen the session idle
          busy,       \* ticks the session was kept busy in one activity
          alive       \* the Runtime has not reclaimed the session

activityVars == <<work, request, task, window, exhausted, seen, observed, idle, busy, alive>>
tracker == <<task, window, exhausted>>

ActivityTypeOK ==
    /\ work \in 0 .. MaxWork /\ seen \in {NotReading} \cup 0 .. MaxWork + 1
    /\ request \in {"none", "open", "closing"}
    /\ {task, exhausted, observed, alive} \subseteq BOOLEAN
    /\ window \in {NoWindow} \cup 0 .. Cap
    /\ idle \in 0 .. IdleLimit
    /\ task => window # NoWindow /\ ~exhausted

ActivityInit ==
    /\ work = 0 /\ request = "none"
    /\ task = FALSE /\ window = NoWindow /\ exhausted = FALSE
    /\ seen = NotReading /\ observed = TRUE /\ idle = 0 /\ busy = 0 /\ alive = TRUE

(* main.invoke: ensure_started, then the tools may submit a build.          *)
OpenRequest ==
    /\ alive /\ request = "none"
    /\ request' = "open" /\ idle' = 0
    /\ UNCHANGED <<work, tracker, seen, observed, busy, alive>>

Dispatch ==
    /\ alive /\ request = "open" /\ work < MaxWork
    /\ work' = work + 1
    /\ UNCHANGED <<request, tracker, seen, observed, idle, busy, alive>>

BuildDone ==
    /\ alive /\ work > 0
    /\ work' = work - 1
    /\ UNCHANGED <<request, tracker, seen, observed, idle, busy, alive>>

(* The response closes after its finally clause has observed.               *)
CloseRequest ==
    /\ alive
    /\ \/ /\ request = "open" /\ seen = NotReading
          /\ request' = "closing" /\ observed' = FALSE
       \/ /\ request = "closing" /\ observed
          /\ request' = "none" /\ UNCHANGED observed
    /\ UNCHANGED <<work, tracker, seen, idle, busy, alive>>

\* Slip: a count that cannot be read is no activity.
ReadOptimistic ==
    /\ alive /\ seen = NotReading
    /\ seen' \in {work, 0}
    /\ UNCHANGED <<work, request, tracker, observed, idle, busy, alive>>

(* observe takes its lock and reads the count, or fails to.                 *)
Read ==
    /\ alive /\ seen = NotReading
    /\ seen' \in {work, Failures}
    /\ UNCHANGED <<work, request, tracker, observed, idle, busy, alive>>

\* Slip: the window starts again once it was used up.
ActRestarting ==
    /\ alive /\ seen # NotReading
    /\ IF seen = 0 \/ window = Cap
       THEN task' = FALSE /\ window' = NoWindow /\ exhausted' = FALSE
       ELSE task' = TRUE /\ window' = (IF window = NoWindow THEN 0 ELSE window)
            /\ UNCHANGED exhausted
    /\ busy' = IF seen = 0 THEN 0 ELSE busy
    /\ seen' = NotReading /\ observed' = TRUE
    /\ UNCHANGED <<work, request, idle, alive>>

(* ... and synchronizes the registration with it.                           *)
Act ==
    LET started == IF window = NoWindow THEN 0 ELSE window IN
    /\ alive /\ seen # NotReading
    /\ \/ /\ seen = 0
          /\ task' = FALSE /\ window' = NoWindow /\ exhausted' = FALSE /\ busy' = 0
       \/ /\ seen > 0 /\ started = Cap
          /\ task' = FALSE /\ window' = window /\ exhausted' = TRUE /\ busy' = busy
       \/ /\ seen > 0 /\ started < Cap
          /\ window' = started /\ task' = (task \/ ~exhausted)
          /\ UNCHANGED <<exhausted, busy>>
    /\ seen' = NotReading /\ observed' = TRUE
    /\ UNCHANGED <<work, request, idle, alive>>

(* Time: the watcher's interval is far shorter than the idle limit, so it    *)
(* has acted at least once since the last tick.                             *)
ActivityTick ==
    /\ alive /\ observed /\ seen = NotReading
    /\ window' = IF window \in 0 .. Cap - 1 THEN window + 1 ELSE window
    /\ idle' = IF task \/ request # "none" THEN 0 ELSE idle + 1
    /\ busy' = IF task THEN busy + 1 ELSE busy
    /\ idle' <= IdleLimit
    /\ observed' = FALSE
    /\ UNCHANGED <<work, request, task, exhausted, seen, alive>>

(* The Runtime reclaims the session, with whatever still runs in it.        *)
Reclaim ==
    /\ alive /\ idle = IdleLimit /\ ~task /\ request = "none"
    /\ alive' = FALSE
    /\ UNCHANGED <<work, request, tracker, seen, observed, idle, busy>>

ActivityNext ==
    \/ OpenRequest \/ Dispatch \/ BuildDone \/ CloseRequest \/ Read \/ Act
    \/ ActivityTick \/ Reclaim

ActivitySpec == ActivityInit /\ [][ActivityNext]_activityVars

----------------------------------------------------------------------------
(* Properties.                                                              *)

(* A session is reclaimed under a running build only when its activity       *)
(* window was used up.                                                      *)
BuildIsProtected == ~alive /\ work > 0 => window = Cap

(* A build that hangs, or a count that cannot be read, keeps a session busy  *)
(* for the window and no longer, whatever requests arrive meanwhile.        *)
BusyIsBounded == busy <= Cap

(* The session is busy for its builds, and for no longer than its window.     *)
BusyForBuilds == BuildIsProtected /\ BusyIsBounded
==============================================================================
