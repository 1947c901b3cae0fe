---------------------------- MODULE RunLifecycle ----------------------------
(***************************************************************************)
(* A run inside one coordinator process: Engine.submit, the worker thread   *)
(* (_drive_bound and its phases), the heartbeat thread, the reconciler the   *)
(* console starts, and the durable record a later session reads             *)
(* (orchestrator/engine.py, run_store.py).                                  *)
(*                                                                         *)
(* What the phases do to pull requests is PullRequestLoop, how the claim is  *)
(* stored is RepositoryAdmission; here a phase is its effect on run.status.  *)
(* Each call of _execute in finalization (a refresh, a deferred check, a      *)
(* repair) is one more round with a full phase budget of its own.           *)
(***************************************************************************)
EXTENDS Integers, FiniteSets

CONSTANTS Run,            \* the runs submitted to this coordinator
          MaxConcurrent,  \* Engine.max_concurrent
          MaxIterations,  \* the rounds STRANDED_AFTER_S leaves time for
          MaxRounds       \* bound: the calls of _execute one run makes

ASSUME LifecycleAssumption == /\ IsFiniteSet(Run)
                              /\ MaxConcurrent \in Nat \ {0}
                              /\ MaxIterations \in Nat \ {0}
                              /\ MaxRounds \in Nat \ {0}

VARIABLES console,  \* this process serves the console, which starts the sweep
          run,      \* per run, what the process holds about it
          record    \* per run, the durable snapshot's status

vars == <<console, run, record>>

Active == {"queued", "running"}
Terminal == {"passed", "failed", "needs_human"}
Status == Active \cup Terminal

Stage == {"new", "submitted", "admission", "hydrating", "executing", "finalizing", "ending",
          "persisting", "reporting", "releasing", "done", "refused", "crashed"}

RunState == [
    stage: Stage,
    status: Status,
    permanent: BOOLEAN,                              \* _is_permanent(fail_reason)
    unsettled: BOOLEAN,                              \* _unsettled_runtime_sessions
    beat: {"unstarted", "asleep", "due", "off"},     \* the heartbeat thread
    copy: Status \cup {"none"},                      \* the snapshot it is about to save
    ledger: SUBSET Status,                           \* what the ledger's rows call it
    swept: BOOLEAN,                                  \* the sweep is about to append a row
    posted: Status \cup {"nothing"},                 \* the result reported on the origin issue
    claim: {"none", "held", "released"},
    rounds: 0..MaxRounds]

TypeOK == /\ console \in BOOLEAN
          /\ run \in [Run -> RunState]
          /\ record \in [Run -> Status \cup {"absent"}]

Init == /\ console \in BOOLEAN
        /\ run = [r \in Run |-> [stage |-> "new", status |-> "queued", permanent |-> FALSE,
                                 unsettled |-> FALSE, beat |-> "unstarted", copy |-> "none",
                                 ledger |-> {}, swept |-> FALSE, posted |-> "nothing",
                                 claim |-> "none", rounds |-> 0]]
        /\ record = [r \in Run |-> "absent"]

-----------------------------------------------------------------------------
(* Submission. *)

Unborn == {"new", "refused"}   \* not among this process's runs

At(r, stage) == run[r].stage = stage
Set(r, w) == run' = [run EXCEPT ![r] = w]

(* run_store.save never raises: the snapshot is written, or it is not.       *)
Save(r, status) == record' \in {record, [record EXCEPT ![r] = status]}

(* The claim is acquired (when a repository is configured), the run is        *)
(* registered and its first record saved.                                   *)
Submit(r) ==
    /\ At(r, "new")
    /\ \E c \in {"none", "held"} :
          Set(r, [run[r] EXCEPT !.stage = "submitted", !.claim = c])
    /\ Save(r, "queued")
    /\ UNCHANGED console

StartWorker(r) ==
    /\ At(r, "submitted")
    /\ Set(r, [run[r] EXCEPT !.stage = "admission"])
    /\ UNCHANGED <<console, record>>

(* No worker started: the record says so, and admission is given back (a      *)
(* release that fails leaves the claim held).                                *)
StartFails(r) ==
    /\ At(r, "submitted")
    /\ \E c \in {run[r].claim, IF run[r].claim = "held" THEN "released" ELSE "none"} :
          Set(r, [run[r] EXCEPT !.stage = "refused", !.status = "failed", !.claim = c])
    /\ Save(r, "failed")
    /\ UNCHANGED console

-----------------------------------------------------------------------------
(* The worker thread. *)

Registered == {r \in Run : run[r].stage \notin Unborn \cup {"crashed"}}

(* Slip: only runs past hydration are counted.                               *)
RunningCount(r) == Cardinality({q \in Registered \ {r} : run[q].status = "running"})

ActiveCount(r) == Cardinality({q \in Registered \ {r} : run[q].status \in Active})

Ends(r, status) == [run[r] EXCEPT !.stage = "ending", !.status = status]

(* Routing may reject the request; then the live runs are counted.           *)
Admission(r) ==
    /\ At(r, "admission")
    /\ \/ Set(r, [Ends(r, "failed") EXCEPT !.permanent = TRUE])
       \/ /\ ActiveCount(r) >= MaxConcurrent
          /\ Set(r, Ends(r, "failed"))
       \/ /\ ActiveCount(r) < MaxConcurrent
          /\ Set(r, [run[r] EXCEPT !.stage = "hydrating", !.status = "queued"])
    /\ UNCHANGED <<console, record>>

(* Hydration and pre-flight: a missing harness is permanent, the rest is not. *)
Hydrate(r) ==
    /\ At(r, "hydrating")
    /\ \/ Set(r, [run[r] EXCEPT !.status = "running", !.stage = "executing", !.rounds = 1])
       \/ \E p \in BOOLEAN : Set(r, [Ends(r, "failed") EXCEPT !.permanent = p])
    /\ UNCHANGED <<console, record>>

(* Slip: a later round's failure is published as the run's.                  *)
ExecuteFailsEagerly(r) ==
    /\ At(r, "executing")
    /\ \E s \in {"running", "failed"} :
          Set(r, [run[r] EXCEPT !.stage = "finalizing", !.status = s])
    /\ UNCHANGED <<console, record>>

(* A dispatched role may leave a remote session whose end nobody confirmed.  *)
Execute(r) ==
    /\ At(r, "executing")
    /\ \E u \in BOOLEAN :
          LET w == [run[r] EXCEPT !.unsettled = @ \/ u]
          IN \/ Set(r, [w EXCEPT !.stage = "finalizing"])
             \/ /\ run[r].rounds = 1
                /\ \E s \in {"failed", "needs_human"} :
                      Set(r, [w EXCEPT !.stage = "ending", !.status = s])
    /\ UNCHANGED <<console, record>>

(* _ledger: a row with the status of the moment is appended, or it is not: an *)
(* OSError is logged.                                                        *)
Rows(r, status) == {run[r].ledger, run[r].ledger \cup {status}}

(* Slip: an exception ends the run and leaves its status as it was.          *)
FinalizeStalls(r) ==
    /\ At(r, "finalizing")
    /\ \/ \E s \in {"passed", "needs_human"} : \E rows \in Rows(r, s) :
             Set(r, [Ends(r, s) EXCEPT !.ledger = rows])
       \/ Set(r, [run[r] EXCEPT !.stage = "persisting"])
    /\ UNCHANGED <<console, record>>

(* Finalization calls _execute again, which sets the status to "running", or  *)
(* settles: the verdict and its ledger row; or an exception ends the run.    *)
Finalize(r) ==
    /\ At(r, "finalizing")
    /\ \/ /\ run[r].rounds < MaxRounds
          /\ Set(r, [run[r] EXCEPT !.stage = "executing", !.status = "running",
                                   !.rounds = @ + 1])
       \/ \E s \in {"passed", "needs_human"} : \E rows \in Rows(r, s) :
             Set(r, [Ends(r, s) EXCEPT !.ledger = rows])
       \/ Set(r, Ends(r, "failed"))
    /\ UNCHANGED <<console, record>>

(* _drive_bound's finally: an unsettled session and a transient failure both  *)
(* become needs_human; then the verdict is persisted, reported and only then  *)
(* the claim given back.                                                     *)
Grade(r) ==
    /\ At(r, "ending")
    /\ LET graded == IF run[r].unsettled THEN "needs_human"
                     ELSE IF run[r].status = "failed" /\ ~run[r].permanent THEN "needs_human"
                     ELSE run[r].status
       IN Set(r, [run[r] EXCEPT !.stage = "persisting", !.status = graded])
    /\ UNCHANGED <<console, record>>

PersistVerdict(r) ==
    /\ At(r, "persisting")
    /\ Save(r, run[r].status)
    /\ Set(r, [run[r] EXCEPT !.stage = "reporting"])
    /\ UNCHANGED console

(* The exchange archives are deleted (a failure there persists again); a run   *)
(* started from an issue then reports there, once, and persists again.        *)
ReportOrigin(r) ==
    /\ At(r, "reporting")
    /\ \E result \in {"nothing", run[r].status} :
          Set(r, [run[r] EXCEPT !.stage = "releasing", !.posted = result])
    /\ Save(r, run[r].status)
    /\ UNCHANGED console

(* Slip: the claim goes back though a session is unsettled.                  *)
ReleaseRegardless(r) ==
    /\ At(r, "releasing")
    /\ Set(r, [run[r] EXCEPT !.stage = "done", !.claim = IF @ = "held" THEN "released" ELSE @])
    /\ UNCHANGED <<console, record>>

(* A retained or unreleasable claim is persisted once more.                  *)
ReleaseRepository(r) ==
    /\ At(r, "releasing")
    /\ \/ /\ run[r].claim = "held" => ~run[r].unsettled
          /\ Set(r, [run[r] EXCEPT !.stage = "done",
                                   !.claim = IF @ = "held" THEN "released" ELSE @])
          /\ UNCHANGED record
       \/ /\ run[r].claim = "held"
          /\ Set(r, [run[r] EXCEPT !.stage = "done"])
          /\ Save(r, run[r].status)
    /\ UNCHANGED console

-----------------------------------------------------------------------------
(* The heartbeat thread: it may start late, or not at all; it looks at the    *)
(* status, builds a snapshot, and saves it under the persist lock, which     *)
(* orders the writes and not the snapshots.                                  *)

HasWorker(r) == run[r].stage \notin Unborn \cup {"submitted", "crashed"}

HeartbeatStarts(r) ==
    /\ HasWorker(r) /\ run[r].beat = "unstarted"
    /\ \E b \in {"off", "asleep"} :
          /\ b = "asleep" => run[r].status \in Active
          /\ Set(r, [run[r] EXCEPT !.beat = b])
    /\ UNCHANGED <<console, record>>

HeartbeatWakes(r) ==
    /\ HasWorker(r) /\ run[r].beat = "asleep"
    /\ Set(r, [run[r] EXCEPT !.beat = IF run[r].status \in Active THEN "due" ELSE "off"])
    /\ UNCHANGED <<console, record>>

(* Slip: the heartbeat renews the stored snapshot instead of taking one.      *)
HeartbeatRereads(r) ==
    /\ HasWorker(r) /\ run[r].beat = "due" /\ run[r].copy = "none"
    /\ Set(r, [run[r] EXCEPT !.copy = record[r]])
    /\ UNCHANGED <<console, record>>

HeartbeatSnapshots(r) ==
    /\ HasWorker(r) /\ run[r].beat = "due" /\ run[r].copy = "none"
    /\ Set(r, [run[r] EXCEPT !.copy = run[r].status])
    /\ UNCHANGED <<console, record>>

HeartbeatSaves(r) ==
    /\ HasWorker(r) /\ run[r].beat = "due" /\ run[r].copy # "none"
    /\ Save(r, run[r].copy)
    /\ Set(r, [run[r] EXCEPT !.beat = IF run[r].status \in Active THEN "asleep" ELSE "off",
                             !.copy = "none"])
    /\ UNCHANGED console

-----------------------------------------------------------------------------
(* The console's sweep, and the end of the process. *)

(* The console's one sweep thread takes the runs in turn: it transitions a run *)
(* and then appends the row, which tells the status it reads by then.        *)
Sweeping == \E r \in Run : run[r].swept

(* Slip: the sweep transitions without the compare-and-swap guard.           *)
ReconcileUnguarded(r) ==
    /\ console /\ ~Sweeping
    /\ r \in Registered
    /\ run[r].rounds > MaxIterations
    /\ Set(r, [run[r] EXCEPT !.status = "needs_human", !.swept = TRUE])
    /\ UNCHANGED <<console, record>>

(* STRANDED_AFTER_S allows MaxIterations rounds and some slack, so a run in a *)
(* later round can be old enough.  The sweep does not persist what it does.  *)
Reconcile(r) ==
    /\ console /\ ~Sweeping
    /\ r \in Registered
    /\ run[r].status \in Active
    /\ run[r].rounds > MaxIterations
    /\ Set(r, [run[r] EXCEPT !.status = "needs_human", !.swept = TRUE])
    /\ UNCHANGED <<console, record>>

ReconcileRecords(r) ==
    /\ run[r].swept
    /\ \E rows \in Rows(r, run[r].status) :
          Set(r, [run[r] EXCEPT !.swept = FALSE, !.ledger = rows])
    /\ UNCHANGED <<console, record>>

Lost(w) == [w EXCEPT !.stage = IF w.stage = "done" THEN "done" ELSE "crashed",
                     !.beat = "off", !.copy = "none", !.swept = FALSE]

(* The process is lost; a run that was over stays so, without its threads.    *)
Crash ==
    /\ \E r \in Run : run[r].stage \notin Unborn \cup {"done", "crashed"}
    /\ run' = [r \in Run |-> IF run[r].stage \in Unborn THEN run[r] ELSE Lost(run[r])]
    /\ UNCHANGED <<console, record>>

Worker(r) == \/ StartWorker(r) \/ StartFails(r) \/ Admission(r) \/ Hydrate(r) \/ Execute(r)
             \/ Finalize(r) \/ Grade(r) \/ PersistVerdict(r) \/ ReportOrigin(r)
             \/ ReleaseRepository(r)

Heartbeat(r) == \/ HeartbeatStarts(r) \/ HeartbeatWakes(r)
                \/ HeartbeatSnapshots(r) \/ HeartbeatSaves(r)

Next == \/ \E r \in Run : Submit(r) \/ Worker(r) \/ Heartbeat(r)
                           \/ Reconcile(r) \/ ReconcileRecords(r)
        \/ Crash

Spec == Init /\ [][Next]_vars /\ \A r \in Run : WF_vars(Worker(r)) /\ WF_vars(Heartbeat(r))
-----------------------------------------------------------------------------
(* Properties. *)

Over == {"done", "refused"}

(* The limit counts live runs and not running ones: two runs admitted at the   *)
(* same moment see each other, so no more than max_concurrent ever get past    *)
(* admission.  A swept run is no longer counted though its worker works on,   *)
(* so only a process without the sweep keeps the limit.                      *)
Working == {r \in Run : run[r].stage \in {"hydrating", "executing", "finalizing"}}
AtMostMaxConcurrent == console \/ Cardinality(Working) <= MaxConcurrent

(* Once the worker has persisted its verdict nothing changes it: the snapshot, *)
(* the origin issue and a caller in this process can not be told differently,  *)
(* whatever the sweep and the heartbeat do meanwhile.                         *)
VerdictStands ==
    [][\A r \in Run : run[r].stage \in {"reporting", "releasing", "done"}
                        => /\ run'[r].status = run[r].status
                           /\ run'[r].posted \in {"nothing", run[r].status}]_vars

(* The repository's claim is given back only by a run that is over, whose      *)
(* status says so, and that left nothing executing remotely: a sweep alone     *)
(* never opens the repository to another run.                                *)
ReleasedMeansOver ==
    \A r \in Run : run[r].claim = "released"
        => /\ run[r].stage \in Over \cup {"crashed"}
           /\ run[r].status \in Terminal
           /\ ~run[r].unsettled

(* Without the sweep a durable record shows a terminal status only when the    *)
(* phases are over; a heartbeat may still record a failure that is about to    *)
(* be regraded.  And a run is called passed, in its record or in the ledger    *)
(* whose rows are written before _drive_bound regrades, only when its phases   *)
(* are over and it passed; or it passed its work and was handed to a person    *)
(* for a session nobody could settle, which the ledger does not show.          *)
Phases == {"new", "submitted", "admission", "hydrating", "executing", "finalizing"}
Called(r, status) == record[r] = status \/ status \in run[r].ledger
Lowered(w) == w.unsettled /\ w.status = "needs_human"
RecordIsHonest ==
    \A r \in Run :
        /\ console \/ (record[r] \in Terminal => run[r].stage \notin Phases)
        /\ Called(r, "passed")
             => /\ run[r].stage \notin Phases
                /\ run[r].status = "passed" \/ Lowered(run[r])

(* The strengthening that makes these inductive.  A run's own state: nothing   *)
(* is unsettled before a role was dispatched, a graded run is terminal, what  *)
(* was reported or released was so after grading, and what says "passed", be   *)
(* it the heartbeat's snapshot or a row, says it of a run whose work passed.  *)
Sound(w) ==
    /\ w.stage \in {"new", "submitted", "admission", "hydrating"} => ~w.unsettled
    /\ w.stage \in Over \cup {"ending", "persisting", "reporting", "releasing"}
         => w.status \in Terminal
    /\ w.posted # "nothing" => /\ w.posted = w.status
                               /\ w.stage \in {"releasing", "done", "crashed"}
    /\ w.claim = "released" => /\ w.stage \in Over \cup {"crashed"}
                               /\ w.status \in Terminal
                               /\ ~w.unsettled
    /\ "passed" \in {w.status, w.copy} \cup w.ledger
         => /\ w.stage \notin Phases
            /\ w.status = "passed" \/ Lowered(w)

(* Without the sweep only the end of the phases makes a status terminal, and   *)
(* the heartbeat's snapshot was some status of the run.                       *)
Honest(w) == {w.status, w.copy} \cap Terminal # {} => w.stage \notin Phases

LifecycleInv == /\ \A r \in Run : Sound(run[r])
                /\ console \/ \A r \in Run : Honest(run[r])
                /\ AtMostMaxConcurrent
                /\ RecordIsHonest

(* "Always terminal": every submitted run ends with a terminal status and its   *)
(* heartbeat stops, unless the process is lost, when its record can only grow  *)
(* stale.                                                                    *)
WorkerAlwaysEnds ==
    \A r \in Run : At(r, "submitted")
        ~> \/ At(r, "crashed") \/ At(r, "refused")
           \/ At(r, "done") /\ run[r].status \in Terminal /\ run[r].beat = "off"

(* engine.py:1031, "Write one current checkpoint, serialized against the        *)
(* heartbeat": no save puts an active snapshot over a terminal one.  The lock  *)
(* covers the write and not the snapshot, so a heartbeat can.                 *)
CheckpointIsCurrent ==
    [][~console => \A r \in Run : record[r] \in Terminal => record'[r] \in Terminal]_vars

(* engine.py:892, "a reconciler sweep and the worker thread can never           *)
(* double-transition the same run": a run gets one terminal transition, and    *)
(* one status in the ledger.  The worker's writes do not use the guard.       *)
NeverDoubleTransition == \A r \in Run : Cardinality(run[r].ledger) <= 1
=============================================================================
