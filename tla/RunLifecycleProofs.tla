-------------------------- MODULE RunLifecycleProofs --------------------------
(***************************************************************************)
(* The lifecycle of a run for any number of runs, any limit and any number  *)
(* of rounds: types, the inductive invariant, what follows from it, and the *)
(* verdict that nothing changes.                                            *)
(***************************************************************************)
EXTENDS RunLifecycle, FiniteSetTheorems, TLAPS

(* A step that replaces one run's state and saves at most one status of its  *)
(* own keeps the types.                                                      *)
LEMMA OneRunMoves ==
  ASSUME TypeOK, NEW r \in Run, NEW w \in RunState, Set(r, w), console' = console,
         record' = record \/ \E s \in Status : Save(r, s)
  PROVE  TypeOK'
BY DEF TypeOK, Set, Save

(* Replacing a field of a run's state by a value of the field's type.        *)
LEMMA FieldUpdates ==
  ASSUME NEW w \in RunState
  PROVE  /\ \A x \in Stage : [w EXCEPT !.stage = x] \in RunState
         /\ \A x \in Status : [w EXCEPT !.status = x] \in RunState
         /\ \A x \in BOOLEAN : [w EXCEPT !.permanent = x] \in RunState
         /\ \A x \in BOOLEAN : [w EXCEPT !.unsettled = x] \in RunState
         /\ \A x \in {"unstarted", "asleep", "due", "off"} : [w EXCEPT !.beat = x] \in RunState
         /\ \A x \in Status \cup {"none"} : [w EXCEPT !.copy = x] \in RunState
         /\ \A x \in SUBSET Status : [w EXCEPT !.ledger = x] \in RunState
         /\ \A x \in BOOLEAN : [w EXCEPT !.swept = x] \in RunState
         /\ \A x \in Status \cup {"nothing"} : [w EXCEPT !.posted = x] \in RunState
         /\ \A x \in {"none", "held", "released"} : [w EXCEPT !.claim = x] \in RunState
         /\ \A x \in 0..MaxRounds : [w EXCEPT !.rounds = x] \in RunState
<1>1. \A x \in Stage : [w EXCEPT !.stage = x] \in RunState BY DEF RunState
<1>2. \A x \in Status : [w EXCEPT !.status = x] \in RunState BY DEF RunState
<1>3. \A x \in BOOLEAN : [w EXCEPT !.permanent = x] \in RunState BY DEF RunState
<1>4. \A x \in BOOLEAN : [w EXCEPT !.unsettled = x] \in RunState BY DEF RunState
<1>5. \A x \in {"unstarted", "asleep", "due", "off"} : [w EXCEPT !.beat = x] \in RunState
  BY DEF RunState
<1>6. \A x \in Status \cup {"none"} : [w EXCEPT !.copy = x] \in RunState BY DEF RunState
<1>7. \A x \in SUBSET Status : [w EXCEPT !.ledger = x] \in RunState BY DEF RunState
<1>11. \A x \in BOOLEAN : [w EXCEPT !.swept = x] \in RunState BY DEF RunState
<1>8. \A x \in Status \cup {"nothing"} : [w EXCEPT !.posted = x] \in RunState BY DEF RunState
<1>9. \A x \in {"none", "held", "released"} : [w EXCEPT !.claim = x] \in RunState BY DEF RunState
<1>10. \A x \in 0..MaxRounds : [w EXCEPT !.rounds = x] \in RunState BY DEF RunState
<1> QED
  BY <1>1, <1>2, <1>3, <1>4, <1>5, <1>6, <1>7, <1>8, <1>9, <1>10, <1>11

(* What the end of the process leaves of a run's state.                      *)
LEMMA LostState ==
  ASSUME NEW w \in RunState
  PROVE  /\ Lost(w).stage = IF w.stage = "done" THEN "done" ELSE "crashed"
         /\ Lost(w).copy = "none"
         /\ Lost(w).status = w.status
         /\ Lost(w).ledger = w.ledger
         /\ Lost(w).posted = w.posted
         /\ Lost(w).claim = w.claim
         /\ Lost(w).unsettled = w.unsettled
BY DEF Lost, RunState

(* Every variable keeps its type through submission, the worker, the        *)
(* heartbeat, the sweep and the end of the process.                         *)
LEMMA LifecycleTypeStep ==
  ASSUME TypeOK, [Next]_vars
  PROVE  TypeOK'
<1>a. \A r \in Run : run[r] \in RunState
  BY DEF TypeOK
<1>b. \A r \in Run : /\ run[r].status \in Status
                     /\ run[r].copy \in Status \cup {"none"}
                     /\ run[r].claim \in {"none", "held", "released"}
                     /\ run[r].ledger \in SUBSET Status
                     /\ run[r].rounds \in 0..MaxRounds
  BY <1>a DEF RunState
<1> USE LifecycleAssumption, OneRunMoves, FieldUpdates, <1>a, <1>b
    DEF Status, Active, Terminal, Stage, At
<1>1. ASSUME NEW r \in Run, Submit(r) PROVE TypeOK'
  BY <1>1 DEF Submit
<1>2. ASSUME NEW r \in Run, StartWorker(r) PROVE TypeOK'
  BY <1>2 DEF StartWorker
<1>3. ASSUME NEW r \in Run, StartFails(r) PROVE TypeOK'
  BY <1>3 DEF StartFails
<1>4. ASSUME NEW r \in Run, Admission(r) PROVE TypeOK'
  BY <1>4 DEF Admission, Ends
<1>5. ASSUME NEW r \in Run, Hydrate(r) PROVE TypeOK'
  <2>1. CASE Set(r, [run[r] EXCEPT !.status = "running", !.stage = "executing", !.rounds = 1])
    <3>1. 1 \in 0..MaxRounds
      OBVIOUS
    <3> QED
      BY <1>5, <2>1, <3>1 DEF Hydrate
  <2>2. CASE \E p \in BOOLEAN : Set(r, [Ends(r, "failed") EXCEPT !.permanent = p])
    BY <1>5, <2>2 DEF Hydrate, Ends
  <2> QED
    BY <1>5, <2>1, <2>2 DEF Hydrate
<1>6. ASSUME NEW r \in Run, Execute(r) PROVE TypeOK'
  BY <1>6 DEF Execute
<1>7. ASSUME NEW r \in Run, Finalize(r) PROVE TypeOK'
  <2>1. CASE /\ run[r].rounds < MaxRounds
             /\ Set(r, [run[r] EXCEPT !.stage = "executing", !.status = "running", !.rounds = @ + 1])
    <3>1. run[r].rounds + 1 \in 0..MaxRounds
      BY <2>1
    <3> QED
      BY <1>7, <2>1, <3>1 DEF Finalize
  <2>2. ASSUME NEW s \in {"passed", "needs_human"}, NEW rows \in Rows(r, s),
               Set(r, [Ends(r, s) EXCEPT !.ledger = rows])
        PROVE  TypeOK'
    <3>1. rows \in SUBSET Status
      BY DEF Rows
    <3>2. Ends(r, s) \in RunState
      BY DEF Ends
    <3>4. [Ends(r, s) EXCEPT !.ledger = rows] \in RunState
      BY <3>1, <3>2
    <3> QED
      BY <1>7, <2>2, <3>4 DEF Finalize
  <2>3. CASE Set(r, Ends(r, "failed"))
    BY <1>7, <2>3 DEF Finalize, Ends
  <2> QED
    BY <1>7, <2>1, <2>2, <2>3 DEF Finalize
<1>8. ASSUME NEW r \in Run, Grade(r) PROVE TypeOK'
  BY <1>8 DEF Grade
<1>9. ASSUME NEW r \in Run, PersistVerdict(r) PROVE TypeOK'
  BY <1>9 DEF PersistVerdict
<1>10. ASSUME NEW r \in Run, ReportOrigin(r) PROVE TypeOK'
  BY <1>10 DEF ReportOrigin
<1>11. ASSUME NEW r \in Run, ReleaseRepository(r) PROVE TypeOK'
  BY <1>11 DEF ReleaseRepository
<1>12. ASSUME NEW r \in Run, Heartbeat(r) PROVE TypeOK'
  <2>1. CASE HeartbeatStarts(r)
    BY <2>1 DEF HeartbeatStarts
  <2>2. CASE HeartbeatWakes(r)
    BY <2>2 DEF HeartbeatWakes
  <2>3. CASE HeartbeatSnapshots(r)
    BY <2>3 DEF HeartbeatSnapshots
  <2>4. CASE HeartbeatSaves(r)
    BY <2>4 DEF HeartbeatSaves
  <2> QED
    BY <1>12, <2>1, <2>2, <2>3, <2>4 DEF Heartbeat
<1>13. ASSUME NEW r \in Run, Reconcile(r) PROVE TypeOK'
  BY <1>13 DEF Reconcile
<1>16. ASSUME NEW r \in Run, ReconcileRecords(r) PROVE TypeOK'
  <2>1. PICK rows \in Rows(r, run[r].status) :
          Set(r, [run[r] EXCEPT !.swept = FALSE, !.ledger = rows])
    BY <1>16 DEF ReconcileRecords
  <2>2. rows \in SUBSET Status
    BY DEF Rows
  <2>3. [run[r] EXCEPT !.swept = FALSE, !.ledger = rows] \in RunState
    BY <2>2
  <2> QED
    BY <1>16, <2>1, <2>3 DEF ReconcileRecords
<1>14. CASE Crash
  <2>1. \A w \in RunState : Lost(w) \in RunState
    BY DEF Lost
  <2> QED
    BY <1>14, <2>1 DEF Crash, TypeOK
<1>15. CASE UNCHANGED vars
  BY <1>15 DEF vars, TypeOK
<1> QED
  BY <1>1, <1>2, <1>3, <1>4, <1>5, <1>6, <1>7, <1>8, <1>9, <1>10, <1>11, <1>12,
     <1>13, <1>14, <1>15, <1>16 DEF Next, Worker

(* Every variable keeps its type. *)
THEOREM LifecycleTypeOK == Spec => []TypeOK
<1>1. Init => TypeOK
  BY LifecycleAssumption DEF Init, TypeOK, RunState, Stage, Status, Active, Terminal
<1> QED
  BY <1>1, LifecycleTypeStep, PTL DEF Spec

-----------------------------------------------------------------------------
(* What may be called passed.                                                *)
Passed(w) == w.stage \notin Phases /\ (w.status = "passed" \/ Lowered(w))

(* A step of one run that keeps the invariant: the new state is sound, and   *)
(* honest where nobody sweeps; the phases are not entered again; a run that  *)
(* is on record as passed may still be called so; and a phase is entered only *)
(* below the limit.                                                          *)
Advances(r, w) ==
    /\ Sound(w)
    /\ console \/ Honest(w)
    /\ run[r].stage \notin Phases => w.stage \notin Phases
    /\ record[r] = "passed" => Passed(w)
    /\ w.stage \in {"hydrating", "executing", "finalizing"}
         => \/ run[r].stage \in {"hydrating", "executing", "finalizing"}
            \/ ActiveCount(r) < MaxConcurrent

(* What the step may write to the durable record.                            *)
Writes(r, w) ==
    \/ record' = record
    \/ \E s \in Status : /\ Save(r, s)
                         /\ console \/ (s \in Terminal => w.stage \notin Phases)
                         /\ s = "passed" => Passed(w)

(* Live runs are counted while their worker is in a phase, unless a sweep    *)
(* marked them: below the limit there is room for one more.                  *)
LEMMA RoomForOne ==
  ASSUME TypeOK, LifecycleInv, NEW r \in Run, ~console, r \notin Working,
         ActiveCount(r) < MaxConcurrent
  PROVE  Cardinality(Working \cup {r}) <= MaxConcurrent
<1> DEFINE Live == {q \in Registered \ {r} : run[q].status \in Active}
<1>1. IsFiniteSet(Live) /\ IsFiniteSet(Working)
  BY LifecycleAssumption, FS_Subset DEF Working, Registered
<1>2. Working \subseteq Live
  BY DEF Working, Registered, Unborn, LifecycleInv, Honest, Phases, TypeOK, RunState, Status
<1>3. /\ Cardinality(Working) <= Cardinality(Live)
      /\ Cardinality(Working) \in Nat
      /\ Cardinality(Live) \in Nat
  BY <1>1, <1>2, FS_Subset, FS_CardinalityType
<1>4. Cardinality(Working \cup {r}) = Cardinality(Working) + 1
  BY <1>1, FS_AddElement
<1> QED
  BY <1>3, <1>4, LifecycleAssumption DEF ActiveCount

(* Such a step keeps the invariant. *)
LEMMA AdvanceKeepsInv ==
  ASSUME TypeOK, LifecycleInv, console' = console,
         NEW r \in Run, NEW w, Set(r, w), Advances(r, w), Writes(r, w)
  PROVE  LifecycleInv'
<1>1. run'[r] = w /\ \A q \in Run \ {r} : run'[q] = run[q]
  BY DEF TypeOK, Set
<1>2. \A q \in Run : Sound(run'[q])
  BY <1>1 DEF LifecycleInv, Advances
<1>3. console \/ \A q \in Run : Honest(run'[q])
  BY <1>1 DEF LifecycleInv, Advances
<1>4. AtMostMaxConcurrent'
  <2> SUFFICES ASSUME ~console
               PROVE  Cardinality(Working') <= MaxConcurrent
    BY DEF AtMostMaxConcurrent
  <2>1. IsFiniteSet(Working)
    BY LifecycleAssumption, FS_Subset DEF Working
  <2>2. CASE w.stage \in {"hydrating", "executing", "finalizing"} /\ r \notin Working
    <3>1. ActiveCount(r) < MaxConcurrent
      BY <2>2 DEF Advances, Working
    <3>2. Working' = Working \cup {r}
      BY <1>1, <2>2 DEF Working
    <3> QED
      BY <2>2, <3>1, <3>2, RoomForOne
  <2>3. CASE ~(w.stage \in {"hydrating", "executing", "finalizing"} /\ r \notin Working)
    <3>1. Working' \subseteq Working
      BY <1>1, <2>3 DEF Working
    <3>2. /\ Cardinality(Working') <= Cardinality(Working)
          /\ Cardinality(Working) \in Nat
          /\ Cardinality(Working') \in Nat
      BY <2>1, <3>1, FS_Subset, FS_CardinalityType
    <3>3. Cardinality(Working) <= MaxConcurrent
      BY DEF LifecycleInv, AtMostMaxConcurrent
    <3> QED
      BY <3>2, <3>3, LifecycleAssumption
  <2> QED
    BY <2>2, <2>3
<1>5. RecordIsHonest'
  <2>1. ASSUME ~console, NEW q \in Run, record'[q] \in Terminal
        PROVE  run'[q].stage \notin Phases
    <3>1. CASE record'[q] = record[q]
      BY <1>1, <2>1, <3>1 DEF LifecycleInv, RecordIsHonest, Advances
    <3>2. CASE record'[q] # record[q]
      BY <1>1, <2>1, <3>2 DEF Writes, Save, TypeOK
    <3> QED
      BY <3>1, <3>2
  <2>2. ASSUME NEW q \in Run, record'[q] = "passed"
        PROVE  Passed(run'[q])
    <3>1. CASE record'[q] = record[q]
      BY <1>1, <2>2, <3>1 DEF LifecycleInv, RecordIsHonest, Advances, Called, Passed
    <3>2. CASE record'[q] # record[q]
      BY <1>1, <2>2, <3>2 DEF Writes, Save, TypeOK
    <3> QED
      BY <3>1, <3>2
  <2>3. ASSUME NEW q \in Run, "passed" \in run'[q].ledger
        PROVE  Passed(run'[q])
    BY <1>2, <2>3 DEF Sound, Passed
  <2> QED
    BY <2>1, <2>2, <2>3 DEF RecordIsHonest, Called, Passed
<1> QED
  BY <1>2, <1>3, <1>4, <1>5 DEF LifecycleInv

(* Every action advances one run, or is the end of the process. *)
LEMMA LifecycleInvStep ==
  ASSUME TypeOK, LifecycleInv, [Next]_vars
  PROVE  LifecycleInv'
<1>a. \A r \in Run : /\ run[r] \in RunState
                     /\ Sound(run[r])
                     /\ console \/ Honest(run[r])
                     /\ record[r] = "passed" => Passed(run[r])
  BY DEF TypeOK, LifecycleInv, RecordIsHonest, Called, Passed
<1>b. ASSUME NEW r \in Run, NEW w, Set(r, w), Advances(r, w), Writes(r, w), console' = console
      PROVE  LifecycleInv'
  BY <1>b, AdvanceKeepsInv
<1> USE <1>a DEF Sound, Honest, Passed, Lowered, RunState, Stage, Status, Active, Terminal, Phases, Over, At
<1>1. ASSUME NEW r \in Run, Submit(r) PROVE LifecycleInv'
  <2>0. PICK c \in {"none", "held"} :
          Set(r, [run[r] EXCEPT !.stage = "submitted", !.claim = c])
    BY <1>1 DEF Submit
  <2> DEFINE w == [run[r] EXCEPT !.stage = "submitted", !.claim = c]
  <2>1. Set(r, w) /\ console' = console
    BY <1>1, <2>0 DEF Submit
  <2>2. Advances(r, w)
    BY <1>1, <2>0, SMTT(60) DEF Submit, Advances
  <2>3. Writes(r, w)
    BY <1>1, <2>0 DEF Submit, Writes
  <2> QED
    BY <2>1, <2>2, <2>3, <1>b
<1>2. ASSUME NEW r \in Run, StartWorker(r) PROVE LifecycleInv'
  <2> DEFINE w == [run[r] EXCEPT !.stage = "admission"]
  <2>1. Set(r, w) /\ console' = console
    BY <1>2 DEF StartWorker
  <2>2. Advances(r, w)
    BY <1>2, SMTT(60) DEF StartWorker, Advances
  <2>3. Writes(r, w)
    BY <1>2 DEF StartWorker, Writes
  <2> QED
    BY <2>1, <2>2, <2>3, <1>b
<1>3. ASSUME NEW r \in Run, StartFails(r) PROVE LifecycleInv'
  <2>0. PICK c \in {run[r].claim, IF run[r].claim = "held" THEN "released" ELSE "none"} :
          Set(r, [run[r] EXCEPT !.stage = "refused", !.status = "failed", !.claim = c])
    BY <1>3 DEF StartFails
  <2> DEFINE w == [run[r] EXCEPT !.stage = "refused", !.status = "failed", !.claim = c]
  <2>1. Set(r, w) /\ console' = console
    BY <1>3, <2>0 DEF StartFails
  <2>2. Advances(r, w)
    BY <1>3, <2>0, SMTT(60) DEF StartFails, Advances
  <2>3. Writes(r, w)
    BY <1>3, <2>0 DEF StartFails, Writes
  <2> QED
    BY <2>1, <2>2, <2>3, <1>b
<1>4. ASSUME NEW r \in Run, Admission(r) PROVE LifecycleInv'
  <2>1. ASSUME Set(r, [Ends(r, "failed") EXCEPT !.permanent = TRUE])
        PROVE  LifecycleInv'
    <3> DEFINE w == [Ends(r, "failed") EXCEPT !.permanent = TRUE]
    <3>1. Set(r, w) /\ console' = console
      BY <1>4, <2>1 DEF Admission
    <3>2. Advances(r, w)
      BY <1>4, <2>1, SMTT(60) DEF Admission, Advances, Ends
    <3>3. Writes(r, w)
      BY <1>4, <2>1 DEF Admission, Writes, Ends
    <3> QED
      BY <3>1, <3>2, <3>3, <1>b
  <2>2. ASSUME Set(r, Ends(r, "failed"))
        PROVE  LifecycleInv'
    <3> DEFINE w == Ends(r, "failed")
    <3>1. Set(r, w) /\ console' = console
      BY <1>4, <2>2 DEF Admission
    <3>2. Advances(r, w)
      BY <1>4, <2>2, SMTT(60) DEF Admission, Advances, Ends
    <3>3. Writes(r, w)
      BY <1>4, <2>2 DEF Admission, Writes, Ends
    <3> QED
      BY <3>1, <3>2, <3>3, <1>b
  <2>3. ASSUME ActiveCount(r) < MaxConcurrent, Set(r, [run[r] EXCEPT !.stage = "hydrating", !.status = "queued"])
        PROVE  LifecycleInv'
    <3> DEFINE w == [run[r] EXCEPT !.stage = "hydrating", !.status = "queued"]
    <3>1. Set(r, w) /\ console' = console
      BY <1>4, <2>3 DEF Admission
    <3>2. Advances(r, w)
      BY <1>4, <2>3, SMTT(60) DEF Admission, Advances, Ends
    <3>3. Writes(r, w)
      BY <1>4, <2>3 DEF Admission, Writes, Ends
    <3> QED
      BY <3>1, <3>2, <3>3, <1>b
  <2> QED
    BY <1>4, <2>1, <2>2, <2>3 DEF Admission
<1>5. ASSUME NEW r \in Run, Hydrate(r) PROVE LifecycleInv'
  <2>0. run[r].stage = "hydrating"
    BY <1>5 DEF Hydrate
  <2>1. ASSUME Set(r, [run[r] EXCEPT !.status = "running", !.stage = "executing", !.rounds = 1])
        PROVE  LifecycleInv'
    <3> DEFINE w == [run[r] EXCEPT !.status = "running", !.stage = "executing", !.rounds = 1]
    <3>1. Set(r, w) /\ console' = console
      BY <1>5, <2>1 DEF Hydrate
    <3>2. Advances(r, w)
      BY <2>0, SMTT(30) DEF Advances
    <3>3. Writes(r, w)
      BY <1>5, <2>1 DEF Hydrate, Writes, Ends
    <3> QED
      BY <3>1, <3>2, <3>3, <1>b
  <2>2. ASSUME NEW p \in BOOLEAN, Set(r, [Ends(r, "failed") EXCEPT !.permanent = p])
        PROVE  LifecycleInv'
    <3> DEFINE w == [Ends(r, "failed") EXCEPT !.permanent = p]
    <3>1. Set(r, w) /\ console' = console
      BY <1>5, <2>2 DEF Hydrate
    <3>2. Advances(r, w)
      BY <2>0, SMTT(30) DEF Advances, Ends
    <3>3. Writes(r, w)
      BY <1>5, <2>2 DEF Hydrate, Writes, Ends
    <3> QED
      BY <3>1, <3>2, <3>3, <1>b
  <2> QED
    BY <1>5, <2>1, <2>2 DEF Hydrate
<1>6. ASSUME NEW r \in Run, Execute(r) PROVE LifecycleInv'
  <2>1. ASSUME NEW u \in BOOLEAN, Set(r, [run[r] EXCEPT !.unsettled = @ \/ u, !.stage = "finalizing"])
        PROVE  LifecycleInv'
    <3> DEFINE w == [run[r] EXCEPT !.unsettled = @ \/ u, !.stage = "finalizing"]
    <3>1. Set(r, w) /\ console' = console
      BY <1>6, <2>1 DEF Execute
    <3>2. Advances(r, w)
      BY <1>6, <2>1, SMTT(60) DEF Execute, Advances
    <3>3. Writes(r, w)
      BY <1>6, <2>1 DEF Execute, Writes
    <3> QED
      BY <3>1, <3>2, <3>3, <1>b
  <2>2. ASSUME NEW u \in BOOLEAN, NEW s \in {"failed", "needs_human"}, Set(r, [run[r] EXCEPT !.unsettled = @ \/ u, !.stage = "ending", !.status = s])
        PROVE  LifecycleInv'
    <3> DEFINE w == [run[r] EXCEPT !.unsettled = @ \/ u, !.stage = "ending", !.status = s]
    <3>1. Set(r, w) /\ console' = console
      BY <1>6, <2>2 DEF Execute
    <3>2. Advances(r, w)
      BY <1>6, <2>2, SMTT(60) DEF Execute, Advances
    <3>3. Writes(r, w)
      BY <1>6, <2>2 DEF Execute, Writes
    <3> QED
      BY <3>1, <3>2, <3>3, <1>b
  <2> QED
    BY <1>6, <2>1, <2>2 DEF Execute
<1>7. ASSUME NEW r \in Run, Finalize(r) PROVE LifecycleInv'
  <2>1. ASSUME Set(r, [run[r] EXCEPT !.stage = "executing", !.status = "running", !.rounds = @ + 1])
        PROVE  LifecycleInv'
    <3> DEFINE w == [run[r] EXCEPT !.stage = "executing", !.status = "running", !.rounds = @ + 1]
    <3>1. Set(r, w) /\ console' = console
      BY <1>7, <2>1 DEF Finalize
    <3>2. Advances(r, w)
      <4>1. run[r].stage = "finalizing" /\ "passed" \notin {run[r].copy} \cup run[r].ledger
        BY <1>7 DEF Finalize
      <4>2. /\ w.stage = "executing" /\ w.status = "running"
            /\ w.copy = run[r].copy /\ w.ledger = run[r].ledger
            /\ w.posted = run[r].posted /\ w.claim = run[r].claim
        OBVIOUS
      <4> HIDE DEF w
      <4> QED
        BY <4>1, <4>2 DEF Advances
    <3>3. Writes(r, w)
      BY <1>7, <2>1 DEF Finalize, Writes, Ends
    <3> QED
      BY <3>1, <3>2, <3>3, <1>b
  <2>2. ASSUME NEW s \in {"passed", "needs_human"}, NEW rows \in Rows(r, s),
               Set(r, [Ends(r, s) EXCEPT !.ledger = rows])
        PROVE  LifecycleInv'
    <3> DEFINE w == [Ends(r, s) EXCEPT !.ledger = rows]
    <3>1. Set(r, w) /\ console' = console
      BY <1>7, <2>2 DEF Finalize
    <3>2. Advances(r, w)
      <4>1. run[r].stage = "finalizing" /\ "passed" \notin {run[r].copy} \cup run[r].ledger
        BY <1>7 DEF Finalize
      <4>2. /\ w.stage = "ending" /\ w.status = s
            /\ w.copy = run[r].copy /\ w.ledger = rows
            /\ w.posted = run[r].posted /\ w.claim = run[r].claim
        BY DEF Ends
      <4>3. "passed" \in rows => s = "passed"
        BY <2>2, <4>1 DEF Rows
      <4> HIDE DEF w
      <4> QED
        BY <2>2, <4>1, <4>2, <4>3 DEF Advances
    <3>3. Writes(r, w)
      BY <1>7, <2>2 DEF Finalize, Writes, Ends
    <3> QED
      BY <3>1, <3>2, <3>3, <1>b
  <2>3. ASSUME Set(r, Ends(r, "failed"))
        PROVE  LifecycleInv'
    <3> DEFINE w == Ends(r, "failed")
    <3>1. Set(r, w) /\ console' = console
      BY <1>7, <2>3 DEF Finalize
    <3>2. Advances(r, w)
      <4>1. run[r].stage = "finalizing" /\ "passed" \notin {run[r].copy} \cup run[r].ledger
        BY <1>7 DEF Finalize
      <4>2. /\ w.stage = "ending" /\ w.status = "failed"
            /\ w.copy = run[r].copy /\ w.ledger = run[r].ledger
            /\ w.posted = run[r].posted /\ w.claim = run[r].claim
        BY DEF Ends
      <4> HIDE DEF w
      <4> QED
        BY <4>1, <4>2 DEF Advances
    <3>3. Writes(r, w)
      BY <1>7, <2>3 DEF Finalize, Writes, Ends
    <3> QED
      BY <3>1, <3>2, <3>3, <1>b
  <2> QED
    BY <1>7, <2>1, <2>2, <2>3 DEF Finalize
<1>8. ASSUME NEW r \in Run, Grade(r) PROVE LifecycleInv'
  <2> DEFINE graded == IF run[r].unsettled THEN "needs_human"
                     ELSE IF run[r].status = "failed" /\ ~run[r].permanent THEN "needs_human"
                     ELSE run[r].status
  <2> DEFINE w == [run[r] EXCEPT !.stage = "persisting", !.status = graded]
  <2>1. Set(r, w) /\ console' = console
    BY <1>8 DEF Grade
  <2>2. Advances(r, w)
    BY <1>8, SMTT(60) DEF Grade, Advances
  <2>3. Writes(r, w)
    BY <1>8 DEF Grade, Writes
  <2> QED
    BY <2>1, <2>2, <2>3, <1>b
<1>9. ASSUME NEW r \in Run, PersistVerdict(r) PROVE LifecycleInv'
  <2> DEFINE w == [run[r] EXCEPT !.stage = "reporting"]
  <2>1. Set(r, w) /\ console' = console
    BY <1>9 DEF PersistVerdict
  <2>2. Advances(r, w)
    BY <1>9, SMTT(60) DEF PersistVerdict, Advances
  <2>3. Writes(r, w)
    BY <1>9 DEF PersistVerdict, Writes
  <2> QED
    BY <2>1, <2>2, <2>3, <1>b
<1>10. ASSUME NEW r \in Run, ReportOrigin(r) PROVE LifecycleInv'
  <2>0. PICK result \in {"nothing", run[r].status} :
          Set(r, [run[r] EXCEPT !.stage = "releasing", !.posted = result])
    BY <1>10 DEF ReportOrigin
  <2> DEFINE w == [run[r] EXCEPT !.stage = "releasing", !.posted = result]
  <2>1. Set(r, w) /\ console' = console
    BY <1>10, <2>0 DEF ReportOrigin
  <2>2. Advances(r, w)
    BY <1>10, <2>0, SMTT(60) DEF ReportOrigin, Advances
  <2>3. Writes(r, w)
    BY <1>10, <2>0 DEF ReportOrigin, Writes
  <2> QED
    BY <2>1, <2>2, <2>3, <1>b
<1>11. ASSUME NEW r \in Run, ReleaseRepository(r) PROVE LifecycleInv'
  <2>1. ASSUME run[r].claim = "held" => ~run[r].unsettled, UNCHANGED record, Set(r, [run[r] EXCEPT !.stage = "done", !.claim = IF @ = "held" THEN "released" ELSE @])
        PROVE  LifecycleInv'
    <3> DEFINE w == [run[r] EXCEPT !.stage = "done", !.claim = IF @ = "held" THEN "released" ELSE @]
    <3>1. Set(r, w) /\ console' = console
      BY <1>11, <2>1 DEF ReleaseRepository
    <3>2. Advances(r, w)
      BY <1>11, <2>1, SMTT(60) DEF ReleaseRepository, Advances
    <3>3. Writes(r, w)
      BY <1>11, <2>1 DEF ReleaseRepository, Writes
    <3> QED
      BY <3>1, <3>2, <3>3, <1>b
  <2>2. ASSUME run[r].claim = "held", Save(r, run[r].status), Set(r, [run[r] EXCEPT !.stage = "done"])
        PROVE  LifecycleInv'
    <3> DEFINE w == [run[r] EXCEPT !.stage = "done"]
    <3>1. Set(r, w) /\ console' = console
      BY <1>11, <2>2 DEF ReleaseRepository
    <3>2. Advances(r, w)
      BY <1>11, <2>2, SMTT(60) DEF ReleaseRepository, Advances
    <3>3. Writes(r, w)
      BY <1>11, <2>2 DEF ReleaseRepository, Writes
    <3> QED
      BY <3>1, <3>2, <3>3, <1>b
  <2> QED
    BY <1>11, <2>1, <2>2 DEF ReleaseRepository
<1>12. ASSUME NEW r \in Run, HeartbeatStarts(r) PROVE LifecycleInv'
  <2>1. ASSUME NEW b \in {"off", "asleep"}, Set(r, [run[r] EXCEPT !.beat = b])
        PROVE  LifecycleInv'
    <3> DEFINE w == [run[r] EXCEPT !.beat = b]
    <3>1. Set(r, w) /\ console' = console
      BY <1>12, <2>1 DEF HeartbeatStarts
    <3>2. Advances(r, w)
      BY <1>12, <2>1, SMTT(60) DEF HeartbeatStarts, Advances
    <3>3. Writes(r, w)
      BY <1>12, <2>1 DEF HeartbeatStarts, Writes
    <3> QED
      BY <3>1, <3>2, <3>3, <1>b
  <2> QED
    BY <1>12, <2>1 DEF HeartbeatStarts
<1>13. ASSUME NEW r \in Run, HeartbeatWakes(r) PROVE LifecycleInv'
  <2> DEFINE w == [run[r] EXCEPT !.beat = IF run[r].status \in Active THEN "due" ELSE "off"]
  <2>1. Set(r, w) /\ console' = console
    BY <1>13 DEF HeartbeatWakes
  <2>2. Advances(r, w)
    BY <1>13, SMTT(60) DEF HeartbeatWakes, Advances
  <2>3. Writes(r, w)
    BY <1>13 DEF HeartbeatWakes, Writes
  <2> QED
    BY <2>1, <2>2, <2>3, <1>b
<1>14. ASSUME NEW r \in Run, HeartbeatSnapshots(r) PROVE LifecycleInv'
  <2> DEFINE w == [run[r] EXCEPT !.copy = run[r].status]
  <2>1. Set(r, w) /\ console' = console
    BY <1>14 DEF HeartbeatSnapshots
  <2>2. Advances(r, w)
    BY <1>14, SMTT(30) DEF HeartbeatSnapshots, Advances
  <2>3. Writes(r, w)
    BY <1>14 DEF HeartbeatSnapshots, Writes
  <2> QED
    BY <2>1, <2>2, <2>3, <1>b
<1>15. ASSUME NEW r \in Run, HeartbeatSaves(r) PROVE LifecycleInv'
  <2> DEFINE w == [run[r] EXCEPT !.beat = IF run[r].status \in Active THEN "asleep" ELSE "off",
                                   !.copy = "none"]
  <2>1. Set(r, w) /\ console' = console
    BY <1>15 DEF HeartbeatSaves
  <2>2. Advances(r, w)
    BY <1>15, SMTT(30) DEF HeartbeatSaves, Advances
  <2>3. /\ run[r].copy \in Status
        /\ w.stage = run[r].stage /\ w.status = run[r].status
        /\ w.unsettled = run[r].unsettled
    BY <1>15 DEF HeartbeatSaves
  <2>4. Save(r, run[r].copy)
    BY <1>15 DEF HeartbeatSaves
  <2>5. /\ console \/ (run[r].copy \in Terminal => w.stage \notin Phases)
        /\ run[r].copy = "passed" => Passed(w)
    BY <1>a, <2>3
  <2>6. Writes(r, w)
    BY ONLY <2>3, <2>4, <2>5 DEF Writes
  <2> QED
    BY <2>1, <2>2, <2>6, <1>b
<1>16. ASSUME NEW r \in Run, Reconcile(r) PROVE LifecycleInv'
  <2> DEFINE w == [run[r] EXCEPT !.status = "needs_human", !.swept = TRUE]
  <2>1. Set(r, w) /\ console' = console
    BY <1>16 DEF Reconcile
  <2>2. Advances(r, w)
    BY <1>16, SMTT(60) DEF Reconcile, Advances, Registered
  <2>3. Writes(r, w)
    BY <1>16 DEF Reconcile, Writes
  <2> QED
    BY <2>1, <2>2, <2>3, <1>b
<1>19. ASSUME NEW r \in Run, ReconcileRecords(r) PROVE LifecycleInv'
  <2>0. PICK rows \in Rows(r, run[r].status) :
          Set(r, [run[r] EXCEPT !.swept = FALSE, !.ledger = rows])
    BY <1>19 DEF ReconcileRecords
  <2> DEFINE w == [run[r] EXCEPT !.swept = FALSE, !.ledger = rows]
  <2>1. Set(r, w) /\ console' = console
    BY <1>19, <2>0 DEF ReconcileRecords
  <2>2. Advances(r, w)
    BY <1>19, SMTT(60) DEF ReconcileRecords, Advances, Rows
  <2>3. Writes(r, w)
    BY <1>19 DEF ReconcileRecords, Writes
  <2> QED
    BY <2>1, <2>2, <2>3, <1>b
<1>17. CASE Crash
  <2>1. console' = console /\ record' = record
    BY <1>17 DEF Crash
  <2>2. \A r \in Run : /\ run[r].stage \in Unborn => run'[r] = run[r]
                       /\ run[r].stage \notin Unborn => run'[r] = Lost(run[r])
    BY <1>17 DEF Crash, TypeOK
  <2>3. \A r \in Run : /\ Sound(run'[r])
                       /\ console \/ Honest(run'[r])
                       /\ run'[r].stage \notin {"hydrating", "executing", "finalizing"}
                       /\ run[r].stage \notin Phases => run'[r].stage \notin Phases
                       /\ run'[r].ledger = run[r].ledger
                       /\ run'[r].status = run[r].status
                       /\ run'[r].unsettled = run[r].unsettled
    <3> SUFFICES ASSUME NEW r \in Run
                 PROVE  /\ Sound(run'[r])
                        /\ console \/ Honest(run'[r])
                        /\ run'[r].stage \notin {"hydrating", "executing", "finalizing"}
                        /\ run[r].stage \notin Phases => run'[r].stage \notin Phases
                        /\ run'[r].ledger = run[r].ledger
                        /\ run'[r].status = run[r].status
                        /\ run'[r].unsettled = run[r].unsettled
      OBVIOUS
    <3>1. CASE run[r].stage \in Unborn
      BY <2>2, <3>1 DEF Unborn
    <3>2. CASE run[r].stage \notin Unborn
      <4>0. run'[r] = Lost(run[r])
        BY <2>2, <3>2
      <4>1. /\ run'[r].stage = IF run[r].stage = "done" THEN "done" ELSE "crashed"
            /\ run'[r].status = run[r].status
            /\ run'[r].copy = "none"
            /\ run'[r].ledger = run[r].ledger
            /\ run'[r].posted = run[r].posted
            /\ run'[r].claim = run[r].claim
            /\ run'[r].unsettled = run[r].unsettled
        BY <4>0, LostState
      <4> HIDE DEF RunState
      <4> QED
        BY <3>2, <4>1 DEF Unborn
    <3> QED
      BY <3>1, <3>2
  <2>4. Working' = {}
    BY <2>3 DEF Working
  <2>5. AtMostMaxConcurrent'
    BY <2>4, FS_EmptySet, LifecycleAssumption DEF AtMostMaxConcurrent
  <2>6. RecordIsHonest'
    <3>1. ASSUME ~console, NEW q \in Run, record[q] \in Terminal
          PROVE  run'[q].stage \notin Phases
      BY <2>3, <3>1 DEF LifecycleInv, RecordIsHonest
    <3>2. ASSUME NEW q \in Run, Called(q, "passed")
          PROVE  Passed(run'[q])
      BY <2>3, <3>2 DEF LifecycleInv, RecordIsHonest, Called
    <3> QED
      BY <2>1, <2>3, <3>1, <3>2 DEF RecordIsHonest, Called
  <2> QED
    BY <2>1, <2>3, <2>5, <2>6 DEF LifecycleInv
<1>18. CASE UNCHANGED vars
  BY <1>18 DEF vars, LifecycleInv, AtMostMaxConcurrent, Working, RecordIsHonest, Called
<1> QED
  BY <1>1, <1>2, <1>3, <1>4, <1>5, <1>6, <1>7, <1>8, <1>9, <1>10, <1>11, <1>12,
     <1>13, <1>14, <1>15, <1>16, <1>17, <1>18, <1>19 DEF Next, Worker, Heartbeat

(* The inductive invariant holds for any number of runs and rounds.          *)
THEOREM LifecycleInvariant == Spec => []LifecycleInv
<1>1. Init => LifecycleInv
  <2> SUFFICES ASSUME Init
               PROVE  LifecycleInv
    OBVIOUS
  <2>1. Working = {}
    BY DEF Init, Working
  <2>2. AtMostMaxConcurrent
    BY <2>1, FS_EmptySet, LifecycleAssumption DEF AtMostMaxConcurrent
  <2>3. \A r \in Run : Sound(run[r]) /\ Honest(run[r])
    BY DEF Init, Sound, Honest, Lowered, Over, Terminal, Phases
  <2>4. RecordIsHonest
    BY DEF Init, RecordIsHonest, Called, Terminal
  <2> QED
    BY <2>2, <2>3, <2>4 DEF LifecycleInv
<1> QED
  BY <1>1, LifecycleInvStep, LifecycleTypeOK, PTL DEF Spec

(* The repository's claim is given back only by a run that is over.          *)
THEOREM ReleaseIsFinal == Spec => []ReleasedMeansOver
<1>1. LifecycleInv => ReleasedMeansOver
  BY DEF LifecycleInv, Sound, ReleasedMeansOver
<1> QED
  BY <1>1, LifecycleInvariant, PTL

(* Without the sweep no more than max_concurrent runs are past admission.    *)
THEOREM LimitHolds == Spec => []AtMostMaxConcurrent
<1>1. LifecycleInv => AtMostMaxConcurrent
  BY DEF LifecycleInv
<1> QED
  BY <1>1, LifecycleInvariant, PTL

(* Without the sweep a terminal record is the end of the phases; and neither  *)
(* the record nor the ledger calls a run passed that did not pass its work.  *)
THEOREM RecordsAreHonest == Spec => []RecordIsHonest
<1>1. LifecycleInv => RecordIsHonest
  BY DEF LifecycleInv
<1> QED
  BY <1>1, LifecycleInvariant, PTL

-----------------------------------------------------------------------------
(* After the verdict is persisted no thread changes it: the worker only      *)
(* reports it, the heartbeat does not touch it, and the sweep looks for      *)
(* active runs, which Sound says a graded run is not.                        *)
THEOREM VerdictIsFinal == Spec => VerdictStands
<1>1. TypeOK /\ LifecycleInv /\ [Next]_vars
        => [\A r \in Run : run[r].stage \in {"reporting", "releasing", "done"}
              => /\ run'[r].status = run[r].status
                 /\ run'[r].posted \in {"nothing", run[r].status}]_vars
  <2> DEFINE Stands == \A q \in Run : run[q].stage \in {"reporting", "releasing", "done"}
                        => /\ run'[q].status = run[q].status
                           /\ run'[q].posted \in {"nothing", run[q].status}
  <2> SUFFICES ASSUME TypeOK, LifecycleInv, Next
               PROVE  Stands
    OBVIOUS
  <2>a. \A q \in Run : /\ run[q] \in RunState
                       /\ Sound(run[q])
    BY DEF TypeOK, LifecycleInv
  <2>b. \A q \in Run : run[q].stage \in {"reporting", "releasing", "done"}
                         => /\ run[q].status \in Terminal
                            /\ run[q].posted \in {"nothing", run[q].status}
    BY <2>a DEF Sound, Over
  <2>c. ASSUME NEW r \in Run, NEW w, Set(r, w),
               run[r].stage \in {"reporting", "releasing", "done"}
                 => w.status = run[r].status /\ w.posted \in {"nothing", run[r].status}
        PROVE  Stands
    BY <2>b, <2>c DEF Set, TypeOK
  <2> USE <2>a, <2>b, <2>c DEF RunState, At
  <2> HIDE DEF Stands
  <2>1. ASSUME NEW r \in Run, Submit(r) PROVE Stands
    BY <2>1 DEF Submit
  <2>2. ASSUME NEW r \in Run, StartWorker(r) PROVE Stands
    BY <2>2 DEF StartWorker
  <2>3. ASSUME NEW r \in Run, StartFails(r) PROVE Stands
    BY <2>3 DEF StartFails
  <2>4. ASSUME NEW r \in Run, Admission(r) PROVE Stands
    BY <2>4 DEF Admission
  <2>5. ASSUME NEW r \in Run, Hydrate(r) PROVE Stands
    BY <2>5 DEF Hydrate
  <2>6. ASSUME NEW r \in Run, Execute(r) PROVE Stands
    BY <2>6 DEF Execute
  <2>7. ASSUME NEW r \in Run, Finalize(r) PROVE Stands
    BY <2>7 DEF Finalize
  <2>8. ASSUME NEW r \in Run, Grade(r) PROVE Stands
    BY <2>8 DEF Grade
  <2>9. ASSUME NEW r \in Run, PersistVerdict(r) PROVE Stands
    BY <2>9 DEF PersistVerdict
  <2>10. ASSUME NEW r \in Run, ReportOrigin(r) PROVE Stands
    <3>1. PICK result \in {"nothing", run[r].status} :
              Set(r, [run[r] EXCEPT !.stage = "releasing", !.posted = result])
      BY <2>10 DEF ReportOrigin
    <3> DEFINE w == [run[r] EXCEPT !.stage = "releasing", !.posted = result]
    <3>2. w.status = run[r].status /\ w.posted = result
      OBVIOUS
    <3> HIDE DEF w
    <3> QED
      BY <3>1, <3>2, <2>c DEF w
  <2>11. ASSUME NEW r \in Run, ReleaseRepository(r) PROVE Stands
    <3>1. PICK c \in {run[r].claim, "released"} :
              Set(r, [run[r] EXCEPT !.stage = "done", !.claim = c])
      BY <2>11 DEF ReleaseRepository
    <3> DEFINE w == [run[r] EXCEPT !.stage = "done", !.claim = c]
    <3>2. w.status = run[r].status /\ w.posted = run[r].posted
      OBVIOUS
    <3> HIDE DEF w
    <3> QED
      BY <3>1, <3>2, <2>b, <2>c DEF w
  <2>12. ASSUME NEW r \in Run, HeartbeatStarts(r) PROVE Stands
    BY <2>12 DEF HeartbeatStarts
  <2>13. ASSUME NEW r \in Run, HeartbeatWakes(r) PROVE Stands
    BY <2>13 DEF HeartbeatWakes
  <2>14. ASSUME NEW r \in Run, HeartbeatSnapshots(r) PROVE Stands
    BY <2>14 DEF HeartbeatSnapshots
  <2>15. ASSUME NEW r \in Run, HeartbeatSaves(r) PROVE Stands
    <3>1. PICK b \in {"asleep", "off"} : Set(r, [run[r] EXCEPT !.beat = b, !.copy = "none"])
      BY <2>15 DEF HeartbeatSaves
    <3> DEFINE w == [run[r] EXCEPT !.beat = b, !.copy = "none"]
    <3>2. w.status = run[r].status /\ w.posted = run[r].posted
      OBVIOUS
    <3> HIDE DEF w
    <3> QED
      BY <3>1, <3>2, <2>b, <2>c DEF w
  <2>16. ASSUME NEW r \in Run, Reconcile(r) PROVE Stands
    <3>1. run[r].stage \notin {"reporting", "releasing", "done"}
      BY <2>16 DEF Reconcile, Active, Terminal
    <3>2. PICK w : Set(r, w)
      BY <2>16 DEF Reconcile
    <3> QED
      BY <3>1, <3>2
  <2>18. ASSUME NEW r \in Run, ReconcileRecords(r) PROVE Stands
    <3>1. PICK rows : Set(r, [run[r] EXCEPT !.swept = FALSE, !.ledger = rows])
      BY <2>18 DEF ReconcileRecords
    <3> DEFINE w == [run[r] EXCEPT !.swept = FALSE, !.ledger = rows]
    <3>2. w.status = run[r].status /\ w.posted = run[r].posted
      OBVIOUS
    <3> HIDE DEF w
    <3> QED
      BY <3>1, <3>2, <2>b, <2>c DEF w
  <2>17. CASE Crash
    <3>1. \A r \in Run : run'[r].status = run[r].status /\ run'[r].posted = run[r].posted
      <4>1. \A r \in Run : run'[r] = run[r] \/ run'[r] = Lost(run[r])
        BY <2>17 DEF Crash
      <4> QED
        BY <4>1, LostState
    <3> QED
      BY <3>1 DEF Stands
  <2> QED
    BY <2>1, <2>2, <2>3, <2>4, <2>5, <2>6, <2>7, <2>8, <2>9, <2>10, <2>11, <2>12,
       <2>13, <2>14, <2>15, <2>16, <2>17, <2>18 DEF Next, Worker, Heartbeat
<1> QED
  BY <1>1, LifecycleTypeOK, LifecycleInvariant, PTL DEF Spec, VerdictStands
=============================================================================
