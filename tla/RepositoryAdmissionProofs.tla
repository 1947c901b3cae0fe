---------------------- MODULE RepositoryAdmissionProofs ----------------------
(***************************************************************************)
(* Admission for any number of runs, sessions and requests in the network:  *)
(* the inductive invariant, mutual exclusion, and the implementation of     *)
(* ExclusiveExecution.                                                      *)
(***************************************************************************)
EXTENDS RepositoryAdmission, TLAPS

(* Changing one turn keeps the type of the turns. *)
LEMMA TurnUpdate ==
  ASSUME NEW f \in [Run -> [Session -> TurnState]],
         NEW r \in Run, NEW s \in Session, NEW v \in TurnState
  PROVE  [f EXCEPT ![r][s] = v] \in [Run -> [Session -> TurnState]]
<1> DEFINE g == [f[r] EXCEPT ![s] = v]
<1>1. g \in [Session -> TurnState]
  OBVIOUS
<1>2. [f EXCEPT ![r] = g] \in [Run -> [Session -> TurnState]]
  BY <1>1
<1> QED
  BY <1>2

(* Every variable keeps its type through acquire, the worker's turns,       *)
(* release, crash and operator recovery.                                    *)
THEOREM AdmissionTypeOK == Spec => []TypeOK
<1>1. Init => TypeOK
  BY RunAssumption DEF Init, TypeOK, Phase, TurnState
<1>2. TypeOK /\ [Next]_vars => TypeOK'
  <2> SUFFICES ASSUME TypeOK, [Next]_vars
               PROVE  TypeOK'
    OBVIOUS
  <2> USE RunAssumption DEF TypeOK, Phase, Stopped, Refused, coordination
  <2>1. ASSUME NEW r \in Run, SubmitS3(r) PROVE TypeOK'
    BY <2>1 DEF SubmitS3
  <2>2. ASSUME NEW r \in Run, CreateArrives(r) PROVE TypeOK'
    BY <2>2 DEF CreateArrives
  <2>3. ASSUME NEW r \in Run, CreateWithoutETag(r) PROVE TypeOK'
    BY <2>3 DEF CreateWithoutETag
  <2>4. ASSUME NEW r \in Run, AcquireFails(r) PROVE TypeOK'
    BY <2>4 DEF AcquireFails
  <2>5. ASSUME NEW r \in Run, ReadHolder(r) PROVE TypeOK'
    BY <2>5 DEF ReadHolder
  <2>6. ASSUME NEW r \in Run, SubmitFile(r) PROVE TypeOK'
    BY <2>6 DEF SubmitFile
  <2>7. ASSUME NEW r \in Run, SubmitFileFails(r) PROVE TypeOK'
    BY <2>7 DEF SubmitFileFails
  <2>8. ASSUME NEW r \in Run, StartWorker(r) \/ StartFails(r) PROVE TypeOK'
    BY <2>8 DEF StartWorker, StartFails
  <2>9. ASSUME NEW r \in Run, WorkerEnds(r) PROVE TypeOK'
    BY <2>9 DEF WorkerEnds
  <2>10. ASSUME NEW r \in Run, ReleaseS3(r) PROVE TypeOK'
    BY <2>10 DEF ReleaseS3
  <2>11. ASSUME NEW r \in Run, DeleteArrives(r) PROVE TypeOK'
    BY <2>11 DEF DeleteArrives
  <2>12. ASSUME NEW r \in Run, ReleaseFails(r) \/ ReleaseFile(r) PROVE TypeOK'
    BY <2>12 DEF ReleaseFails, ReleaseFile
  <2>13. ASSUME NEW r \in Run, Crash(r) PROVE TypeOK'
    <3> DEFINE g == [s \in Session |-> IF turn[r][s] = "running" THEN "lost" ELSE turn[r][s]]
    <3>1. g \in [Session -> TurnState]
      BY DEF TurnState
    <3>2. turn' = [turn EXCEPT ![r] = g]
      BY <2>13 DEF Crash
    <3>3. turn' \in [Run -> [Session -> TurnState]]
      BY <3>1, <3>2
    <3> QED
      BY <2>13, <3>3 DEF Crash
  <2>14. ASSUME NEW r \in Run, NEW s \in Session,
                DispatchTurn(r, s) \/ TurnExits(r, s) \/ TurnLost(r, s) \/ RemoteStops(r, s)
         PROVE TypeOK'
    <3>1. PICK v \in TurnState : turn' = [turn EXCEPT ![r][s] = v]
      BY <2>14 DEF DispatchTurn, TurnExits, TurnLost, RemoteStops, TurnState
    <3>2. turn' \in [Run -> [Session -> TurnState]]
      BY <3>1, TurnUpdate
    <3> QED
      BY <2>14, <3>2 DEF DispatchTurn, TurnExits, TurnLost, RemoteStops
  <2>15. CASE OperatorReleases
    BY <2>15 DEF OperatorReleases
  <2>16. CASE UNCHANGED vars
    BY <2>16 DEF vars
  <2> QED
    BY <2>1, <2>2, <2>3, <2>4, <2>5, <2>6, <2>7, <2>8, <2>9, <2>10, <2>11, <2>12,
       <2>13, <2>14, <2>15, <2>16 DEF Next
<1> QED
  BY <1>1, <1>2, PTL DEF Spec

-----------------------------------------------------------------------------
(* Every action keeps the inductive invariant.  The two delicate ones are   *)
(* the answers that arrive late: a 412's holder read, and a delete.         *)
LEMMA AdmissionInvStep ==
  ASSUME TypeOK, AdmissionInv, [Next]_vars
  PROVE  AdmissionInv'
<1> USE DEF TypeOK, Phase, Stopped, Refused, coordination, AdmissionInv, ExecutionHoldsClaim,
        NoTurnBeforeWork, LostTurnIsRecorded, GivingBackIsQuiet, DeletingIsQuiet,
        Executes, RemoteAlive
<1> USE RunAssumption
<1>1. ASSUME NEW r \in Run, SubmitS3(r) PROVE AdmissionInv'
  BY <1>1 DEF SubmitS3
<1>2. ASSUME NEW r \in Run, CreateArrives(r) PROVE AdmissionInv'
  BY <1>2 DEF CreateArrives
<1>3. ASSUME NEW r \in Run, CreateWithoutETag(r) PROVE AdmissionInv'
  BY <1>3 DEF CreateWithoutETag
<1>4. ASSUME NEW r \in Run, AcquireFails(r) PROVE AdmissionInv'
  BY <1>4 DEF AcquireFails
<1>5. ASSUME NEW r \in Run, ReadHolder(r) PROVE AdmissionInv'
  <2>1. PICK v \in Refused : phase' = [phase EXCEPT ![r] = v]
    BY <1>5 DEF ReadHolder
  <2>2. phase[r] = "reading" /\ UNCHANGED <<claim, deletes, turn, unsettled>>
    BY <1>5 DEF ReadHolder
  <2>3. \A q \in Run : Executes(q)' => Executes(q)
    BY <2>1, <2>2
  <2> QED
    BY <2>1, <2>2, <2>3
<1>6. ASSUME NEW r \in Run, SubmitFile(r) PROVE AdmissionInv'
  BY <1>6 DEF SubmitFile
<1>7. ASSUME NEW r \in Run, SubmitFileFails(r) PROVE AdmissionInv'
  BY <1>7 DEF SubmitFileFails
<1>8. ASSUME NEW r \in Run, StartWorker(r) PROVE AdmissionInv'
  BY <1>8 DEF StartWorker
<1>9. ASSUME NEW r \in Run, StartFails(r) PROVE AdmissionInv'
  BY <1>9 DEF StartFails
<1>10. ASSUME NEW r \in Run, WorkerEnds(r) PROVE AdmissionInv'
  BY <1>10 DEF WorkerEnds
<1>11. ASSUME NEW r \in Run, ReleaseS3(r) PROVE AdmissionInv'
  BY <1>11 DEF ReleaseS3
<1>12. ASSUME NEW r \in Run, DeleteArrives(r) PROVE AdmissionInv'
  <2>1. UNCHANGED <<turn, unsettled>> /\ deletes' \subseteq deletes /\ r \in deletes
    BY <1>12 DEF DeleteArrives
  <2>2. CASE UNCHANGED phase
    <3>1. ~Executes(r)
      BY <2>1
    <3>2. claim' = IF claim = r THEN NoClaim ELSE claim
      BY <1>12 DEF DeleteArrives
    <3>3. \A q \in Run : Executes(q)' <=> Executes(q)
      BY <2>1, <2>2
    <3>4. ExecutionHoldsClaim'
      BY <3>1, <3>2, <3>3
    <3> QED
      BY <2>1, <2>2, <3>4
  <2>3. CASE phase[r] = "deleting" /\ phase' = [phase EXCEPT ![r] = "released"]
    <3>1. claim' = IF claim = r THEN NoClaim ELSE claim
      BY <1>12 DEF DeleteArrives
    <3>2. ~Executes(r) /\ \A q \in Run : Executes(q)' <=> Executes(q)
      BY <2>1, <2>3
    <3>3. ExecutionHoldsClaim'
      BY <3>1, <3>2
    <3> QED
      BY <2>1, <2>3, <3>3
  <2> QED
    BY <1>12, <2>2, <2>3 DEF DeleteArrives
<1>13. ASSUME NEW r \in Run, ReleaseFails(r) PROVE AdmissionInv'
  BY <1>13 DEF ReleaseFails
<1>14. ASSUME NEW r \in Run, ReleaseFile(r) PROVE AdmissionInv'
  BY <1>14 DEF ReleaseFile
<1>15. ASSUME NEW r \in Run, Crash(r) PROVE AdmissionInv'
  BY <1>15 DEF Crash
<1>16. ASSUME NEW r \in Run, NEW s \in Session, DispatchTurn(r, s) PROVE AdmissionInv'
  BY <1>16 DEF DispatchTurn, TurnState
<1>17. ASSUME NEW r \in Run, NEW s \in Session, TurnExits(r, s) PROVE AdmissionInv'
  BY <1>17 DEF TurnExits, TurnState
<1>18. ASSUME NEW r \in Run, NEW s \in Session, TurnLost(r, s) PROVE AdmissionInv'
  BY <1>18 DEF TurnLost, TurnState
<1>19. ASSUME NEW r \in Run, NEW s \in Session, RemoteStops(r, s) PROVE AdmissionInv'
  BY <1>19 DEF RemoteStops, TurnState
<1>20. CASE OperatorReleases
  BY <1>20 DEF OperatorReleases
<1>21. CASE UNCHANGED vars
  BY <1>21 DEF vars
<1> QED
  BY <1>1, <1>2, <1>3, <1>4, <1>5, <1>6, <1>7, <1>8, <1>9, <1>10, <1>11, <1>12, <1>13,
     <1>14, <1>15, <1>16, <1>17, <1>18, <1>19, <1>20, <1>21 DEF Next

(* The inductive invariant holds: in every state a run that executes, on    *)
(* its coordinator or on a Runtime nobody waits for, is named by the store. *)
THEOREM AdmissionInvariant == Spec => []AdmissionInv
<1>1. Init => AdmissionInv
  BY RunAssumption DEF Init, AdmissionInv, ExecutionHoldsClaim, NoTurnBeforeWork,
     LostTurnIsRecorded, GivingBackIsQuiet, DeletingIsQuiet, Executes, RemoteAlive
<1>2. TypeOK /\ AdmissionInv /\ [Next]_vars => AdmissionInv'
  BY AdmissionInvStep
<1> QED
  BY <1>1, <1>2, AdmissionTypeOK, PTL DEF Spec

(* Mutual exclusion of executions, for any number of coordinators, lost     *)
(* answers and repeated requests.                                           *)
THEOREM MutualExclusion == Spec => []AtMostOneExecutes
<1>1. AdmissionInv => AtMostOneExecutes
  BY DEF AdmissionInv, ExecutionHoldsClaim, AtMostOneExecutes
<1> QED
  BY <1>1, AdmissionInvariant, PTL

-----------------------------------------------------------------------------
(* The implementation of ExclusiveExecution. *)

(* The only effect a step can have on the set of executing runs and on the  *)
(* set of begun ones: none, one run begins, or one run ends.                *)
BeginsRun(r) == /\ Executing' = Executing \cup {r} /\ ~HasBegun(r) /\ r \notin Executing
                /\ {q \in Run : HasBegun(q)'} = {q \in Run : HasBegun(q)} \cup {r}
EndsRun(r) == /\ r \in Executing /\ Executing' = Executing \ {r}
              /\ {q \in Run : HasBegun(q)'} = {q \in Run : HasBegun(q)}
Silent == /\ Executing' = Executing
          /\ {q \in Run : HasBegun(q)'} = {q \in Run : HasBegun(q)}

(* Every step of admission is silent, begins one run or ends one run. *)
LEMMA StepShape ==
  ASSUME TypeOK, AdmissionInv, [Next]_vars
  PROVE  Silent \/ \E r \in Run : BeginsRun(r) \/ EndsRun(r)
<1> DEFINE Shape == Silent \/ \E r \in Run : BeginsRun(r) \/ EndsRun(r)
<1> USE DEF Executing, HasBegun, Executes, RemoteAlive, TypeOK, Phase, Stopped, Refused,
        coordination, BeginsRun, EndsRun, Silent
<1> USE RunAssumption
<1>1. ASSUME NEW r \in Run, SubmitS3(r) PROVE Shape
  BY <1>1 DEF SubmitS3
<1>2. ASSUME NEW r \in Run, CreateArrives(r) PROVE Shape
  BY <1>2 DEF CreateArrives, AdmissionInv, NoTurnBeforeWork
<1>3. ASSUME NEW r \in Run, CreateWithoutETag(r) PROVE Shape
  BY <1>3 DEF CreateWithoutETag
<1>4. ASSUME NEW r \in Run, AcquireFails(r) PROVE Shape
  BY <1>4 DEF AcquireFails
<1>5. ASSUME NEW r \in Run, ReadHolder(r) PROVE Shape
  BY <1>5 DEF ReadHolder
<1>6. ASSUME NEW r \in Run, SubmitFile(r) PROVE Shape
  BY <1>6 DEF SubmitFile, AdmissionInv, NoTurnBeforeWork
<1>7. ASSUME NEW r \in Run, SubmitFileFails(r) PROVE Shape
  BY <1>7 DEF SubmitFileFails
<1>8. ASSUME NEW r \in Run, StartWorker(r) PROVE Shape
  BY <1>8 DEF StartWorker
<1>9. ASSUME NEW r \in Run, StartFails(r) PROVE Shape
  BY <1>9 DEF StartFails, AdmissionInv, NoTurnBeforeWork
<1>10. ASSUME NEW r \in Run, WorkerEnds(r) PROVE Shape
  BY <1>10 DEF WorkerEnds
<1>11. ASSUME NEW r \in Run, ReleaseS3(r) PROVE Shape
  BY <1>11 DEF ReleaseS3
<1>12. ASSUME NEW r \in Run, DeleteArrives(r) PROVE Shape
  BY <1>12 DEF DeleteArrives
<1>13. ASSUME NEW r \in Run, ReleaseFails(r) PROVE Shape
  BY <1>13 DEF ReleaseFails
<1>14. ASSUME NEW r \in Run, ReleaseFile(r) PROVE Shape
  BY <1>14 DEF ReleaseFile
<1>15. ASSUME NEW r \in Run, Crash(r) PROVE Shape
  BY <1>15 DEF Crash
<1>16. ASSUME NEW r \in Run, NEW s \in Session, DispatchTurn(r, s) PROVE Shape
  BY <1>16 DEF DispatchTurn, TurnState
<1>17. ASSUME NEW r \in Run, NEW s \in Session, TurnExits(r, s) PROVE Shape
  BY <1>17 DEF TurnExits, TurnState
<1>18. ASSUME NEW r \in Run, NEW s \in Session, TurnLost(r, s) PROVE Shape
  BY <1>18 DEF TurnLost, TurnState
<1>19. ASSUME NEW r \in Run, NEW s \in Session, RemoteStops(r, s) PROVE Shape
  BY <1>19 DEF RemoteStops, TurnState
<1>20. CASE OperatorReleases
  BY <1>20 DEF OperatorReleases
<1>21. CASE UNCHANGED vars
  BY <1>21 DEF vars
<1> QED
  BY <1>1, <1>2, <1>3, <1>4, <1>5, <1>6, <1>7, <1>8, <1>9, <1>10, <1>11, <1>12, <1>13,
     <1>14, <1>15, <1>16, <1>17, <1>18, <1>19, <1>20, <1>21 DEF Next

(* RepositoryAdmission implements ExclusiveExecution: what callers of submit *)
(* rely on is exactly "one at a time, each at most once".                    *)
THEOREM AdmissionImplementsExclusion == Spec => ImplementsExclusiveExecution
<1>1. Init => Exclusive!Init
  <2>1. Init => Executing = {} /\ {r \in Run : HasBegun(r)} = {}
    BY DEF Init, Executing, Executes, RemoteAlive, HasBegun
  <2> QED
    BY <2>1 DEF Exclusive!Init, OnlyOf
<1>2. TypeOK /\ AdmissionInv /\ AdmissionInv' /\ [Next]_vars => [Exclusive!Next]_(Exclusive!vars)
  <2> SUFFICES ASSUME TypeOK, AdmissionInv, AdmissionInv', [Next]_vars
               PROVE  [Exclusive!Next]_(Exclusive!vars)
    OBVIOUS
  <2>1. CASE Silent
    BY <2>1 DEF Silent, Exclusive!vars
  <2>2. ASSUME NEW r \in Run, BeginsRun(r) PROVE Exclusive!Next
    <3>1. \A q \in Executing' : q = r
      BY <2>2 DEF AdmissionInv, ExecutionHoldsClaim, Executing, BeginsRun
    <3>2. Executing = {} /\ Executing' = {r}
      BY <2>2, <3>1 DEF BeginsRun
    <3>3. OnlyOf(Executing) = Nobody /\ OnlyOf(Executing') = r
      BY <3>2 DEF OnlyOf
    <3>4. r \notin {q \in Run : HasBegun(q)}
      BY <2>2 DEF BeginsRun
    <3>5. Exclusive!Begin(r)
      BY <2>2, <3>3, <3>4 DEF Exclusive!Begin, BeginsRun, OnlyOf
    <3> QED
      BY <3>5 DEF Exclusive!Next
  <2>3. ASSUME NEW r \in Run, EndsRun(r) PROVE Exclusive!Next
    <3>1. \A q \in Executing : q = r
      BY <2>3 DEF AdmissionInv, ExecutionHoldsClaim, Executing, EndsRun
    <3>2. Executing = {r} /\ Executing' = {}
      BY <2>3, <3>1 DEF EndsRun
    <3>3. OnlyOf(Executing) = r /\ OnlyOf(Executing') = Nobody
      BY <3>2 DEF OnlyOf
    <3>4. Exclusive!End(r)
      BY <2>3, <3>3 DEF Exclusive!End, EndsRun, OnlyOf
    <3> QED
      BY <3>4 DEF Exclusive!Next
  <2> QED
    BY <2>1, <2>2, <2>3, StepShape
<1> QED
  BY <1>1, <1>2, AdmissionTypeOK, AdmissionInvariant, PTL
     DEF Spec, ImplementsExclusiveExecution, Exclusive!Spec
===============================================================================
