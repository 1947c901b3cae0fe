------------------------- MODULE RepositoryAdmission -------------------------
(***************************************************************************)
(* One admitted build per repository (orchestrator/repository_admission.py) *)
(* as the engine uses it: submit acquires the claim before it starts a      *)
(* worker, only that worker's finalizer gives it back, and a run whose       *)
(* remote role sessions are not known to have ended keeps it.               *)
(*                                                                         *)
(* Two stores can hold the claim: an S3 object created with IfNoneMatch and *)
(* deleted with IfMatch, reached over a network that loses answers, delays  *)
(* requests and (through the SDK's own retries) repeats them; or a local    *)
(* file compared and replaced under flock.  The store is fixed for a        *)
(* deployment.  Every run writes a body with a fresh nonce, so the claim is *)
(* identified with the run that wrote it.                                   *)
(***************************************************************************)
CONSTANTS Run,         \* the submissions for one repository, from any coordinator
          Session,     \* names for the remote role turns one run can start
          NoClaim,     \* the store holds no claim
          Unreadable,  \* the store holds a claim whose body is not valid
          Nobody       \* "no run executes", for the abstract specification

ASSUME RunAssumption == NoClaim \notin Run /\ Unreadable \notin Run
                        /\ NoClaim # Unreadable /\ Nobody \notin Run

VARIABLES store,      \* "s3" or "file": which store the deployment contends on
          claim,      \* the stored claim
          puts,       \* runs with a conditional create still in the network
          deletes,    \* runs with a conditional delete still in the network
          phase,      \* per run: where its coordinator is
          turn,       \* per run and session: the remote role turn
          unsettled   \* per run: it recorded an unsettled Runtime session

vars == <<store, claim, puts, deletes, phase, turn, unsettled>>
coordination == <<store, claim, puts, deletes>>

Refused == {"busy", "unavailable"}
Stopped == Refused \cup {"released", "retained", "crashed"}
Phase == {"idle", "acquiring", "reading", "holding", "working", "releasing",
          "deleting"} \cup Stopped

TurnState == {"unused", "running", "lost", "ended"}

TypeOK ==
    /\ store \in {"s3", "file"}
    /\ claim \in Run \cup {NoClaim, Unreadable}
    /\ puts \subseteq Run
    /\ deletes \subseteq Run
    /\ phase \in [Run -> Phase]
    /\ turn \in [Run -> [Session -> TurnState]]
    /\ unsettled \in [Run -> BOOLEAN]

Init ==
    /\ store \in {"s3", "file"}
    /\ claim = NoClaim
    /\ puts = {}
    /\ deletes = {}
    /\ phase = [r \in Run |-> "idle"]
    /\ turn = [r \in Run |-> [s \in Session |-> "unused"]]
    /\ unsettled = [r \in Run |-> FALSE]

-----------------------------------------------------------------------------
(* Acquiring: Engine.submit calls acquire; it answers once and never waits. *)

SubmitS3(r) ==
    /\ store = "s3"
    /\ phase[r] = "idle"
    /\ phase' = [phase EXCEPT ![r] = "acquiring"]
    /\ puts' = puts \cup {r}
    /\ UNCHANGED <<store, claim, deletes, turn, unsettled>>

(* Slip: the create without IfNoneMatch overwrites whatever is stored.       *)
CreateOverwrites(r) ==
    /\ r \in puts
    /\ puts' = puts \ {r}
    /\ claim' = r
    /\ phase[r] = "acquiring"
    /\ phase' = [phase EXCEPT ![r] = "holding"]
    /\ UNCHANGED <<store, deletes, turn, unsettled>>

(* The create reaches S3: IfNoneMatch="*" writes only an absent key.  The    *)
(* answer may be lost, and the SDK or the network may still hold a second    *)
(* copy of the request.                                                      *)
CreateArrives(r) ==
    /\ r \in puts
    /\ puts' \in {puts, puts \ {r}}
    /\ claim' = IF claim = NoClaim THEN r ELSE claim
    /\ \/ UNCHANGED phase
       \/ /\ phase[r] = "acquiring"
          /\ phase' = [phase EXCEPT ![r] = IF claim = NoClaim THEN "holding" ELSE "reading"]
    /\ UNCHANGED <<store, deletes, turn, unsettled>>

(* An answer without an ETag gives no safe release token.                    *)
CreateWithoutETag(r) ==
    /\ r \in puts
    /\ phase[r] = "acquiring"
    /\ claim = NoClaim
    /\ claim' = r
    /\ puts' = puts \ {r}
    /\ phase' = [phase EXCEPT ![r] = "unavailable"]
    /\ UNCHANGED <<store, deletes, turn, unsettled>>

(* Any other failure of the PUT, a timeout included: no worker starts and    *)
(* nothing is deleted, because the request may still take effect.            *)
AcquireFails(r) ==
    /\ store = "s3"
    /\ phase[r] = "acquiring"
    /\ phase' = [phase EXCEPT ![r] = "unavailable"]
    /\ UNCHANGED <<coordination, turn, unsettled>>

(* After a 412 the holder is read to name it; an absent or invalid claim, or *)
(* a failed read, is "unavailable" and never a second attempt.               *)
ReadHolder(r) ==
    /\ phase[r] = "reading"
    /\ \/ claim \in Run /\ phase' = [phase EXCEPT ![r] = "busy"]
       \/ phase' = [phase EXCEPT ![r] = "unavailable"]
    /\ UNCHANGED <<coordination, turn, unsettled>>

SubmitFile(r) ==
    /\ store = "file"
    /\ phase[r] = "idle"
    /\ claim' = IF claim = NoClaim THEN r ELSE claim
    /\ phase' = [phase EXCEPT ![r] = IF claim = NoClaim THEN "holding"
                                     ELSE IF claim = Unreadable THEN "unavailable"
                                     ELSE "busy"]
    /\ UNCHANGED <<store, puts, deletes, turn, unsettled>>

(* Opening, writing or syncing the file fails, or the process dies in it:    *)
(* the file may be absent, partial or complete, and no worker started.       *)
SubmitFileFails(r) ==
    /\ store = "file"
    /\ phase[r] = "idle"
    /\ claim' \in IF claim = NoClaim THEN {NoClaim, Unreadable, r} ELSE {claim}
    /\ phase' = [phase EXCEPT ![r] = "unavailable"]
    /\ UNCHANGED <<store, puts, deletes, turn, unsettled>>

-----------------------------------------------------------------------------
(* The worker and its remote role turns. *)

StartWorker(r) ==
    /\ phase[r] = "holding"
    /\ phase' = [phase EXCEPT ![r] = "working"]
    /\ UNCHANGED <<coordination, turn, unsettled>>

(* submit's except block: no worker was started, admission is given back.    *)
StartFails(r) ==
    /\ phase[r] = "holding"
    /\ phase' = [phase EXCEPT ![r] = "releasing"]
    /\ UNCHANGED <<coordination, turn, unsettled>>

DispatchTurn(r, s) ==
    /\ phase[r] = "working"
    /\ turn[r][s] = "unused"
    /\ turn' = [turn EXCEPT ![r][s] = "running"]
    /\ UNCHANGED <<coordination, phase, unsettled>>

TurnExits(r, s) ==
    /\ phase[r] = "working"
    /\ turn[r][s] = "running"
    /\ turn' = [turn EXCEPT ![r][s] = "ended"]
    /\ UNCHANGED <<coordination, phase, unsettled>>

(* The command was delivered and no exit code came back: the shell closed,   *)
(* timed out or failed.  RemoteExecutionUnsettled records the session.       *)
TurnLost(r, s) ==
    /\ phase[r] = "working"
    /\ turn[r][s] = "running"
    /\ turn' = [turn EXCEPT ![r][s] = "lost"]
    /\ unsettled' = [unsettled EXCEPT ![r] = TRUE]
    /\ UNCHANGED <<coordination, phase>>

(* A role process nobody waits for ends, by itself or stopped by an operator. *)
RemoteStops(r, s) ==
    /\ turn[r][s] = "lost"
    /\ turn' = [turn EXCEPT ![r][s] = "ended"]
    /\ UNCHANGED <<coordination, phase, unsettled>>

(* Slip: the worker gives the claim back though a session is unsettled.      *)
WorkerEndsRegardless(r) ==
    /\ phase[r] = "working"
    /\ \A s \in Session : turn[r][s] # "running"
    /\ phase' = [phase EXCEPT ![r] = "releasing"]
    /\ UNCHANGED <<coordination, turn, unsettled>>

(* _drive_bound's finally reaches _release_repository: every dispatch call   *)
(* has returned, and an unsettled session retains the claim.                 *)
WorkerEnds(r) ==
    /\ phase[r] = "working"
    /\ \A s \in Session : turn[r][s] # "running"
    /\ phase' = [phase EXCEPT ![r] = IF unsettled[r] THEN "retained" ELSE "releasing"]
    /\ UNCHANGED <<coordination, turn, unsettled>>

-----------------------------------------------------------------------------
(* Releasing. *)

ReleaseS3(r) ==
    /\ store = "s3"
    /\ phase[r] = "releasing"
    /\ phase' = [phase EXCEPT ![r] = "deleting"]
    /\ deletes' = deletes \cup {r}
    /\ UNCHANGED <<store, claim, puts, turn, unsettled>>

(* Slip: the delete without IfMatch removes whichever claim is stored.       *)
DeleteUnmatched(r) ==
    /\ r \in deletes
    /\ deletes' \in {deletes, deletes \ {r}}
    /\ claim' = NoClaim
    /\ phase' = [phase EXCEPT ![r] = IF @ = "deleting" THEN "released" ELSE @]
    /\ UNCHANGED <<store, puts, turn, unsettled>>

(* The delete reaches S3: IfMatch removes only this run's own claim.  An     *)
(* absent claim and a successor's claim are both answered as released.       *)
DeleteArrives(r) ==
    /\ r \in deletes
    /\ deletes' \in {deletes, deletes \ {r}}
    /\ claim' = IF claim = r THEN NoClaim ELSE claim
    /\ \/ UNCHANGED phase
       \/ /\ phase[r] = "deleting"
          /\ phase' = [phase EXCEPT ![r] = "released"]
    /\ UNCHANGED <<store, puts, turn, unsettled>>

ReleaseFails(r) ==
    /\ phase[r] \in {"deleting", "releasing"}
    /\ phase[r] = "releasing" => store = "file"
    /\ phase' = [phase EXCEPT ![r] = "retained"]
    /\ UNCHANGED <<coordination, turn, unsettled>>

(* Slip: the released file is left behind, empty.                            *)
ReleaseTruncates(r) ==
    /\ store = "file"
    /\ phase[r] = "releasing"
    /\ claim' = IF claim = r THEN "" ELSE claim
    /\ phase' = [phase EXCEPT ![r] = "released"]
    /\ UNCHANGED <<store, puts, deletes, turn, unsettled>>

ReleaseFile(r) ==
    /\ store = "file"
    /\ phase[r] = "releasing"
    /\ claim' = IF claim = r THEN NoClaim ELSE claim
    /\ phase' = [phase EXCEPT ![r] = "released"]
    /\ UNCHANGED <<store, puts, deletes, turn, unsettled>>

-----------------------------------------------------------------------------
(* The environment: a coordinator microVM disappears with every thread it    *)
(* had; an operator follows the module's runbook.                            *)

Crash(r) ==
    /\ phase[r] \notin Stopped \cup {"idle"}
    /\ phase' = [phase EXCEPT ![r] = IF @ \in {"acquiring", "reading"}
                                     THEN "unavailable" ELSE "crashed"]
    /\ turn' = [turn EXCEPT ![r] = [s \in Session |-> IF @[s] = "running" THEN "lost" ELSE @[s]]]
    /\ UNCHANGED <<coordination, unsettled>>

RemoteAlive(r) == \E s \in Session : turn[r][s] \in {"running", "lost"}

OperatorReleases ==
    /\ \/ claim = Unreadable
       \/ \E r \in Run : claim = r /\ phase[r] \in Stopped /\ ~RemoteAlive(r)
    /\ claim' = NoClaim
    /\ UNCHANGED <<store, puts, deletes, phase, turn, unsettled>>

Next ==
    \/ \E r \in Run :
          \/ SubmitS3(r) \/ CreateArrives(r) \/ CreateWithoutETag(r) \/ AcquireFails(r)
          \/ ReadHolder(r) \/ SubmitFile(r) \/ SubmitFileFails(r)
          \/ StartWorker(r) \/ StartFails(r) \/ WorkerEnds(r)
          \/ ReleaseS3(r) \/ DeleteArrives(r) \/ ReleaseFails(r) \/ ReleaseFile(r)
          \/ Crash(r)
    \/ \E r \in Run, s \in Session :
          DispatchTurn(r, s) \/ TurnExits(r, s) \/ TurnLost(r, s) \/ RemoteStops(r, s)
    \/ OperatorReleases

Spec == Init /\ [][Next]_vars

-----------------------------------------------------------------------------
(* Properties. *)

(* A run executes while it owns admission to work, and for as long as one of *)
(* its remote role turns is alive, whatever became of its coordinator.       *)
Executes(r) == phase[r] \in {"holding", "working"} \/ RemoteAlive(r)

(* However answers are lost, requests repeated and coordinators lost, two    *)
(* runs of one repository never execute together (module docstring, lines    *)
(* 1-15: one admitted build across coordinator sessions and entrypoints).    *)
AtMostOneExecutes == \A p, q \in Run : Executes(p) /\ Executes(q) => p = q

(* The stored claim is the evidence: nothing executes for this repository    *)
(* unless the store names it, so refusing on the stored claim is enough.     *)
ExecutionHoldsClaim == \A r \in Run : Executes(r) => claim = r

(* The strengthening that makes the two inductive: no turn precedes the      *)
(* worker; a turn lost by a live worker was recorded; a run that gives       *)
(* admission back, or has a delete in the network, has no turn alive.        *)
NoTurnBeforeWork ==
    \A r \in Run : phase[r] \in {"idle", "acquiring", "reading", "holding"} \cup Refused
        => \A s \in Session : turn[r][s] = "unused"
LostTurnIsRecorded ==
    \A r \in Run, s \in Session : phase[r] = "working" /\ turn[r][s] = "lost" => unsettled[r]
GivingBackIsQuiet ==
    \A r \in Run : phase[r] \in {"releasing", "deleting", "released"} => ~RemoteAlive(r)
DeletingIsQuiet ==
    \A r \in deletes : /\ phase[r] \in {"deleting", "released", "retained", "crashed"}
                       /\ ~RemoteAlive(r)

AdmissionInv ==
    /\ ExecutionHoldsClaim
    /\ NoTurnBeforeWork
    /\ LostTurnIsRecorded
    /\ GivingBackIsQuiet
    /\ DeletingIsQuiet

(* Admission implements the abstract promise: executions begin one at a time *)
(* and a submission is admitted at most once ("Acquire once or refuse").     *)
HasBegun(r) == phase[r] \in {"holding", "working", "releasing", "deleting",
                             "released", "retained", "crashed"}
Executing == {r \in Run : Executes(r)}
OnlyOf(S) == IF S = {} THEN Nobody ELSE CHOOSE r \in S : TRUE
Exclusive == INSTANCE ExclusiveExecution WITH
    executing <- OnlyOf(Executing),
    begun <- {r \in Run : HasBegun(r)}
ImplementsExclusiveExecution == Exclusive!Spec
===============================================================================
