------------------------------ MODULE GameHost ------------------------------
(***************************************************************************)
(* Publishing a copied game (orchestrator/game_host.py).  One root helper at *)
(* a time, under a file lock, replaces the shared game: it closes the public *)
(* route, stops the old game, writes the launch manifest and the units,      *)
(* starts and verifies the copy, opens the route and records it; any         *)
(* exception rolls back to the configuration saved at the start.  A deadline *)
(* or a signal may raise in any step, the process may be killed and the host *)
(* restart between any two; the game may exit at any time.                   *)
(***************************************************************************)
EXTENDS Integers, Sequences

CONSTANT MaxSnapshot        \* bound: publications

ASSUME GameAssumption == MaxSnapshot \in Nat

None == 0
Snapshot == 1 .. MaxSnapshot
Opt == {None} \cup Snapshot

VARIABLES captured,   \* snapshots taken so far; the last one is the candidate
          current,    \* current.json
          launch,     \* launch.json: the snapshot to execute
          units,      \* the service units: the snapshot whose state they mount
          nginx,      \* the route is enabled in the file; in the running nginx
          game,       \* the snapshot the game service runs, or None
          listening,  \* the proxy's socket is active
          isolated,   \* snapshots that passed verify_isolation
          op,         \* the operation that holds the lock
          report,     \* what the last operation answered
          disturbed   \* a helper was killed, or a rollback failed

hostVars == <<captured, current, launch, units, nginx, game, listening, isolated, op, report,
              disturbed>>
managed == <<current, launch, units, nginx>>
running == <<game, listening>>

Publication == [snapshot : Opt, published : BOOLEAN]
Saved == [current : Publication, launch : Opt, units : Opt, route : BOOLEAN]
Nothing == [current |-> [snapshot |-> None, published |-> FALSE],
            launch |-> None, units |-> None, route |-> FALSE]

Opening(on) == IF on THEN <<"write_on", "load_on">> ELSE <<"write_off", "load_off">>
Starting == <<"start", "ready", "verify">> \o Opening(TRUE) \o <<"origin">>

\* _publish; restore; its last resort; _unpublish; what of it the finally clause does.
PublishSteps == Opening(FALSE) \o <<"stop", "launch", "units">> \o Starting \o <<"record", "answer">>
RestoreSteps(published) == <<"stop", "files">> \o (IF published THEN Starting ELSE Opening(FALSE))
CloseSteps == <<"stop">> \o Opening(FALSE)
UnpublishSteps == Opening(FALSE) \o <<"stop", "withdraw", "answer">>

OpKind == {"none", "capture", "publish", "restore", "close", "unpublish", "abort", "install"}
NoOp == [kind |-> "none", todo |-> <<>>, saved |-> Nothing, before |-> FALSE]

GameTypeOK ==
    /\ captured \in 0 .. MaxSnapshot
    /\ current \in Publication /\ launch \in Opt /\ units \in Opt /\ game \in Opt
    /\ nginx \in [file : BOOLEAN, live : BOOLEAN]
    /\ {listening, disturbed} \subseteq BOOLEAN
    /\ isolated \subseteq 1 .. captured
    /\ op.kind \in OpKind /\ op.saved \in Saved /\ op.before \in BOOLEAN
    /\ op.kind = "none" => op = NoOp
    /\ report \in {"none", "published", "stopped", "restored", "failed"}

GameInit ==
    /\ captured = 0
    /\ current = Nothing.current /\ launch = None /\ units = None
    /\ nginx = [file |-> FALSE, live |-> FALSE]
    /\ game = None /\ listening = FALSE
    /\ isolated = {} /\ op = NoOp /\ report = "none" /\ disturbed = FALSE

----------------------------------------------------------------------------
(* Operations begin with the lock; another one is answered BUSY.            *)

Begins(kind, todo) ==
    /\ op = NoOp
    /\ op' = [NoOp EXCEPT !.kind = kind, !.todo = todo] /\ report' = "none"
    /\ UNCHANGED <<captured, managed, running, isolated, disturbed>>

(* publish copies the project first; the previous game is not interrupted.   *)
Publish == captured < MaxSnapshot /\ Begins("capture", <<"capture">>)

Unpublish == Begins("unpublish", UnpublishSteps)

(* install refuses while a service is active and leaves the route closed.    *)
Install == game = None /\ ~listening /\ Begins("install", Opening(FALSE))

StepIs(step) == op.todo # <<>> /\ Head(op.todo) = step
Onward == [op EXCEPT !.todo = Tail(@)]

OwnedConfiguration ==       \* save_owned_configuration
    [current |-> current, launch |-> launch, units |-> units, route |-> nginx.file]

Capture ==
    /\ StepIs("capture")
    /\ captured' = captured + 1
    /\ op' = [op EXCEPT !.kind = "publish", !.todo = PublishSteps, !.saved = OwnedConfiguration]
    /\ UNCHANGED <<managed, running, isolated, report, disturbed>>

(* nginx_route: the file is written, tested and loaded; a file nginx rejects  *)
(* is replaced by the one before it (Raise).                                *)
WriteRoute ==
    /\ \E on \in BOOLEAN : /\ StepIs(Opening(on)[1])
                           /\ nginx' = [nginx EXCEPT !.file = on]
    /\ op' = [Onward EXCEPT !.before = nginx.file]
    /\ UNCHANGED <<captured, current, launch, units, running, isolated, report, disturbed>>

LoadRoute ==
    /\ \E on \in BOOLEAN : StepIs(Opening(on)[2])
    /\ nginx' = [nginx EXCEPT !.live = nginx.file]
    /\ op' = Onward
    /\ UNCHANGED <<captured, current, launch, units, running, isolated, report, disturbed>>

Stop ==
    /\ StepIs("stop")
    /\ game' = None /\ listening' = FALSE /\ op' = Onward
    /\ UNCHANGED <<captured, managed, isolated, report, disturbed>>

WriteLaunch ==
    /\ StepIs("launch") /\ launch' = captured /\ op' = Onward
    /\ UNCHANGED <<captured, current, units, nginx, running, isolated, report, disturbed>>

WriteUnits ==
    /\ StepIs("units") /\ units' = captured /\ op' = Onward
    /\ UNCHANGED <<captured, current, launch, nginx, running, isolated, report, disturbed>>

(* The service executes what launch.json names, in the state its unit mounts. *)
Executed == IF launch = units THEN launch ELSE None

Start ==
    /\ StepIs("start")
    /\ game' = Executed /\ listening' = TRUE /\ op' = Onward
    /\ UNCHANGED <<captured, managed, isolated, report, disturbed>>

(* readiness: the service is active and answers, directly or by the origin.  *)
Ready ==
    /\ StepIs("ready") \/ (StepIs("origin") /\ nginx.live)
    /\ game # None /\ listening /\ op' = Onward
    /\ UNCHANGED <<captured, managed, running, isolated, report, disturbed>>

\* Slip: verify_isolation is taken on trust.
VerifyUnchecked ==
    /\ StepIs("verify") /\ op' = Onward
    /\ UNCHANGED <<captured, managed, running, isolated, report, disturbed>>

Verify ==
    /\ StepIs("verify") /\ game # None
    /\ isolated' = isolated \cup {game} /\ op' = Onward
    /\ UNCHANGED <<captured, managed, running, report, disturbed>>

RecordCurrent ==
    /\ \/ StepIs("record") /\ current' = [snapshot |-> captured, published |-> TRUE]
       \/ StepIs("withdraw") /\ current' = [current EXCEPT !.published = FALSE]
    /\ op' = Onward
    /\ UNCHANGED <<captured, launch, units, nginx, running, isolated, report, disturbed>>

(* restore rewrites the files in their order; an exception or a kill finds    *)
(* any number of them written.                                              *)
RestoreFiles ==
    /\ StepIs("files")
    /\ \E n \in 1 .. 4 :
         /\ launch' = op.saved.launch
         /\ current' = IF n >= 2 THEN op.saved.current ELSE current
         /\ nginx' = IF n >= 3 THEN [nginx EXCEPT !.file = op.saved.route] ELSE nginx
         /\ units' = IF n = 4 THEN op.saved.units ELSE units
         /\ op' = IF n = 4 THEN Onward ELSE op
    /\ UNCHANGED <<captured, running, isolated, report, disturbed>>

StatusAnswers ==
    /\ StepIs("answer") /\ op' = Onward
    /\ UNCHANGED <<captured, managed, running, isolated, report, disturbed>>

(* The operation returns or raises, and the lock is released.               *)
Outcome == CASE op.kind = "publish" -> "published"
             [] op.kind \in {"unpublish", "install"} -> "stopped"
             [] op.kind = "restore" -> "restored"
             [] OTHER -> "failed"

Finish ==
    /\ op.kind # "none" /\ op.todo = <<>>
    /\ op' = NoOp /\ report' = Outcome
    /\ UNCHANGED <<captured, managed, running, isolated, disturbed>>

----------------------------------------------------------------------------
(* Exceptions: a failed command, the deadline, a signal.  What the step did    *)
(* before stays; a rejected route file is put back; a socket may have stopped. *)

\* What follows an exception: the rollback, its last resort, a finally clause.
Handler ==
    CASE op.kind = "publish" -> [op EXCEPT !.kind = "restore",
                                           !.todo = RestoreSteps(op.saved.current.published)]
      [] op.kind = "restore" -> [op EXCEPT !.kind = "close", !.todo = CloseSteps]
      [] op.kind = "close" /\ StepIs("stop") -> [op EXCEPT !.todo = Opening(FALSE)]
      [] op.kind = "unpublish" /\ Len(op.todo) > 3 -> [op EXCEPT !.kind = "abort",
                                                                 !.todo = <<"stop">>]
      [] OTHER -> [op EXCEPT !.kind = "abort", !.todo = <<>>]

Raise ==
    /\ op.todo # <<>>
    /\ op' = Handler
    /\ \/ /\ \E on \in BOOLEAN : StepIs(Opening(on)[2])
          /\ nginx' = [nginx EXCEPT !.file = op.before]
       \/ UNCHANGED nginx
    /\ listening' \in IF StepIs("stop") THEN {listening, FALSE} ELSE {listening}
    /\ disturbed' = (disturbed \/ op.kind = "restore")
    /\ UNCHANGED <<captured, current, launch, units, game, isolated, report>>

(* A second signal, before the rollback's own try: nothing is undone.        *)
Escape ==
    /\ op.kind \in {"restore", "close"}
    /\ op.todo \in {RestoreSteps(op.saved.current.published), CloseSteps}
    /\ op' = NoOp /\ report' = "failed" /\ disturbed' = TRUE
    /\ UNCHANGED <<captured, managed, running, isolated>>

Killed ==
    /\ op # NoOp /\ op' = NoOp /\ disturbed' = TRUE
    /\ UNCHANGED <<captured, managed, running, isolated, report>>

(* The host restarts: no unit is enabled, nginx loads its file.              *)
Reboot ==
    /\ op' = NoOp /\ disturbed' = (disturbed \/ op # NoOp)
    /\ game' = None /\ listening' = FALSE /\ nginx' = [nginx EXCEPT !.live = nginx.file]
    /\ UNCHANGED <<captured, current, launch, units, isolated, report>>

(* The project's own code exits; a visitor's connection starts it again.     *)
GameExits ==
    /\ game # None /\ game' = None
    /\ UNCHANGED <<captured, managed, listening, isolated, op, report, disturbed>>

Visit ==
    /\ listening /\ nginx.live /\ game = None /\ Executed # None
    /\ game' = Executed
    /\ UNCHANGED <<captured, managed, listening, isolated, op, report, disturbed>>

GameNext ==
    \/ Publish \/ Unpublish \/ Install \/ Capture \/ WriteRoute \/ LoadRoute \/ Stop
    \/ WriteLaunch \/ WriteUnits \/ Start \/ Ready \/ Verify \/ RecordCurrent \/ RestoreFiles
    \/ StatusAnswers \/ Finish \/ Raise \/ Escape \/ Killed \/ Reboot \/ GameExits \/ Visit

GameSpec == GameInit /\ [][GameNext]_hostVars

----------------------------------------------------------------------------
(* Properties.                                                              *)

(* Whatever raises or exits, the public route never reaches a copy whose      *)
(* isolation was not verified, as long as no helper was killed and no rollback *)
(* failed: restore starts the saved game before it closes the route.         *)
PublicIsIsolated ==
    ~disturbed /\ nginx.live /\ listening /\ game # None => game \in isolated

(* Between operations, unless a helper was killed or a rollback failed, the   *)
(* route serves what current.json says is published, and is closed otherwise. *)
ServedIsCurrent ==
    op = NoOp /\ ~disturbed
      => /\ nginx.live => current.published
         /\ nginx.live /\ game # None => game = current.snapshot

(* Publication, rollback, restore and stop keep the route on the publication    *)
(* that is on record, and off one that was not verified.                     *)
RouteIsSafe == PublicIsIsolated /\ ServedIsCurrent
==============================================================================
