---------------------------- MODULE EventIntake ----------------------------
(***************************************************************************)
(* The GitHub webhook endpoint (coding-agents/pr_review/handler.py) and the  *)
(* build a /develop comment starts through it (orchestrator/chat.py).        *)
(*                                                                         *)
(* GitHub delivers a signed body, perhaps again and perhaps long after.  The *)
(* endpoint records its digest with a conditional put, hands the job to an   *)
(* asynchronous copy of itself and answers; the copy works and reports on    *)
(* GitHub.  Each remote call may fail before or after it took effect, an AWS *)
(* client may resend it, and the function may end between any two calls.     *)
(***************************************************************************)
EXTENDS Integers, Sequences, FiniteSets

CONSTANTS Event,      \* signed bodies, each for one thing that happened
          Delivery,   \* times GitHub, a person or a replay delivers one
          MaxJob      \* bound: asynchronous copies

ASSUME EventAssumption == MaxJob \in Nat

Mode == {"review", "fix", "develop"}
NoRow == -1
Window == 1           \* REPLAY_WINDOW_S, in steps of the clock
MaxNow == 3           \* bound: the clock

VARIABLES now,        \* time since the events happened
          mode,       \* per event: the job it asks for
          row,        \* per event: when its digest was recorded, or NoRow
          delivery,   \* per delivery: its event and how far the endpoint is
          lost,       \* events whose hand-off took effect and was not answered once
          job,        \* the asynchronous copies, and the session each /develop opens
          claim       \* the repository claim: the job whose session holds it, or 0

eventVars == <<now, mode, row, delivery, lost, job, claim>>

Job == 1 .. Len(job)
Building == {j \in Job : job[j].session = "building"}

EventTypeOK ==
    /\ now \in 0 .. MaxNow
    /\ mode \in [Event -> Mode]
    /\ row \in [Event -> {NoRow} \cup 0 .. MaxNow]
    /\ delivery \in [Delivery -> [event : Event, phase : {"none", "fresh", "recorded",
                                    "forgetting", "accepted", "ignored", "failed"}]]
    /\ lost \subseteq Event
    /\ \A j \in Job :
         job[j] \in [event : Event,
                     phase : {"queued", "woken", "waiting", "session", "branched",
                              "pushed", "opened", "done", "dead"},
                     session : {"none", "unsent", "asked", "clear", "refusing",
                                "building", "built", "lost"},
                     said : {"nothing", "started", "not_started", "maybe", "result"}]
    /\ claim \in 0 .. Len(job)

EventInit ==
    /\ now = 0
    /\ mode \in [Event -> Mode]
    /\ row = [e \in Event |-> NoRow]
    /\ delivery \in [Delivery -> [event : Event, phase : {"none"}]]
    /\ lost = {} /\ job = <<>> /\ claim = 0

----------------------------------------------------------------------------
(* The endpoint: handler().                                                 *)

DeliveryGoes(d, phase) == delivery' = [delivery EXCEPT ![d].phase = phase]

(* The function's own timeout is shorter than a window, so a delivery          *)
(* that was found fresh is recorded, or dies, before the clock moves.       *)
Tick ==
    /\ now < MaxNow /\ now' = now + 1
    /\ \A d \in Delivery : delivery[d].phase # "fresh"
    /\ UNCHANGED <<mode, row, delivery, lost, job, claim>>

(* A body whose event is no older than the replay window goes on.           *)
Deliver(d) ==
    /\ delivery[d].phase = "none"
    /\ DeliveryGoes(d, IF now <= Window THEN "fresh" ELSE "ignored")
    /\ UNCHANGED <<now, mode, row, lost, job, claim>>

(* first_time: the digest's conditional put.  It may fail, with or without   *)
(* effect; resent after a lost answer it meets its own row.                 *)
RecordDigest(d) ==
    LET e == delivery[d].event
        put == [row EXCEPT ![e] = IF @ = NoRow THEN now ELSE @]
    IN /\ delivery[d].phase = "fresh"
       /\ \/ row[e] = NoRow /\ row' = put /\ DeliveryGoes(d, "recorded")
          \/ row' = put /\ DeliveryGoes(d, "ignored")
          \/ row' \in {row, put} /\ DeliveryGoes(d, "failed")
       /\ UNCHANGED <<now, mode, lost, job, claim>>

RowLife == 2 * Window   \* first_time's expires

(* The table drops an expired row, some time.                               *)
Expire(e) ==
    /\ row[e] # NoRow /\ now >= row[e] + RowLife
    /\ row' = [row EXCEPT ![e] = NoRow]
    /\ UNCHANGED <<now, mode, delivery, lost, job, claim>>

Queued(e) == [event |-> e, phase |-> "queued", session |-> "none", said |-> "nothing"]

(* The hand-off: one asynchronous invocation.  It may fail with or without   *)
(* effect, and a resent one runs twice.                                     *)
HandOff(d) ==
    LET e == delivery[d].event IN
    /\ delivery[d].phase = "recorded"
    /\ \/ job' = Append(job, Queued(e)) /\ DeliveryGoes(d, "accepted") /\ UNCHANGED lost
       \/ UNCHANGED <<job, lost>> /\ DeliveryGoes(d, "forgetting")
       \/ job' = Append(job, Queued(e)) /\ DeliveryGoes(d, "forgetting") /\ lost' = lost \cup {e}
       \/ job' = job \o <<Queued(e), Queued(e)>> /\ DeliveryGoes(d, "accepted")
          /\ lost' = lost \cup {e}
    /\ Len(job') <= MaxJob
    /\ UNCHANGED <<now, mode, row, claim>>

(* forget: best effort, so that GitHub's Redeliver can try again.           *)
Forget(d) ==
    /\ delivery[d].phase = "forgetting"
    /\ row' \in {row, [row EXCEPT ![delivery[d].event] = NoRow]}
    /\ DeliveryGoes(d, "failed")
    /\ UNCHANGED <<now, mode, lost, job, claim>>

(* The function ends: a timeout, or its sandbox.                            *)
EndpointDies(d) ==
    /\ delivery[d].phase \in {"fresh", "recorded", "forgetting"}
    /\ DeliveryGoes(d, "failed")
    /\ UNCHANGED <<now, mode, row, lost, job, claim>>

----------------------------------------------------------------------------
(* The asynchronous copy.                                                   *)

CopyBecomes(j, phase, said) ==
    /\ job' = [job EXCEPT ![j].phase = phase, ![j].said = said]
    /\ UNCHANGED <<now, mode, row, delivery, lost, claim>>

CopyDoes(j, m, phase) == mode[job[j].event] = m /\ job[j].phase = phase

(* review and fix: comment, run one Runtime session, post what it said.     *)
Wake(j) == \E m \in Mode : CopyDoes(j, m, "queued") /\ CopyBecomes(j, "woken", "nothing")

RunSession(j) ==
    /\ CopyDoes(j, "review", "woken") \/ CopyDoes(j, "fix", "woken")
    /\ CopyBecomes(j, "session", "nothing")

PostReview(j) == CopyDoes(j, "review", "session") /\ CopyBecomes(j, "done", "result")

(* A fix is refused for a team build's pull request and for a fork; without  *)
(* a change it ends with a comment; else branch, files, pull request.       *)
RefuseFix(j) == CopyDoes(j, "fix", "queued") /\ CopyBecomes(j, "done", "result")
NoFix(j) == CopyDoes(j, "fix", "session") /\ CopyBecomes(j, "done", "result")

OpenFix(j) ==
    \/ CopyDoes(j, "fix", "session") /\ CopyBecomes(j, "branched", "nothing")
    \/ CopyDoes(j, "fix", "branched") /\ CopyBecomes(j, "pushed", "nothing")
    \/ CopyDoes(j, "fix", "pushed") /\ CopyBecomes(j, "opened", "nothing")
    \/ CopyDoes(j, "fix", "opened") /\ CopyBecomes(j, "done", "result")

(* develop: not the owner, not an issue, no idea, no coordinator.           *)
RefuseDevelop(j) == CopyDoes(j, "develop", "queued") /\ CopyBecomes(j, "done", "not_started")

(* start_team: one invocation of a new coordinator session, never resent.   *)
AskTeam(j) ==
    /\ CopyDoes(j, "develop", "woken")
    /\ \E s \in {"asked", "unsent"} :
         job' = [job EXCEPT ![j].phase = "waiting", ![j].session = s]
    /\ UNCHANGED <<now, mode, row, delivery, lost, claim>>

\* Slip: an invocation that failed started nothing.
TeamAnswersAnyFailure(j) ==
    /\ job[j].phase = "waiting"
    /\ \/ job[j].session \in {"building", "built", "lost"} /\ CopyBecomes(j, "done", "started")
       \/ CopyBecomes(j, "done", "not_started")

(* The answer.  Only a refusal and a request that cannot have arrived say    *)
(* that nothing was started; any other failure, however early or late, may   *)
(* have come after the build (start_failure).                               *)
TeamAnswers(j) ==
    /\ job[j].phase = "waiting"
    /\ \/ job[j].session \in {"building", "built", "lost"} /\ CopyBecomes(j, "done", "started")
       \/ job[j].session \in {"refusing", "unsent"} /\ CopyBecomes(j, "done", "not_started")
       \/ job[j].session # "unsent" /\ CopyBecomes(j, "done", "maybe")

(* A GitHub call raises, or the copy ends: it is never retried.             *)
CopyDies(j) == job[j].phase \notin {"done", "dead"} /\ CopyBecomes(j, "dead", "nothing")

----------------------------------------------------------------------------
(* The coordinator's session: chat.start_event_build.                       *)

SessionGoes(j, s, holder) ==
    /\ job' = [job EXCEPT ![j].session = s] /\ claim' = holder
    /\ UNCHANGED <<now, mode, row, delivery, lost>>

(* _running_build: a listing, not a lock; what it cannot read refuses.      *)
CheckRunning(j) ==
    /\ job[j].session = "asked"
    /\ \/ Building = {} /\ SessionGoes(j, "clear", claim)
       \/ SessionGoes(j, "refusing", claim)

\* Slip: the listing decides.
SubmitUnclaimed(j) == job[j].session = "clear" /\ SessionGoes(j, "building", j)

(* Engine.submit takes the repository's claim.  A claim that cannot be       *)
(* established may have been written all the same, and stays.               *)
Submit(j) ==
    /\ job[j].session = "clear"
    /\ \/ claim = 0 /\ SessionGoes(j, "building", j)
       \/ claim # 0 /\ SessionGoes(j, "refusing", claim)
       \/ claim = 0 /\ SessionGoes(j, "refusing", j)

BuildOver(j) ==
    /\ job[j].session = "building"
    /\ SessionGoes(j, "built", IF claim = j THEN 0 ELSE claim)

(* The Runtime reclaims the session: the build stops, its claim stays until  *)
(* a person releases it.                                                    *)
SessionLost(j) == job[j].session = "building" /\ SessionGoes(j, "lost", claim)

OperatorReleases(j) ==
    /\ claim = j /\ job[j].session \in {"lost", "refusing"}
    /\ SessionGoes(j, job[j].session, 0)

EventNext ==
    \/ Tick
    \/ \E e \in Event : Expire(e)
    \/ \E d \in Delivery : Deliver(d) \/ RecordDigest(d) \/ HandOff(d) \/ Forget(d)
                           \/ EndpointDies(d)
    \/ \E j \in Job : \/ Wake(j) \/ RunSession(j) \/ PostReview(j) \/ CopyDies(j)
                      \/ RefuseFix(j) \/ NoFix(j) \/ OpenFix(j)
                      \/ RefuseDevelop(j) \/ AskTeam(j) \/ TeamAnswers(j)
                      \/ CheckRunning(j) \/ Submit(j) \/ BuildOver(j)
                      \/ SessionLost(j) \/ OperatorReleases(j)

EventSpec == EventInit /\ [][EventNext]_eventVars

----------------------------------------------------------------------------
(* Properties.                                                              *)

(* However often and however late a body is delivered, it is acted on once,  *)
(* unless the hand-off's own answer was lost (then its row is forgotten, or  *)
(* the client resends it).                                                  *)
ActedOnOnce ==
    \A e \in Event \ lost : Cardinality({j \in Job : job[j].event = e}) <= 1

(* What the endpoint tells the issue is true, and stays true: after "did not *)
(* start a build" no session of that comment is building or still may.      *)
AnswerIsTrue ==
    \A j \in Job :
      /\ job[j].said = "not_started" => job[j].session \in {"none", "unsent", "refusing"}
      /\ job[j].said = "started" => job[j].session \in {"building", "built", "lost"}

(* Two comments whose sessions both saw an idle repository start one build.  *)
OneBuildAtATime == Cardinality(Building) <= 1

(* A replayed body starts nothing, of several comments one starts a build, and  *)
(* the issue is told nothing false: the job's outcome, its row and its session  *)
(* agree, whatever is lost on the way.                                       *)
DeliveryIsHonest == ActedOnOnce /\ AnswerIsTrue /\ OneBuildAtATime
==============================================================================
