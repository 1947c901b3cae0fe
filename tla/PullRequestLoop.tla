--------------------------- MODULE PullRequestLoop ---------------------------
(***************************************************************************)
(* From routed roles to a settled run: Engine._execute and Engine._finalize *)
(* (orchestrator/engine.py).  Builders run in parallel; a checker publishes *)
(* their pull requests and authors one executable check for each; under      *)
(* "auto" the checks of pull requests whose dependency has yet to merge are  *)
(* deferred, and whatever is ready is gated, reviewed and merged while the    *)
(* slower builders still work.  Finalization then takes the pull requests     *)
(* one at a time: refresh onto what merged, check, gate, review, one repair,  *)
(* merge.                                                                    *)
(*                                                                           *)
(* Items are numbered in dependency order (work_items.dependency_order).  A   *)
(* tree is the set of pull requests it contains, so a base is a subset of     *)
(* Item; a patch is its owner's version of it, one higher after every turn,   *)
(* and the base it is made against; a published head names both.             *)
(* The causes TurnCause stand for are the reasons a role turn can fail with.  *)
(***************************************************************************)
EXTENDS Integers, Sequences, FiniteSets

CONSTANTS N,          \* the number of routed builders, one pull request each
          Plans,      \* the dependency plans: functions from Item to sets of items
          TurnCause   \* why a role's turn may fail

Item == 1..N
Stop == {"ROLE_TURN_LIMIT", "MODEL_QUOTA_EXHAUSTED", "ROLE_PR_PUBLISH_ERROR"}
Cause == Stop \cup {"ROLE_EXECUTION_ERROR"}
MaxRepairs == 1      \* reviewer.MAX_REVIEW_ROUNDS
MaxBaseRefreshes == 1

ASSUME LoopAssumption ==
    /\ N \in Nat \ {0}
    /\ Plans \subseteq [Item -> SUBSET Item]
    /\ \A depends \in Plans : \A i \in Item : depends[i] \subseteq 1..(i - 1)
    /\ TurnCause \subseteq Cause \ {"ROLE_PR_PUBLISH_ERROR"}

VARIABLES
    policy,    \* the merge policy: "auto" or "human_review"
    changed,   \* a person changed it while the run was on its way
    depends,   \* the plan's dependencies
    item,      \* per pull request, its work item and its row (see WorkItem)
    role,      \* per builder: "working", "done" or the cause it failed with
    checker,   \* the checker's progress
    round,     \* which call of _execute runs, or ran last
    awaited,   \* the builders the checker waits for in this call
    todo,      \* subjects the checker has yet to write a check for
    published, \* run._published_round
    deferred,  \* run._deferred_checks
    early,     \* run._early_gates: verdicts kept for finalization
    earlyRows, \* run._early_rows: rows decided before finalization
    scope,     \* the items finalization takes
    ready,     \* those among them it may gate
    snap,      \* run.integration_base_dir: the local copy of the default branch
    landed,    \* the default branch on GitHub: what merged, in order
    last,      \* last_merged, 0 when none
    at,        \* the item finalization (or the early pass) is at
    pc,        \* where the run's worker thread is
    fail,      \* run.fail_reason
    initial,   \* run._initial_execution_failure
    status     \* run.status

schedule == <<role, checker, round, awaited, todo, published>>
branch == <<snap, landed>>
queue == <<deferred, early, earlyRows, scope, ready, last>>
outcome == <<fail, initial, status>>
settings == <<policy, changed>>
vars == <<settings, depends, item, schedule, queue, branch, at, pc, outcome>>

Verdict == {"none", "stale", "red", "finding", "unavailable", "approved"}
MergeState == {"open", "merged", "human_review", "blocked", "review_unavailable"}
RowError == Cause \cup {"", "ITERATION_CAP", "GATE_RED", "CHECK_REQUIRES_HUMAN",
    "CHECK_NOT_AUTHORED", "REVIEW_UNAVAILABLE", "MERGE_FAILED", "ROLE_PR_REFRESH_ERROR",
    "STALE_PATCH_EMPTY_REFRESH", "STALE_PATCH_REFRESH_CAP"}

WorkItem == [version: Nat, base: SUBSET Item,   \* the patch, and the base it is against
             head: Nat \X SUBSET Item,          \* the recorded head commit (version 0: none)
             pr: BOOLEAN,                       \* the pull request is open
             check: Nat,                        \* the executable the gate runs, 0 when none
             kept: Nat, keptOn: SUBSET Item,    \* the kept executable, the base it was written on
             verdict: Verdict,                  \* the last gate and review
             judged: Nat, on: SUBSET Item,      \* the version it judged, and the tree under it
             merge: MergeState, error: RowError,
             repairs: Nat, refreshes: Nat]

TypeOK ==
    /\ policy \in {"auto", "human_review"}
    /\ changed \in BOOLEAN
    /\ depends \in Plans
    /\ item \in [Item -> WorkItem]
    /\ role \in [Item -> {"working", "done"} \cup Cause]
    /\ checker \in {"pending", "working", "done", "blocked"} \cup Cause
    /\ round \in {"initial", "deferred", "refresh", "repair"}
    /\ awaited \subseteq Item /\ todo \subseteq Item /\ published \subseteq Item
    /\ deferred \subseteq Item /\ early \subseteq Item /\ earlyRows \subseteq Item
    /\ scope \subseteq Item /\ ready \subseteq Item /\ snap \subseteq Item
    /\ landed \in Seq(Item)
    /\ last \in 0..N
    /\ at \in 1..(N + 1)
    /\ pc \in {"execute", "early", "join", "closing", "item", "check", "judge", "decide", "rejudge", "settled"}
    /\ fail \in Cause \cup {"", "ROLE_PR_BLOCKED", "REVIEW_UNAVAILABLE"}
    /\ initial \in Cause \cup {""}
    /\ status \in {"running", "passed", "needs_human", "failed"}

-----------------------------------------------------------------------------
(* One call of _execute: which builders it runs, and what its checker writes. *)

Active == IF round = "initial" THEN Item ELSE IF round = "deferred" THEN {} ELSE {at}
Partial == awaited # Active
Failed(i) == role[i] \in Cause
Pending(S) == {i \in S : item[i].merge # "merged"}
CheckerFinished == checker \notin {"pending", "working"}
BuildersFinished == \A i \in Item : role[i] # "working"

(* Under auto merge a dependency that is still to merge moves this base.     *)
ChecksWaiting(i) ==
    /\ policy = "auto"
    /\ \E d \in depends[i] : item[d].merge \notin {"merged", "blocked"} /\ ~Failed(d)

(* The builders whose checks come later; when that is some of them but not    *)
(* all, the checker waits only for the others (a builder counts as failed     *)
(* only by an earlier call: all of this call's are still to start).           *)
AwaitedOf(S) == LET later == {i \in S : ChecksWaiting(i)}
                IN  IF later = S THEN S ELSE S \ later

Init ==
    /\ policy \in {"auto", "human_review"}
    /\ changed = FALSE
    /\ depends \in Plans
    /\ item = [i \in Item |-> [version |-> 0, base |-> {}, head |-> <<0, {}>>, pr |-> FALSE,
                               check |-> 0, kept |-> 0, keptOn |-> {}, verdict |-> "none",
                               judged |-> 0, on |-> {}, merge |-> "open", error |-> "",
                               repairs |-> 0, refreshes |-> 0]]
    /\ role = [i \in Item |-> "working"]
    /\ checker = "pending"
    /\ round = "initial"
    /\ awaited = AwaitedOf(Item)
    /\ todo = {} /\ published = {} /\ deferred = {} /\ early = {} /\ earlyRows = {}
    /\ scope = {} /\ ready = {}
    /\ snap = {}
    /\ landed = <<>>
    /\ last = 0
    /\ at = 1
    /\ pc = "execute"
    /\ fail = "" /\ initial = "" /\ status = "running"

(* A later call of _execute, from finalization, for one pull request.        *)
StartRound(kind, S) ==
    /\ round' = kind
    /\ role' = [i \in Item |-> IF i \in S THEN "working" ELSE role[i]]
    /\ checker' = IF S = {} THEN "working" ELSE "pending"
    /\ awaited' = S
    /\ todo' = IF S = {} THEN {at} ELSE {}
    /\ published' = {}
    /\ pc' = "execute"

-----------------------------------------------------------------------------
(* The roles' turns. *)

(* A builder's turn ends with a non-empty patch, or it fails.                *)
BuilderEnds(i) ==
    /\ role[i] = "working"
    /\ \/ /\ role' = [role EXCEPT ![i] = "done"]
          /\ item' = [item EXCEPT ![i].version = @ + 1]
       \/ /\ \E c \in TurnCause : role' = [role EXCEPT ![i] = c]
          /\ UNCHANGED item
    /\ UNCHANGED <<settings, depends, checker, round, awaited, todo, published, queue, branch,
                   at, pc, outcome>>

(* Slip: the join waits for builders to succeed instead of to end.           *)
CheckerAwaitsSuccess == /\ pc = "execute" /\ checker = "pending"
                        /\ \A i \in awaited : role[i] = "done"

CheckerMayStart == pc = "execute" /\ checker = "pending" /\ \A i \in awaited : role[i] # "working"

AllBuildersFailed == Pending(Active) # {} /\ \A i \in Pending(Active) : Failed(i)

CheckerBlocked ==
    /\ CheckerMayStart
    /\ AllBuildersFailed
    /\ checker' = "blocked"
    /\ UNCHANGED <<settings, depends, item, role, round, awaited, todo, published, queue, branch,
                   at, pc, outcome>>

(* The phase budget runs out before the checker's node starts.               *)
CheckerNeverStarts ==
    /\ CheckerMayStart
    /\ ~Partial
    /\ checker' = "ROLE_EXECUTION_ERROR"
    /\ UNCHANGED <<settings, depends, item, role, round, awaited, todo, published, queue, branch,
                   at, pc, outcome>>

Unpublished == {i \in Active : role[i] = "done" /\ i \notin published}
Patch(i) == <<item[i].version, item[i].base>>
Publish(S) == [i \in Item |-> IF i \in S THEN [item[i] EXCEPT !.head = Patch(i), !.pr = TRUE]
                              ELSE item[i]]
(* Publication goes in dependency order and stops at the first refusal, which *)
(* may come after the commit, and after the pull request opened.             *)
PublishUpTo(f, h, o) == [Publish({i \in Unpublished : i < f}) EXCEPT
                            ![f].head = h, ![f].pr = @ \/ o]

(* The checker publishes what is finished, then picks the subjects it writes  *)
(* a check for and forgets their previous ones.                              *)
CheckerStarts ==
    /\ CheckerMayStart
    /\ ~AllBuildersFailed
    /\ LET candidates == Pending(Active)
           waiting == {i \in candidates : ChecksWaiting(i)}
           subjects == candidates \ waiting
           posted == Publish(Unpublished)
       IN /\ deferred' = deferred \cup waiting
          /\ todo' = {i \in subjects : ~Failed(i)}
          /\ item' = [i \in Item |-> IF i \in subjects THEN [posted[i] EXCEPT !.check = 0]
                                     ELSE posted[i]]
    /\ published' = published \cup Unpublished
    /\ checker' = "working"
    /\ UNCHANGED <<settings, depends, role, round, awaited, early, earlyRows, scope, ready, last,
                   branch, at, pc, outcome>>

CheckerCannotPublish ==
    /\ CheckerMayStart
    /\ ~AllBuildersFailed
    /\ \E f \in Unpublished : \E h \in {item[f].head, Patch(f)}, o \in BOOLEAN :
          /\ o => h = Patch(f)
          /\ item' = PublishUpTo(f, h, o)
          /\ published' = published \cup {i \in Unpublished : i <= f}
    /\ checker' = "ROLE_PR_PUBLISH_ERROR"
    /\ UNCHANGED <<settings, depends, role, round, awaited, todo, queue, branch, at, pc, outcome>>

Reusable(i) == item[i].kept # 0 /\ item[i].keptOn = snap

(* One subject: the kept executable is run again when the base is the one it  *)
(* was written on; otherwise it is authored now and kept.                    *)
CheckWritten ==
    /\ checker = "working"
    /\ \E i \in todo :
          /\ \A j \in todo : i <= j
          /\ todo' = todo \ {i}
          /\ LET executable == IF Reusable(i) THEN item[i].kept ELSE item[i].kept + 1
             IN item' = [item EXCEPT ![i].check = executable, ![i].kept = executable,
                                     ![i].keptOn = snap]
    /\ UNCHANGED <<settings, depends, role, checker, round, awaited, published, queue, branch,
                   at, pc, outcome>>

CheckerEnds ==
    /\ checker = "working"
    /\ \/ todo = {} /\ checker' = "done" /\ UNCHANGED todo
       \/ todo # {} /\ checker' \in TurnCause /\ todo' = {}
    /\ UNCHANGED <<settings, depends, item, role, round, awaited, published, queue, branch,
                   at, pc, outcome>>

-----------------------------------------------------------------------------
(* Gate, review and merge of one pull request. *)

(* The gate builds the pull request's tree on the local base.  A patch made   *)
(* on an older base may conflict; anything else is red, or green with a       *)
(* review that approves, asks for changes or does not answer.  A pull request *)
(* with no executable is red.                                                *)
VerdictsOf(i) == {"red"} \cup (IF item[i].check = 0 THEN {}
                               ELSE {"finding", "unavailable", "approved"})
                 \cup (IF item[i].check # 0 /\ item[i].base # snap THEN {"stale"} ELSE {})
Judge(i, v) == [item[i] EXCEPT !.verdict = v, !.judged = item[i].version, !.on = snap,
                               !.merge = IF v = "unavailable" THEN "review_unavailable" ELSE @]
Block(w, e) == [w EXCEPT !.merge = "blocked", !.error = e]

(* What acting on an approved work item w does: leave it to a person, or      *)
(* merge the recorded head.  GitHub may refuse; it may merge and the answer,  *)
(* or the snapshot of the moved branch, may fail.                            *)
LeavesForPerson(i, w) ==
    /\ policy = "human_review"
    /\ item' = [item EXCEPT ![i] = [w EXCEPT !.merge = "human_review"]]
    /\ UNCHANGED branch
MergeRefused(i, w) ==
    /\ policy = "auto"
    /\ item' = [item EXCEPT ![i] = Block(w, "MERGE_FAILED")]
    /\ UNCHANGED branch
MergedUnseen(i, w) ==
    /\ policy = "auto" /\ w.pr /\ w.head[1] # 0
    /\ landed' = Append(landed, i)
    /\ item' = [item EXCEPT ![i] = Block(w, "MERGE_FAILED")]
    /\ UNCHANGED snap
Merged(i, w) ==
    /\ policy = "auto" /\ w.pr /\ w.head[1] # 0
    /\ landed' = Append(landed, i)
    /\ snap' = {landed'[k] : k \in 1..Len(landed')}
    /\ item' = [item EXCEPT ![i] = [w EXCEPT !.merge = "merged"]]
MergeIfPolicyAllows(i, w) ==
    LeavesForPerson(i, w) \/ MergeRefused(i, w) \/ MergedUnseen(i, w) \/ Merged(i, w)

-----------------------------------------------------------------------------
(* The early pass, and the end of the first _execute. *)

(* The policy is read once when the pass starts, and again before each merge.  *)
EarlyPassStarts ==
    /\ pc = "execute" /\ Partial /\ CheckerFinished
    /\ pc' = IF policy = "auto" THEN "early" ELSE "join"
    /\ UNCHANGED <<settings, depends, item, schedule, queue, branch, at, outcome>>

EarlyPass == pc = "early"

EarlyEligible(i) ==
    /\ item[i].check # 0 /\ i \notin deferred /\ role[i] = "done" /\ item[i].pr
    /\ \A d \in depends[i] : item[d].merge = "merged"

EarlyMerge ==
    /\ EarlyPass
    /\ at <= N /\ EarlyEligible(at) /\ "approved" \in VerdictsOf(at)
    /\ MergeIfPolicyAllows(at, Judge(at, "approved"))
    /\ earlyRows' = earlyRows \cup {at}
    /\ IF item'[at].merge = "merged" THEN at' = at + 1 /\ UNCHANGED pc
                                     ELSE pc' = "join" /\ UNCHANGED at
    /\ UNCHANGED <<settings, depends, schedule, deferred, early, scope, ready, last, outcome>>

(* Slip: the early pass goes on after a verdict it has to keep.              *)
EarlyRejectContinues ==
    /\ EarlyPass
    /\ at <= N /\ EarlyEligible(at)
    /\ \E v \in VerdictsOf(at) \ {"approved"} : item' = [item EXCEPT ![at] = Judge(at, v)]
    /\ early' = early \cup {at}
    /\ at' = at + 1
    /\ UNCHANGED <<settings, depends, schedule, deferred, earlyRows, scope, ready, last, branch,
                   pc, outcome>>

(* The first verdict that is not an approval is kept for finalization.       *)
EarlyReject ==
    /\ EarlyPass
    /\ at <= N /\ EarlyEligible(at)
    /\ \E v \in VerdictsOf(at) \ {"approved"} : item' = [item EXCEPT ![at] = Judge(at, v)]
    /\ early' = early \cup {at}
    /\ pc' = "join"
    /\ UNCHANGED <<settings, depends, schedule, deferred, earlyRows, scope, ready, last, branch,
                   at, outcome>>

(* Nothing more is eligible, or a gate did not complete.                     *)
EarlyStops ==
    /\ EarlyPass
    /\ pc' = "join"
    /\ UNCHANGED <<settings, depends, item, schedule, queue, branch, at, outcome>>

(* What the slower builders made is published when the graph has drained; a   *)
(* refusal there, or a graph that raised, is only logged.                    *)
PublishRest ==
    /\ pc = "join"
    /\ BuildersFinished
    /\ \/ item' = Publish(Unpublished) /\ published' = published \cup Unpublished
       \/ \E f \in Unpublished : \E h \in {item[f].head, Patch(f)}, o \in BOOLEAN :
             /\ o => h = Patch(f)
             /\ item' = PublishUpTo(f, h, o)
             /\ published' = published \cup {i \in Unpublished : i <= f}
       \/ UNCHANGED <<item, published>>
    /\ pc' = "closing"
    /\ UNCHANGED <<settings, depends, role, checker, round, awaited, todo, queue, branch, at, outcome>>

ExecuteEnds == \/ pc = "closing"
               \/ pc = "execute" /\ ~Partial /\ CheckerFinished /\ BuildersFinished

Errors == ({role[i] : i \in Active} \cup {checker}) \cap Cause
Reason == IF "ROLE_TURN_LIMIT" \in Errors THEN "ROLE_TURN_LIMIT"
          ELSE IF "ROLE_PR_PUBLISH_ERROR" \in Errors THEN "ROLE_PR_PUBLISH_ERROR"
          ELSE IF "MODEL_QUOTA_EXHAUSTED" \in Errors THEN "MODEL_QUOTA_EXHAUSTED"
          ELSE "ROLE_EXECUTION_ERROR"
(* Slip: an open pull request is taken to be checkable.                      *)
OpenPullRequests == {i \in Item : role[i] = "done" /\ item[i].pr}

Checkable == {i \in Item : role[i] = "done" /\ item[i].pr
                           /\ (item[i].check # 0 \/ i \in deferred)}

InitialExecuteEnds ==
    /\ ExecuteEnds
    /\ round = "initial"
    /\ IF Errors # {} /\ Checkable = {}
       THEN /\ status' = IF Reason = "ROLE_TURN_LIMIT" THEN "needs_human" ELSE "failed"
            /\ fail' = Reason
            /\ pc' = "settled"
            /\ UNCHANGED <<initial, scope, ready>>
       ELSE /\ initial' = IF Errors = {} THEN "" ELSE Reason
            /\ scope' = IF Errors = {} THEN Item ELSE {i \in Item : item[i].pr}
            /\ ready' = IF Errors = {} THEN Item ELSE Checkable
            /\ pc' = "item"
            /\ UNCHANGED <<status, fail>>
    /\ at' = 1
    /\ UNCHANGED <<settings, depends, item, schedule, deferred, early, earlyRows, last, branch>>

-----------------------------------------------------------------------------
(* Finalization: one pull request at a time, in dependency order. *)

NextItem == at' = at + 1 /\ pc' = "item"
At(place) == pc = place /\ at <= N
Verdicts == VerdictsOf(at) \ {"approved"}

(* Not a pull request of this finalization, or its row is already decided.   *)
TakeEarlyRow ==
    /\ At("item")
    /\ at \notin scope \/ at \in earlyRows
    /\ last' = IF item[at].merge = "merged" THEN at ELSE last
    /\ NextItem
    /\ UNCHANGED <<settings, depends, item, schedule, deferred, early, earlyRows, scope, ready,
                   branch, outcome>>

(* Its turn or its check failed in the first execution: no verdict.          *)
BlockUnready ==
    /\ At("item")
    /\ at \in scope \ (earlyRows \cup ready)
    /\ item' = [item EXCEPT ![at] = Block(@, initial)]
    /\ NextItem
    /\ UNCHANGED <<settings, depends, schedule, queue, branch, outcome>>

ToCheck == At("item") /\ at \in (scope \cap ready) \ earlyRows

NothingMergedYet ==
    /\ ToCheck
    /\ last = 0
    /\ pc' = "check"
    /\ UNCHANGED <<settings, depends, item, schedule, queue, branch, at, outcome>>

(* A sibling merged: a clean rebase is republished without an owner turn.    *)
(* The gate and the rebase compare the same three trees, so a verdict of the *)
(* early pass tells which of the two it is.                                  *)
Rebased == [item[at] EXCEPT !.base = snap]
MayRebaseCleanly == at \in early => item[at].verdict # "stale"
MayConflict == at \in early => item[at].verdict = "stale"

(* Slip: the rebased patch is not published again before its gate.           *)
RefreshKeepsHead ==
    /\ ToCheck
    /\ last # 0 /\ MayRebaseCleanly
    /\ item' = [item EXCEPT ![at] = Rebased]
    /\ pc' = "check"
    /\ UNCHANGED <<settings, depends, schedule, queue, branch, at, outcome>>

RefreshClean ==
    /\ ToCheck
    /\ last # 0 /\ MayRebaseCleanly
    /\ item' = [item EXCEPT ![at] = [Rebased EXCEPT !.head = <<item[at].version, snap>>, !.pr = TRUE]]
    /\ pc' = "check"
    /\ UNCHANGED <<settings, depends, schedule, queue, branch, at, outcome>>

RefreshRefused ==
    /\ ToCheck
    /\ last # 0 /\ MayRebaseCleanly
    /\ \E e \in {"ROLE_PR_REFRESH_ERROR", "STALE_PATCH_EMPTY_REFRESH"} :
          item' = [item EXCEPT ![at] = Block(Rebased, e)]
    /\ NextItem
    /\ UNCHANGED <<settings, depends, schedule, queue, branch, outcome>>

(* A conflict sends the owner one bounded refresh turn on the new base.      *)
RefreshConflicts ==
    /\ ToCheck
    /\ last # 0 /\ MayConflict
    /\ IF item[at].refreshes >= MaxBaseRefreshes
       THEN /\ item' = [item EXCEPT ![at] = Block(Rebased, "STALE_PATCH_REFRESH_CAP")]
            /\ NextItem
            /\ UNCHANGED schedule
       ELSE /\ item' = [item EXCEPT ![at] = [Rebased EXCEPT !.refreshes = @ + 1]]
            /\ StartRound("refresh", {at})
            /\ UNCHANGED at
    /\ UNCHANGED <<settings, depends, queue, branch, outcome>>

LaterExecuteEnds(kind) ==
    /\ ExecuteEnds
    /\ round = kind
    /\ fail' = IF Errors = {} THEN fail ELSE Reason
    /\ UNCHANGED <<settings, depends, schedule, branch, initial, status>>

RefreshEnds ==
    /\ LaterExecuteEnds("refresh")
    /\ IF Errors = {}
       THEN pc' = "check" /\ UNCHANGED <<item, at>>
       ELSE /\ item' = [item EXCEPT ![at] = Block(@, Reason)]
            /\ NextItem
    /\ UNCHANGED queue

AuthorDeferredCheck ==
    /\ At("check")
    /\ at \in deferred /\ item[at].check = 0
    /\ deferred' = deferred \ {at}
    /\ StartRound("deferred", {})
    /\ UNCHANGED <<settings, depends, item, early, earlyRows, scope, ready, last, branch, at, outcome>>

DeferredCheckEnds ==
    /\ LaterExecuteEnds("deferred")
    /\ IF item[at].check # 0
       THEN pc' = "judge" /\ UNCHANGED <<item, at>>
       ELSE /\ item' = [item EXCEPT ![at] = Block(@, IF fail' = "" THEN "CHECK_NOT_AUTHORED" ELSE fail')]
            /\ NextItem
    /\ UNCHANGED queue

ToJudge == At("judge") \/ (At("check") /\ (at \notin deferred \/ item[at].check # 0))

(* The early pass already judged it: act on that verdict.                    *)
UseEarlyVerdict ==
    /\ ToJudge
    /\ at \in early
    /\ early' = early \ {at}
    /\ pc' = "decide"
    /\ UNCHANGED <<settings, depends, item, schedule, deferred, earlyRows, scope, ready, last, branch,
                   at, outcome>>

GateAndReview ==
    /\ ToJudge
    /\ at \notin early
    /\ \E v \in VerdictsOf(at) : item' = [item EXCEPT ![at] = Judge(at, v)]
    /\ pc' = "decide"
    /\ UNCHANGED <<settings, depends, schedule, queue, branch, at, outcome>>

Approved ==
    /\ At("decide")
    /\ item[at].verdict = "approved"
    /\ MergeIfPolicyAllows(at, item[at])
    /\ last' = IF item'[at].merge = "merged" THEN at ELSE last
    /\ NextItem
    /\ UNCHANGED <<settings, depends, schedule, deferred, early, earlyRows, scope, ready, outcome>>

ReviewUnavailable ==
    /\ At("decide")
    /\ item[at].merge = "review_unavailable"
    /\ item' = [item EXCEPT ![at].error = "REVIEW_UNAVAILABLE"]
    /\ NextItem
    /\ UNCHANGED <<settings, depends, schedule, queue, branch, outcome>>

NeedsRepair == At("decide") /\ item[at].verdict # "approved" /\ item[at].merge # "review_unavailable"

MayRepair == item[at].repairs < MaxRepairs
Tried == [item[at] EXCEPT !.repairs = @ + 1]

(* The credit is spent, or triage finds nothing for the owner to change.     *)
RepairStops ==
    /\ item' = [item EXCEPT ![at] =
                   IF ~MayRepair THEN Block(@, "ITERATION_CAP")
                   ELSE Block(Tried,
                              IF fail \in Stop THEN fail ELSE "CHECK_REQUIRES_HUMAN")]
    /\ NextItem
    /\ UNCHANGED schedule

(* Slip: the owner's turn does not use up the credit.                        *)
RepairUncounted ==
    /\ MayRepair
    /\ UNCHANGED <<item, at>>
    /\ StartRound("repair", {at})

RepairGoesToOwner ==
    /\ MayRepair
    /\ item' = [item EXCEPT ![at] = Tried]
    /\ StartRound("repair", {at})
    /\ UNCHANGED at

Repair ==
    /\ NeedsRepair
    /\ RepairStops \/ RepairGoesToOwner
    /\ UNCHANGED <<settings, depends, queue, branch, outcome>>

RepairEnds ==
    /\ LaterExecuteEnds("repair")
    /\ IF Errors = {}
       THEN pc' = "rejudge" /\ UNCHANGED <<item, at>>
       ELSE /\ item' = [item EXCEPT ![at] = Block(@, Reason)]
            /\ NextItem
    /\ UNCHANGED queue

(* After the repair there is one more gate and review, and no more credit.   *)
RejudgeApproves ==
    /\ At("rejudge")
    /\ "approved" \in VerdictsOf(at)
    /\ item' = [item EXCEPT ![at] = Judge(at, "approved")]
    /\ pc' = "decide"
    /\ UNCHANGED <<settings, depends, schedule, queue, branch, at, outcome>>

RejudgeRejects ==
    /\ At("rejudge")
    /\ \E v \in Verdicts :
          item' = [item EXCEPT ![at] = Block(Judge(at, v),
                       IF v \in {"red", "stale"} THEN "GATE_RED" ELSE "ITERATION_CAP")]
    /\ NextItem
    /\ UNCHANGED <<settings, depends, schedule, queue, branch, outcome>>

InState(S) == {i \in scope : item[i].merge \in S}
RowSays(e) == \E i \in scope : item[i].error = e

(* Slip: one merged pull request is enough, whatever became of the others.    *)
AnswerIfAnyLanded ==
    IF initial = "ROLE_TURN_LIMIT" \/ RowSays("ROLE_TURN_LIMIT") THEN "ROLE_TURN_LIMIT"
    ELSE IF InState({"merged", "human_review"}) = {} THEN "ROLE_PR_BLOCKED"
    ELSE "passed"

(* The run's answer; the first reason that applies is the one a person reads. *)
Answer ==
    IF initial = "ROLE_TURN_LIMIT" \/ RowSays("ROLE_TURN_LIMIT") THEN "ROLE_TURN_LIMIT"
    ELSE IF RowSays("MODEL_QUOTA_EXHAUSTED") THEN "MODEL_QUOTA_EXHAUSTED"
    ELSE IF initial # "" THEN initial
    ELSE IF InState({"blocked"}) # {} THEN "ROLE_PR_BLOCKED"
    ELSE IF InState({"review_unavailable"}) # {} THEN "REVIEW_UNAVAILABLE"
    ELSE IF InState({"merged", "human_review"}) = {} THEN "ROLE_PR_BLOCKED"
    ELSE "passed"

(* Slip: a blocked run is settled with the code of the row that blocked it.   *)
SettleRunWithRow ==
    /\ pc = "item" /\ at = N + 1
    /\ status' = IF Answer = "passed" THEN "passed" ELSE "needs_human"
    /\ fail' = IF Answer = "passed" THEN fail
               ELSE IF Answer # "ROLE_PR_BLOCKED" THEN Answer
               ELSE item[CHOOSE i \in scope : item[i].merge = "blocked"].error
    /\ pc' = "settled"
    /\ UNCHANGED <<settings, depends, item, schedule, queue, branch, at, initial>>

SettleRun ==
    /\ pc = "item" /\ at = N + 1
    /\ status' = IF Answer = "passed" THEN "passed" ELSE "needs_human"
    /\ fail' = IF Answer = "passed" THEN fail ELSE Answer
    /\ pc' = "settled"
    /\ UNCHANGED <<settings, depends, item, schedule, queue, branch, at, initial>>

Run ==
    \/ \E i \in Item : BuilderEnds(i)
    \/ CheckerBlocked \/ CheckerNeverStarts \/ CheckerStarts \/ CheckerCannotPublish
    \/ CheckWritten \/ CheckerEnds
    \/ EarlyPassStarts \/ EarlyMerge \/ EarlyReject \/ EarlyStops \/ PublishRest \/ InitialExecuteEnds
    \/ TakeEarlyRow \/ BlockUnready \/ NothingMergedYet
    \/ RefreshClean \/ RefreshRefused \/ RefreshConflicts \/ RefreshEnds
    \/ AuthorDeferredCheck \/ DeferredCheckEnds
    \/ UseEarlyVerdict \/ GateAndReview
    \/ Approved \/ ReviewUnavailable \/ Repair \/ RepairEnds
    \/ RejudgeApproves \/ RejudgeRejects \/ SettleRun

(* A person changes how reviewed pull requests finish, at any time (once).    *)
SetMergePolicy ==
    /\ pc # "settled"
    /\ ~changed /\ changed' = TRUE
    /\ policy' \in {"auto", "human_review"} \ {policy}
    /\ UNCHANGED <<depends, item, schedule, queue, branch, at, pc, outcome>>

Next == Run \/ SetMergePolicy

Spec == Init /\ [][Next]_vars /\ WF_vars(Run)

-----------------------------------------------------------------------------
(* Properties. *)

(* Whatever reached the default branch is, byte for byte, what was published, *)
(* gated green and approved, on a tree that held every pull request the run   *)
(* had recorded as merged before it (_merge_work_item, _gate_one_pull_request,*)
(* _assess_pull_request: rebases, repairs, the early pass and lost publishes  *)
(* may all come in between).                                                 *)
Judged(w) == w.verdict = "approved" /\ w.judged = w.version
Posted(w) == w.pr /\ w.head = <<w.version, w.base>>
Proven(w) == Judged(w) /\ Posted(w)
MergedWasProven ==
    \A k \in 1..Len(landed) :
        /\ Proven(item[landed[k]])
        /\ \A j \in 1..(k - 1) : item[landed[j]].merge = "merged" => landed[j] \in item[landed[k]].on

(* Merges follow the dependency order, once each, though two passes merge     *)
(* (_finalize_ready_early stops at the first pull request it must skip).     *)
MergesInDependencyOrder ==
    \A j, k \in 1..Len(landed) : j < k => landed[j] < landed[k]

(* "passed" is the statement that every routed builder's pull request is open *)
(* or merged with a green check and an approval of its current bytes; a run   *)
(* with any other outcome asks for a person (_settle_run).  That it is on     *)
(* GitHub as well takes a policy that stays as it is (see PassedMeansOpen).   *)
PassedMeansProven ==
    status = "passed" => \A i \in Item : /\ item[i].merge \in {"merged", "human_review"}
                                         /\ Judged(item[i])
                                         /\ changed \/ Posted(item[i])

(* No pull request is judged without an executable written for it: there is   *)
(* no fallback grade, whichever round forgot, deferred or failed to write it. *)
JudgedHasCheck == \/ ToJudge /\ at \notin early
                  \/ At("rejudge")
                  => item[at].check # 0

(* A pull request has one executable per base it stood on: a second one is    *)
(* written only after a sibling moved the branch, never because a repair      *)
(* changed the code it judges (validator's reuse rule, _prior_check).        *)
OneCheckPerBase == \A i \in Item : item[i].kept <= 1 \/ (item[i].kept = 2 /\ item[i].keptOn # {})

(* The executable that judges is the one its pull request is due: one written    *)
(* for it, and the same until its base moves (_author_acceptance_test).       *)
CheckIsDue == JudgedHasCheck /\ OneCheckPerBase

(* At most one refresh and one repair for each pull request, and no owner     *)
(* turn beside them and the first: "this can never become re-entrant" (_finalize).   *)
BoundedWork == \A i \in Item : /\ item[i].repairs <= MaxRepairs
                               /\ item[i].refreshes <= MaxBaseRefreshes
                               /\ item[i].version <= 1 + item[i].refreshes + item[i].repairs

(* The loop keeps the promise ProvenDelivery states, with the patch each merge   *)
(* sent to GitHub as the content of the branch: whoever rebases, republishes,  *)
(* repairs or retries, an approved patch stays as it was approved, what merged *)
(* is that patch, and the branch grows in dependency order (_finalize,         *)
(* _finalize_ready_early, _merge_work_item, _settle_run).                     *)
Delivery == INSTANCE ProvenDelivery WITH
    offered <- [i \in Item |-> Patch(i)],
    approved <- {i \in Item : Judged(item[i])},
    branch <- [k \in 1..Len(landed) |-> <<landed[k], item[landed[k]].head>>],
    answer <- status
ImplementsProvenDelivery == Delivery!Spec

(* Every run reaches its verdict: no join, deferral or refresh strands it.   *)
RunSettles == <>(pc = "settled")

-----------------------------------------------------------------------------
(* What comments in the engine say and the code does not keep. *)

(* "the verdict rules are exactly finalization's; only the time they run      *)
(* moves" (_finalize_ready_early): a repair is spent on evidence about the    *)
(* bytes it repairs.                                                         *)
RepairHasCurrentEvidence ==
    [][\A i \in Item : item'[i].repairs > item[i].repairs
            => item[i].judged = item[i].version /\ item[i].on = snap]_vars

(* "a green, approved pull request is left OPEN for a person to merge"         *)
(* (merge_policy): what a passed run leaves to a person is on GitHub.         *)
PassedMeansOpen == status = "passed" => \A i \in Item : Posted(item[i])

(* "Rebuild this pull request's tree on the CURRENT base and run its check":   *)
(* what merges was judged on everything already merged before it.            *)
MergedOnCurrentBranch ==
    \A k \in 1..Len(landed) : \A j \in 1..(k - 1) : landed[j] \in item[landed[k]].on
===============================================================================
