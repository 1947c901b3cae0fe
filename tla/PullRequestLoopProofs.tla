------------------------ MODULE PullRequestLoopProofs ------------------------
(***************************************************************************)
(* The pull-request loop for any number of builders, any dependency plans    *)
(* and either policy, changed by a person at any time: types, the inductive  *)
(* invariant, and what follows from it for every merge and every verdict.    *)
(***************************************************************************)
EXTENDS PullRequestLoop, SequenceTheorems, TLAPS

(* What a step may leave alone in a work item, by what it is about: the       *)
(* owner's work, what is on GitHub, the executable, the judgement, the row.   *)
SameWork(v, w) == v.version = w.version /\ v.repairs = w.repairs /\ v.refreshes = w.refreshes
SamePlace(v, w) == v.base = w.base /\ v.head = w.head /\ v.pr = w.pr
SameCheck(v, w) == v.check = w.check /\ v.kept = w.kept /\ v.keptOn = w.keptOn
SameGrade(v, w) == v.verdict = w.verdict /\ v.judged = w.judged /\ v.on = w.on
SameRow(v, w) == v.merge = w.merge /\ v.error = w.error

(* The fields of a work item.                                                *)
LEMMA ItemFields ==
  ASSUME NEW w \in WorkItem
  PROVE  /\ w.version \in Nat /\ w.base \in SUBSET Item /\ w.head \in Nat \X SUBSET Item
         /\ w.pr \in BOOLEAN /\ w.check \in Nat /\ w.kept \in Nat /\ w.keptOn \in SUBSET Item
         /\ w.verdict \in Verdict /\ w.judged \in Nat /\ w.on \in SUBSET Item
         /\ w.merge \in MergeState /\ w.error \in RowError
         /\ w.repairs \in Nat /\ w.refreshes \in Nat
BY DEF WorkItem

(* What TypeOK says of the variables a step reads.                           *)
LEMMA Types ==
  ASSUME TypeOK
  PROVE  /\ item \in [Item -> WorkItem] /\ role \in [Item -> {"working", "done"} \cup Cause]
         /\ \A i \in Item : item[i] \in WorkItem
         /\ checker \in {"pending", "working", "done", "blocked"} \cup Cause
         /\ awaited \in SUBSET Item /\ todo \in SUBSET Item /\ published \in SUBSET Item
         /\ deferred \in SUBSET Item /\ early \in SUBSET Item /\ earlyRows \in SUBSET Item
         /\ scope \in SUBSET Item /\ ready \in SUBSET Item /\ snap \in SUBSET Item
         /\ landed \in Seq(Item) /\ at \in 1..(N + 1) /\ last \in 0..N
BY DEF TypeOK

(* Blocking a row, judging a pull request and replacing one work item.       *)
LEMMA BlockShape ==
  ASSUME NEW w \in WorkItem, NEW e \in RowError
  PROVE  /\ Block(w, e) \in WorkItem
         /\ Block(w, e).merge = "blocked" /\ Block(w, e).error = e
         /\ SameWork(Block(w, e), w) /\ SamePlace(Block(w, e), w)
         /\ SameCheck(Block(w, e), w) /\ SameGrade(Block(w, e), w)
BY DEF Block, WorkItem, MergeState, SameWork, SamePlace, SameCheck, SameGrade

LEMMA JudgeShape ==
  ASSUME TypeOK, NEW i \in Item, NEW v \in Verdict
  PROVE  /\ Judge(i, v) \in WorkItem
         /\ Judge(i, v).verdict = v /\ Judge(i, v).judged = item[i].version
         /\ Judge(i, v).on = snap
         /\ Judge(i, v).merge = IF v = "unavailable" THEN "review_unavailable" ELSE item[i].merge
         /\ Judge(i, v).error = item[i].error
         /\ SameWork(Judge(i, v), item[i]) /\ SamePlace(Judge(i, v), item[i])
         /\ SameCheck(Judge(i, v), item[i])
<1>1. item[i] \in WorkItem /\ snap \in SUBSET Item
  BY Types
<1> QED
  BY <1>1 DEF Judge, WorkItem, MergeState, SameWork, SamePlace, SameCheck

LEMMA VerdictTypes ==
  /\ \A i \in Item : VerdictsOf(i) \subseteq Verdict
  /\ Verdicts \subseteq Verdict
BY DEF VerdictsOf, Verdicts, Verdict

(* Publication replaces heads by patches, and opens pull requests.           *)
PostAs(w, h, o) == [w EXCEPT !.head = h, !.pr = o]

LEMMA PostShape ==
  ASSUME NEW w \in WorkItem, NEW h \in Nat \X SUBSET Item, NEW o \in BOOLEAN
  PROVE  /\ PostAs(w, h, o) \in WorkItem
         /\ PostAs(w, h, o).head = h /\ PostAs(w, h, o).pr = o /\ PostAs(w, h, o).base = w.base
         /\ SameWork(PostAs(w, h, o), w) /\ SameCheck(PostAs(w, h, o), w)
         /\ SameGrade(PostAs(w, h, o), w) /\ SameRow(PostAs(w, h, o), w)
BY DEF PostAs, WorkItem, SameWork, SameCheck, SameGrade, SameRow

LEMMA PatchType ==
  ASSUME TypeOK, NEW i \in Item
  PROVE  Patch(i) \in Nat \X SUBSET Item
BY Types, ItemFields DEF Patch

LEMMA PublishShape ==
  ASSUME TypeOK, NEW S \in SUBSET Item
  PROVE  /\ Publish(S) \in [Item -> WorkItem]
         /\ \A i \in Item :
              /\ SameWork(Publish(S)[i], item[i]) /\ SameCheck(Publish(S)[i], item[i])
              /\ SameGrade(Publish(S)[i], item[i]) /\ SameRow(Publish(S)[i], item[i])
              /\ Publish(S)[i].base = item[i].base
              /\ IF i \in S THEN Publish(S)[i].head = Patch(i) /\ Publish(S)[i].pr
                 ELSE SamePlace(Publish(S)[i], item[i])
<1> DEFINE Post(i) == PostAs(item[i], Patch(i), TRUE)
<1>1. ASSUME NEW i \in Item
      PROVE  /\ Post(i) \in WorkItem /\ item[i] \in WorkItem
             /\ SameWork(Post(i), item[i]) /\ SameCheck(Post(i), item[i])
             /\ SameGrade(Post(i), item[i]) /\ SameRow(Post(i), item[i])
             /\ Post(i).base = item[i].base /\ Post(i).head = Patch(i) /\ Post(i).pr
  BY <1>1, PostShape, PatchType, Types
<1>2. Publish(S) = [i \in Item |-> IF i \in S THEN Post(i) ELSE item[i]]
  BY DEF Publish, PostAs
<1> HIDE DEF Post
<1> QED
  BY <1>1, <1>2 DEF SameWork, SamePlace, SameCheck, SameGrade, SameRow

LEMMA PublishUpToShape ==
  ASSUME TypeOK, NEW f \in Unpublished, NEW h \in {item[f].head, Patch(f)}, NEW o \in BOOLEAN,
         Active \subseteq Item
  PROVE  /\ f \in Item
         /\ PublishUpTo(f, h, o) \in [Item -> WorkItem]
         /\ \A i \in Item :
              /\ SameWork(PublishUpTo(f, h, o)[i], item[i])
              /\ SameCheck(PublishUpTo(f, h, o)[i], item[i])
              /\ SameGrade(PublishUpTo(f, h, o)[i], item[i])
              /\ SameRow(PublishUpTo(f, h, o)[i], item[i])
              /\ PublishUpTo(f, h, o)[i].base = item[i].base
              /\ IF i = f THEN /\ PublishUpTo(f, h, o)[i].head = h
                               /\ PublishUpTo(f, h, o)[i].pr = (item[i].pr \/ o)
                 ELSE IF i \in Unpublished /\ i < f
                      THEN PublishUpTo(f, h, o)[i].head = Patch(i) /\ PublishUpTo(f, h, o)[i].pr
                 ELSE SamePlace(PublishUpTo(f, h, o)[i], item[i])
<1> DEFINE before == Publish({i \in Unpublished : i < f})
           after == PostAs(before[f], h, before[f].pr \/ o)
<1>1. /\ f \in Item /\ \A i \in Unpublished : i \in Item
      /\ h \in Nat \X SUBSET Item
      /\ item[f] \in WorkItem
      /\ {i \in Unpublished : i < f} \in SUBSET Item
      /\ f \notin {i \in Unpublished : i < f}
  <2>1. \A i \in Unpublished : i \in Item
    BY DEF Unpublished
  <2>3. {i \in Unpublished : i < f} \in SUBSET Item
    BY <2>1
  <2>4. f \notin {i \in Unpublished : i < f}
    BY <2>1 DEF Item
  <2>2. f \in Item /\ item[f] \in WorkItem
    BY <2>1, Types
  <2> QED
    BY <2>1, <2>2, <2>3, <2>4, PatchType, ItemFields
<1>2. before \in [Item -> WorkItem] /\ before[f] \in WorkItem
  BY <1>1, PublishShape
<1>3. /\ SameWork(before[f], item[f]) /\ SameCheck(before[f], item[f])
      /\ SameGrade(before[f], item[f]) /\ SameRow(before[f], item[f])
      /\ before[f].base = item[f].base /\ before[f].pr = item[f].pr
  BY <1>1, PublishShape DEF SamePlace
<1>4. before[f].pr \/ o \in BOOLEAN
  BY <1>2, ItemFields
<1>5. /\ after \in WorkItem
      /\ SameWork(after, before[f]) /\ SameCheck(after, before[f])
      /\ SameGrade(after, before[f]) /\ SameRow(after, before[f])
      /\ after.base = before[f].base /\ after.head = h /\ after.pr = (before[f].pr \/ o)
  BY <1>1, <1>2, <1>4, PostShape
<1>6. PublishUpTo(f, h, o) = [before EXCEPT ![f] = after]
  BY <1>1, <1>2 DEF PublishUpTo, PostAs
<1>7. PublishUpTo(f, h, o) \in [Item -> WorkItem]
  BY <1>1, <1>2, <1>5, <1>6
<1>8. PublishUpTo(f, h, o)[f] = after
  BY <1>1, <1>2, <1>6
<1>9. ASSUME NEW i \in Item, i # f PROVE PublishUpTo(f, h, o)[i] = before[i]
  BY <1>1, <1>2, <1>6, <1>9
<1> HIDE DEF before, after
<1>10. ASSUME NEW i \in Item
       PROVE  /\ SameWork(PublishUpTo(f, h, o)[i], item[i])
              /\ SameCheck(PublishUpTo(f, h, o)[i], item[i])
              /\ SameGrade(PublishUpTo(f, h, o)[i], item[i])
              /\ SameRow(PublishUpTo(f, h, o)[i], item[i])
              /\ PublishUpTo(f, h, o)[i].base = item[i].base
              /\ IF i = f THEN /\ PublishUpTo(f, h, o)[i].head = h
                               /\ PublishUpTo(f, h, o)[i].pr = (item[i].pr \/ o)
                 ELSE IF i \in Unpublished /\ i < f
                      THEN PublishUpTo(f, h, o)[i].head = Patch(i) /\ PublishUpTo(f, h, o)[i].pr
                 ELSE SamePlace(PublishUpTo(f, h, o)[i], item[i])
  <2>1. CASE i = f
    BY <1>3, <1>5, <1>8, <2>1 DEF SameWork, SameCheck, SameGrade, SameRow
  <2>2. CASE i # f
    <3> DEFINE S == {j \in Unpublished : j < f}
    <3>1. S \in SUBSET Item /\ (i \in S <=> i \in Unpublished /\ i < f)
      BY <1>1
    <3>2. PublishUpTo(f, h, o)[i] = Publish(S)[i]
      BY <1>9, <2>2 DEF before
    <3> HIDE DEF S
    <3> QED
      BY <2>2, <3>1, <3>2, PublishShape
  <2> QED
    BY <2>1, <2>2
<1> QED
  BY <1>1, <1>7, <1>10

-----------------------------------------------------------------------------
(* Replacing one work item keeps the types.                                  *)
LEMMA OneItem ==
  ASSUME TypeOK, NEW i \in Item, NEW w \in WorkItem, item' = [item EXCEPT ![i] = w]
  PROVE  /\ item' \in [Item -> WorkItem] /\ item'[i] = w
         /\ \A j \in Item : j # i => item'[j] = item[j]
BY Types

LEMMA ActiveItems == TypeOK /\ at <= N => Active \subseteq Item
BY Types, LoopAssumption DEF Active, Item

(* A finished merge step: who may merge, and what it leaves.                   *)
LEMMA MergeEffects ==
  ASSUME TypeOK, NEW i \in Item, NEW w \in WorkItem, MergeIfPolicyAllows(i, w)
  PROVE  /\ item' \in [Item -> WorkItem]
         /\ \A j \in Item : j # i => item'[j] = item[j]
         /\ SameWork(item'[i], w) /\ SamePlace(item'[i], w)
         /\ SameCheck(item'[i], w) /\ SameGrade(item'[i], w)
         /\ \/ /\ item'[i].merge = "human_review" /\ UNCHANGED branch
               /\ policy = "human_review"
            \/ item'[i].merge = "blocked" /\ UNCHANGED branch
            \/ /\ item'[i].merge = "blocked" /\ landed' = Append(landed, i) /\ snap' = snap
               /\ w.pr /\ policy = "auto"
            \/ /\ item'[i].merge = "merged" /\ landed' = Append(landed, i)
               /\ snap' = {landed'[k] : k \in 1..Len(landed')}
               /\ w.pr /\ policy = "auto"
         /\ landed' \in Seq(Item) /\ snap' \in SUBSET Item
<1> DEFINE Row(m) == [w EXCEPT !.merge = m]
<1>1. \A m \in MergeState : /\ Row(m) \in WorkItem /\ Row(m).merge = m
                            /\ SameWork(Row(m), w) /\ SamePlace(Row(m), w)
                            /\ SameCheck(Row(m), w) /\ SameGrade(Row(m), w)
  BY DEF WorkItem, SameWork, SamePlace, SameCheck, SameGrade
<1>2. "human_review" \in MergeState /\ "merged" \in MergeState /\ "MERGE_FAILED" \in RowError
  BY DEF MergeState, RowError
<1>3. /\ Block(w, "MERGE_FAILED") \in WorkItem /\ Block(w, "MERGE_FAILED").merge = "blocked"
      /\ SameWork(Block(w, "MERGE_FAILED"), w) /\ SamePlace(Block(w, "MERGE_FAILED"), w)
      /\ SameCheck(Block(w, "MERGE_FAILED"), w) /\ SameGrade(Block(w, "MERGE_FAILED"), w)
  BY <1>2, BlockShape
<1>4. landed \in Seq(Item) /\ snap \in SUBSET Item
  BY Types
<1>5. CASE LeavesForPerson(i, w)
  <2>1. item' = [item EXCEPT ![i] = Row("human_review")] /\ UNCHANGED branch
        /\ policy = "human_review"
    BY <1>5 DEF LeavesForPerson
  <2> HIDE DEF Row
  <2> QED
    BY <1>1, <1>2, <1>4, <2>1, OneItem DEF branch
<1>6. CASE MergeRefused(i, w)
  BY <1>3, <1>4, <1>6, OneItem DEF MergeRefused, branch
<1>7. CASE MergedUnseen(i, w)
  BY <1>3, <1>4, <1>7, OneItem, AppendProperties DEF MergedUnseen
<1>8. CASE Merged(i, w)
  <2>1. /\ item' = [item EXCEPT ![i] = Row("merged")] /\ landed' = Append(landed, i)
        /\ snap' = {landed'[k] : k \in 1..Len(landed')} /\ w.pr /\ policy = "auto"
    BY <1>8 DEF Merged
  <2>2. landed' \in Seq(Item)
    BY <1>4, <2>1, AppendProperties
  <2>3. snap' \in SUBSET Item
    BY <2>1, <2>2, ElementOfSeq
  <2> HIDE DEF Row
  <2> QED
    BY <1>1, <1>2, <2>1, <2>2, <2>3, OneItem
<1> QED
  BY <1>5, <1>6, <1>7, <1>8 DEF MergeIfPolicyAllows

-----------------------------------------------------------------------------
(* A later call of _execute is about one pull request, and all of its builders   *)
(* are awaited: the early pass and what follows it belong to the first call.   *)
Later == pc = "execute" /\ round # "initial"
Placed ==
    /\ pc = "execute" => at <= N
    /\ pc \in {"early", "join", "closing"} => round = "initial"
    /\ Later => awaited = Active
Running == pc # "settled" => fail \in Cause \cup {""}
TypeInv == TypeOK /\ Placed /\ Running

PlanTypes ==
    /\ policy \in {"auto", "human_review"} /\ changed \in BOOLEAN /\ depends \in Plans
    /\ role \in [Item -> {"working", "done"} \cup Cause]
    /\ checker \in {"pending", "working", "done", "blocked"} \cup Cause
    /\ round \in {"initial", "deferred", "refresh", "repair"}
SetTypes ==
    /\ awaited \subseteq Item /\ todo \subseteq Item /\ published \subseteq Item
    /\ deferred \subseteq Item /\ early \subseteq Item /\ earlyRows \subseteq Item
    /\ scope \subseteq Item /\ ready \subseteq Item
PlaceTypes ==
    /\ last \in 0..N /\ at \in 1..(N + 1)
    /\ pc \in {"execute", "early", "join", "closing", "item", "check", "judge", "decide", "rejudge",
               "settled"}
OutcomeTypes ==
    /\ fail \in Cause \cup {"", "ROLE_PR_BLOCKED", "REVIEW_UNAVAILABLE"}
    /\ initial \in Cause \cup {""}
    /\ status \in {"running", "passed", "needs_human", "failed"}

LEMMA ReasonIsCause == Reason \in Cause
BY DEF Reason, Cause, Stop

LEMMA AnswerTypes ==
  ASSUME TypeOK
  PROVE  Answer \in Cause \cup {"ROLE_PR_BLOCKED", "REVIEW_UNAVAILABLE", "passed"}
BY DEF TypeOK, Answer, Cause, Stop

LEMMA PlanStep ==
  ASSUME TypeInv, [Next]_vars
  PROVE  PlanTypes'
<1> USE LoopAssumption DEF settings, schedule, PlanTypes
<1>0. PlanTypes
  BY DEF TypeInv, TypeOK
<1>1. ASSUME NEW i \in Item, BuilderEnds(i) PROVE PlanTypes'
  BY <1>0, <1>1 DEF BuilderEnds
<1>2. CASE CheckerBlocked \/ CheckerNeverStarts \/ CheckerStarts \/ CheckerCannotPublish
  BY <1>0, <1>2 DEF CheckerBlocked, CheckerNeverStarts, CheckerStarts, CheckerCannotPublish, Cause, Stop
<1>3. CASE CheckWritten \/ CheckerEnds
  BY <1>0, <1>3 DEF CheckWritten, CheckerEnds
<1>4. CASE EarlyPassStarts \/ EarlyMerge \/ EarlyReject \/ EarlyStops \/ PublishRest \/ InitialExecuteEnds
  BY <1>0, <1>4 DEF EarlyPassStarts, EarlyMerge, EarlyReject, EarlyStops, PublishRest, InitialExecuteEnds
<1>5. CASE TakeEarlyRow \/ BlockUnready \/ NothingMergedYet \/ RefreshClean \/ RefreshRefused
  BY <1>0, <1>5 DEF TakeEarlyRow, BlockUnready, NothingMergedYet, RefreshClean, RefreshRefused
<1>6. CASE RefreshConflicts \/ AuthorDeferredCheck \/ Repair
  BY <1>0, <1>6 DEF RefreshConflicts, AuthorDeferredCheck, Repair, RepairStops, RepairGoesToOwner, StartRound
<1>7. CASE RefreshEnds \/ DeferredCheckEnds \/ RepairEnds
  BY <1>0, <1>7 DEF RefreshEnds, DeferredCheckEnds, RepairEnds, LaterExecuteEnds
<1>8. CASE UseEarlyVerdict \/ GateAndReview \/ Approved \/ ReviewUnavailable
  BY <1>0, <1>8 DEF UseEarlyVerdict, GateAndReview, Approved, ReviewUnavailable
<1>9. CASE RejudgeApproves \/ RejudgeRejects \/ SettleRun
  BY <1>0, <1>9 DEF RejudgeApproves, RejudgeRejects, SettleRun
<1>10. CASE SetMergePolicy
  BY <1>0, <1>10 DEF SetMergePolicy
<1>11. CASE UNCHANGED vars
  BY <1>0, <1>11 DEF vars
<1> QED
  BY <1>1, <1>2, <1>3, <1>4, <1>5, <1>6, <1>7, <1>8, <1>9, <1>10, <1>11 DEF Next, Run

LEMMA SetStep ==
  ASSUME TypeInv, [Next]_vars
  PROVE  SetTypes'
<1> USE DEF schedule, queue, SetTypes
<1>0. /\ SetTypes /\ at \in 1..(N + 1) /\ Item = 1..N
      /\ pc = "execute" => at <= N
  BY LoopAssumption DEF TypeInv, Placed, TypeOK, Item
<1>1. ASSUME NEW i \in Item, BuilderEnds(i) PROVE SetTypes'
  BY <1>0, <1>1 DEF BuilderEnds
<1>2. CASE CheckerBlocked \/ CheckerNeverStarts \/ CheckerEnds \/ CheckWritten
  BY <1>0, <1>2 DEF CheckerBlocked, CheckerNeverStarts, CheckerEnds, CheckWritten
<1>3. CASE CheckerStarts \/ CheckerCannotPublish
  <2>1. Active \subseteq Item
    BY <1>0, <1>3 DEF Active, CheckerStarts, CheckerCannotPublish, CheckerMayStart
  <2>2. Unpublished \subseteq Item /\ \A S \in SUBSET Active : Pending(S) \subseteq Item
    BY <2>1 DEF Unpublished, Pending
  <2>3. CASE CheckerStarts
    BY <1>0, <2>1, <2>2, <2>3 DEF CheckerStarts
  <2>4. CASE CheckerCannotPublish
    BY <1>0, <2>1, <2>2, <2>4 DEF CheckerCannotPublish
  <2> QED
    BY <1>3, <2>3, <2>4
<1>4. CASE EarlyPassStarts \/ EarlyMerge \/ EarlyReject \/ EarlyStops
  <2>1. EarlyMerge \/ EarlyReject => at \in Item
    BY <1>0 DEF EarlyMerge, EarlyReject
  <2> QED
    BY <1>0, <1>4, <2>1 DEF EarlyPassStarts, EarlyMerge, EarlyReject, EarlyStops
<1>5. CASE PublishRest
  <2>1. Unpublished \subseteq Item
    BY <1>0, <1>5 DEF Unpublished, PublishRest, Active, TypeInv, Placed
  <2> QED
    BY <1>0, <1>5, <2>1 DEF PublishRest
<1>6. CASE InitialExecuteEnds
  BY <1>0, <1>6 DEF InitialExecuteEnds, Checkable
<1>7. CASE TakeEarlyRow \/ BlockUnready \/ NothingMergedYet \/ RefreshClean \/ RefreshRefused
  BY <1>0, <1>7 DEF TakeEarlyRow, BlockUnready, NothingMergedYet, RefreshClean, RefreshRefused
<1>8. CASE RefreshConflicts \/ AuthorDeferredCheck \/ Repair
  <2>1. at \in Item
    BY <1>0, <1>8 DEF RefreshConflicts, ToCheck, AuthorDeferredCheck, Repair, NeedsRepair, At
  <2> QED
    BY <1>0, <1>8, <2>1
    DEF RefreshConflicts, AuthorDeferredCheck, Repair, RepairStops, RepairGoesToOwner, StartRound
<1>9. CASE RefreshEnds \/ DeferredCheckEnds \/ RepairEnds
  BY <1>0, <1>9 DEF RefreshEnds, DeferredCheckEnds, RepairEnds, LaterExecuteEnds
<1>10. CASE UseEarlyVerdict \/ GateAndReview \/ Approved \/ ReviewUnavailable
  BY <1>0, <1>10 DEF UseEarlyVerdict, GateAndReview, Approved, ReviewUnavailable
<1>11. CASE RejudgeApproves \/ RejudgeRejects \/ SettleRun \/ SetMergePolicy
  BY <1>0, <1>11 DEF RejudgeApproves, RejudgeRejects, SettleRun, SetMergePolicy
<1>12. CASE UNCHANGED vars
  BY <1>0, <1>12 DEF vars
<1> QED
  BY <1>1, <1>2, <1>3, <1>4, <1>5, <1>6, <1>7, <1>8, <1>9, <1>10, <1>11, <1>12 DEF Next, Run

LEMMA PlaceStep ==
  ASSUME TypeInv, [Next]_vars
  PROVE  PlaceTypes' /\ Placed'
<1> USE DEF schedule, queue, PlaceTypes, Placed, Later, Active, NextItem, At, ToCheck
<1>0. /\ PlaceTypes /\ N \in Nat \ {0} /\ Placed
      /\ round \in {"initial", "deferred", "refresh", "repair"}
  BY LoopAssumption DEF TypeInv, TypeOK
<1>1. ASSUME NEW i \in Item, BuilderEnds(i) PROVE PlaceTypes' /\ Placed'
  BY <1>0, <1>1 DEF BuilderEnds
<1>2. CASE CheckerBlocked \/ CheckerNeverStarts \/ CheckerStarts \/ CheckerCannotPublish
  BY <1>0, <1>2 DEF CheckerBlocked, CheckerNeverStarts, CheckerStarts, CheckerCannotPublish
<1>3. CASE CheckWritten \/ CheckerEnds
  BY <1>0, <1>3 DEF CheckWritten, CheckerEnds
<1>4. CASE EarlyPassStarts \/ EarlyReject \/ EarlyStops \/ PublishRest
  BY <1>0, <1>4 DEF EarlyPassStarts, Partial, EarlyReject, EarlyStops, PublishRest, EarlyPass
<1>5. CASE EarlyMerge
  <2>1. pc = "early" /\ at <= N /\ UNCHANGED <<last, round>>
    BY <1>5 DEF EarlyMerge, EarlyPass
  <2>2. (at' = at + 1 /\ pc' = pc) \/ (at' = at /\ pc' = "join")
    BY <1>5 DEF EarlyMerge
  <2> QED
    BY <1>0, <2>1, <2>2
<1>6. CASE InitialExecuteEnds
  <2>1. at' = 1 /\ pc' \in {"item", "settled"} /\ UNCHANGED last
    BY <1>6 DEF InitialExecuteEnds
  <2> QED
    BY <1>0, <2>1
<1>7. CASE TakeEarlyRow \/ BlockUnready \/ NothingMergedYet \/ RefreshClean \/ RefreshRefused
  BY <1>0, <1>7 DEF TakeEarlyRow, BlockUnready, NothingMergedYet, RefreshClean, RefreshRefused
<1>8. CASE RefreshConflicts \/ AuthorDeferredCheck \/ Repair
  BY <1>0, <1>8 DEF RefreshConflicts, AuthorDeferredCheck, Repair, NeedsRepair, RepairStops,
     RepairGoesToOwner, StartRound
<1>9. CASE RefreshEnds \/ DeferredCheckEnds \/ RepairEnds
  <2>1. ExecuteEnds /\ round # "initial" /\ UNCHANGED last
    BY <1>9 DEF RefreshEnds, DeferredCheckEnds, RepairEnds, LaterExecuteEnds
  <2>2. pc = "execute"
    BY <1>0, <2>1 DEF ExecuteEnds
  <2>3. \/ pc' \in {"check", "judge", "rejudge"} /\ at' = at
        \/ pc' = "item" /\ at' = at + 1
    BY <1>9 DEF RefreshEnds, DeferredCheckEnds, RepairEnds
  <2> QED
    BY <1>0, <2>1, <2>2, <2>3
<1>10. CASE UseEarlyVerdict \/ GateAndReview \/ ReviewUnavailable
  BY <1>0, <1>10 DEF UseEarlyVerdict, GateAndReview, ReviewUnavailable, ToJudge
<1>11. CASE Approved
  BY <1>0, <1>11 DEF Approved
<1>12. CASE RejudgeApproves \/ RejudgeRejects \/ SettleRun \/ SetMergePolicy
  BY <1>0, <1>12 DEF RejudgeApproves, RejudgeRejects, SettleRun, SetMergePolicy
<1>13. CASE UNCHANGED vars
  BY <1>0, <1>13 DEF vars
<1> QED
  BY <1>1, <1>2, <1>3, <1>4, <1>5, <1>6, <1>7, <1>8, <1>9, <1>10, <1>11, <1>12, <1>13
  DEF Next, Run

LEMMA OutcomeStep ==
  ASSUME TypeInv, [Next]_vars
  PROVE  OutcomeTypes' /\ Running'
<1> USE DEF outcome, OutcomeTypes, Running, NextItem, At, ToCheck
<1>0. OutcomeTypes /\ Running /\ Reason \in Cause
      /\ Answer \in Cause \cup {"ROLE_PR_BLOCKED", "REVIEW_UNAVAILABLE", "passed"}
  BY ReasonIsCause, AnswerTypes DEF TypeInv, TypeOK
<1>1. ASSUME NEW i \in Item, BuilderEnds(i) PROVE OutcomeTypes' /\ Running'
  BY <1>0, <1>1 DEF BuilderEnds
<1>2. CASE CheckerBlocked \/ CheckerNeverStarts \/ CheckerStarts \/ CheckerCannotPublish
  BY <1>0, <1>2 DEF CheckerBlocked, CheckerNeverStarts, CheckerStarts, CheckerCannotPublish
<1>3. CASE CheckWritten \/ CheckerEnds
  BY <1>0, <1>3 DEF CheckWritten, CheckerEnds
<1>4. CASE EarlyPassStarts \/ EarlyMerge \/ EarlyReject \/ EarlyStops \/ PublishRest
  BY <1>0, <1>4 DEF EarlyPassStarts, EarlyMerge, EarlyReject, EarlyStops, PublishRest, EarlyPass
<1>5. CASE InitialExecuteEnds
  BY <1>0, <1>5 DEF InitialExecuteEnds, ExecuteEnds
<1>6. CASE TakeEarlyRow \/ BlockUnready \/ NothingMergedYet \/ RefreshClean \/ RefreshRefused
  BY <1>0, <1>6 DEF TakeEarlyRow, BlockUnready, NothingMergedYet, RefreshClean, RefreshRefused
<1>7. CASE RefreshConflicts \/ AuthorDeferredCheck \/ Repair
  BY <1>0, <1>7 DEF RefreshConflicts, AuthorDeferredCheck, Repair, NeedsRepair, RepairStops, RepairGoesToOwner,
     StartRound
<1>8. CASE RefreshEnds \/ DeferredCheckEnds \/ RepairEnds
  BY <1>0, <1>8 DEF RefreshEnds, DeferredCheckEnds, RepairEnds, LaterExecuteEnds,
     ExecuteEnds
<1>9. CASE UseEarlyVerdict \/ GateAndReview \/ Approved \/ ReviewUnavailable
  BY <1>0, <1>9 DEF UseEarlyVerdict, GateAndReview, Approved, ReviewUnavailable, ToJudge
<1>10. CASE RejudgeApproves \/ RejudgeRejects \/ SetMergePolicy
  BY <1>0, <1>10 DEF RejudgeApproves, RejudgeRejects, SetMergePolicy
<1>11. CASE SettleRun
  BY <1>0, <1>11 DEF SettleRun
<1>12. CASE UNCHANGED vars
  BY <1>0, <1>12 DEF vars
<1> QED
  BY <1>1, <1>2, <1>3, <1>4, <1>5, <1>6, <1>7, <1>8, <1>9, <1>10, <1>11, <1>12 DEF Next, Run

-----------------------------------------------------------------------------
(* What each step does to the work items.                                    *)
OnlyAt == at \in Item /\ \A j \in Item : j # at => item'[j] = item[j]

LEMMA BuilderEffects ==
  ASSUME TypeInv, NEW i \in Item, BuilderEnds(i)
  PROVE  /\ item' \in [Item -> WorkItem]
         /\ \A j \in Item : j # i => item'[j] = item[j] /\ role'[j] = role[j]
         /\ SamePlace(item'[i], item[i]) /\ SameCheck(item'[i], item[i])
         /\ SameGrade(item'[i], item[i]) /\ SameRow(item'[i], item[i])
         /\ item'[i].repairs = item[i].repairs /\ item'[i].refreshes = item[i].refreshes
         /\ item'[i].version \in {item[i].version, item[i].version + 1}
         /\ role[i] = "working" /\ role'[i] \in {"done"} \cup Cause
<1> DEFINE Done == [item[i] EXCEPT !.version = item[i].version + 1]
<1>1. item[i] \in WorkItem /\ item[i].version \in Nat
      /\ role \in [Item -> {"working", "done"} \cup Cause]
  BY Types, ItemFields DEF TypeInv
<1>2. /\ Done \in WorkItem
      /\ SamePlace(Done, item[i]) /\ SameCheck(Done, item[i])
      /\ SameGrade(Done, item[i]) /\ SameRow(Done, item[i])
      /\ Done.repairs = item[i].repairs /\ Done.refreshes = item[i].refreshes
      /\ Done.version = item[i].version + 1
  BY <1>1 DEF WorkItem, SamePlace, SameCheck, SameGrade, SameRow
<1>3. CASE /\ role' = [role EXCEPT ![i] = "done"]
           /\ item' = [item EXCEPT ![i].version = @ + 1]
  <2>1. item' = [item EXCEPT ![i] = Done]
    BY <1>3
  <2> HIDE DEF Done
  <2>2. /\ item' \in [Item -> WorkItem] /\ item'[i] = Done
        /\ \A j \in Item : j # i => item'[j] = item[j]
    BY <1>2, <2>1, OneItem DEF TypeInv
  <2> QED
    BY <1>1, <1>2, <1>3, <2>2, <1>3 DEF BuilderEnds
<1>4. CASE \E c \in TurnCause : role' = [role EXCEPT ![i] = c] /\ UNCHANGED item
  BY <1>1, <1>4, Types, LoopAssumption
  DEF BuilderEnds, TypeInv, SamePlace, SameCheck, SameGrade, SameRow
<1> QED
  BY <1>3, <1>4 DEF BuilderEnds

(* Publication by the checker, before it writes, or by the run's worker when   *)
(* the graph has drained.                                                    *)
Posts(v, w) ==
    /\ SameWork(v, w) /\ SameGrade(v, w) /\ SameRow(v, w) /\ v.base = w.base
    /\ v.kept = w.kept /\ v.keptOn = w.keptOn
    /\ v.pr \in BOOLEAN /\ (w.pr => v.pr)
    /\ v.head = w.head \/ v.head = <<w.version, w.base>>
    /\ v.pr /\ ~w.pr => v.head = <<w.version, w.base>>

LEMMA ActiveTypes ==
  ASSUME TypeInv, pc \in {"execute", "join"}
  PROVE  Active \subseteq Item /\ Unpublished \subseteq Active
BY Types, LoopAssumption DEF TypeInv, Placed, Active, Item, Unpublished

LEMMA CheckerStartsEffects ==
  ASSUME TypeInv, CheckerStarts
  PROVE  /\ item' \in [Item -> WorkItem]
         /\ \A i \in Item :
              /\ Posts(item'[i], item[i])
              /\ IF i \in Unpublished THEN Posted(item'[i]) ELSE SamePlace(item'[i], item[i])
              /\ item'[i].check = IF i \in Pending(Active) /\ ~ChecksWaiting(i) THEN 0 ELSE item[i].check
<1> DEFINE subjects == Pending(Active) \ {i \in Pending(Active) : ChecksWaiting(i)}
           posted == Publish(Unpublished)
           Forget(i) == [posted[i] EXCEPT !.check = 0]
<1>1. Unpublished \in SUBSET Item /\ TypeOK
  BY ActiveTypes DEF TypeInv, CheckerStarts, CheckerMayStart
<1>2. /\ posted \in [Item -> WorkItem]
      /\ \A i \in Item :
           /\ SameWork(posted[i], item[i]) /\ SameCheck(posted[i], item[i])
           /\ SameGrade(posted[i], item[i]) /\ SameRow(posted[i], item[i])
           /\ posted[i].base = item[i].base
           /\ IF i \in Unpublished THEN posted[i].head = Patch(i) /\ posted[i].pr
              ELSE SamePlace(posted[i], item[i])
  BY <1>1, PublishShape
<1>3. ASSUME NEW i \in Item
      PROVE  /\ Forget(i) \in WorkItem /\ Forget(i).check = 0
             /\ SameWork(Forget(i), posted[i]) /\ SameGrade(Forget(i), posted[i])
             /\ SameRow(Forget(i), posted[i]) /\ SamePlace(Forget(i), posted[i])
             /\ Forget(i).kept = posted[i].kept /\ Forget(i).keptOn = posted[i].keptOn
  <2>1. posted[i] \in WorkItem
    BY <1>2
  <2> HIDE DEF posted
  <2> QED
    BY <2>1 DEF WorkItem, SameWork, SameGrade, SameRow, SamePlace
<1>4. item' = [i \in Item |-> IF i \in subjects THEN Forget(i) ELSE posted[i]]
  BY DEF CheckerStarts
<1>5. \A i \in Item : i \in subjects <=> i \in Pending(Active) /\ ~ChecksWaiting(i)
  OBVIOUS
<1> HIDE DEF subjects, posted, Forget
<1>6. item' \in [Item -> WorkItem]
  BY <1>2, <1>3, <1>4
<1>7. ASSUME NEW i \in Item
      PROVE  /\ Posts(item'[i], item[i])
             /\ IF i \in Unpublished THEN Posted(item'[i]) ELSE SamePlace(item'[i], item[i])
             /\ item'[i].check = IF i \in Pending(Active) /\ ~ChecksWaiting(i) THEN 0
                                 ELSE item[i].check
  <2>1. item[i].pr \in BOOLEAN /\ item'[i].pr \in BOOLEAN
    BY <1>1, <1>6, Types, ItemFields
  <2>2. /\ SameWork(item'[i], item[i]) /\ SameGrade(item'[i], item[i]) /\ SameRow(item'[i], item[i])
        /\ item'[i].base = item[i].base
        /\ item'[i].kept = item[i].kept /\ item'[i].keptOn = item[i].keptOn
        /\ item'[i].check = IF i \in subjects THEN 0 ELSE item[i].check
    BY <1>2, <1>3, <1>4 DEF SameWork, SameGrade, SameRow, SamePlace, SameCheck
  <2>3. IF i \in Unpublished THEN item'[i].head = Patch(i) /\ item'[i].pr
        ELSE SamePlace(item'[i], item[i])
    BY <1>2, <1>3, <1>4 DEF SamePlace
  <2> QED
    BY <1>5, <2>1, <2>2, <2>3 DEF Posts, Posted, Patch, SamePlace, SameWork
<1> QED
  BY <1>6, <1>7

LEMMA PublishEffects ==
  ASSUME TypeInv, CheckerCannotPublish \/ PublishRest
  PROVE  /\ item' \in [Item -> WorkItem]
         /\ \A i \in Item :
              /\ Posts(item'[i], item[i]) /\ item'[i].check = item[i].check
              /\ i \notin Unpublished => SamePlace(item'[i], item[i])
<1>1. Unpublished \in SUBSET Item /\ TypeOK /\ Active \subseteq Item
  BY ActiveTypes DEF TypeInv, CheckerCannotPublish, CheckerMayStart, PublishRest
<1>2. \A i \in Item : item[i].pr \in BOOLEAN
  BY <1>1, Types, ItemFields
<1>3. CASE item' = Publish(Unpublished)
  <2>1. item' \in [Item -> WorkItem]
    BY <1>1, <1>3, PublishShape
  <2>2. \A i \in Item : item'[i].pr \in BOOLEAN
    BY <2>1, ItemFields
  <2> QED
    BY <1>1, <1>2, <1>3, <2>1, <2>2, PublishShape
    DEF Posts, Patch, SamePlace, SameCheck
<1>4. ASSUME NEW f \in Unpublished, NEW h \in {item[f].head, Patch(f)}, NEW o \in BOOLEAN,
             o => h = Patch(f), item' = PublishUpTo(f, h, o)
      PROVE  /\ item' \in [Item -> WorkItem]
             /\ \A i \in Item :
                  /\ Posts(item'[i], item[i]) /\ item'[i].check = item[i].check
                  /\ i \notin Unpublished => SamePlace(item'[i], item[i])
  <2>1. item' \in [Item -> WorkItem]
    BY <1>1, <1>4, PublishUpToShape
  <2>2. ASSUME NEW i \in Item
        PROVE  /\ Posts(item'[i], item[i]) /\ item'[i].check = item[i].check
               /\ i \notin Unpublished => SamePlace(item'[i], item[i])
    <3>1. item'[i].pr \in BOOLEAN /\ item[i].pr \in BOOLEAN
      BY <1>2, <2>1, ItemFields
    <3>2. /\ SameWork(item'[i], item[i]) /\ SameCheck(item'[i], item[i])
          /\ SameGrade(item'[i], item[i]) /\ SameRow(item'[i], item[i])
          /\ item'[i].base = item[i].base
      BY <1>1, <1>4, PublishUpToShape
    <3>3. IF i = f THEN item'[i].head = h /\ item'[i].pr = (item[i].pr \/ o)
          ELSE IF i \in Unpublished /\ i < f THEN item'[i].head = Patch(i) /\ item'[i].pr
          ELSE SamePlace(item'[i], item[i])
      BY <1>1, <1>4, PublishUpToShape
    <3>4. CASE i = f
      BY <1>4, <3>1, <3>2, <3>3, <3>4 DEF Posts, Patch, SameCheck
    <3>5. CASE i # f
      BY <3>1, <3>2, <3>3, <3>5 DEF Posts, Patch, SamePlace, SameCheck
    <3> QED
      BY <3>4, <3>5
  <2> QED
    BY <2>1, <2>2
<1>5. CASE UNCHANGED item
  BY <1>1, <1>2, <1>5, Types
  DEF Posts, SameWork, SameGrade, SameRow, SamePlace
<1> QED
  BY <1>3, <1>4, <1>5 DEF CheckerCannotPublish, PublishRest

LEMMA CheckWrittenEffects ==
  ASSUME TypeInv, CheckWritten
  PROVE  \E i \in todo :
           /\ item' \in [Item -> WorkItem] /\ todo' = todo \ {i}
           /\ \A j \in Item : j # i => item'[j] = item[j]
           /\ SameWork(item'[i], item[i]) /\ SamePlace(item'[i], item[i])
           /\ SameGrade(item'[i], item[i]) /\ SameRow(item'[i], item[i])
           /\ item'[i].kept = IF Reusable(i) THEN item[i].kept ELSE item[i].kept + 1
           /\ item'[i].keptOn = snap /\ item'[i].check # 0
<1>1. PICK i \in todo :
        /\ todo' = todo \ {i}
        /\ LET executable == IF Reusable(i) THEN item[i].kept ELSE item[i].kept + 1
           IN  item' = [item EXCEPT ![i].check = executable, ![i].kept = executable,
                                    ![i].keptOn = snap]
  BY DEF CheckWritten
<1> DEFINE executable == IF Reusable(i) THEN item[i].kept ELSE item[i].kept + 1
           Written == [item[i] EXCEPT !.check = executable, !.kept = executable, !.keptOn = snap]
<1>2. i \in Item /\ item[i] \in WorkItem /\ snap \in SUBSET Item
  BY Types DEF TypeInv
<1>3. executable \in Nat /\ executable # 0
  BY <1>2, ItemFields DEF Reusable
<1>4. item' = [item EXCEPT ![i] = Written]
  BY <1>1, <1>2, Types DEF TypeInv
<1> HIDE DEF executable
<1>5. /\ Written \in WorkItem
      /\ SameWork(Written, item[i]) /\ SamePlace(Written, item[i])
      /\ SameGrade(Written, item[i]) /\ SameRow(Written, item[i])
      /\ Written.kept = executable /\ Written.keptOn = snap /\ Written.check = executable
  BY <1>2, <1>3 DEF WorkItem, SameWork, SamePlace, SameGrade, SameRow
<1> HIDE DEF Written
<1>6. /\ item' \in [Item -> WorkItem] /\ item'[i] = Written
      /\ \A j \in Item : j # i => item'[j] = item[j]
  BY <1>2, <1>4, <1>5, OneItem DEF TypeInv
<1> QED
  BY <1>1, <1>3, <1>5, <1>6 DEF executable

(* The gate and the review of the pull request at hand.                      *)
JudgesAt(v) ==
    /\ item' \in [Item -> WorkItem] /\ OnlyAt
    /\ item'[at].verdict = v /\ item'[at].judged = item[at].version /\ item'[at].on = snap
    /\ SameWork(item'[at], item[at]) /\ SamePlace(item'[at], item[at])
    /\ SameCheck(item'[at], item[at])

LEMMA JudgeEffects ==
  ASSUME TypeInv, at <= N, NEW v \in Verdict, item' = [item EXCEPT ![at] = Judge(at, v)]
  PROVE  /\ JudgesAt(v)
         /\ item'[at].merge = IF v = "unavailable" THEN "review_unavailable" ELSE item[at].merge
<1>1. at \in Item /\ TypeOK
  BY Types, LoopAssumption DEF TypeInv, Item
<1>2. Judge(at, v) \in WorkItem
  BY <1>1, JudgeShape
<1>3. /\ item' \in [Item -> WorkItem] /\ item'[at] = Judge(at, v)
      /\ \A j \in Item : j # at => item'[j] = item[j]
  BY <1>1, <1>2, OneItem
<1> QED
  BY <1>1, <1>3, JudgeShape DEF JudgesAt, OnlyAt

(* A row is decided, whatever it was: blocked, with its error.               *)
Blocks(w) ==
    /\ item' \in [Item -> WorkItem] /\ OnlyAt
    /\ item'[at].merge = "blocked"
    /\ SameWork(item'[at], w) /\ SamePlace(item'[at], w)
    /\ SameCheck(item'[at], w) /\ SameGrade(item'[at], w)

LEMMA BlockEffects ==
  ASSUME TypeInv, at <= N, NEW w \in WorkItem, NEW e \in RowError,
         item' = [item EXCEPT ![at] = Block(w, e)]
  PROVE  Blocks(w) /\ item'[at].error = e
<1>1. at \in Item /\ TypeOK
  BY Types, LoopAssumption DEF TypeInv, Item
<1>2. Block(w, e) \in WorkItem
  BY BlockShape
<1>3. /\ item' \in [Item -> WorkItem] /\ item'[at] = Block(w, e)
      /\ \A j \in Item : j # at => item'[j] = item[j]
  BY <1>1, <1>2, OneItem
<1> QED
  BY <1>1, <1>3, BlockShape DEF Blocks, OnlyAt

(* Finalization's other steps.                                               *)
LEMMA ErrorTypes ==
  ASSUME TypeOK
  PROVE  /\ Reason \in RowError /\ initial \in RowError
         /\ fail \in Stop => fail \in RowError
         /\ \A e \in {"ROLE_PR_REFRESH_ERROR", "STALE_PATCH_EMPTY_REFRESH", "STALE_PATCH_REFRESH_CAP",
                      "CHECK_NOT_AUTHORED", "CHECK_REQUIRES_HUMAN", "ITERATION_CAP", "GATE_RED",
                      "MERGE_FAILED", "REVIEW_UNAVAILABLE"} : e \in RowError
BY ReasonIsCause DEF TypeOK, RowError, Cause

LEMMA RebasedShape ==
  ASSUME TypeOK, at \in Item
  PROVE  /\ Rebased \in WorkItem /\ Rebased.base = snap
         /\ Rebased.head = item[at].head /\ Rebased.pr = item[at].pr
         /\ SameWork(Rebased, item[at]) /\ SameCheck(Rebased, item[at])
         /\ SameGrade(Rebased, item[at]) /\ SameRow(Rebased, item[at])
<1>1. item[at] \in WorkItem /\ snap \in SUBSET Item
  BY Types
<1> QED
  BY <1>1 DEF Rebased, WorkItem, SameWork, SameCheck, SameGrade, SameRow

LEMMA RefreshCleanEffects ==
  ASSUME TypeInv, RefreshClean
  PROVE  /\ item' \in [Item -> WorkItem] /\ OnlyAt
         /\ Posted(item'[at]) /\ item'[at].base = snap
         /\ SameWork(item'[at], item[at]) /\ SameCheck(item'[at], item[at])
         /\ SameGrade(item'[at], item[at]) /\ SameRow(item'[at], item[at])
<1> DEFINE Reposted == PostAs(Rebased, <<item[at].version, snap>>, TRUE)
<1>1. at \in Item /\ TypeOK /\ item[at] \in WorkItem /\ snap \in SUBSET Item
  BY Types, LoopAssumption DEF TypeInv, Item, RefreshClean, ToCheck, At
<1>2. /\ Reposted \in WorkItem
      /\ Reposted.head = <<item[at].version, snap>> /\ Reposted.pr /\ Reposted.base = Rebased.base
      /\ SameWork(Reposted, Rebased) /\ SameCheck(Reposted, Rebased)
      /\ SameGrade(Reposted, Rebased) /\ SameRow(Reposted, Rebased)
  <2>1. Rebased \in WorkItem
    BY <1>1, RebasedShape
  <2>2. <<item[at].version, snap>> \in Nat \X SUBSET Item
    BY <1>1, ItemFields
  <2> QED
    BY <2>1, <2>2, PostShape
<1>3. item' = [item EXCEPT ![at] = Reposted]
  BY DEF RefreshClean, PostAs
<1> HIDE DEF Reposted
<1>4. /\ item' \in [Item -> WorkItem] /\ item'[at] = Reposted
      /\ \A j \in Item : j # at => item'[j] = item[j]
  BY <1>1, <1>2, <1>3, OneItem
<1> QED
  BY <1>1, <1>2, <1>4, RebasedShape
  DEF OnlyAt, Posted, SameWork, SameCheck, SameGrade, SameRow

LEMMA RefreshRefusedEffects ==
  ASSUME TypeInv, RefreshRefused
  PROVE  Blocks(Rebased)
<1>1. at \in Item /\ TypeOK /\ at <= N
  BY Types, LoopAssumption DEF TypeInv, Item, RefreshRefused, ToCheck, At
<1> QED
  BY <1>1, RebasedShape, ErrorTypes, BlockEffects DEF RefreshRefused

(* A turn of the owner begins, and is counted.                               *)
LEMMA TurnEffects ==
  ASSUME TypeInv, at \in Item
  PROVE  /\ item' = [item EXCEPT ![at] = Tried] =>
              /\ item' \in [Item -> WorkItem] /\ OnlyAt
              /\ item'[at].version = item[at].version /\ item'[at].refreshes = item[at].refreshes
              /\ item'[at].repairs = item[at].repairs + 1
              /\ SamePlace(item'[at], item[at]) /\ SameCheck(item'[at], item[at])
              /\ SameGrade(item'[at], item[at]) /\ SameRow(item'[at], item[at])
         /\ item' = [item EXCEPT ![at] = [Rebased EXCEPT !.refreshes = @ + 1]] =>
              /\ item' \in [Item -> WorkItem] /\ OnlyAt
              /\ item'[at].version = item[at].version /\ item'[at].repairs = item[at].repairs
              /\ item'[at].refreshes = item[at].refreshes + 1
              /\ item'[at].pr = item[at].pr /\ SameCheck(item'[at], item[at])
              /\ SameGrade(item'[at], item[at]) /\ SameRow(item'[at], item[at])
<1> DEFINE Refreshing == [Rebased EXCEPT !.refreshes = Rebased.refreshes + 1]
<1>1. /\ item[at] \in WorkItem /\ TypeOK /\ Rebased \in WorkItem
      /\ item[at].repairs \in Nat /\ Rebased.refreshes \in Nat
  BY Types, RebasedShape, ItemFields DEF TypeInv
<1>2. /\ Tried \in WorkItem
      /\ Tried.version = item[at].version /\ Tried.refreshes = item[at].refreshes
      /\ Tried.repairs = item[at].repairs + 1
      /\ SamePlace(Tried, item[at]) /\ SameCheck(Tried, item[at])
      /\ SameGrade(Tried, item[at]) /\ SameRow(Tried, item[at])
  BY <1>1 DEF Tried, WorkItem, SamePlace, SameCheck, SameGrade, SameRow
<1>3. /\ Refreshing \in WorkItem
      /\ Refreshing.version = Rebased.version /\ Refreshing.repairs = Rebased.repairs
      /\ Refreshing.refreshes = Rebased.refreshes + 1 /\ Refreshing.pr = Rebased.pr
      /\ SameCheck(Refreshing, Rebased) /\ SameGrade(Refreshing, Rebased)
      /\ SameRow(Refreshing, Rebased)
  BY <1>1 DEF WorkItem, SameCheck, SameGrade, SameRow
<1>4. ASSUME item' = [item EXCEPT ![at] = [Rebased EXCEPT !.refreshes = @ + 1]]
      PROVE  item' = [item EXCEPT ![at] = Refreshing]
  BY <1>4
<1> HIDE DEF Refreshing
<1>5. ASSUME item' = [item EXCEPT ![at] = Tried]
      PROVE  /\ item' \in [Item -> WorkItem] /\ item'[at] = Tried
             /\ \A j \in Item : j # at => item'[j] = item[j]
  BY <1>1, <1>2, <1>5, OneItem
<1>6. ASSUME item' = [item EXCEPT ![at] = [Rebased EXCEPT !.refreshes = @ + 1]]
      PROVE  /\ item' \in [Item -> WorkItem] /\ item'[at] = Refreshing
             /\ \A j \in Item : j # at => item'[j] = item[j]
  BY <1>1, <1>3, <1>4, <1>6, OneItem
<1> QED
  BY <1>1, <1>2, <1>3, <1>5, <1>6, RebasedShape
  DEF OnlyAt, SameWork, SameCheck, SameGrade, SameRow

(* A row that only says why nobody could review, a judgement that blocks it,   *)
(* and a repair that never reaches the owner.                                *)
LEMMA UnavailableEffects ==
  ASSUME TypeInv, ReviewUnavailable
  PROVE  /\ item' \in [Item -> WorkItem] /\ OnlyAt
         /\ SameWork(item'[at], item[at]) /\ SamePlace(item'[at], item[at])
         /\ SameCheck(item'[at], item[at]) /\ SameGrade(item'[at], item[at])
         /\ item'[at].merge = item[at].merge /\ item[at].merge = "review_unavailable"
<1> DEFINE Row == [item[at] EXCEPT !.error = "REVIEW_UNAVAILABLE"]
<1>1. at \in Item /\ TypeOK /\ item[at] \in WorkItem /\ item[at].merge = "review_unavailable"
      /\ "REVIEW_UNAVAILABLE" \in RowError
  BY Types, LoopAssumption, ErrorTypes DEF TypeInv, Item, ReviewUnavailable, At
<1>2. /\ Row \in WorkItem /\ Row.merge = item[at].merge
      /\ SameWork(Row, item[at]) /\ SamePlace(Row, item[at])
      /\ SameCheck(Row, item[at]) /\ SameGrade(Row, item[at])
  BY <1>1 DEF WorkItem, SameWork, SamePlace, SameCheck, SameGrade
<1>3. item' = [item EXCEPT ![at] = Row]
  BY DEF ReviewUnavailable
<1> HIDE DEF Row
<1>4. /\ item' \in [Item -> WorkItem] /\ item'[at] = Row
      /\ \A j \in Item : j # at => item'[j] = item[j]
  BY <1>1, <1>2, <1>3, OneItem
<1> QED
  BY <1>1, <1>2, <1>4 DEF OnlyAt

LEMMA RejectEffects ==
  ASSUME TypeInv, RejudgeRejects
  PROVE  /\ item'[at].merge = "blocked"
         /\ \E v \in Verdict \ {"approved"} : JudgesAt(v)
<1>1. at \in Item /\ TypeOK /\ at <= N
  BY Types, LoopAssumption DEF TypeInv, Item, RejudgeRejects, At
<1>2. PICK v \in Verdicts :
        item' = [item EXCEPT ![at] = Block(Judge(at, v),
                     IF v \in {"red", "stale"} THEN "GATE_RED" ELSE "ITERATION_CAP")]
  BY DEF RejudgeRejects
<1>3. v \in Verdict \ {"approved"}
  BY VerdictTypes DEF Verdicts
<1> DEFINE e == IF v \in {"red", "stale"} THEN "GATE_RED" ELSE "ITERATION_CAP"
<1>4. e \in RowError
  BY DEF RowError
<1>5. Judge(at, v) \in WorkItem
  BY <1>1, <1>3, JudgeShape
<1> HIDE DEF e
<1>6. Blocks(Judge(at, v))
  BY <1>1, <1>2, <1>4, <1>5, BlockEffects DEF e
<1> QED
  BY <1>1, <1>3, <1>6, JudgeShape
  DEF Blocks, JudgesAt, SameWork, SamePlace, SameCheck, SameGrade

LEMMA RepairStopsEffects ==
  ASSUME TypeInv, RepairStops, at <= N
  PROVE  /\ item' \in [Item -> WorkItem] /\ OnlyAt
         /\ item'[at].merge = "blocked"
         /\ SamePlace(item'[at], item[at]) /\ SameCheck(item'[at], item[at])
         /\ SameGrade(item'[at], item[at])
         /\ item'[at].version = item[at].version /\ item'[at].refreshes = item[at].refreshes
         /\ \/ item'[at].repairs = item[at].repairs
            \/ MayRepair /\ item'[at].repairs = item[at].repairs + 1
<1> DEFINE e == IF fail \in Stop THEN fail ELSE "CHECK_REQUIRES_HUMAN"
<1>1. /\ at \in Item /\ TypeOK /\ item[at] \in WorkItem /\ item[at].repairs \in Nat
      /\ e \in RowError /\ "ITERATION_CAP" \in RowError
  <2>1. at \in Item /\ TypeOK
    BY Types, LoopAssumption DEF TypeInv, Item
  <2>3. item[at] \in WorkItem
    BY <2>1, Types
  <2>2. e \in RowError /\ "ITERATION_CAP" \in RowError
    BY <2>1, ErrorTypes
  <2> HIDE DEF e
  <2> QED
    BY <2>1, <2>2, <2>3, ItemFields
<1>2. /\ Tried \in WorkItem /\ Tried.repairs = item[at].repairs + 1
      /\ Tried.version = item[at].version /\ Tried.refreshes = item[at].refreshes
      /\ SamePlace(Tried, item[at]) /\ SameCheck(Tried, item[at])
      /\ SameGrade(Tried, item[at])
  BY <1>1 DEF Tried, WorkItem, SamePlace, SameCheck, SameGrade
<1>3. CASE ~MayRepair
  <2>1. item' = [item EXCEPT ![at] = Block(item[at], "ITERATION_CAP")]
    BY <1>3 DEF RepairStops
  <2> QED
    BY <1>1, <2>1, BlockEffects DEF Blocks, SameWork
<1>4. CASE MayRepair
  <2>1. item' = [item EXCEPT ![at] = Block(Tried, e)]
    BY <1>4 DEF RepairStops
  <2> HIDE DEF e
  <2>2. Blocks(Tried)
    BY <1>1, <1>2, <2>1, BlockEffects
  <2> QED
    BY <1>2, <1>4, <2>2 DEF Blocks, SameWork, SamePlace, SameCheck, SameGrade
<1> QED
  BY <1>3, <1>4

(* A row blocked in finalization, by whatever step.                          *)
LEMMA BlockedEffects ==
  ASSUME TypeInv
  PROVE  /\ BlockUnready => Blocks(item[at])
         /\ LaterExecuteEnds(round) /\ (RefreshEnds \/ DeferredCheckEnds \/ RepairEnds) =>
              \/ UNCHANGED <<item, at>> /\ pc' \in {"check", "judge", "rejudge"}
              \/ Blocks(item[at]) /\ NextItem
         /\ RefreshConflicts =>
              \/ /\ Blocks(Rebased) /\ NextItem /\ UNCHANGED schedule
              \/ /\ item' = [item EXCEPT ![at] = [Rebased EXCEPT !.refreshes = @ + 1]]
                 /\ item[at].refreshes < MaxBaseRefreshes
                 /\ StartRound("refresh", {at}) /\ UNCHANGED at
<1>1. TypeOK /\ item \in [Item -> WorkItem] /\ (at <= N => at \in Item)
  BY Types, LoopAssumption DEF TypeInv, Item
<1>2. ASSUME at <= N
      PROVE  /\ item[at] \in WorkItem /\ Rebased \in WorkItem
             /\ item[at].refreshes \in Nat
  <2>1. item[at] \in WorkItem /\ Rebased \in WorkItem
    BY <1>1, <1>2, RebasedShape
  <2> QED
    BY <2>1, ItemFields
<1>3. ASSUME BlockUnready PROVE Blocks(item[at])
  <2>1. at <= N /\ initial \in RowError /\ item' = [item EXCEPT ![at] = Block(item[at], initial)]
    BY <1>1, <1>3, ErrorTypes DEF BlockUnready, At
  <2> QED
    BY <1>2, <2>1, BlockEffects
<1>4. ASSUME LaterExecuteEnds(round), RefreshEnds \/ DeferredCheckEnds \/ RepairEnds
      PROVE  \/ UNCHANGED <<item, at>> /\ pc' \in {"check", "judge", "rejudge"}
             \/ Blocks(item[at]) /\ NextItem
  <2>1. at <= N
    BY <1>4 DEF RefreshEnds, DeferredCheckEnds, RepairEnds, LaterExecuteEnds, ExecuteEnds,
                TypeInv, Placed
  <2>2. fail' # "" => fail' \in RowError
    <3>1. fail \in Cause \cup {""} /\ Reason \in Cause
      BY <1>4, ReasonIsCause DEF LaterExecuteEnds, ExecuteEnds, TypeInv, Running
    <3> QED
      BY <1>4, <3>1 DEF LaterExecuteEnds, RowError
  <2>3. \/ UNCHANGED <<item, at>> /\ pc' \in {"check", "judge", "rejudge"}
        \/ /\ \E e \in RowError : item' = [item EXCEPT ![at] = Block(item[at], e)]
           /\ NextItem
    BY <1>1, <1>4, <2>2, ErrorTypes DEF RefreshEnds, DeferredCheckEnds, RepairEnds
  <2> QED
    BY <1>2, <2>1, <2>3, BlockEffects
<1>5. ASSUME RefreshConflicts
      PROVE  \/ /\ Blocks(Rebased) /\ NextItem /\ UNCHANGED schedule
             \/ /\ item' = [item EXCEPT ![at] = [Rebased EXCEPT !.refreshes = @ + 1]]
                /\ item[at].refreshes < MaxBaseRefreshes
                /\ StartRound("refresh", {at}) /\ UNCHANGED at
  <2>1. at <= N
    BY <1>5 DEF RefreshConflicts, ToCheck, At
  <2>2. CASE item[at].refreshes >= MaxBaseRefreshes
    BY <1>1, <1>2, <1>5, <2>1, <2>2, BlockEffects, ErrorTypes DEF RefreshConflicts
  <2>3. CASE ~(item[at].refreshes >= MaxBaseRefreshes)
    BY <1>2, <1>5, <2>1, <2>3 DEF RefreshConflicts, MaxBaseRefreshes
  <2> QED
    BY <2>2, <2>3
<1> QED
  BY <1>3, <1>4, <1>5

ItemTypes == item \in [Item -> WorkItem] /\ snap \in SUBSET Item /\ landed \in Seq(Item)

LEMMA ItemStep ==
  ASSUME TypeInv, [Next]_vars
  PROVE  ItemTypes'
<1> USE DEF branch, ItemTypes
<1>0. TypeOK /\ ItemTypes /\ (at <= N => at \in Item)
  BY Types, LoopAssumption DEF TypeInv, Item
<1>1. ASSUME NEW i \in Item, BuilderEnds(i) PROVE ItemTypes'
  BY <1>0, <1>1, BuilderEffects DEF BuilderEnds
<1>2. CASE CheckerBlocked \/ CheckerNeverStarts \/ CheckerEnds \/ EarlyPassStarts \/ EarlyStops
  BY <1>0, <1>2 DEF CheckerBlocked, CheckerNeverStarts, CheckerEnds, EarlyPassStarts, EarlyStops
<1>3. CASE CheckerStarts \/ CheckerCannotPublish \/ PublishRest \/ CheckWritten
  <2>1. UNCHANGED branch
    BY <1>3 DEF CheckerStarts, CheckerCannotPublish, PublishRest, CheckWritten
  <2>2. item' \in [Item -> WorkItem]
    BY <1>3, CheckerStartsEffects, PublishEffects, CheckWrittenEffects
  <2> QED
    BY <1>0, <2>1, <2>2
<1>4. CASE EarlyMerge \/ Approved
  <2>1. at <= N /\ item[at] \in WorkItem /\ Judge(at, "approved") \in WorkItem
    BY <1>0, <1>4, Types, JudgeShape DEF EarlyMerge, Approved, At, Verdict
  <2>2. \/ MergeIfPolicyAllows(at, Judge(at, "approved"))
        \/ MergeIfPolicyAllows(at, item[at])
    BY <1>4 DEF EarlyMerge, Approved
  <2> QED
    BY <1>0, <2>1, <2>2, MergeEffects
<1>5. CASE EarlyReject \/ GateAndReview \/ RejudgeApproves
  <2>1. at <= N /\ UNCHANGED branch
    BY <1>5 DEF EarlyReject, GateAndReview, RejudgeApproves, ToJudge, At
  <2>2. \E v \in Verdict : item' = [item EXCEPT ![at] = Judge(at, v)]
    BY <1>0, <1>5, VerdictTypes, <2>1 DEF EarlyReject, GateAndReview, RejudgeApproves
  <2> QED
    BY <1>0, <2>1, <2>2, JudgeEffects DEF JudgesAt
<1>6. CASE RejudgeRejects \/ ReviewUnavailable \/ RefreshClean \/ RefreshRefused \/ BlockUnready
  <2>1. UNCHANGED branch
    BY <1>6 DEF RejudgeRejects, ReviewUnavailable, RefreshClean, RefreshRefused, BlockUnready, queue
  <2>2. item' \in [Item -> WorkItem]
    BY <1>6, RejectEffects, UnavailableEffects, RefreshCleanEffects, RefreshRefusedEffects,
       BlockedEffects DEF JudgesAt, Blocks
  <2> QED
    BY <1>0, <2>1, <2>2
<1>7. CASE RefreshConflicts \/ RefreshEnds \/ DeferredCheckEnds \/ RepairEnds
  <2>1. UNCHANGED branch
    BY <1>7 DEF RefreshConflicts, RefreshEnds, DeferredCheckEnds, RepairEnds, LaterExecuteEnds
  <2>2. CASE RefreshConflicts
    <3>1. at \in Item
      BY <1>0, <2>2 DEF RefreshConflicts, ToCheck, At
    <3> QED
      BY <1>0, <2>1, <2>2, <3>1, BlockedEffects, TurnEffects DEF Blocks
  <2>3. CASE RefreshEnds \/ DeferredCheckEnds \/ RepairEnds
    <3>1. LaterExecuteEnds(round)
      BY <2>3 DEF RefreshEnds, DeferredCheckEnds, RepairEnds, LaterExecuteEnds
    <3> QED
      BY <1>0, <2>1, <2>3, <3>1, BlockedEffects DEF Blocks
  <2> QED
    BY <1>7, <2>2, <2>3
<1>8. CASE Repair
  <2>1. UNCHANGED branch /\ at <= N
    BY <1>8 DEF Repair, NeedsRepair, At
  <2>2. CASE RepairStops
    BY <1>0, <2>1, <2>2, RepairStopsEffects
  <2>3. CASE RepairGoesToOwner
    BY <1>0, <2>1, <2>3, TurnEffects DEF RepairGoesToOwner
  <2> QED
    BY <1>8, <2>2, <2>3 DEF Repair
<1>9. CASE InitialExecuteEnds \/ TakeEarlyRow \/ NothingMergedYet \/ AuthorDeferredCheck
           \/ UseEarlyVerdict
  BY <1>0, <1>9 DEF InitialExecuteEnds, TakeEarlyRow, NothingMergedYet, AuthorDeferredCheck,
                    UseEarlyVerdict
<1>10. CASE SettleRun \/ SetMergePolicy \/ UNCHANGED vars
  BY <1>0, <1>10 DEF SettleRun, SetMergePolicy, vars
<1> QED
  BY <1>1, <1>2, <1>3, <1>4, <1>5, <1>6, <1>7, <1>8, <1>9, <1>10 DEF Next, Run

(* The type invariant is inductive.                                           *)
LEMMA TypeInit == Init => TypeInv
<1> SUFFICES ASSUME Init PROVE TypeInv
  OBVIOUS
<1>1. ItemTypes
  <2> DEFINE Fresh == [version |-> 0, base |-> {}, head |-> <<0, {}>>, pr |-> FALSE,
                       check |-> 0, kept |-> 0, keptOn |-> {}, verdict |-> "none",
                       judged |-> 0, on |-> {}, merge |-> "open", error |-> "",
                       repairs |-> 0, refreshes |-> 0]
  <2>1. Fresh \in WorkItem
    BY DEF WorkItem, Verdict, MergeState, RowError
  <2>2. item = [i \in Item |-> Fresh]
    BY DEF Init
  <2> HIDE DEF Fresh
  <2>3. item \in [Item -> WorkItem]
    BY <2>1, <2>2
  <2>4. snap \in SUBSET Item /\ landed \in Seq(Item)
    BY EmptySeq DEF Init
  <2> QED
    BY <2>3, <2>4 DEF ItemTypes
<1>2. PlanTypes /\ SetTypes
  BY DEF Init, PlanTypes, SetTypes, AwaitedOf
<1>3. PlaceTypes /\ Placed /\ OutcomeTypes /\ Running
  <2>1. last = 0 /\ at = 1 /\ pc = "execute" /\ round = "initial"
    BY DEF Init
  <2>2. N \in Nat /\ N >= 1
    BY LoopAssumption
  <2>3. OutcomeTypes /\ Running
    BY DEF Init, OutcomeTypes, Running
  <2> QED
    BY <2>1, <2>2, <2>3 DEF PlaceTypes, Placed, Later
<1> QED
  BY <1>1, <1>2, <1>3 DEF TypeInv, TypeOK, ItemTypes, PlanTypes, SetTypes, PlaceTypes, OutcomeTypes

LEMMA TypeStep == TypeInv /\ [Next]_vars => TypeInv'
<1> SUFFICES ASSUME TypeInv, [Next]_vars PROVE TypeInv'
  OBVIOUS
<1>1. PlanTypes' /\ SetTypes' /\ PlaceTypes' /\ OutcomeTypes' /\ ItemTypes' /\ Placed' /\ Running'
  BY PlanStep, SetStep, PlaceStep, OutcomeStep, ItemStep
<1> QED
  BY <1>1 DEF TypeInv, TypeOK, ItemTypes, PlanTypes, SetTypes, PlaceTypes, OutcomeTypes

(* Every value the run's threads read is one of those the engine writes: in     *)
(* particular every row error is a reason a person may be shown.              *)
THEOREM LoopTypeOK == Spec => []TypeOK
<1>1. TypeInv => TypeOK
  BY DEF TypeInv
<1> QED
  BY <1>1, TypeInit, TypeStep, PTL DEF Spec

-----------------------------------------------------------------------------
(* Who is at work when.  The first call of _execute, with its early pass, comes  *)
(* before finalization; a later call is about the pull request finalization is  *)
(* at, which then is one it may gate.                                        *)
First == round = "initial" /\ pc \in {"execute", "early", "join", "closing"}
Owned == pc = "execute" /\ round \in {"refresh", "repair"}
OnItem == Later \/ pc \in {"check", "judge", "decide", "rejudge"}
Finalizing == OnItem \/ pc = "item"

(* The checker is done when a call of _execute ends, its subjects are of this   *)
(* call, and it publishes only what it waited for.                           *)
CheckerInv ==
    /\ pc # "execute" => CheckerFinished
    /\ Later /\ round = "deferred" => checker # "pending"
    /\ checker # "working" => todo = {}
    /\ Later => todo \subseteq {at}
    /\ checker = "pending" => published = {}
(* No builder works outside the call that started it.                        *)
BuilderInv == \A i \in Item : role[i] = "working" =>
    \/ round = "initial" /\ pc \in {"execute", "early", "join"}
    \/ Owned /\ i = at
(* What finalization works on is its to gate.                                *)
GateableInv == OnItem => at \in (scope \cap ready) \ earlyRows
(* A checker is blocked because a builder of its call failed.                *)
BlockedInv == checker = "blocked" /\ (First \/ Later) => \E i \in Active : Failed(i)
(* Once the checker is past its join, whoever it waited for has ended.          *)
AwaitedInv == pc = "execute" /\ checker # "pending" => \A i \in awaited : role[i] # "working"
ScheduleInv == CheckerInv /\ BuilderInv /\ GateableInv /\ BlockedInv /\ AwaitedInv

LEMMA CheckerStep ==
  ASSUME TypeInv, ScheduleInv, [Next]_vars
  PROVE  CheckerInv'
<1> USE DEF CheckerInv, CheckerFinished, Later, schedule, queue, NextItem, At, ToCheck
<1>0. CheckerInv /\ Placed
  BY DEF ScheduleInv, TypeInv
<1>1. ASSUME NEW i \in Item, BuilderEnds(i) PROVE CheckerInv'
  BY <1>0, <1>1 DEF BuilderEnds
<1>2. CASE CheckerBlocked \/ CheckerNeverStarts \/ CheckerCannotPublish
  BY <1>0, <1>2 DEF CheckerBlocked, CheckerNeverStarts, CheckerCannotPublish, CheckerMayStart
<1>3. CASE CheckerStarts
  BY <1>0, <1>3 DEF CheckerStarts, CheckerMayStart, Pending, Active
<1>4. CASE CheckWritten \/ CheckerEnds
  BY <1>0, <1>4, LoopAssumption DEF CheckWritten, CheckerEnds, Cause, Stop
<1>5. CASE EarlyPassStarts \/ EarlyMerge \/ EarlyReject \/ EarlyStops \/ InitialExecuteEnds
  BY <1>0, <1>5 DEF EarlyPassStarts, EarlyMerge, EarlyReject, EarlyStops, EarlyPass,
     InitialExecuteEnds, ExecuteEnds
<1>6. CASE PublishRest
  BY <1>0, <1>6 DEF PublishRest
<1>7. CASE TakeEarlyRow \/ BlockUnready \/ NothingMergedYet \/ RefreshClean \/ RefreshRefused
  BY <1>0, <1>7 DEF TakeEarlyRow, BlockUnready, NothingMergedYet, RefreshClean, RefreshRefused
<1>8. CASE RefreshConflicts \/ AuthorDeferredCheck \/ Repair
  BY <1>0, <1>8 DEF RefreshConflicts, AuthorDeferredCheck, Repair, NeedsRepair, RepairStops,
     RepairGoesToOwner, StartRound
<1>9. CASE RefreshEnds \/ DeferredCheckEnds \/ RepairEnds
  BY <1>0, <1>9 DEF RefreshEnds, DeferredCheckEnds, RepairEnds, LaterExecuteEnds, ExecuteEnds, Placed
<1>10. CASE UseEarlyVerdict \/ GateAndReview \/ Approved \/ ReviewUnavailable
  BY <1>0, <1>10 DEF UseEarlyVerdict, GateAndReview, Approved, ReviewUnavailable, ToJudge
<1>11. CASE RejudgeApproves \/ RejudgeRejects \/ SettleRun \/ SetMergePolicy
  BY <1>0, <1>11 DEF RejudgeApproves, RejudgeRejects, SettleRun, SetMergePolicy
<1>12. CASE UNCHANGED vars
  BY <1>0, <1>12 DEF vars
<1> QED
  BY <1>1, <1>2, <1>3, <1>4, <1>5, <1>6, <1>7, <1>8, <1>9, <1>10, <1>11, <1>12 DEF Next, Run

LEMMA BuilderStep ==
  ASSUME TypeInv, ScheduleInv, [Next]_vars
  PROVE  BuilderInv'
<1> USE DEF BuilderInv, Owned, schedule, NextItem, At, ToCheck
<1>0. /\ BuilderInv /\ Placed /\ role \in [Item -> {"working", "done"} \cup Cause]
      /\ at <= N => at \in Item
  <2>1. TypeOK
    BY DEF TypeInv
  <2>2. at <= N => at \in Item
    BY <2>1, Types, LoopAssumption DEF Item
  <2> QED
    BY <2>1, <2>2, Types DEF ScheduleInv, TypeInv
<1>1. ASSUME NEW i \in Item, BuilderEnds(i) PROVE BuilderInv'
  <2>1. /\ UNCHANGED <<round, pc, at>>
        /\ \A j \in Item : role'[j] = "working" => role[j] = "working"
    BY <1>0, <1>1, BuilderEffects DEF BuilderEnds, Cause, Stop
  <2> QED
    BY <1>0, <2>1
<1>2. CASE CheckerBlocked \/ CheckerNeverStarts \/ CheckerCannotPublish \/ CheckerStarts
  BY <1>0, <1>2 DEF CheckerBlocked, CheckerNeverStarts, CheckerCannotPublish, CheckerStarts,
     CheckerMayStart
<1>3. CASE CheckWritten \/ CheckerEnds
  BY <1>0, <1>3 DEF CheckWritten, CheckerEnds
<1>4. CASE EarlyPassStarts
  BY <1>0, <1>4 DEF EarlyPassStarts, Partial, Placed, Later
<1>5. CASE EarlyMerge \/ EarlyReject \/ EarlyStops
  BY <1>0, <1>5 DEF EarlyMerge, EarlyReject, EarlyStops, EarlyPass
<1>6. CASE PublishRest
  BY <1>0, <1>6 DEF PublishRest, BuildersFinished
<1>7. CASE InitialExecuteEnds
  BY <1>0, <1>7 DEF InitialExecuteEnds, ExecuteEnds, BuildersFinished
<1>8. CASE TakeEarlyRow \/ BlockUnready \/ NothingMergedYet \/ RefreshClean \/ RefreshRefused
  BY <1>0, <1>8 DEF TakeEarlyRow, BlockUnready, NothingMergedYet, RefreshClean, RefreshRefused
<1>9. CASE RefreshConflicts \/ AuthorDeferredCheck \/ Repair
  BY <1>0, <1>9 DEF RefreshConflicts, AuthorDeferredCheck, Repair, NeedsRepair, RepairStops,
     RepairGoesToOwner, StartRound
<1>10. CASE RefreshEnds \/ DeferredCheckEnds \/ RepairEnds
  BY <1>0, <1>10 DEF RefreshEnds, DeferredCheckEnds, RepairEnds, LaterExecuteEnds, ExecuteEnds,
     BuildersFinished, Placed
<1>11. CASE UseEarlyVerdict \/ GateAndReview \/ Approved \/ ReviewUnavailable
  BY <1>0, <1>11 DEF UseEarlyVerdict, GateAndReview, Approved, ReviewUnavailable, ToJudge
<1>12. CASE RejudgeApproves \/ RejudgeRejects \/ SettleRun \/ SetMergePolicy
  BY <1>0, <1>12 DEF RejudgeApproves, RejudgeRejects, SettleRun, SetMergePolicy
<1>13. CASE UNCHANGED vars
  BY <1>0, <1>13 DEF vars
<1> QED
  BY <1>1, <1>2, <1>3, <1>4, <1>5, <1>6, <1>7, <1>8, <1>9, <1>10, <1>11, <1>12, <1>13
  DEF Next, Run

LEMMA GateableStep ==
  ASSUME TypeInv, ScheduleInv, [Next]_vars
  PROVE  GateableInv'
<1> USE DEF GateableInv, OnItem, Later, schedule, queue, NextItem, At, ToCheck
<1>0. GateableInv /\ Placed
  BY DEF ScheduleInv, TypeInv
<1>1. ASSUME NEW i \in Item, BuilderEnds(i) PROVE GateableInv'
  BY <1>0, <1>1 DEF BuilderEnds
<1>2. CASE CheckerBlocked \/ CheckerNeverStarts \/ CheckerCannotPublish \/ CheckerStarts
  BY <1>0, <1>2 DEF CheckerBlocked, CheckerNeverStarts, CheckerCannotPublish, CheckerStarts
<1>3. CASE CheckWritten \/ CheckerEnds
  BY <1>0, <1>3 DEF CheckWritten, CheckerEnds
<1>4. CASE EarlyPassStarts \/ EarlyMerge \/ EarlyReject \/ EarlyStops \/ PublishRest
  BY <1>0, <1>4 DEF EarlyPassStarts, EarlyMerge, EarlyReject, EarlyStops, EarlyPass, PublishRest
<1>5. CASE InitialExecuteEnds
  BY <1>0, <1>5 DEF InitialExecuteEnds
<1>6. CASE TakeEarlyRow \/ BlockUnready \/ NothingMergedYet \/ RefreshClean \/ RefreshRefused
  BY <1>0, <1>6 DEF TakeEarlyRow, BlockUnready, NothingMergedYet, RefreshClean, RefreshRefused
<1>7. CASE RefreshConflicts \/ AuthorDeferredCheck \/ Repair
  BY <1>0, <1>7 DEF RefreshConflicts, AuthorDeferredCheck, Repair, NeedsRepair, RepairStops,
     RepairGoesToOwner, StartRound
<1>8. CASE RefreshEnds \/ DeferredCheckEnds \/ RepairEnds
  BY <1>0, <1>8 DEF RefreshEnds, DeferredCheckEnds, RepairEnds, LaterExecuteEnds, ExecuteEnds, Placed
<1>9. CASE UseEarlyVerdict \/ GateAndReview \/ Approved \/ ReviewUnavailable
  BY <1>0, <1>9 DEF UseEarlyVerdict, GateAndReview, Approved, ReviewUnavailable, ToJudge
<1>10. CASE RejudgeApproves \/ RejudgeRejects \/ SettleRun \/ SetMergePolicy
  BY <1>0, <1>10 DEF RejudgeApproves, RejudgeRejects, SettleRun, SetMergePolicy
<1>11. CASE UNCHANGED vars
  BY <1>0, <1>11 DEF vars
<1> QED
  BY <1>1, <1>2, <1>3, <1>4, <1>5, <1>6, <1>7, <1>8, <1>9, <1>10, <1>11 DEF Next, Run

LEMMA BlockedStep ==
  ASSUME TypeInv, ScheduleInv, [Next]_vars
  PROVE  BlockedInv'
<1> USE DEF BlockedInv, First, Later, Failed, Active, schedule, queue, NextItem, At, ToCheck
<1>0. /\ BlockedInv /\ Placed /\ (pc # "execute" => checker \notin {"pending", "working"})
      /\ "working" \notin Cause /\ "blocked" \notin Cause
  BY DEF ScheduleInv, CheckerInv, CheckerFinished, TypeInv, Cause, Stop
<1>1. ASSUME NEW i \in Item, BuilderEnds(i) PROVE BlockedInv'
  <2>1. \A j \in Item : Failed(j) => Failed(j)'
    BY <1>0, <1>1, BuilderEffects
  <2>2. UNCHANGED <<checker, round, pc, at>>
    BY <1>1 DEF BuilderEnds
  <2>3. First \/ Later => Active \subseteq Item
    BY Types, LoopAssumption DEF TypeInv, Placed, Item
  <2> QED
    BY <1>0, <2>1, <2>2, <2>3
<1>2. CASE CheckerBlocked
  <2>1. \E i \in Active : Failed(i)
    BY <1>2 DEF CheckerBlocked, AllBuildersFailed, Pending
  <2> QED
    BY <1>2, <2>1 DEF CheckerBlocked
<1>3. CASE CheckerNeverStarts \/ CheckerCannotPublish \/ CheckerStarts
  BY <1>0, <1>3 DEF CheckerNeverStarts, CheckerCannotPublish, CheckerStarts
<1>4. CASE CheckWritten \/ CheckerEnds
  BY <1>0, <1>4, LoopAssumption DEF CheckWritten, CheckerEnds
<1>5. CASE EarlyPassStarts
  BY <1>0, <1>5 DEF EarlyPassStarts
<1>6. CASE EarlyMerge \/ EarlyReject \/ EarlyStops \/ PublishRest
  BY <1>0, <1>6 DEF EarlyMerge, EarlyReject, EarlyStops, EarlyPass, PublishRest, Placed
<1>7. CASE InitialExecuteEnds
  BY <1>0, <1>7 DEF InitialExecuteEnds
<1>8. CASE TakeEarlyRow \/ BlockUnready \/ NothingMergedYet \/ RefreshClean \/ RefreshRefused
  BY <1>0, <1>8 DEF TakeEarlyRow, BlockUnready, NothingMergedYet, RefreshClean, RefreshRefused
<1>9. CASE RefreshConflicts \/ AuthorDeferredCheck \/ Repair
  BY <1>0, <1>9 DEF RefreshConflicts, AuthorDeferredCheck, Repair, NeedsRepair, RepairStops,
     RepairGoesToOwner, StartRound
<1>10. CASE RefreshEnds \/ DeferredCheckEnds \/ RepairEnds
  BY <1>0, <1>10 DEF RefreshEnds, DeferredCheckEnds, RepairEnds, LaterExecuteEnds, ExecuteEnds
<1>11. CASE UseEarlyVerdict \/ GateAndReview \/ Approved \/ ReviewUnavailable
  BY <1>0, <1>11 DEF UseEarlyVerdict, GateAndReview, Approved, ReviewUnavailable, ToJudge
<1>12. CASE RejudgeApproves \/ RejudgeRejects \/ SettleRun \/ SetMergePolicy
  BY <1>0, <1>12 DEF RejudgeApproves, RejudgeRejects, SettleRun, SetMergePolicy
<1>13. CASE UNCHANGED vars
  BY <1>0, <1>13 DEF vars
<1> QED
  BY <1>1, <1>2, <1>3, <1>4, <1>5, <1>6, <1>7, <1>8, <1>9, <1>10, <1>11, <1>12, <1>13
  DEF Next, Run

LEMMA AwaitedStep ==
  ASSUME TypeInv, ScheduleInv, [Next]_vars
  PROVE  AwaitedInv'
<1> USE DEF AwaitedInv, schedule, NextItem
<1>0. AwaitedInv /\ awaited \in SUBSET Item
  BY Types DEF ScheduleInv, TypeInv
<1>1. ASSUME NEW i \in Item, BuilderEnds(i) PROVE AwaitedInv'
  <2>1. /\ UNCHANGED <<checker, awaited, pc>>
        /\ \A j \in Item : role'[j] = "working" => role[j] = "working"
    BY <1>0, <1>1, BuilderEffects DEF BuilderEnds, Cause, Stop
  <2> QED
    BY <1>0, <2>1
<1>2. CASE CheckerBlocked \/ CheckerNeverStarts \/ CheckerCannotPublish \/ CheckerStarts
  BY <1>0, <1>2 DEF CheckerBlocked, CheckerNeverStarts, CheckerCannotPublish, CheckerStarts,
     CheckerMayStart
<1>3. CASE CheckWritten \/ CheckerEnds
  BY <1>0, <1>3 DEF CheckWritten, CheckerEnds
<1>4. CASE EarlyPassStarts \/ EarlyMerge \/ EarlyReject \/ EarlyStops \/ PublishRest
  BY <1>0, <1>4 DEF EarlyPassStarts, EarlyMerge, EarlyReject, EarlyStops, EarlyPass, PublishRest
<1>5. CASE InitialExecuteEnds
  BY <1>0, <1>5 DEF InitialExecuteEnds
<1>6. CASE TakeEarlyRow \/ BlockUnready \/ NothingMergedYet \/ RefreshClean \/ RefreshRefused
  BY <1>0, <1>6 DEF TakeEarlyRow, BlockUnready, NothingMergedYet, RefreshClean, RefreshRefused
<1>7. CASE RefreshConflicts \/ AuthorDeferredCheck \/ Repair
  BY <1>0, <1>7 DEF RefreshConflicts, AuthorDeferredCheck, Repair, RepairStops,
     RepairGoesToOwner, StartRound
<1>8. CASE RefreshEnds \/ DeferredCheckEnds \/ RepairEnds
  BY <1>0, <1>8 DEF RefreshEnds, DeferredCheckEnds, RepairEnds, LaterExecuteEnds
<1>9. CASE UseEarlyVerdict \/ GateAndReview \/ Approved \/ ReviewUnavailable
  BY <1>0, <1>9 DEF UseEarlyVerdict, GateAndReview, Approved, ReviewUnavailable
<1>10. CASE RejudgeApproves \/ RejudgeRejects \/ SettleRun \/ SetMergePolicy
  BY <1>0, <1>10 DEF RejudgeApproves, RejudgeRejects, SettleRun, SetMergePolicy
<1>11. CASE UNCHANGED vars
  BY <1>0, <1>11 DEF vars
<1> QED
  BY <1>1, <1>2, <1>3, <1>4, <1>5, <1>6, <1>7, <1>8, <1>9, <1>10, <1>11 DEF Next, Run

LEMMA ScheduleStep == TypeInv /\ ScheduleInv /\ [Next]_vars => ScheduleInv'
<1> SUFFICES ASSUME TypeInv, ScheduleInv, [Next]_vars PROVE ScheduleInv'
  OBVIOUS
<1> QED
  BY CheckerStep, BuilderStep, GateableStep, BlockedStep, AwaitedStep DEF ScheduleInv

-----------------------------------------------------------------------------
(* The default branch.  The early pass decides rows from the first pull request *)
(* on and stops at the first it must skip; finalization goes on from there.     *)
Landed == {landed[k] : k \in 1..Len(landed)}
OrderInv ==
    /\ MergesInDependencyOrder
    /\ \E m \in 0..N : earlyRows = 1..m
    /\ \A i \in Landed : i \in earlyRows \/ (~First /\ i < at)
    /\ pc = "early" => earlyRows = 1..(at - 1) /\ early = {}
    /\ pc = "execute" /\ round = "initial" =>
          landed = <<>> /\ snap = {} /\ earlyRows = {} /\ at = 1 /\ early = {}

LEMMA Here == TypeOK /\ at <= N => at \in Item
BY Types, LoopAssumption DEF Item

(* A merge of a pull request that comes after everything on the branch.        *)
LEMMA LandsLast ==
  ASSUME TypeOK, NEW i \in Item, landed' = Append(landed, i),
         MergesInDependencyOrder, \A j \in Landed : j < i
  PROVE  /\ MergesInDependencyOrder' /\ Landed' = Landed \cup {i}
<1>1. landed \in Seq(Item) /\ Len(landed) \in Nat
  BY Types, LenProperties
<1>2. /\ Len(landed') = Len(landed) + 1
      /\ \A k \in 1..Len(landed) : landed'[k] = landed[k]
      /\ landed'[Len(landed) + 1] = i
  BY <1>1, AppendProperties
<1>3. MergesInDependencyOrder'
  BY <1>1, <1>2 DEF MergesInDependencyOrder, Landed
<1>4. ASSUME NEW j PROVE j \in Landed' <=> j \in Landed \cup {i}
  BY <1>1, <1>2 DEF Landed
<1> QED
  BY <1>3, <1>4

LEMMA OrderStep ==
  ASSUME TypeInv, ScheduleInv, OrderInv, [Next]_vars
  PROVE  OrderInv'
<1> USE DEF First, schedule, queue, branch, NextItem, At, ToCheck
<1>0. /\ TypeOK /\ Placed /\ N \in Nat /\ at \in 1..(N + 1) /\ (at <= N => at \in Item)
      /\ Item = 1..N /\ GateableInv /\ \A i \in Landed : i \in Item
  <2>1. TypeOK /\ landed \in Seq(Item)
    BY Types DEF TypeInv
  <2>2. \A i \in Landed : i \in Item
    BY <2>1, ElementOfSeq, LenProperties DEF Landed
  <2> QED
    BY <2>1, <2>2, Types, Here, LoopAssumption DEF TypeInv, Item, ScheduleInv
<1>1. ASSUME NEW i \in Item, BuilderEnds(i) PROVE OrderInv'
  BY <1>1 DEF BuilderEnds, OrderInv, Landed, MergesInDependencyOrder
<1>2. CASE CheckerBlocked \/ CheckerNeverStarts \/ CheckerCannotPublish \/ CheckerStarts
  BY <1>2 DEF CheckerBlocked, CheckerNeverStarts, CheckerCannotPublish, CheckerStarts,
     OrderInv, Landed, MergesInDependencyOrder
<1>3. CASE CheckWritten \/ CheckerEnds \/ SetMergePolicy
  BY <1>3 DEF CheckWritten, CheckerEnds, SetMergePolicy, OrderInv, Landed, MergesInDependencyOrder
<1>4. CASE UNCHANGED vars
  BY <1>4 DEF vars, OrderInv, Landed, MergesInDependencyOrder
<1>5. CASE EarlyPassStarts \/ EarlyReject \/ EarlyStops \/ PublishRest
  <2>1. UNCHANGED <<landed, earlyRows, at, round>> /\ round = "initial"
    BY <1>0, <1>5 DEF EarlyPassStarts, EarlyReject, EarlyStops, PublishRest, EarlyPass,
       Placed, Later, Partial
  <2>2. /\ First /\ First' /\ pc' # "execute"
        /\ pc' = "early" => pc = "execute" /\ UNCHANGED early
    BY <1>0, <1>5, <2>1 DEF EarlyPassStarts, EarlyReject, EarlyStops, PublishRest, EarlyPass
  <2> QED
    BY <1>0, <2>1, <2>2 DEF OrderInv, Landed, MergesInDependencyOrder
<1>6. CASE EarlyMerge
  <2>1. /\ at \in Item /\ pc = "early" /\ round = "initial" /\ UNCHANGED <<round, early>>
        /\ early = {}
        /\ earlyRows = 1..(at - 1) /\ earlyRows' = earlyRows \cup {at}
        /\ \/ at' = at + 1 /\ pc' = pc
           \/ at' = at /\ pc' = "join"
    BY <1>0, <1>6 DEF EarlyMerge, EarlyPass, OrderInv, Placed
  <2>2. earlyRows' = 1..at
    BY <1>0, <2>1
  <2>3. \A j \in Landed : j < at
    BY <1>0, <2>1 DEF OrderInv
  <2>4. \/ UNCHANGED landed
        \/ landed' = Append(landed, at)
    <3>1. Judge(at, "approved") \in WorkItem
      BY <1>0, <2>1, JudgeShape DEF Verdict
    <3> QED
      BY <1>0, <1>6, <2>1, <3>1, MergeEffects DEF EarlyMerge
  <2>5. MergesInDependencyOrder' /\ Landed' \subseteq Landed \cup {at}
    BY <1>0, <2>1, <2>3, <2>4, LandsLast DEF OrderInv, MergesInDependencyOrder, Landed
  <2>6. \A i \in Landed' : i \in earlyRows'
    BY <1>0, <2>1, <2>2, <2>3, <2>5
  <2> QED
    BY <1>0, <2>1, <2>2, <2>5, <2>6 DEF OrderInv
<1>7. CASE InitialExecuteEnds
  <2>1. UNCHANGED <<landed, earlyRows, round>> /\ pc' \in {"item", "settled"} /\ First
    BY <1>7, <1>0 DEF InitialExecuteEnds, ExecuteEnds, Placed
  <2> QED
    BY <1>0, <2>1 DEF OrderInv, Landed, MergesInDependencyOrder
<1>8. CASE Approved
  <2>1. /\ at \in Item /\ pc = "decide" /\ pc' = "item" /\ at' = at + 1
        /\ UNCHANGED <<earlyRows, round>> /\ at \notin earlyRows
    BY <1>0, <1>8 DEF Approved, GateableInv, OnItem
  <2>2. \A j \in Landed : j < at
    BY <1>0, <2>1 DEF OrderInv
  <2>3. UNCHANGED landed \/ landed' = Append(landed, at)
    <3>1. item[at] \in WorkItem
      BY <1>0, <2>1, Types
    <3> QED
      BY <1>0, <1>8, <2>1, <3>1, MergeEffects DEF Approved
  <2>4. MergesInDependencyOrder' /\ Landed' \subseteq Landed \cup {at}
    BY <1>0, <2>1, <2>2, <2>3, LandsLast DEF OrderInv, MergesInDependencyOrder, Landed
  <2>5. \A i \in Landed' : i < at'
    BY <1>0, <2>1, <2>2, <2>4
  <2> QED
    BY <1>0, <2>1, <2>4, <2>5 DEF OrderInv
<1>9. ASSUME UNCHANGED <<landed, earlyRows>>, pc' \notin {"execute", "early"} \/ round' # "initial",
             ~First, ~First', at' \in {at, at + 1}
      PROVE  OrderInv'
  <2>1. pc' # "early" /\ ~(pc' = "execute" /\ round' = "initial")
    BY <1>9, PlaceStep DEF Placed
  <2>2. \A i \in Landed : i \in earlyRows \/ i < at'
    BY <1>0, <1>9 DEF OrderInv
  <2>3. Landed' = Landed /\ MergesInDependencyOrder'
    BY <1>9 DEF OrderInv, Landed, MergesInDependencyOrder
  <2> QED
    BY <1>9, <2>1, <2>2, <2>3 DEF OrderInv
<1>10. CASE TakeEarlyRow \/ BlockUnready \/ NothingMergedYet \/ RefreshClean \/ RefreshRefused
  BY <1>9, <1>10 DEF TakeEarlyRow, BlockUnready, NothingMergedYet, RefreshClean, RefreshRefused
<1>11. CASE RefreshConflicts \/ AuthorDeferredCheck \/ Repair
  BY <1>9, <1>11 DEF RefreshConflicts, AuthorDeferredCheck, Repair, NeedsRepair, RepairStops,
     RepairGoesToOwner, StartRound
<1>12. CASE RefreshEnds \/ DeferredCheckEnds \/ RepairEnds
  <2>1. /\ pc = "execute" /\ round # "initial" /\ UNCHANGED round
        /\ pc' \in {"check", "judge", "rejudge", "item"} /\ at' \in {at, at + 1}
        /\ UNCHANGED <<landed, earlyRows>>
    BY <1>0, <1>12 DEF RefreshEnds, DeferredCheckEnds, RepairEnds, LaterExecuteEnds, ExecuteEnds,
       Placed
  <2> QED
    BY <1>9, <2>1
<1>13. CASE UseEarlyVerdict \/ GateAndReview \/ ReviewUnavailable
  BY <1>9, <1>13 DEF UseEarlyVerdict, GateAndReview, ReviewUnavailable, ToJudge
<1>14. CASE RejudgeApproves \/ RejudgeRejects \/ SettleRun
  BY <1>9, <1>14 DEF RejudgeApproves, RejudgeRejects, SettleRun
<1> QED
  BY <1>1, <1>2, <1>3, <1>4, <1>5, <1>6, <1>7, <1>8, <1>10, <1>11, <1>12, <1>13, <1>14
  DEF Next, Run

-----------------------------------------------------------------------------
(* What is on GitHub.                                                        *)
Judging == EarlyReject \/ GateAndReview \/ RejudgeApproves \/ RejudgeRejects
Merging == EarlyMerge \/ Approved
Ending == RefreshEnds \/ DeferredCheckEnds \/ RepairEnds
Settling == BlockUnready \/ ReviewUnavailable \/ Repair

LEMMA Judgements ==
  ASSUME TypeInv, Judging
  PROVE  /\ at \in Item
         /\ \E v \in Verdict : JudgesAt(v) /\ (RejudgeRejects => v # "approved")
                               /\ (RejudgeApproves => v = "approved")
                               /\ (EarlyReject => v # "approved")
         /\ UNCHANGED branch
         /\ ~RejudgeRejects => item'[at].merge \in {item[at].merge, "review_unavailable"}
         /\ RejudgeRejects => item'[at].merge = "blocked"
<1>1. TypeOK /\ at <= N /\ at \in Item /\ UNCHANGED branch
  BY Here DEF TypeInv, Judging, EarlyReject, GateAndReview, RejudgeApproves, RejudgeRejects,
     ToJudge, At
<1>2. CASE RejudgeRejects
  <2>1. ~RejudgeApproves /\ ~EarlyReject
    BY <1>2 DEF RejudgeRejects, RejudgeApproves, EarlyReject, EarlyPass, At, NextItem
  <2>2. \E v \in Verdict \ {"approved"} : JudgesAt(v)
    BY <1>2, RejectEffects
  <2> QED
    BY <1>1, <1>2, <2>1, <2>2, RejectEffects
<1>3. CASE EarlyReject \/ GateAndReview \/ RejudgeApproves
  <2>1. \E v \in Verdict : /\ item' = [item EXCEPT ![at] = Judge(at, v)]
                           /\ (RejudgeApproves => v = "approved")
                           /\ (EarlyReject => v # "approved")
    BY <1>1, <1>3, VerdictTypes DEF EarlyReject, GateAndReview, RejudgeApproves, EarlyPass, At,
       ToJudge
  <2>2. ~RejudgeRejects
    BY <1>3 DEF EarlyReject, GateAndReview, RejudgeApproves, RejudgeRejects, EarlyPass, At,
       ToJudge, NextItem
  <2> QED
    BY <1>1, <2>1, <2>2, JudgeEffects
<1> QED
  BY <1>2, <1>3 DEF Judging

LEMMA Merges ==
  ASSUME TypeInv, Merging
  PROVE  \E w \in WorkItem :
           /\ at \in Item /\ OnlyAt
           /\ item' \in [Item -> WorkItem]
           /\ w = IF EarlyMerge THEN Judge(at, "approved") ELSE item[at]
           /\ SameWork(w, item[at]) /\ SamePlace(w, item[at]) /\ SameCheck(w, item[at])
           /\ SameWork(item'[at], w) /\ SamePlace(item'[at], w)
           /\ SameCheck(item'[at], w) /\ SameGrade(item'[at], w)
           /\ \/ item'[at].merge = "human_review" /\ UNCHANGED branch /\ policy = "human_review"
              \/ item'[at].merge = "blocked" /\ UNCHANGED branch
              \/ /\ item'[at].merge = "blocked" /\ landed' = Append(landed, at) /\ snap' = snap
                 /\ w.pr /\ policy = "auto"
              \/ /\ item'[at].merge = "merged" /\ landed' = Append(landed, at)
                 /\ snap' = {landed'[k] : k \in 1..Len(landed')}
                 /\ w.pr /\ policy = "auto"
<1> DEFINE w == IF EarlyMerge THEN Judge(at, "approved") ELSE item[at]
<1>1. TypeOK /\ at \in Item /\ item[at] \in WorkItem /\ "approved" \in Verdict
  <2>1. TypeOK /\ at <= N
    BY DEF TypeInv, Merging, EarlyMerge, Approved, At
  <2> QED
    BY <2>1, Here, Types DEF Verdict
<1>2. /\ w \in WorkItem
      /\ SameWork(w, item[at]) /\ SamePlace(w, item[at]) /\ SameCheck(w, item[at])
  BY <1>1, JudgeShape DEF SameWork, SamePlace, SameCheck
<1>3. MergeIfPolicyAllows(at, w)
  BY DEF Merging, EarlyMerge, Approved
<1> HIDE DEF w
<1>4. /\ item' \in [Item -> WorkItem]
      /\ \A j \in Item : j # at => item'[j] = item[j]
      /\ SameWork(item'[at], w) /\ SamePlace(item'[at], w)
      /\ SameCheck(item'[at], w) /\ SameGrade(item'[at], w)
      /\ \/ item'[at].merge = "human_review" /\ UNCHANGED branch /\ policy = "human_review"
         \/ item'[at].merge = "blocked" /\ UNCHANGED branch
         \/ /\ item'[at].merge = "blocked" /\ landed' = Append(landed, at) /\ snap' = snap
            /\ w.pr /\ policy = "auto"
         \/ /\ item'[at].merge = "merged" /\ landed' = Append(landed, at)
            /\ snap' = {landed'[k] : k \in 1..Len(landed')}
            /\ w.pr /\ policy = "auto"
  BY <1>1, <1>2, <1>3, MergeEffects
<1> QED
  BY <1>1, <1>2, <1>4 DEF OnlyAt, w

(* Everything but publication and a rebase leaves the patches and heads alone. *)
LEMMA PlaceKept ==
  ASSUME TypeInv, CheckWritten \/ Judging \/ Merging \/ Ending \/ Settling
  PROVE  \A i \in Item : SamePlace(item'[i], item[i]) /\ item'[i].version = item[i].version
<1> USE DEF OnlyAt, SamePlace, SameWork
<1>1. CASE CheckWritten
  BY <1>1, CheckWrittenEffects
<1>2. CASE Judging
  BY <1>2, Judgements DEF JudgesAt
<1>3. CASE Merging
  BY <1>3, Merges
<1>4. CASE Ending
  <2>1. LaterExecuteEnds(round)
    BY <1>4 DEF Ending, RefreshEnds, DeferredCheckEnds, RepairEnds, LaterExecuteEnds
  <2> QED
    BY <1>4, <2>1, BlockedEffects DEF Ending, Blocks
<1>5. CASE Settling
  <2>1. CASE BlockUnready \/ ReviewUnavailable
    BY <2>1, BlockedEffects, UnavailableEffects DEF Blocks
  <2>2. CASE Repair
    <3>1. at <= N /\ at \in Item
      BY <2>2, Here DEF Repair, NeedsRepair, At, TypeInv
    <3>2. CASE RepairStops
      BY <3>1, <3>2, RepairStopsEffects
    <3>3. CASE RepairGoesToOwner
      BY <3>1, <3>3, TurnEffects DEF RepairGoesToOwner
    <3> QED
      BY <2>2, <3>2, <3>3 DEF Repair
  <2> QED
    BY <1>5, <2>1, <2>2 DEF Settling
<1> QED
  BY <1>1, <1>2, <1>3, <1>4, <1>5

(* A call of _execute that ends without an error.                            *)
LEMMA NoErrors ==
  ASSUME TypeInv, ScheduleInv, ExecuteEnds, Errors = {}
  PROVE  checker = "done" /\ \A i \in Active : role[i] = "done"
<1>1. /\ CheckerFinished /\ (First \/ Later) /\ Active \subseteq Item
      /\ \A i \in Item : role[i] # "working"
  <2>1. First \/ Later
    BY DEF ExecuteEnds, First, Later, TypeInv, Placed
  <2>2. at <= N \/ round = "initial"
    BY DEF ExecuteEnds, TypeInv, Placed
  <2>3. Active \subseteq Item
    BY <2>2, Here DEF Active, TypeInv
  <2> QED
    BY <2>1, <2>3 DEF ExecuteEnds, ScheduleInv, CheckerInv, BuilderInv, BuildersFinished, Owned
<1>2. checker \notin Cause /\ \A i \in Active : role[i] \notin Cause
  BY DEF Errors
<1>3. checker # "blocked"
  BY <1>1, <1>2 DEF ScheduleInv, BlockedInv, Failed
<1> QED
  BY <1>1, <1>2, <1>3, Types DEF CheckerFinished, TypeInv

(* A later call of _execute ends: finalization goes on with its pull request, or  *)
(* blocks its row and takes the next.                                         *)
LEMMA EndingShape ==
  ASSUME TypeInv, Ending
  PROVE  /\ pc = "execute" /\ Later /\ at \in Item /\ ExecuteEnds
         /\ UNCHANGED <<settings, depends, schedule, queue, branch, initial, status>>
         /\ \/ /\ UNCHANGED <<item, at>>
               /\ \/ round = "refresh" /\ pc' = "check" /\ Errors = {}
                  \/ round = "repair" /\ pc' = "rejudge" /\ Errors = {}
                  \/ round = "deferred" /\ pc' = "judge" /\ item[at].check # 0
            \/ at' = at + 1 /\ pc' = "item" /\ Blocks(item[at])
<1>1. pc = "execute" /\ round # "initial" /\ ExecuteEnds /\ LaterExecuteEnds(round)
  BY DEF Ending, RefreshEnds, DeferredCheckEnds, RepairEnds, LaterExecuteEnds, ExecuteEnds,
     TypeInv, Placed
<1>2. at \in Item
  BY <1>1, Here DEF TypeInv, Placed
<1>3. UNCHANGED <<settings, depends, schedule, queue, branch, initial, status>>
  BY DEF Ending, RefreshEnds, DeferredCheckEnds, RepairEnds, LaterExecuteEnds
<1>4. /\ at + 1 # at
      /\ \/ UNCHANGED <<item, at>> /\ pc' \in {"check", "judge", "rejudge"}
         \/ Blocks(item[at]) /\ NextItem
  BY <1>1, <1>2, BlockedEffects, LoopAssumption DEF Ending, Item
<1>5. ASSUME at' = at
      PROVE  \/ round = "refresh" /\ pc' = "check" /\ Errors = {}
             \/ round = "repair" /\ pc' = "rejudge" /\ Errors = {}
             \/ round = "deferred" /\ pc' = "judge" /\ item[at].check # 0
  <2>1. CASE RefreshEnds
    BY <1>4, <1>5, <2>1 DEF RefreshEnds, LaterExecuteEnds, NextItem
  <2>2. CASE RepairEnds
    BY <1>4, <1>5, <2>2 DEF RepairEnds, LaterExecuteEnds, NextItem
  <2>3. CASE DeferredCheckEnds
    BY <1>4, <1>5, <2>3 DEF DeferredCheckEnds, LaterExecuteEnds, NextItem
  <2> QED
    BY <2>1, <2>2, <2>3 DEF Ending
<1> QED
  BY <1>1, <1>2, <1>3, <1>4, <1>5 DEF NextItem, Later

(* An open pull request shows its patch as it is, except while its owner is at  *)
(* work on it; no pull request opens before its builder is done.              *)
OpenInv ==
    /\ First => \A i \in Item : item[i].pr => Posted(item[i]) /\ role[i] = "done"
    /\ Finalizing => \A i \in at..N : item[i].pr /\ ~(Owned /\ i = at) => Posted(item[i])
(* What the checker writes checks for is published.                           *)
PublishedInv ==
    pc = "execute" /\ ~Partial /\ checker \in {"working", "done"} =>
        \A i \in Active : role[i] = "done" => Posted(item[i])
(* Under a policy that leaves the merge to a person there is no early pass, and  *)
(* every pull request of finalization is open.                                *)
PersonInv ==
    policy = "human_review" /\ ~changed =>
        /\ First => pc = "execute" /\ ~Partial
        /\ Finalizing => \A i \in scope : item[i].pr
PublicationInv == OpenInv /\ PublishedInv /\ PersonInv

LEMMA KeptPosted ==
  ASSUME NEW v, NEW w, v.version = w.version, SamePlace(v, w)
  PROVE  (Posted(v) <=> Posted(w)) /\ v.pr = w.pr
BY DEF SamePlace, Posted

LEMMA PostsPosted ==
  ASSUME NEW v, NEW w, Posts(v, w), w.pr => Posted(w), v.pr
  PROVE  Posted(v)
BY DEF Posts, Posted, SameWork

LEMMA OpenStep ==
  ASSUME TypeInv, ScheduleInv, PublicationInv, [Next]_vars
  PROVE  OpenInv'
<1> USE DEF schedule, queue, NextItem, At, ToCheck
<1>0. /\ TypeOK /\ N \in Nat /\ at \in 1..(N + 1) /\ Item = 1..N /\ OpenInv /\ PublishedInv
      /\ at <= N => at \in Item
  BY LoopAssumption, Here, Types DEF TypeInv, Item, PublicationInv
<1>1. ASSUME NEW i \in Item, BuilderEnds(i) PROVE OpenInv'
  <2>1. /\ UNCHANGED <<pc, round, at>>
        /\ \A j \in Item : j # i => item'[j] = item[j] /\ role'[j] = role[j]
        /\ role[i] = "working" /\ item'[i].pr = item[i].pr
    BY <1>1, BuilderEffects DEF BuilderEnds, SamePlace
  <2>2. Finalizing => Owned /\ i = at
    BY <1>1, <2>1 DEF ScheduleInv, BuilderInv, Finalizing, OnItem, Later
  <2> QED
    BY <1>0, <2>1, <2>2 DEF OpenInv, First, Finalizing, OnItem, Later, Owned
<1>2. CASE CheckerBlocked \/ CheckerNeverStarts \/ CheckerEnds \/ SetMergePolicy \/ UNCHANGED vars
  <2>1. UNCHANGED <<pc, round, at, item, role>>
    BY <1>2 DEF CheckerBlocked, CheckerNeverStarts, CheckerEnds, SetMergePolicy, vars
  <2> QED
    BY <1>0, <2>1 DEF OpenInv, First, Finalizing, OnItem, Later, Owned
<1>3. CASE CheckerStarts \/ CheckerCannotPublish \/ PublishRest
  <2>1. /\ UNCHANGED <<round, at, role>>
        /\ \/ pc = "execute" /\ pc' = pc
           \/ pc = "join" /\ pc' = "closing"
    BY <1>3 DEF CheckerStarts, CheckerCannotPublish, PublishRest, CheckerMayStart
  <2>2. \A i \in Item : /\ Posts(item'[i], item[i])
                        /\ i \notin Unpublished => SamePlace(item'[i], item[i])
    BY <1>3, CheckerStartsEffects, PublishEffects
  <2>3. \A i \in Unpublished : role[i] = "done"
    BY DEF Unpublished
  <2>4. ASSUME NEW i \in Item, item[i].pr => Posted(item[i]), item'[i].pr
        PROVE  Posted(item'[i])
    BY <2>2, <2>4, PostsPosted
  <2>5. \A i \in Item : item'[i].pr => item[i].pr \/ role[i] = "done"
    BY <2>2, <2>3 DEF SamePlace
  <2> QED
    BY <1>0, <2>1, <2>4, <2>5 DEF OpenInv, First, Finalizing, OnItem, Later, Owned
<1>4. CASE CheckWritten \/ EarlyMerge \/ EarlyReject
  <2>1. /\ UNCHANGED <<round, role>>
        /\ (First <=> First') /\ (Finalizing' => Finalizing) /\ (Finalizing => at' = at)
        /\ Owned <=> Owned'
    BY <1>4 DEF CheckWritten, EarlyMerge, EarlyReject, EarlyPass, First, Finalizing, OnItem, Later,
       Owned
  <2>2. \A i \in Item : (Posted(item'[i]) <=> Posted(item[i])) /\ item'[i].pr = item[i].pr
    BY <1>4, PlaceKept, KeptPosted DEF Judging, Merging
  <2> QED
    BY <1>0, <2>1, <2>2 DEF OpenInv
<1>5. CASE EarlyPassStarts \/ EarlyStops
  <2>1. /\ UNCHANGED <<round, role, item>> /\ ~Finalizing'
        /\ First' => First
    BY <1>5 DEF EarlyPassStarts, EarlyStops, EarlyPass, First, Finalizing, OnItem, Later
  <2> QED
    BY <1>0, <2>1 DEF OpenInv
<1>6. CASE InitialExecuteEnds
  <2>1. UNCHANGED item /\ First /\ ~First' /\ at' = 1
    BY <1>6 DEF InitialExecuteEnds, ExecuteEnds, First, TypeInv, Placed
  <2> QED
    BY <1>0, <2>1 DEF OpenInv
<1>7. ASSUME Finalizing, ~First', at' \in {at, at + 1},
             \A i \in Item : i # at => item'[i] = item[i],
             at' = at + 1 \/ Owned' \/ (item'[at].pr => Posted(item'[at]))
      PROVE  OpenInv'
  <2>1. ASSUME Finalizing', NEW i \in at'..N, item'[i].pr, ~(Owned' /\ i = at')
        PROVE  Posted(item'[i])
    <3>1. i \in at..N /\ i \in Item
      BY <1>0, <1>7
    <3>2. CASE i = at
      BY <1>0, <1>7, <2>1, <3>2
    <3>3. CASE i # at
      BY <1>0, <1>7, <2>1, <3>1, <3>3 DEF OpenInv
    <3> QED
      BY <3>2, <3>3
  <2> QED
    BY <1>7, <2>1 DEF OpenInv
<1>8. CASE RefreshClean \/ RefreshRefused \/ RefreshConflicts
  <2>1. Finalizing /\ at \in Item
    BY <1>0, <1>8 DEF RefreshClean, RefreshRefused, RefreshConflicts, Finalizing
  <2>2. CASE RefreshClean
    BY <1>7, <2>1, <2>2, RefreshCleanEffects DEF RefreshClean, First, OnlyAt
  <2>3. CASE RefreshRefused
    BY <1>7, <2>1, <2>3, RefreshRefusedEffects DEF RefreshRefused, First, OnlyAt, Blocks
  <2>4. CASE RefreshConflicts
    <3>1. OnlyAt /\ (NextItem \/ (StartRound("refresh", {at}) /\ UNCHANGED at))
      BY <2>1, <2>4, BlockedEffects, TurnEffects DEF Blocks
    <3> QED
      BY <1>7, <2>1, <3>1 DEF First, OnlyAt, StartRound, Owned
  <2> QED
    BY <1>8, <2>2, <2>3, <2>4
<1>9. ASSUME Finalizing, ~First', at' \in {at, at + 1}, UNCHANGED item, ~Owned \/ at' = at + 1
      PROVE  OpenInv'
  BY <1>0, <1>9 DEF OpenInv
<1>10. CASE TakeEarlyRow \/ NothingMergedYet \/ AuthorDeferredCheck \/ UseEarlyVerdict \/ SettleRun
  <2>1. /\ Finalizing /\ ~First' /\ at' \in {at, at + 1} /\ UNCHANGED item /\ ~Owned
    BY <1>10 DEF TakeEarlyRow, NothingMergedYet, AuthorDeferredCheck, UseEarlyVerdict, SettleRun,
       StartRound, ToJudge, Finalizing, OnItem, First, Owned
  <2> QED
    BY <1>9, <2>1
<1>11. CASE GateAndReview \/ RejudgeApproves \/ RejudgeRejects \/ Approved \/ Settling
  <2>1. Finalizing /\ ~Owned /\ ~First' /\ at' \in {at, at + 1} /\ at \in Item
    BY <1>0, <1>11 DEF GateAndReview, RejudgeApproves, RejudgeRejects, Approved, Settling, BlockUnready,
       ReviewUnavailable, Repair, NeedsRepair, RepairStops, RepairGoesToOwner, StartRound,
       ToJudge, Finalizing, OnItem, First, Owned
  <2>2. \A i \in Item : (Posted(item'[i]) <=> Posted(item[i])) /\ item'[i].pr = item[i].pr
    BY <1>11, PlaceKept, KeptPosted DEF Judging, Merging
  <2> QED
    BY <1>0, <2>1, <2>2 DEF OpenInv
<1>12. CASE Ending
  <2>1. /\ Later /\ at \in Item /\ ~First' /\ at' \in {at, at + 1} /\ ~Owned'
        /\ Owned /\ at' = at => ExecuteEnds /\ Errors = {}
    BY <1>0, <1>12, EndingShape DEF First, Owned
  <2>2. \A i \in Item : (Posted(item'[i]) <=> Posted(item[i])) /\ item'[i].pr = item[i].pr
    BY <1>12, PlaceKept, KeptPosted
  <2>3. ASSUME Owned, at' = at PROVE Posted(item[at])
    <3>1. ExecuteEnds /\ Errors = {} /\ Active = {at}
      BY <2>1, <2>3 DEF Active, Owned
    <3>2. checker = "done" /\ role[at] = "done"
      BY <3>1, NoErrors
    <3>3. ~Partial /\ pc = "execute"
      BY <2>1 DEF Partial, Later, TypeInv, Placed
    <3> QED
      BY <1>0, <3>1, <3>2, <3>3 DEF PublishedInv
  <2> QED
    BY <1>0, <2>1, <2>2, <2>3 DEF OpenInv, Finalizing, OnItem
<1> QED
  BY <1>1, <1>2, <1>3, <1>4, <1>5, <1>6, <1>8, <1>10, <1>11, <1>12 DEF Next, Run, Settling, Ending

LEMMA PublishedStep ==
  ASSUME TypeInv, ScheduleInv, PublicationInv, [Next]_vars
  PROVE  PublishedInv'
<1> USE DEF PublishedInv, schedule, queue, NextItem
<1>0. /\ PublishedInv /\ Placed /\ "working" \notin Cause /\ "done" \notin Cause
      /\ pc = "execute" => Active \subseteq Item
  BY ActiveTypes DEF PublicationInv, TypeInv, Cause, Stop
<1>1. ASSUME NEW i \in Item, BuilderEnds(i) PROVE PublishedInv'
  <2>1. /\ UNCHANGED <<pc, checker, awaited, round, at>>
        /\ \A j \in Item : j # i => item'[j] = item[j] /\ role'[j] = role[j]
        /\ role[i] = "working"
    BY <1>1, BuilderEffects DEF BuilderEnds
  <2>2. pc = "execute" /\ ~Partial /\ checker \in {"working", "done"} => i \notin Active
    BY <2>1 DEF ScheduleInv, AwaitedInv, Partial
  <2> QED
    BY <1>0, <2>1, <2>2 DEF Active, Partial, Posted
<1>2. CASE CheckerBlocked \/ CheckerNeverStarts \/ CheckerCannotPublish
  BY <1>0, <1>2 DEF CheckerBlocked, CheckerNeverStarts, CheckerCannotPublish
<1>3. CASE CheckerStarts
  <2>1. /\ UNCHANGED <<pc, awaited, round, at, role>> /\ published = {} /\ pc = "execute"
    BY <1>3 DEF CheckerStarts, CheckerMayStart, ScheduleInv, CheckerInv
  <2>2. \A i \in Active : role[i] = "done" => i \in Unpublished
    BY <2>1 DEF Unpublished
  <2>3. \A i \in Unpublished : Posted(item'[i])
    BY <1>0, <1>3, <2>1, CheckerStartsEffects DEF Unpublished
  <2> QED
    BY <2>1, <2>2, <2>3 DEF Active
<1>4. CASE CheckWritten
  <2>1. UNCHANGED <<pc, checker, awaited, round, at, role>>
    BY <1>4 DEF CheckWritten
  <2>2. \A i \in Item : Posted(item'[i]) <=> Posted(item[i])
    BY <1>4, PlaceKept, KeptPosted
  <2> QED
    BY <1>0, <2>1, <2>2 DEF Active, Partial
<1>5. CASE CheckerEnds
  <2>1. UNCHANGED <<pc, awaited, round, at, role, item>>
    BY <1>5 DEF CheckerEnds
  <2>2. checker = "working"
    BY <1>5 DEF CheckerEnds
  <2> QED
    BY <1>0, <2>1, <2>2 DEF Active, Partial, Posted
<1>6. CASE SetMergePolicy \/ UNCHANGED vars
  <2>1. UNCHANGED <<pc, checker, awaited, round, at, role, item>>
    BY <1>6 DEF SetMergePolicy, vars
  <2> QED
    BY <1>0, <2>1 DEF Active, Partial, Posted
<1>7. CASE EarlyPassStarts \/ EarlyMerge \/ EarlyReject \/ EarlyStops \/ PublishRest \/ InitialExecuteEnds
  BY <1>7 DEF EarlyPassStarts, EarlyMerge, EarlyReject, EarlyStops, EarlyPass, PublishRest,
     InitialExecuteEnds
<1>8. CASE TakeEarlyRow \/ BlockUnready \/ NothingMergedYet \/ RefreshClean \/ RefreshRefused
  BY <1>8 DEF TakeEarlyRow, BlockUnready, NothingMergedYet, RefreshClean, RefreshRefused
<1>9. CASE RefreshConflicts \/ AuthorDeferredCheck \/ Repair
  BY <1>9 DEF RefreshConflicts, AuthorDeferredCheck, Repair, RepairStops, RepairGoesToOwner,
     StartRound, Active
<1>10. CASE Ending
  BY <1>10, EndingShape
<1>11. CASE UseEarlyVerdict \/ GateAndReview \/ Approved \/ ReviewUnavailable
  BY <1>11 DEF UseEarlyVerdict, GateAndReview, Approved, ReviewUnavailable
<1>12. CASE RejudgeApproves \/ RejudgeRejects \/ SettleRun
  BY <1>12 DEF RejudgeApproves, RejudgeRejects, SettleRun
<1> QED
  BY <1>1, <1>2, <1>3, <1>4, <1>5, <1>6, <1>7, <1>8, <1>9, <1>10, <1>11, <1>12
  DEF Next, Run, Ending

(* A pull request that is open stays open.                                    *)
LEMMA OpenStays ==
  ASSUME TypeInv, [Next]_vars, NEW j \in Item, item[j].pr
  PROVE  item'[j].pr
<1> USE DEF schedule, queue
<1>1. ASSUME NEW i \in Item, BuilderEnds(i) PROVE item'[j].pr
  BY <1>1, BuilderEffects DEF SamePlace
<1>2. CASE CheckerStarts \/ CheckerCannotPublish \/ PublishRest
  BY <1>2, CheckerStartsEffects, PublishEffects DEF Posts
<1>3. CASE CheckWritten \/ Judging \/ Merging \/ Ending \/ Settling
  BY <1>3, PlaceKept DEF SamePlace
<1>4. CASE RefreshClean \/ RefreshRefused \/ RefreshConflicts
  <2>1. at \in Item /\ TypeOK
    BY <1>4, Here DEF RefreshClean, RefreshRefused, RefreshConflicts, ToCheck, At, TypeInv
  <2>2. RefreshConflicts => OnlyAt /\ item'[at].pr = item[at].pr
    BY <2>1, BlockedEffects, TurnEffects, RebasedShape DEF Blocks, SamePlace
  <2> QED
    BY <1>4, <2>1, <2>2, RefreshCleanEffects, RefreshRefusedEffects, RebasedShape
    DEF OnlyAt, Blocks, Posted, SamePlace
<1>5. CASE UNCHANGED item
  BY <1>5
<1> QED
  BY <1>1, <1>2, <1>3, <1>4, <1>5
  DEF Next, Run, Judging, Merging, Ending, Settling, CheckerBlocked, CheckerNeverStarts, CheckerEnds,
      EarlyPassStarts, EarlyStops, InitialExecuteEnds, TakeEarlyRow, NothingMergedYet,
      AuthorDeferredCheck, UseEarlyVerdict, SettleRun, SetMergePolicy, vars

LEMMA PersonStep ==
  ASSUME TypeInv, ScheduleInv, PublicationInv, [Next]_vars
  PROVE  PersonInv'
<1> USE DEF settings, schedule, queue, NextItem, At, ToCheck
<1>0. /\ PersonInv /\ PublishedInv /\ Placed /\ scope \in SUBSET Item
      /\ \A i \in Item : item[i].pr => item'[i].pr
  BY OpenStays, Types DEF PublicationInv, TypeInv
<1>1. CASE SetMergePolicy
  BY <1>1 DEF SetMergePolicy, PersonInv
<1>2. ASSUME UNCHANGED <<policy, changed>>, ~First',
             Finalizing' => Finalizing /\ UNCHANGED scope
      PROVE  PersonInv'
  BY <1>0, <1>2 DEF PersonInv
<1>3. ASSUME UNCHANGED <<policy, changed, pc, round, awaited, at, scope>>
      PROVE  PersonInv'
  BY <1>0, <1>3 DEF PersonInv, First, Finalizing, OnItem, Later, Partial, Active
<1>4. ASSUME NEW i \in Item, BuilderEnds(i) PROVE PersonInv'
  BY <1>3, <1>4 DEF BuilderEnds
<1>5. CASE CheckerBlocked \/ CheckerNeverStarts \/ CheckerStarts \/ CheckerCannotPublish
  BY <1>3, <1>5 DEF CheckerBlocked, CheckerNeverStarts, CheckerStarts, CheckerCannotPublish
<1>6. CASE CheckWritten \/ CheckerEnds \/ UNCHANGED vars
  BY <1>3, <1>6 DEF CheckWritten, CheckerEnds, vars
<1>7. CASE EarlyPassStarts \/ EarlyMerge \/ EarlyReject \/ EarlyStops \/ PublishRest
  <2>1. First /\ UNCHANGED <<policy, changed>> /\ (pc = "execute" => Partial) /\ ~Finalizing'
    BY <1>0, <1>7 DEF EarlyPassStarts, EarlyMerge, EarlyReject, EarlyStops, EarlyPass, PublishRest,
       First, Placed, Partial, Later, Finalizing, OnItem
  <2> QED
    BY <1>0, <2>1 DEF PersonInv
<1>8. CASE InitialExecuteEnds
  <2>1. /\ First /\ ~First' /\ UNCHANGED <<policy, changed, item>> /\ ExecuteEnds
        /\ Finalizing' => scope' = IF Errors = {} THEN Item ELSE {i \in Item : item[i].pr}
    BY <1>0, <1>8 DEF InitialExecuteEnds, ExecuteEnds, First, Placed, Finalizing, OnItem, Later
  <2>2. ASSUME policy = "human_review", ~changed, Errors = {}
        PROVE  \A i \in Item : item[i].pr
    <3>1. pc = "execute" /\ ~Partial /\ Active = Item
      BY <1>0, <1>8, <2>1, <2>2 DEF PersonInv, InitialExecuteEnds, Active
    <3>2. checker = "done" /\ \A i \in Item : role[i] = "done"
      BY <2>1, <2>2, <3>1, NoErrors
    <3> QED
      BY <1>0, <3>1, <3>2 DEF PublishedInv, Posted
  <2> QED
    BY <2>1, <2>2 DEF PersonInv
<1>9. CASE TakeEarlyRow \/ BlockUnready \/ NothingMergedYet \/ RefreshClean \/ RefreshRefused
  BY <1>2, <1>9 DEF TakeEarlyRow, BlockUnready, NothingMergedYet, RefreshClean, RefreshRefused,
     First, Finalizing
<1>10. CASE RefreshConflicts \/ AuthorDeferredCheck \/ Repair
  BY <1>2, <1>10 DEF RefreshConflicts, AuthorDeferredCheck, Repair, NeedsRepair, RepairStops,
     RepairGoesToOwner, StartRound, First, Finalizing, OnItem
<1>11. CASE Ending
  BY <1>2, <1>11, EndingShape DEF First, Finalizing, OnItem
<1>12. CASE UseEarlyVerdict \/ GateAndReview \/ Approved \/ ReviewUnavailable
  BY <1>2, <1>12 DEF UseEarlyVerdict, GateAndReview, Approved, ReviewUnavailable, ToJudge,
     First, Finalizing, OnItem
<1>13. CASE RejudgeApproves \/ RejudgeRejects \/ SettleRun
  BY <1>2, <1>13 DEF RejudgeApproves, RejudgeRejects, SettleRun, First, Finalizing, OnItem, Later
<1> QED
  BY <1>1, <1>4, <1>5, <1>6, <1>7, <1>8, <1>9, <1>10, <1>11, <1>12, <1>13 DEF Next, Run, Ending

LEMMA PublicationStep ==
  TypeInv /\ ScheduleInv /\ PublicationInv /\ [Next]_vars => PublicationInv'
<1> SUFFICES ASSUME TypeInv, ScheduleInv, PublicationInv, [Next]_vars PROVE PublicationInv'
  OBVIOUS
<1> QED
  BY OpenStep, PublishedStep, PersonStep DEF PublicationInv

-----------------------------------------------------------------------------
(* A pull request whose row is decided is left alone: by the early pass, which   *)
(* goes on in order, by finalization, which skips it or is past it, and by its  *)
(* builder, which has ended.  It may still be published again, as it is.       *)
Decided(i) == i \in earlyRows \/ (~First /\ i < at)
AtWork == Judging \/ Merging \/ Settling \/ RefreshClean \/ RefreshRefused \/ RefreshConflicts \/ Ending

LEMMA AtUndecided ==
  ASSUME TypeInv, ScheduleInv, OrderInv, AtWork
  PROVE  /\ OnlyAt /\ ~Decided(at)
         /\ \A i \in Item : i # at /\ role'[i] = "working" => role[i] = "working"
<1> USE DEF First, schedule, queue, NextItem, At, ToCheck
<1>0. TypeOK /\ at \in 1..(N + 1) /\ N \in Nat /\ GateableInv /\ Placed
      /\ role \in [Item -> {"working", "done"} \cup Cause]
  BY Types, LoopAssumption DEF TypeInv, ScheduleInv
<1>1. CASE EarlyReject \/ EarlyMerge
  <2>1. OnlyAt /\ UNCHANGED role /\ pc = "early"
    BY <1>1, Judgements, Merges DEF Judging, Merging, JudgesAt, EarlyReject, EarlyMerge, EarlyPass
  <2>2. earlyRows = 1..(at - 1) /\ round = "initial"
    BY <1>0, <2>1 DEF OrderInv, Placed
  <2> QED
    BY <1>0, <2>1, <2>2 DEF Decided
<1>2. CASE GateAndReview \/ RejudgeApproves \/ RejudgeRejects \/ Approved
  <2>1. OnlyAt /\ UNCHANGED role
    BY <1>2, Judgements, Merges DEF Judging, Merging, JudgesAt, GateAndReview, RejudgeApproves,
       RejudgeRejects, Approved
  <2>2. pc \in {"check", "judge", "decide", "rejudge"}
    BY <1>2 DEF GateAndReview, RejudgeApproves, RejudgeRejects, Approved, ToJudge
  <2>3. at \notin earlyRows
    BY <1>0, <2>2 DEF GateableInv, OnItem
  <2> QED
    BY <1>0, <2>1, <2>2, <2>3 DEF Decided
<1>3. CASE BlockUnready \/ ReviewUnavailable \/ RefreshClean \/ RefreshRefused
  <2>1. OnlyAt /\ UNCHANGED role
    BY <1>3, BlockedEffects, UnavailableEffects, RefreshCleanEffects, RefreshRefusedEffects
    DEF Blocks, BlockUnready, ReviewUnavailable, RefreshClean, RefreshRefused
  <2>2. pc \in {"item", "decide"} /\ at \notin earlyRows
    BY <1>0, <1>3 DEF GateableInv, OnItem, BlockUnready, ReviewUnavailable, RefreshClean,
       RefreshRefused
  <2> QED
    BY <1>0, <2>1, <2>2 DEF Decided
<1>4. CASE RefreshConflicts \/ Repair
  <2>1. /\ pc \in {"item", "decide"} /\ at \notin earlyRows /\ at <= N
        /\ UNCHANGED role \/ role' = [i \in Item |-> IF i \in {at} THEN "working" ELSE role[i]]
    BY <1>0, <1>4 DEF GateableInv, OnItem, RefreshConflicts, Repair, NeedsRepair, RepairStops,
       RepairGoesToOwner, StartRound
  <2>2. OnlyAt
    <3>1. at \in Item
      BY <1>0, <2>1, Here
    <3> QED
      BY <1>4, <2>1, <3>1, BlockedEffects, TurnEffects, RepairStopsEffects
      DEF Blocks, Repair, RepairGoesToOwner
  <2> QED
    BY <1>0, <2>1, <2>2 DEF Decided
<1>5. CASE Ending
  <2>1. /\ Later /\ at \in Item /\ UNCHANGED role /\ (UNCHANGED item \/ OnlyAt)
    BY <1>5, EndingShape DEF Blocks
  <2> QED
    BY <1>0, <2>1 DEF Decided, OnlyAt, Later, GateableInv, OnItem
<1> QED
  BY <1>1, <1>2, <1>3, <1>4, <1>5 DEF AtWork, Judging, Merging, Settling

LEMMA DecidedStays ==
  ASSUME TypeInv, ScheduleInv, OrderInv, [Next]_vars, NEW j \in Item, Decided(j),
         role[j] # "working"
  PROVE  /\ SameWork(item'[j], item[j]) /\ SameGrade(item'[j], item[j])
         /\ SameRow(item'[j], item[j]) /\ (Posted(item[j]) => Posted(item'[j]))
         /\ role'[j] # "working" /\ Decided(j)' /\ item'[j].base = item[j].base
<1> USE DEF First, schedule, queue, NextItem
<1>0. /\ TypeOK /\ at \in 1..(N + 1) /\ N \in Nat /\ Placed /\ at + 1 > at
      /\ Item = 1..N
  BY Types, LoopAssumption DEF TypeInv, Item
<1>1. Decided(j)'
  <2>1. ASSUME NEW i \in Item, BuilderEnds(i) PROVE UNCHANGED <<pc, round, at, earlyRows>>
    BY <2>1 DEF BuilderEnds
  <2>2. CASE UNCHANGED <<pc, round, at, earlyRows>>
    BY <2>2 DEF Decided
  <2>3. CASE First /\ earlyRows \subseteq earlyRows'
    BY <2>3 DEF Decided
  <2>4. CASE at' \in {at, at + 1} /\ UNCHANGED earlyRows /\ ~First'
    BY <1>0, <2>4 DEF Decided
  <2>5. CASE CheckerBlocked \/ CheckerNeverStarts \/ CheckerStarts \/ CheckerCannotPublish
             \/ CheckWritten \/ CheckerEnds
    BY <2>2, <2>5 DEF CheckerBlocked, CheckerNeverStarts, CheckerStarts, CheckerCannotPublish,
       CheckWritten, CheckerEnds
  <2>6. CASE EarlyPassStarts \/ EarlyMerge \/ EarlyReject \/ EarlyStops \/ PublishRest
             \/ InitialExecuteEnds
    <3>1. First
      BY <1>0, <2>6 DEF EarlyPassStarts, EarlyMerge, EarlyReject, EarlyStops, EarlyPass, PublishRest,
         InitialExecuteEnds, ExecuteEnds, Placed, Partial, Later
    <3> QED
      BY <2>3, <2>6, <3>1 DEF EarlyPassStarts, EarlyMerge, EarlyReject, EarlyStops, PublishRest,
         InitialExecuteEnds
  <2>7. CASE TakeEarlyRow \/ BlockUnready \/ NothingMergedYet \/ RefreshClean \/ RefreshRefused
    BY <2>4, <2>7 DEF TakeEarlyRow, BlockUnready, NothingMergedYet, RefreshClean, RefreshRefused
  <2>8. CASE RefreshConflicts \/ AuthorDeferredCheck \/ Repair
    BY <2>4, <2>8 DEF RefreshConflicts, AuthorDeferredCheck, Repair, RepairStops,
       RepairGoesToOwner, StartRound
  <2>9. CASE Ending
    BY <2>4, <2>9, EndingShape
  <2>10. CASE UseEarlyVerdict \/ GateAndReview \/ Approved \/ ReviewUnavailable
    BY <2>4, <2>10 DEF UseEarlyVerdict, GateAndReview, Approved, ReviewUnavailable
  <2>11. CASE RejudgeApproves \/ RejudgeRejects \/ SettleRun
    BY <2>4, <2>11 DEF RejudgeApproves, RejudgeRejects, SettleRun
  <2>12. CASE SetMergePolicy \/ UNCHANGED vars
    BY <2>2, <2>12 DEF SetMergePolicy, vars
  <2> QED
    BY <2>1, <2>2, <2>5, <2>6, <2>7, <2>8, <2>9, <2>10, <2>11, <2>12 DEF Next, Run, Ending
<1> DEFINE Kept == /\ SameWork(item'[j], item[j]) /\ SameGrade(item'[j], item[j])
                   /\ SameRow(item'[j], item[j]) /\ (Posted(item[j]) => Posted(item'[j]))
                   /\ role'[j] # "working" /\ item'[j].base = item[j].base
<1>2. ASSUME item'[j] = item[j], role'[j] # "working" PROVE Kept
  BY <1>2 DEF SameWork, SameGrade, SameRow, Posted
<1>3. ASSUME NEW i \in Item, BuilderEnds(i) PROVE Kept
  BY <1>2, <1>3, BuilderEffects
<1>4. ASSUME CheckerStarts \/ CheckerCannotPublish \/ PublishRest PROVE Kept
  <2>1. Posts(item'[j], item[j]) /\ UNCHANGED role
    BY <1>4, CheckerStartsEffects, PublishEffects
    DEF CheckerStarts, CheckerCannotPublish, PublishRest
  <2>2. Posted(item[j]) => Posted(item'[j])
    BY <2>1 DEF Posts, Posted, SameWork
  <2> QED
    BY <2>1, <2>2 DEF Posts
<1>5. ASSUME CheckWritten PROVE Kept
  <2>1. SameWork(item'[j], item[j]) /\ SamePlace(item'[j], item[j]) /\ UNCHANGED role
        /\ SameGrade(item'[j], item[j]) /\ SameRow(item'[j], item[j])
    BY <1>5, CheckWrittenEffects DEF CheckWritten, SameWork, SamePlace, SameGrade, SameRow
  <2>2. (Posted(item[j]) => Posted(item'[j])) /\ item'[j].base = item[j].base
    BY <2>1 DEF SameWork, SamePlace, Posted
  <2> QED
    BY <2>1, <2>2
<1> HIDE DEF Kept
<1>6. ASSUME AtWork PROVE Kept
  <2>1. j # at
    BY AtUndecided, <1>6
  <2> QED
    BY <1>2, <1>6, <2>1, AtUndecided DEF OnlyAt
<1>7. ASSUME UNCHANGED <<item, role>> PROVE Kept
  BY <1>2, <1>7
<1>8. ASSUME AuthorDeferredCheck PROVE Kept
  BY <1>2, <1>8 DEF AuthorDeferredCheck, StartRound
<1>9. Kept
  BY <1>3, <1>4, <1>5, <1>6, <1>7, <1>8
  DEF Next, Run, AtWork, Judging, Merging, Settling, Ending, CheckerBlocked, CheckerNeverStarts,
      CheckerEnds, EarlyPassStarts, EarlyStops, InitialExecuteEnds, TakeEarlyRow, NothingMergedYet,
      UseEarlyVerdict, SettleRun, SetMergePolicy, vars
<1> QED
  BY <1>1, <1>9 DEF Kept

(* Only a merge changes the branch, or a row to "merged" or "human_review".     *)
LEMMA QuietRows ==
  ASSUME TypeInv, [Next]_vars, ~Merging
  PROVE  /\ UNCHANGED branch
         /\ \A i \in Item : item'[i].merge \in {item[i].merge, "review_unavailable", "blocked"}
<1> USE DEF queue, SameRow, OnlyAt
<1> DEFINE Quiet == UNCHANGED branch
                    /\ \A i \in Item : item'[i].merge \in {item[i].merge, "review_unavailable", "blocked"}
<1>1. ASSUME NEW i \in Item, BuilderEnds(i) PROVE Quiet
  BY <1>1, BuilderEffects DEF BuilderEnds
<1>2. ASSUME CheckerStarts \/ CheckerCannotPublish \/ PublishRest PROVE Quiet
  <2>1. UNCHANGED branch
    BY <1>2 DEF CheckerStarts, CheckerCannotPublish, PublishRest
  <2>2. \A i \in Item : Posts(item'[i], item[i])
    BY <1>2, CheckerStartsEffects, PublishEffects
  <2> QED
    BY <2>1, <2>2 DEF Posts
<1>3. ASSUME CheckWritten PROVE Quiet
  BY <1>3, CheckWrittenEffects DEF CheckWritten
<1>4. ASSUME Judging PROVE Quiet
  BY <1>4, Judgements DEF JudgesAt
<1>5. ASSUME BlockUnready \/ ReviewUnavailable \/ RefreshClean \/ RefreshRefused PROVE Quiet
  <2>1. UNCHANGED branch
    BY <1>5 DEF BlockUnready, ReviewUnavailable, RefreshClean, RefreshRefused
  <2> QED
    BY <1>5, <2>1, BlockedEffects, UnavailableEffects, RefreshCleanEffects, RefreshRefusedEffects
    DEF Blocks
<1>6. ASSUME RefreshConflicts \/ Repair PROVE Quiet
  <2>1. UNCHANGED branch /\ at \in Item /\ at <= N
    <3>1. UNCHANGED branch /\ at <= N
      BY <1>6 DEF RefreshConflicts, Repair, NeedsRepair, ToCheck, At
    <3> QED
      BY <3>1, Here DEF TypeInv
  <2> QED
    BY <1>6, <2>1, BlockedEffects, TurnEffects, RepairStopsEffects
    DEF Blocks, Repair, RepairGoesToOwner
<1>7. ASSUME Ending PROVE Quiet
  BY <1>7, EndingShape DEF Blocks
<1>8. ASSUME UNCHANGED <<item, branch>> PROVE Quiet
  BY <1>8
<1> HIDE DEF Quiet
<1>9. Quiet
  BY <1>1, <1>2, <1>3, <1>4, <1>5, <1>6, <1>7, <1>8
  DEF Next, Run, Merging, Judging, Ending, CheckerBlocked, CheckerNeverStarts,
      CheckerEnds, EarlyPassStarts, EarlyStops, InitialExecuteEnds, TakeEarlyRow, NothingMergedYet,
      AuthorDeferredCheck, UseEarlyVerdict, SettleRun, SetMergePolicy, vars
<1> QED
  BY <1>9 DEF Quiet

LEMMA LandedBefore ==
  ASSUME TypeInv, OrderInv, at \in Item, ~Decided(at)
  PROVE  \A j \in Landed : j \in Item /\ j < at /\ Decided(j)
<1>1. landed \in Seq(Item) /\ Item = 1..N
  BY Types DEF TypeInv, Item
<1>2. \A j \in Landed : j \in Item
  BY <1>1, ElementOfSeq, LenProperties DEF Landed
<1> QED
  BY <1>1, <1>2, LoopAssumption DEF OrderInv, Decided

(* The local copy of the branch holds what is recorded as merged, and nothing    *)
(* that is not on the branch.                                                *)
SnapInv == /\ \A i \in Item : item[i].merge = "merged" => i \in snap
           /\ snap \subseteq Landed

LEMMA SnapStep ==
  ASSUME TypeInv, ScheduleInv, OrderInv, SnapInv, [Next]_vars
  PROVE  SnapInv'
<1>1. CASE Merging
  <2>1. OnlyAt /\ ~Decided(at) /\ \A j \in Landed : j < at
    BY <1>1, AtUndecided, LandedBefore DEF AtWork, OnlyAt
  <2>2. ASSUME landed' = Append(landed, at) PROVE Landed' = Landed \cup {at}
    BY <2>1, <2>2, LandsLast DEF TypeInv, OrderInv, OnlyAt
  <2>3. \/ item'[at].merge \in {"human_review", "blocked"} /\ UNCHANGED branch
        \/ item'[at].merge = "blocked" /\ landed' = Append(landed, at) /\ snap' = snap
        \/ item'[at].merge = "merged" /\ landed' = Append(landed, at) /\ snap' = Landed'
    BY <1>1, Merges DEF Landed
  <2> QED
    BY <2>1, <2>2, <2>3 DEF SnapInv, OnlyAt, branch, Landed
<1>2. CASE ~Merging
  BY <1>2, QuietRows DEF SnapInv, branch, Landed
<1> QED
  BY <1>1, <1>2

-----------------------------------------------------------------------------
(* The checks.  A check is written once the checker is at work, unless its       *)
(* author failed or it is deferred; so what finalization may gate has one or is  *)
(* deferred, and what is judged has one.                                      *)
Authoring == checker \in {"working", "done"}
SubjectInv ==
    /\ First /\ Authoring =>
          \A i \in Item : item[i].check # 0 \/ i \in todo \cup deferred \/ Failed(i)
    /\ Owned /\ Authoring => \/ item[at].check # 0 \/ at \in todo \/ Failed(at)
                             \/ round = "refresh" /\ at \in deferred
    /\ Owned /\ round = "repair" /\ checker = "pending" => item[at].check # 0
CheckedInv ==
    /\ Finalizing => \A i \in ready : i > at \/ (i = at /\ pc \in {"item", "check"}) =>
          item[i].check # 0 \/ i \in deferred
    /\ pc \in {"judge", "decide", "rejudge"} => item[at].check # 0
(* The kept executable is the first one, written on the empty branch, or one    *)
(* that finalization wrote on the base the pull request stands or stood on.    *)
KeptInv == \A i \in Item :
    \/ item[i].kept = 0
    \/ item[i].kept = 1 /\ item[i].keptOn = {}
    \/ /\ item[i].kept \in {1, 2} /\ item[i].keptOn # {}
       /\ ~First /\ (i < at \/ (OnItem /\ i = at /\ item[i].keptOn = snap))
CheckInv == SubjectInv /\ CheckedInv /\ KeptInv

LEMMA ChecksKept ==
  ASSUME TypeInv, [Next]_vars, ~CheckWritten, NEW j \in Item
  PROVE  /\ item'[j].kept = item[j].kept /\ item'[j].keptOn = item[j].keptOn
         /\ ~CheckerStarts => item'[j].check = item[j].check
<1> USE DEF queue, SameCheck, OnlyAt
<1> DEFINE Quiet == /\ item'[j].kept = item[j].kept /\ item'[j].keptOn = item[j].keptOn
                    /\ ~CheckerStarts => item'[j].check = item[j].check
<1>1. ASSUME NEW i \in Item, BuilderEnds(i) PROVE Quiet
  BY <1>1, BuilderEffects
<1>2. ASSUME CheckerStarts \/ CheckerCannotPublish \/ PublishRest PROVE Quiet
  BY <1>2, CheckerStartsEffects, PublishEffects DEF Posts
<1>3. ASSUME Merging PROVE Quiet
  BY <1>3, Merges
<1>4. ASSUME Judging PROVE Quiet
  BY <1>4, Judgements DEF JudgesAt
<1>5. ASSUME BlockUnready \/ ReviewUnavailable \/ RefreshClean \/ RefreshRefused PROVE Quiet
  <2>1. RefreshRefused => at \in Item /\ TypeOK
    BY Here DEF RefreshRefused, ToCheck, At, TypeInv
  <2> QED
    BY <1>5, <2>1, BlockedEffects, UnavailableEffects, RefreshCleanEffects, RefreshRefusedEffects,
       RebasedShape DEF Blocks
<1>6. ASSUME RefreshConflicts \/ Repair PROVE Quiet
  <2>1. at \in Item /\ at <= N /\ TypeOK
    BY <1>6, Here DEF RefreshConflicts, Repair, NeedsRepair, ToCheck, At, TypeInv
  <2> QED
    BY <1>6, <2>1, BlockedEffects, TurnEffects, RepairStopsEffects, RebasedShape
    DEF Blocks, Repair, RepairGoesToOwner
<1>7. ASSUME Ending PROVE Quiet
  BY <1>7, EndingShape DEF Blocks
<1>8. ASSUME UNCHANGED item PROVE Quiet
  BY <1>8
<1> HIDE DEF Quiet
<1>9. Quiet
  BY <1>1, <1>2, <1>3, <1>4, <1>5, <1>6, <1>7, <1>8
  DEF Next, Run, Merging, Judging, Ending, CheckerBlocked, CheckerNeverStarts,
      CheckerEnds, EarlyPassStarts, EarlyStops, InitialExecuteEnds, TakeEarlyRow, NothingMergedYet,
      AuthorDeferredCheck, UseEarlyVerdict, SettleRun, SetMergePolicy, vars
<1> QED
  BY <1>9 DEF Quiet

(* Finalization never goes back to the first call of _execute, and leaves a      *)
(* pull request, or sees the branch move, only when it takes the next.         *)
LEMMA LaterPhase ==
  ASSUME TypeInv, [Next]_vars, ~First
  PROVE  ~First' /\ (at' = at + 1 \/ (at' = at /\ (OnItem => OnItem') /\ snap' = snap))
<1> USE DEF schedule, queue, branch, NextItem, At, ToCheck, First, OnItem, Later
<1>0. Placed
  BY DEF TypeInv
<1>1. ASSUME NEW i \in Item, BuilderEnds(i)
      PROVE  ~First' /\ at' = at /\ (OnItem => OnItem') /\ snap' = snap
  BY <1>1 DEF BuilderEnds
<1>2. CASE CheckerBlocked \/ CheckerNeverStarts \/ CheckerStarts \/ CheckerCannotPublish
  BY <1>2 DEF CheckerBlocked, CheckerNeverStarts, CheckerStarts, CheckerCannotPublish
<1>3. CASE CheckWritten \/ CheckerEnds \/ SetMergePolicy \/ UNCHANGED vars
  BY <1>3 DEF CheckWritten, CheckerEnds, SetMergePolicy, vars
<1>4. CASE EarlyPassStarts \/ EarlyMerge \/ EarlyReject \/ EarlyStops \/ PublishRest
           \/ InitialExecuteEnds
  BY <1>0, <1>4 DEF EarlyPassStarts, EarlyMerge, EarlyReject, EarlyStops, EarlyPass, PublishRest,
     InitialExecuteEnds, ExecuteEnds, Placed, Partial
<1>5. CASE TakeEarlyRow \/ BlockUnready \/ NothingMergedYet \/ RefreshClean \/ RefreshRefused
  BY <1>5 DEF TakeEarlyRow, BlockUnready, NothingMergedYet, RefreshClean, RefreshRefused
<1>6. CASE RefreshConflicts \/ AuthorDeferredCheck \/ Repair
  BY <1>6 DEF RefreshConflicts, AuthorDeferredCheck, Repair, NeedsRepair, RepairStops,
     RepairGoesToOwner, StartRound
<1>7. CASE Ending
  BY <1>7, EndingShape
<1>8. CASE UseEarlyVerdict \/ GateAndReview \/ Approved \/ ReviewUnavailable
  BY <1>8 DEF UseEarlyVerdict, GateAndReview, Approved, ReviewUnavailable, ToJudge
<1>9. CASE RejudgeApproves \/ RejudgeRejects \/ SettleRun
  BY <1>9 DEF RejudgeApproves, RejudgeRejects, SettleRun
<1> QED
  BY <1>1, <1>2, <1>3, <1>4, <1>5, <1>6, <1>7, <1>8, <1>9 DEF Next, Run, Ending

LEMMA KeptStep ==
  ASSUME TypeInv, ScheduleInv, OrderInv, KeptInv, [Next]_vars
  PROVE  KeptInv'
<1>0. at \in 1..(N + 1) /\ N \in Nat /\ todo \in SUBSET Item /\ Item = 1..N
  BY Types, LoopAssumption DEF TypeInv, Item
<1>1. CASE CheckWritten
  <2>1. PICK i \in todo :
           /\ \A j \in Item : j # i => item'[j] = item[j]
           /\ item'[i].kept = IF Reusable(i) THEN item[i].kept ELSE item[i].kept + 1
           /\ item'[i].keptOn = snap
    BY <1>1, CheckWrittenEffects
  <2>2. UNCHANGED <<pc, round, at, snap>> /\ checker = "working"
    BY <1>1 DEF CheckWritten, branch
  <2>3. \/ First /\ snap = {}
        \/ Later /\ ~First /\ OnItem /\ i = at
    BY <2>1, <2>2 DEF First, Later, OnItem, ScheduleInv, CheckerInv, CheckerFinished, OrderInv
  <2>4. (First <=> First') /\ (OnItem <=> OnItem')
    BY <2>2 DEF First, OnItem, Later
  <2>5. \/ item'[i].kept = 1 /\ item'[i].keptOn = {}
        \/ /\ item'[i].kept \in {1, 2} /\ item'[i].keptOn # {}
           /\ ~First' /\ OnItem' /\ i = at' /\ item'[i].keptOn = snap'
    <3>1. CASE First /\ snap = {}
      BY <1>0, <2>1, <3>1 DEF KeptInv, Reusable
    <3>2. CASE Later /\ ~First /\ OnItem /\ i = at
      <4>1. \/ item[i].kept = 0
            \/ item[i].kept = 1 /\ item[i].keptOn = {}
            \/ item[i].kept \in {1, 2} /\ item[i].keptOn # {} /\ item[i].keptOn = snap
        BY <1>0, <3>2 DEF KeptInv
      <4>2. \/ item'[i].kept = 1
            \/ item'[i].kept = 2 /\ snap # {}
        BY <2>1, <4>1 DEF Reusable
      <4> QED
        BY <2>1, <2>2, <2>4, <3>2, <4>2
    <3> QED
      BY <2>3, <3>1, <3>2
  <2> QED
    BY <1>0, <2>1, <2>2, <2>4, <2>5 DEF KeptInv
<1>2. CASE ~CheckWritten
  <2>1. \A i \in Item : item'[i].kept = item[i].kept /\ item'[i].keptOn = item[i].keptOn
    BY <1>2, ChecksKept
  <2>2. CASE First
    BY <2>1, <2>2 DEF KeptInv
  <2>3. CASE ~First
    BY <1>0, <2>1, <2>3, LaterPhase DEF KeptInv
  <2> QED
    BY <2>2, <2>3
<1> QED
  BY <1>1, <1>2

LEMMA SubjectStep ==
  ASSUME TypeInv, ScheduleInv, OrderInv, SnapInv, CheckInv, [Next]_vars
  PROVE  SubjectInv'
<1> USE DEF schedule, queue, NextItem, Failed, Authoring
<1>0. /\ SubjectInv /\ CheckedInv /\ Placed /\ TypeOK /\ (at <= N => at \in Item)
      /\ "working" \notin Cause /\ "pending" \notin Cause /\ "done" \notin Cause
      /\ todo \in SUBSET Item
  BY Types, Here DEF CheckInv, TypeInv, Cause, Stop
<1>1. ASSUME UNCHANGED <<checker, todo, deferred, round, pc, at>>,
             \A i \in Item : item'[i].check = item[i].check /\ (Failed(i) => Failed(i)')
      PROVE  SubjectInv'
  BY <1>0, <1>1 DEF SubjectInv, First, Owned, Placed
<1>2. ASSUME NEW i \in Item, BuilderEnds(i) PROVE SubjectInv'
  <2>1. UNCHANGED <<checker, todo, deferred, round, pc, at>>
    BY <1>2 DEF BuilderEnds
  <2>2. \A j \in Item : item'[j].check = item[j].check /\ (Failed(j) => Failed(j)')
    BY <1>0, <1>2, BuilderEffects DEF SameCheck
  <2> QED
    BY <1>1, <2>1, <2>2
<1>3. CASE SetMergePolicy \/ UNCHANGED vars
  BY <1>1, <1>3 DEF SetMergePolicy, vars
<1>4. CASE CheckerBlocked \/ CheckerNeverStarts \/ CheckerCannotPublish
  BY <1>0, <1>4 DEF CheckerBlocked, CheckerNeverStarts, CheckerCannotPublish, SubjectInv, Cause, Stop
<1>5. CASE CheckerStarts
  <2>1. /\ UNCHANGED <<round, pc, at, role>> /\ checker' = "working" /\ pc = "execute"
        /\ checker = "pending" /\ deferred \subseteq deferred'
    BY <1>5 DEF CheckerStarts, CheckerMayStart
  <2>2. ASSUME NEW i \in Pending(Active) PROVE i \in deferred' \/ i \in todo' \/ Failed(i)
    BY <1>5, <2>2 DEF CheckerStarts
  <2>3. \A i \in Item : ~(i \in Pending(Active) /\ ~ChecksWaiting(i)) => item'[i].check = item[i].check
    BY <1>5, CheckerStartsEffects
  <2>4. ASSUME First, NEW i \in Item
        PROVE  i \in todo' \cup deferred' \/ Failed(i)
    <3>1. item[i].merge # "merged" /\ Active = Item
      <4>1. round = "initial" /\ snap = {}
        BY <2>1, <2>4 DEF First, OrderInv
      <4> QED
        BY <2>4, <4>1 DEF SnapInv, Active
    <3> QED
      BY <2>2, <2>4, <3>1 DEF Pending
  <2>5. ASSUME Owned
        PROVE  /\ at \in Pending(Active)
               /\ at \in deferred' => ChecksWaiting(at) \/ at \in deferred
    <3>1. /\ OnItem /\ at \in Item /\ Active = {at} /\ ~First
      BY <1>0, <2>1, <2>5 DEF Owned, OnItem, Later, Active, First, Placed
    <3>2. item[at].merge # "merged"
      <4>1. at \notin earlyRows /\ at \in Int
        BY <1>0, <3>1, Types DEF ScheduleInv, GateableInv
      <4>2. at \notin Landed
        BY <4>1 DEF OrderInv
      <4> QED
        BY <3>1, <4>2 DEF SnapInv
    <3>3. deferred' = deferred \cup {i \in Pending(Active) : ChecksWaiting(i)}
      BY <1>5 DEF CheckerStarts
    <3> QED
      BY <3>1, <3>2, <3>3 DEF Pending
  <2>6. ASSUME Owned, round = "repair"
        PROVE  item'[at].check # 0 \/ at \in todo' \/ Failed(at)
    <3>1. item[at].check # 0 /\ at \in Item
      BY <1>0, <2>1, <2>6 DEF SubjectInv, Placed
    <3>2. CASE ChecksWaiting(at)
      BY <2>3, <3>1, <3>2
    <3>3. CASE ~ChecksWaiting(at)
      <4>1. at \in Pending(Active)
        BY <2>5, <2>6
      <4> QED
        BY <1>5, <3>3, <4>1 DEF CheckerStarts
    <3> QED
      BY <3>2, <3>3
  <2>7. ASSUME Owned, round = "refresh"
        PROVE  at \in deferred' \/ at \in todo' \/ Failed(at)
    BY <2>2, <2>5, <2>7
  <2> QED
    BY <1>0, <2>1, <2>4, <2>6, <2>7 DEF SubjectInv, First, Owned
<1>6. CASE CheckWritten
  <2>1. /\ UNCHANGED <<checker, deferred, role, round, pc, at>> /\ checker = "working"
    BY <1>6 DEF CheckWritten
  <2>2. PICK i \in todo : /\ \A j \in Item : j # i => item'[j] = item[j]
                          /\ item'[i].check # 0 /\ todo' = todo \ {i}
    BY <1>6, CheckWrittenEffects
  <2> QED
    BY <1>0, <2>1, <2>2 DEF SubjectInv, First, Owned, Placed
<1>7. CASE CheckerEnds
  BY <1>0, <1>7, LoopAssumption DEF CheckerEnds, SubjectInv, First, Owned
<1>8. ASSUME First, First', UNCHANGED <<checker, todo, deferred, role>>,
             \A i \in Item : item'[i].check = item[i].check
      PROVE  SubjectInv'
  BY <1>0, <1>8 DEF SubjectInv, First, Owned
<1>9. CASE EarlyPassStarts \/ EarlyMerge \/ EarlyReject \/ EarlyStops \/ PublishRest
  <2>1. First /\ First' /\ UNCHANGED <<checker, todo, deferred, role>>
    BY <1>0, <1>9 DEF EarlyPassStarts, EarlyMerge, EarlyReject, EarlyStops, EarlyPass, PublishRest,
       Placed, Partial, Later, First
  <2>2. ~CheckWritten /\ ~CheckerStarts
    BY <1>0, <1>9 DEF EarlyPassStarts, EarlyMerge, EarlyReject, EarlyStops, EarlyPass, PublishRest,
       CheckWritten, CheckerStarts, CheckerMayStart, ScheduleInv, CheckerInv, CheckerFinished
  <2> QED
    BY <1>8, <2>1, <2>2, ChecksKept
<1>10. ASSUME ~First', ~Owned' PROVE SubjectInv'
  BY <1>10 DEF SubjectInv
<1>11. CASE InitialExecuteEnds
  BY <1>10, <1>11 DEF InitialExecuteEnds, First, Owned
<1>12. CASE TakeEarlyRow \/ BlockUnready \/ NothingMergedYet \/ RefreshClean \/ RefreshRefused
  BY <1>10, <1>12 DEF TakeEarlyRow, BlockUnready, NothingMergedYet, RefreshClean, RefreshRefused,
     First, Owned
<1>13. CASE RefreshConflicts
  BY <1>13 DEF RefreshConflicts, StartRound, SubjectInv, First, Owned
<1>14. CASE AuthorDeferredCheck
  BY <1>10, <1>14 DEF AuthorDeferredCheck, StartRound, First, Owned
<1>15. CASE Repair
  <2>1. item[at].check # 0 /\ at \in Item /\ pc = "decide"
    BY <1>0, <1>15 DEF Repair, NeedsRepair, At, CheckedInv
  <2>2. CASE RepairStops
    BY <1>10, <2>2 DEF RepairStops, First, Owned
  <2>3. CASE RepairGoesToOwner
    <3>1. item'[at].check # 0 /\ at' = at
      BY <2>1, <2>3, TurnEffects DEF RepairGoesToOwner, SameCheck
    <3> QED
      BY <2>3, <3>1 DEF RepairGoesToOwner, StartRound, SubjectInv, First, Owned
  <2> QED
    BY <1>15, <2>2, <2>3 DEF Repair
<1>16. CASE Ending
  BY <1>10, <1>16, EndingShape DEF First, Owned
<1>17. CASE UseEarlyVerdict \/ GateAndReview \/ Approved \/ ReviewUnavailable
  BY <1>10, <1>17 DEF UseEarlyVerdict, GateAndReview, Approved, ReviewUnavailable, First, Owned
<1>18. CASE RejudgeApproves \/ RejudgeRejects \/ SettleRun
  BY <1>10, <1>18 DEF RejudgeApproves, RejudgeRejects, SettleRun, First, Owned
<1> QED
  BY <1>2, <1>3, <1>4, <1>5, <1>6, <1>7, <1>9, <1>11, <1>12, <1>13, <1>14, <1>15, <1>16,
     <1>17, <1>18 DEF Next, Run, Ending

(* What is about to be judged has its check.                                  *)
LEMMA JudgedChecked ==
  ASSUME TypeInv, ScheduleInv, CheckedInv, ToJudge \/ At("rejudge")
  PROVE  item[at].check # 0
BY DEF ToJudge, At, CheckedInv, Finalizing, OnItem, ScheduleInv, GateableInv

LEMMA CheckedStep ==
  ASSUME TypeInv, ScheduleInv, OrderInv, SnapInv, CheckInv, [Next]_vars
  PROVE  CheckedInv'
<1> USE DEF schedule, queue, NextItem, Finalizing, OnItem, Later
<1>0. /\ SubjectInv /\ CheckedInv /\ Placed /\ TypeOK /\ (at <= N => at \in Item)
      /\ ready \in SUBSET Item /\ at \in 1..(N + 1) /\ Item = 1..N /\ N \in Nat
      /\ role \in [Item -> {"working", "done"} \cup Cause]
  BY Types, Here, LoopAssumption DEF CheckInv, TypeInv, Item
<1>1. ASSUME NEW i \in Item, BuilderEnds(i) PROVE CheckedInv'
  <2>1. \A j \in Item : item'[j].check = item[j].check
    BY <1>1, BuilderEffects DEF SameCheck
  <2>2. pc \in {"judge", "decide", "rejudge"} => at \in Item
    BY <1>0 DEF ScheduleInv, GateableInv
  <2> QED
    BY <1>0, <1>1, <2>1, <2>2 DEF BuilderEnds, CheckedInv
<1>2. CASE CheckerBlocked \/ CheckerNeverStarts \/ CheckerCannotPublish \/ CheckerEnds
           \/ SetMergePolicy \/ UNCHANGED vars
  <2>1. UNCHANGED <<pc, round, at, ready, deferred>>
    BY <1>2 DEF CheckerBlocked, CheckerNeverStarts, CheckerCannotPublish, CheckerEnds,
       SetMergePolicy, vars
  <2>2. \A i \in Item : item'[i].check = item[i].check
    BY <1>2, PublishEffects DEF CheckerBlocked, CheckerNeverStarts, CheckerEnds, SetMergePolicy, vars
  <2>3. pc \in {"judge", "decide", "rejudge"} => at \in Item
    BY <1>0 DEF ScheduleInv, GateableInv
  <2> QED
    BY <1>0, <2>1, <2>2, <2>3 DEF CheckedInv
<1>3. CASE CheckerStarts
  <2>1. /\ UNCHANGED <<pc, round, at, ready>> /\ pc = "execute" /\ deferred \subseteq deferred'
    BY <1>3 DEF CheckerStarts, CheckerMayStart
  <2>2. ASSUME NEW i \in Item, round # "initial", i # at PROVE item'[i].check = item[i].check
    BY <1>3, <2>2, CheckerStartsEffects DEF Pending, Active
  <2> QED
    BY <1>0, <2>1, <2>2 DEF CheckedInv
<1>4. CASE CheckWritten
  <2>1. /\ UNCHANGED <<pc, round, at, ready, deferred>> /\ pc = "execute"
    BY <1>4 DEF CheckWritten, ScheduleInv, CheckerInv, CheckerFinished
  <2>2. \A i \in Item : item'[i].check = item[i].check \/ item'[i].check # 0
    BY <1>4, CheckWrittenEffects
  <2> QED
    BY <1>0, <2>1, <2>2 DEF CheckedInv
<1>5. CASE EarlyPassStarts \/ EarlyMerge \/ EarlyReject \/ EarlyStops \/ PublishRest
  <2>1. pc' \in {"early", "join", "closing"}
    BY <1>5 DEF EarlyPassStarts, EarlyMerge, EarlyReject, EarlyStops, EarlyPass, PublishRest
  <2> QED
    BY <2>1 DEF CheckedInv
<1>6. CASE InitialExecuteEnds
  <2>1. /\ UNCHANGED <<item, deferred>> /\ ExecuteEnds /\ First /\ Active = Item
        /\ \/ pc' = "settled"
           \/ pc' = "item" /\ ready' = IF Errors = {} THEN Item ELSE Checkable
    BY <1>0, <1>6 DEF InitialExecuteEnds, ExecuteEnds, First, Placed, Active
  <2>2. ASSUME Errors = {}, NEW i \in Item PROVE item[i].check # 0 \/ i \in deferred
    <3>1. checker = "done" /\ role[i] = "done"
      BY <2>1, <2>2, NoErrors
    <3>2. todo = {} /\ ~Failed(i)
      BY <3>1 DEF ScheduleInv, CheckerInv, Failed, Cause, Stop
    <3> QED
      BY <1>0, <2>1, <3>1, <3>2 DEF SubjectInv, Authoring
  <2>3. \A i \in Checkable : item[i].check # 0 \/ i \in deferred
    BY DEF Checkable
  <2>4. Checkable \subseteq Item
    BY DEF Checkable
  <2> QED
    BY <2>1, <2>2, <2>3, <2>4 DEF CheckedInv
<1>7. ASSUME at' = at + 1, pc' = "item", UNCHANGED <<ready, deferred>>, Finalizing,
             ~CheckerStarts, ~CheckWritten
      PROVE  CheckedInv'
  <2>1. \A i \in Item : item'[i].check = item[i].check
    BY <1>7, ChecksKept
  <2> QED
    BY <1>0, <1>7, <2>1 DEF CheckedInv
<1>8. pc \in {"item", "check", "judge", "decide", "rejudge"} => ~CheckerStarts /\ ~CheckWritten
  BY DEF CheckerStarts, CheckerMayStart, CheckWritten, ScheduleInv, CheckerInv, CheckerFinished
<1>9. CASE TakeEarlyRow \/ BlockUnready \/ RefreshRefused \/ RejudgeRejects \/ Approved
            \/ ReviewUnavailable
  BY <1>7, <1>8, <1>9 DEF TakeEarlyRow, BlockUnready, RefreshRefused, RejudgeRejects, Approved,
     ReviewUnavailable, At, ToCheck
<1>10. CASE NothingMergedYet \/ RefreshClean
  <2>1. /\ pc = "item" /\ pc' = "check" /\ UNCHANGED <<at, ready, deferred>>
    BY <1>10 DEF NothingMergedYet, RefreshClean, At, ToCheck
  <2>2. \A i \in Item : item'[i].check = item[i].check
    BY <1>8, <2>1, ChecksKept
  <2> QED
    BY <1>0, <2>1, <2>2 DEF CheckedInv
<1>11. ASSUME pc' = "execute", at' = at, UNCHANGED ready, deferred' \in {deferred, deferred \ {at}},
              pc \in {"item", "check", "decide"}
       PROVE  CheckedInv'
  <2>1. \A i \in Item : item'[i].check = item[i].check
    BY <1>8, <1>11, ChecksKept
  <2> QED
    BY <1>0, <1>11, <2>1 DEF CheckedInv
<1>12. CASE RefreshConflicts \/ Repair \/ AuthorDeferredCheck
  <2>1. /\ pc \in {"item", "check", "decide"} /\ UNCHANGED ready
        /\ \/ at' = at + 1 /\ pc' = "item" /\ UNCHANGED deferred
           \/ at' = at /\ pc' = "execute" /\ deferred' \in {deferred, deferred \ {at}}
    BY <1>12 DEF RefreshConflicts, Repair, AuthorDeferredCheck, NeedsRepair, RepairStops,
       RepairGoesToOwner, StartRound, At, ToCheck
  <2> QED
    BY <1>7, <1>8, <1>11, <2>1
<1>13. CASE Ending
  <2>1. /\ pc = "execute" /\ Later /\ at \in Item /\ ExecuteEnds
        /\ UNCHANGED <<round, ready, deferred>> /\ CheckerFinished
        /\ \/ /\ UNCHANGED <<item, at>>
              /\ \/ round = "refresh" /\ pc' = "check" /\ Errors = {}
                 \/ round = "repair" /\ pc' = "rejudge" /\ Errors = {}
                 \/ round = "deferred" /\ pc' = "judge" /\ item[at].check # 0
           \/ at' = at + 1 /\ pc' = "item"
    BY <1>13, EndingShape DEF ExecuteEnds
  <2>2. ~CheckerStarts /\ ~CheckWritten
    BY <2>1 DEF CheckerStarts, CheckerMayStart, CheckWritten, CheckerFinished
  <2>3. ASSUME Errors = {}, round \in {"refresh", "repair"}
        PROVE  item[at].check # 0 \/ (round = "refresh" /\ at \in deferred)
    <3>1. checker = "done" /\ role[at] = "done"
      BY <2>1, <2>3, NoErrors DEF Active
    <3>2. todo = {} /\ ~Failed(at)
      BY <3>1 DEF ScheduleInv, CheckerInv, Failed, Cause, Stop
    <3> QED
      BY <1>0, <2>1, <2>3, <3>1, <3>2 DEF SubjectInv, Authoring, Owned
  <2> QED
    BY <1>0, <1>7, <2>1, <2>2, <2>3 DEF CheckedInv
<1>14. CASE UseEarlyVerdict \/ GateAndReview \/ RejudgeApproves
  <2>1. /\ pc \in {"check", "judge", "rejudge"} /\ pc' = "decide" /\ UNCHANGED at
        /\ item[at].check # 0 /\ at \in Item
    BY <1>0, <1>14, JudgedChecked DEF UseEarlyVerdict, GateAndReview, RejudgeApproves, ToJudge, At
  <2>2. \A i \in Item : item'[i].check = item[i].check
    BY <1>8, <2>1, ChecksKept
  <2>3. UNCHANGED <<ready, deferred>>
    BY <1>14 DEF UseEarlyVerdict, GateAndReview, RejudgeApproves
  <2> QED
    BY <1>0, <2>1, <2>2, <2>3 DEF CheckedInv
<1>15. CASE SettleRun
  BY <1>15 DEF SettleRun, CheckedInv
<1> QED
  BY <1>1, <1>2, <1>3, <1>4, <1>5, <1>6, <1>9, <1>10, <1>12, <1>13, <1>14, <1>15
  DEF Next, Run, Ending

LEMMA CheckStep ==
  TypeInv /\ ScheduleInv /\ OrderInv /\ SnapInv /\ CheckInv /\ [Next]_vars => CheckInv'
<1> SUFFICES ASSUME TypeInv, ScheduleInv, OrderInv, SnapInv, CheckInv, [Next]_vars PROVE CheckInv'
  OBVIOUS
<1> QED
  BY SubjectStep, CheckedStep, KeptStep DEF CheckInv

-----------------------------------------------------------------------------
(* What merges was proven.                                                   *)
GradeInv ==
    /\ pc = "decide" /\ item[at].verdict = "approved" =>
          item[at].judged = item[at].version /\ item[at].on = snap
    /\ \A i \in early : item[i].verdict # "approved"
    /\ pc \in {"decide", "rejudge"} \/ (Later /\ round = "repair") => at \notin early

LEMMA GradesKept ==
  ASSUME TypeInv, [Next]_vars, ~Judging, ~EarlyMerge, NEW j \in Item
  PROVE  SameGrade(item'[j], item[j])
<1> USE DEF queue, SameGrade, OnlyAt
<1>1. ASSUME NEW i \in Item, BuilderEnds(i) PROVE SameGrade(item'[j], item[j])
  BY <1>1, BuilderEffects
<1>2. CASE CheckerStarts \/ CheckerCannotPublish \/ PublishRest
  BY <1>2, CheckerStartsEffects, PublishEffects DEF Posts
<1>3. CASE CheckWritten
  BY <1>3, CheckWrittenEffects
<1>4. CASE Approved
  BY <1>4, Merges DEF Merging
<1>5. CASE BlockUnready \/ ReviewUnavailable \/ RefreshClean \/ RefreshRefused
  <2>1. RefreshRefused => at \in Item /\ TypeOK
    BY Here DEF RefreshRefused, ToCheck, At, TypeInv
  <2> QED
    BY <1>5, <2>1, BlockedEffects, UnavailableEffects, RefreshCleanEffects, RefreshRefusedEffects,
       RebasedShape DEF Blocks
<1>6. CASE RefreshConflicts \/ Repair
  <2>1. at \in Item /\ at <= N /\ TypeOK
    BY <1>6, Here DEF RefreshConflicts, Repair, NeedsRepair, ToCheck, At, TypeInv
  <2> QED
    BY <1>6, <2>1, BlockedEffects, TurnEffects, RepairStopsEffects, RebasedShape
    DEF Blocks, Repair, RepairGoesToOwner
<1>7. CASE Ending
  BY <1>7, EndingShape DEF Blocks
<1>8. CASE UNCHANGED item
  BY <1>8
<1> QED
  BY <1>1, <1>2, <1>3, <1>4, <1>5, <1>6, <1>7, <1>8
  DEF Next, Run, Judging, Ending, CheckerBlocked, CheckerNeverStarts,
      CheckerEnds, EarlyPassStarts, EarlyStops, InitialExecuteEnds, TakeEarlyRow, NothingMergedYet,
      AuthorDeferredCheck, UseEarlyVerdict, SettleRun, SetMergePolicy, vars

LEMMA GradeStep ==
  ASSUME TypeInv, ScheduleInv, OrderInv, GradeInv, [Next]_vars
  PROVE  GradeInv'
<1> USE DEF schedule, queue, NextItem, Later, At, ToCheck
<1>0. /\ GradeInv /\ Placed /\ (at <= N => at \in Item) /\ early \in SUBSET Item
      /\ \A i \in early : i \in Item
  BY Types, Here DEF TypeInv
<1>1. ASSUME ~Judging, ~EarlyMerge, UNCHANGED early, pc' # "decide",
             pc' # "rejudge", ~(pc' = "execute" /\ round' = "repair")
      PROVE  GradeInv'
  BY <1>0, <1>1, GradesKept DEF GradeInv, SameGrade
<1>2. ASSUME ~Judging, ~EarlyMerge, UNCHANGED <<early, at, pc, round>>, pc = "execute"
      PROVE  GradeInv'
  BY <1>0, <1>2, GradesKept DEF GradeInv, SameGrade
<1>3. ASSUME NEW i \in Item, BuilderEnds(i) PROVE GradeInv'
  <2>1. /\ UNCHANGED <<early, at, pc, round>>
        /\ pc \notin {"decide", "rejudge"}
    BY <1>3 DEF BuilderEnds, ScheduleInv, BuilderInv, Owned
  <2>2. \A j \in Item : SameGrade(item'[j], item[j])
    BY <1>3, BuilderEffects DEF SameGrade
  <2> QED
    BY <1>0, <2>1, <2>2 DEF GradeInv, SameGrade
<1>4. CASE CheckerBlocked \/ CheckerNeverStarts \/ CheckerStarts \/ CheckerCannotPublish
           \/ CheckWritten \/ CheckerEnds
  <2>1. /\ UNCHANGED <<early, at, pc, round>> /\ pc = "execute"
    BY <1>4 DEF CheckerBlocked, CheckerNeverStarts, CheckerStarts, CheckerCannotPublish, CheckWritten,
       CheckerEnds, CheckerMayStart, ScheduleInv, CheckerInv, CheckerFinished
  <2>2. ~Judging /\ ~EarlyMerge
    BY <2>1 DEF Judging, EarlyReject, EarlyMerge, EarlyPass, GateAndReview, ToJudge, RejudgeApproves,
       RejudgeRejects
  <2> QED
    BY <1>2, <2>1, <2>2
<1>5. CASE SetMergePolicy \/ UNCHANGED vars
  <2>1. UNCHANGED <<item, early, at, pc, round, snap>>
    BY <1>5 DEF SetMergePolicy, vars, branch
  <2> QED
    BY <2>1 DEF GradeInv
<1>6. CASE EarlyPassStarts \/ EarlyStops \/ PublishRest \/ InitialExecuteEnds
  <2>1. UNCHANGED early /\ pc' \in {"early", "join", "closing", "item", "settled"}
    BY <1>6 DEF EarlyPassStarts, EarlyStops, PublishRest, InitialExecuteEnds
  <2>2. \A j \in Item : SameGrade(item'[j], item[j])
    BY <1>6, PublishEffects
    DEF EarlyPassStarts, EarlyStops, InitialExecuteEnds, Posts, SameGrade
  <2> QED
    BY <1>0, <2>1, <2>2 DEF GradeInv, SameGrade
<1>7. CASE EarlyMerge \/ EarlyReject
  <2>1. early = {} /\ pc' \in {"early", "join"}
    BY <1>7 DEF EarlyMerge, EarlyReject, EarlyPass, OrderInv
  <2>2. CASE EarlyMerge
    BY <2>1, <2>2 DEF EarlyMerge, GradeInv
  <2>3. CASE EarlyReject
    <3>1. item'[at].verdict # "approved" /\ early' = {at}
      BY <2>1, <2>3, Judgements DEF Judging, JudgesAt, EarlyReject
    <3> QED
      BY <2>1, <3>1 DEF GradeInv
  <2> QED
    BY <1>7, <2>2, <2>3
<1>8. pc \in {"item", "decide"} => ~Judging /\ ~EarlyMerge
  BY DEF Judging, EarlyReject, EarlyMerge, EarlyPass, GateAndReview, ToJudge, RejudgeApproves,
         RejudgeRejects
<1>9. CASE TakeEarlyRow \/ BlockUnready \/ NothingMergedYet \/ RefreshClean \/ RefreshRefused
           \/ RefreshConflicts \/ Approved \/ ReviewUnavailable \/ SettleRun
  <2>1. /\ pc \in {"item", "decide"} /\ UNCHANGED early
        /\ pc' \in {"item", "check", "settled"} \/ (pc' = "execute" /\ round' = "refresh")
    BY <1>9 DEF TakeEarlyRow, BlockUnready, NothingMergedYet, RefreshClean, RefreshRefused,
       RefreshConflicts, StartRound, Approved, ReviewUnavailable, SettleRun
  <2> QED
    BY <1>1, <1>8, <2>1
<1>10. CASE Repair
  <2>1. pc = "decide" /\ UNCHANGED early /\ at \notin early
    BY <1>0, <1>10 DEF Repair, NeedsRepair, GradeInv
  <2>2. \/ pc' = "item"
        \/ pc' = "execute" /\ UNCHANGED at
    BY <1>10 DEF Repair, RepairStops, RepairGoesToOwner, StartRound
  <2> QED
    BY <1>0, <1>8, <2>1, <2>2, GradesKept DEF GradeInv, SameGrade
<1>11. CASE AuthorDeferredCheck
  BY <1>0, <1>11 DEF AuthorDeferredCheck, StartRound, GradeInv
<1>12. CASE UseEarlyVerdict
  BY <1>0, <1>12 DEF UseEarlyVerdict, GradeInv
<1>13. CASE GateAndReview \/ RejudgeApproves \/ RejudgeRejects
  <2>1. /\ at \notin early /\ UNCHANGED early
        /\ (pc' = "decide" /\ UNCHANGED at) \/ pc' = "item"
    BY <1>0, <1>13 DEF GateAndReview, RejudgeApproves, RejudgeRejects, GradeInv
  <2>2. /\ OnlyAt /\ item'[at].judged = item'[at].version /\ item'[at].on = snap
        /\ UNCHANGED snap
    BY <1>13, Judgements DEF Judging, JudgesAt, SameWork, branch
  <2> QED
    BY <1>0, <2>1, <2>2 DEF GradeInv, OnlyAt
<1>14. CASE Ending
  <2>1. /\ UNCHANGED <<early, round>> /\ pc = "execute" /\ round # "initial"
        /\ \/ UNCHANGED at /\ (pc' = "rejudge" => round = "repair") /\ pc' \in {"check", "judge", "rejudge"}
           \/ pc' = "item"
    BY <1>14, EndingShape
  <2>2. ~Judging /\ ~EarlyMerge
    BY <2>1 DEF Judging, EarlyReject, EarlyMerge, EarlyPass, GateAndReview, ToJudge, RejudgeApproves,
       RejudgeRejects
  <2> QED
    BY <1>0, <2>1, <2>2, GradesKept DEF GradeInv, SameGrade
<1> QED
  BY <1>3, <1>4, <1>5, <1>6, <1>7, <1>9, <1>10, <1>11, <1>12, <1>13, <1>14 DEF Next, Run, Ending

(* What is acted on as approved is the patch as it was judged, on the local copy *)
(* of the branch, and if it is open it is open as it is.                      *)
LEMMA MergesProven ==
  ASSUME TypeInv, ScheduleInv, OrderInv, PublicationInv, GradeInv, Merging
  PROVE  /\ at \in Item /\ OnlyAt
         /\ Judged(item'[at]) /\ item'[at].on = snap
         /\ item[at].pr => Posted(item'[at])
         /\ role'[at] # "working"
         /\ item'[at].merge = "human_review" /\ ~changed => item[at].pr
<1> USE DEF schedule, queue
<1>1. PICK w \in WorkItem :
         /\ at \in Item /\ OnlyAt
         /\ w = IF EarlyMerge THEN Judge(at, "approved") ELSE item[at]
         /\ SameWork(w, item[at]) /\ SamePlace(w, item[at])
         /\ SameWork(item'[at], w) /\ SamePlace(item'[at], w) /\ SameGrade(item'[at], w)
         /\ item'[at].merge = "human_review" => policy = "human_review"
  <2>1. "human_review" # "blocked" /\ "human_review" # "merged"
    OBVIOUS
  <2> QED
    BY <2>1, Merges
<1>2. w.verdict = "approved" /\ w.judged = item[at].version /\ w.on = snap
  <2>1. CASE EarlyMerge
    BY <1>1, <2>1, JudgeShape DEF TypeInv, Verdict
  <2>2. CASE ~EarlyMerge
    <3>1. pc = "decide" /\ item[at].verdict = "approved"
      BY <2>2 DEF Merging, Approved, At
    <3> QED
      BY <1>1, <2>2, <3>1 DEF GradeInv
  <2> QED
    BY <2>1, <2>2
<1>3. Judged(item'[at]) /\ item'[at].on = snap
  BY <1>1, <1>2 DEF Judged, SameWork, SameGrade
<1>4. item[at].pr => Posted(item[at])
  <2>1. CASE EarlyMerge
    BY <1>1, <2>1 DEF EarlyMerge, EarlyPass, PublicationInv, OpenInv, First, TypeInv, Placed
  <2>2. CASE Approved
    <3>1. Finalizing /\ ~Owned /\ at \in at..N
      BY <1>1, <2>2, LoopAssumption DEF Approved, At, Finalizing, OnItem, Owned, Item
    <3> QED
      BY <3>1 DEF PublicationInv, OpenInv
  <2> QED
    BY <2>1, <2>2 DEF Merging
<1>5. item[at].pr => Posted(item'[at])
  BY <1>1, <1>4 DEF Posted, SamePlace, SameWork
<1>6. role'[at] # "working"
  <2>1. UNCHANGED role /\ (role[at] = "done" \/ pc = "decide")
    BY DEF Merging, EarlyMerge, Approved, EarlyEligible, At
  <2> QED
    BY <1>1, <2>1 DEF ScheduleInv, BuilderInv, Owned
<1>7. item'[at].merge = "human_review" /\ ~changed => item[at].pr
  <2>1. CASE EarlyMerge
    BY <2>1 DEF EarlyMerge, EarlyEligible
  <2>2. CASE Approved
    <3>1. Finalizing /\ at \in scope
      BY <2>2 DEF Approved, At, Finalizing, OnItem, ScheduleInv, GateableInv
    <3> QED
      BY <1>1, <3>1 DEF PublicationInv, PersonInv
  <2> QED
    BY <2>1, <2>2 DEF Merging
<1> QED
  BY <1>1, <1>3, <1>5, <1>6, <1>7

(* The strengthening of MergedWasProven: what landed is no longer worked on.   *)
MergeInv ==
    /\ \A i \in Landed : Proven(item[i]) /\ role[i] # "working"
    /\ \A j, k \in 1..Len(landed) :
          j < k /\ item[landed[j]].merge = "merged" => landed[j] \in item[landed[k]].on

LEMMA LandedStays ==
  ASSUME TypeInv, ScheduleInv, OrderInv, MergeInv, [Next]_vars, NEW j \in Landed
  PROVE  /\ j \in Item /\ Proven(item'[j]) /\ role'[j] # "working"
         /\ item'[j].merge = item[j].merge /\ item'[j].on = item[j].on
<1>1. j \in Item /\ Decided(j) /\ role[j] # "working" /\ Proven(item[j])
  <2>1. landed \in Seq(Item)
    BY Types DEF TypeInv
  <2>2. j \in Item
    BY <2>1, ElementOfSeq, LenProperties DEF Landed
  <2> QED
    BY <2>2 DEF MergeInv, OrderInv, Decided
<1> QED
  BY <1>1, DecidedStays DEF Proven, Judged, SameWork, SameGrade, SameRow

LEMMA MergeStep ==
  ASSUME TypeInv, ScheduleInv, OrderInv, PublicationInv, SnapInv, GradeInv, MergeInv, [Next]_vars
  PROVE  MergeInv'
<1>0. /\ landed \in Seq(Item) /\ Len(landed) \in Nat
      /\ \A k \in 1..Len(landed) : landed[k] \in Landed
  <2>1. landed \in Seq(Item)
    BY Types DEF TypeInv
  <2> QED
    BY <2>1, LenProperties DEF Landed
<1>1. CASE UNCHANGED landed
  <2>1. Landed' = Landed /\ Len(landed') = Len(landed)
    BY <1>1 DEF Landed
  <2> QED
    BY <1>0, <1>1, <2>1, LandedStays DEF MergeInv
<1>2. CASE Merging /\ landed' = Append(landed, at)
  <2>1. OnlyAt /\ at \in Item /\ \A j \in Landed : j < at
    BY <1>2, AtUndecided, LandedBefore DEF AtWork, OnlyAt
  <2>2. Landed' = Landed \cup {at}
    BY <1>2, <2>1, LandsLast DEF TypeInv, OrderInv
  <2>3. /\ Len(landed') = Len(landed) + 1
        /\ \A k \in 1..Len(landed) : landed'[k] = landed[k]
        /\ landed'[Len(landed) + 1] = at
    BY <1>0, <1>2, <2>1, AppendProperties
  <2>4. item[at].pr
    <3>1. PICK w \in WorkItem : SamePlace(w, item[at])
             /\ (w.pr \/ UNCHANGED branch)
      BY <1>2, Merges
    <3>2. landed' # landed
      BY <1>0, <2>3
    <3> QED
      BY <3>1, <3>2 DEF SamePlace, branch
  <2>5. Proven(item'[at]) /\ role'[at] # "working" /\ item'[at].on = snap
    BY <1>2, <2>4, MergesProven DEF Proven
  <2>6. \A i \in Landed' : Proven(item'[i]) /\ role'[i] # "working"
    BY <2>2, <2>5, LandedStays
  <2>7. ASSUME NEW j \in 1..Len(landed'), NEW k \in 1..Len(landed'), j < k,
               item'[landed'[j]].merge = "merged"
        PROVE  landed'[j] \in item'[landed'[k]].on
    <3>1. j \in 1..Len(landed) /\ landed'[j] = landed[j] /\ landed[j] \in Landed
          /\ (k \in 1..Len(landed) \/ k = Len(landed) + 1)
      BY <1>0, <2>3, <2>7
    <3>2. item[landed[j]].merge = "merged" /\ landed[j] \in Item
      BY <2>7, <3>1, LandedStays
    <3>3. CASE k \in 1..Len(landed)
      <4>1. landed[k] \in Landed /\ landed'[k] = landed[k]
        BY <1>0, <2>3, <3>3
      <4>2. landed[j] \in item[landed[k]].on
        BY <2>7, <3>1, <3>2, <3>3 DEF MergeInv
      <4> QED
        BY <3>1, <4>1, <4>2, LandedStays
    <3>4. CASE k = Len(landed) + 1
      BY <2>3, <2>5, <3>1, <3>2, <3>4 DEF SnapInv
    <3> QED
      BY <3>1, <3>3, <3>4
  <2> QED
    BY <2>6, <2>7 DEF MergeInv
<1>3. UNCHANGED landed \/ (Merging /\ landed' = Append(landed, at))
  <2>1. ~Merging => UNCHANGED landed
    BY QuietRows DEF branch
  <2>2. Merging => UNCHANGED landed \/ landed' = Append(landed, at)
    BY Merges DEF branch
  <2> QED
    BY <2>1, <2>2
<1> QED
  BY <1>1, <1>2, <1>3

-----------------------------------------------------------------------------
(* The rows, and the run's answer.  A row says "merged" or "human_review" only of  *)
(* a patch that was proven and is left alone since; the early pass and           *)
(* finalization leave no row they have decided open.                          *)
Finished(w) == w.merge \in {"merged", "human_review"}
ApprovedInv == \A i \in Item : Finished(item[i]) =>
    /\ Judged(item[i]) /\ (changed \/ Posted(item[i]))
    /\ role[i] # "working" /\ Decided(i)
SettledInv ==
    /\ \A i \in earlyRows : item[i].merge # "open" /\ role[i] # "working"
    /\ Finalizing => \A i \in scope : i < at => item[i].merge # "open"
AnswerInv ==
    /\ Finalizing /\ initial = "" => scope = Item
    /\ status = "passed" => pc = "settled" /\ \A i \in Item : Finished(item[i])
RowsInv == ApprovedInv /\ SettledInv /\ AnswerInv

(* The policy changes once.                                                  *)
LEMMA MonotoneChange ==
  ASSUME [Next]_vars, changed
  PROVE  changed'
<1> USE DEF settings
<1>1. ASSUME NEW i \in Item, BuilderEnds(i) PROVE changed'
  BY <1>1 DEF BuilderEnds
<1>2. CASE CheckerBlocked \/ CheckerNeverStarts \/ CheckerStarts \/ CheckerCannotPublish
           \/ CheckWritten \/ CheckerEnds
  BY <1>2 DEF CheckerBlocked, CheckerNeverStarts, CheckerStarts, CheckerCannotPublish,
     CheckWritten, CheckerEnds
<1>3. CASE EarlyPassStarts \/ EarlyMerge \/ EarlyReject \/ EarlyStops \/ PublishRest
           \/ InitialExecuteEnds
  BY <1>3 DEF EarlyPassStarts, EarlyMerge, EarlyReject, EarlyStops, PublishRest,
     InitialExecuteEnds
<1>4. CASE TakeEarlyRow \/ BlockUnready \/ NothingMergedYet \/ RefreshClean \/ RefreshRefused
           \/ RefreshConflicts \/ AuthorDeferredCheck \/ Repair
  BY <1>4 DEF TakeEarlyRow, BlockUnready, NothingMergedYet, RefreshClean, RefreshRefused,
     RefreshConflicts, AuthorDeferredCheck, Repair
<1>5. CASE RefreshEnds \/ DeferredCheckEnds \/ RepairEnds \/ UseEarlyVerdict \/ GateAndReview
           \/ Approved \/ ReviewUnavailable \/ RejudgeApproves \/ RejudgeRejects \/ SettleRun
  BY <1>5 DEF RefreshEnds, DeferredCheckEnds, RepairEnds, LaterExecuteEnds, UseEarlyVerdict,
     GateAndReview, Approved, ReviewUnavailable, RejudgeApproves, RejudgeRejects, SettleRun
<1>6. CASE SetMergePolicy \/ UNCHANGED vars
  BY <1>6 DEF SetMergePolicy, vars
<1> QED
  BY <1>1, <1>2, <1>3, <1>4, <1>5, <1>6 DEF Next, Run

LEMMA ApprovedStep ==
  ASSUME TypeInv, ScheduleInv, OrderInv, PublicationInv, GradeInv, ApprovedInv, [Next]_vars
  PROVE  ApprovedInv'
<1> USE DEF settings
<1>0. /\ TypeOK /\ at \in 1..(N + 1) /\ N \in Nat /\ (changed => changed')
  BY MonotoneChange, Types, LoopAssumption DEF TypeInv
<1>1. ASSUME NEW i \in Item, Finished(item[i])
      PROVE  /\ Judged(item'[i]) /\ (changed' \/ Posted(item'[i]))
             /\ role'[i] # "working" /\ Decided(i)'
  <2>1. /\ Judged(item[i]) /\ (changed \/ Posted(item[i]))
        /\ role[i] # "working" /\ Decided(i)
    BY <1>1 DEF ApprovedInv
  <2> QED
    BY <1>0, <2>1, DecidedStays DEF Judged, SameWork, SameGrade
<1>2. CASE Merging
  <2>1. /\ at \in Item /\ OnlyAt /\ UNCHANGED changed
    BY <1>2, MergesProven DEF Merging, EarlyMerge, Approved
  <2>2. ASSUME NEW i \in Item, i = at, Finished(item'[i])
        PROVE  /\ Judged(item'[i]) /\ (changed' \/ Posted(item'[i]))
               /\ role'[i] # "working" /\ Decided(i)'
    <3>1. item'[at].merge = "merged" => item[at].pr
      BY <1>2, Merges DEF SamePlace
    <3>2. changed \/ item[at].pr
      BY <1>2, <2>2, <3>1, MergesProven DEF Finished
    <3>3. Decided(i)'
      <4>1. CASE EarlyMerge
        BY <2>2, <4>1 DEF EarlyMerge, Decided
      <4>2. CASE Approved
        BY <1>0, <2>2, <4>2 DEF Approved, NextItem, Decided, First
      <4> QED
        BY <1>2, <4>1, <4>2 DEF Merging
    <3> QED
      BY <1>2, <2>1, <2>2, <3>2, <3>3, MergesProven
  <2>3. ASSUME NEW i \in Item, i # at, Finished(item'[i])
        PROVE  /\ Judged(item'[i]) /\ (changed' \/ Posted(item'[i]))
               /\ role'[i] # "working" /\ Decided(i)'
    BY <1>1, <2>1, <2>3 DEF OnlyAt
  <2> QED
    BY <2>2, <2>3 DEF ApprovedInv
<1>3. CASE ~Merging
  <2>1. \A i \in Item : Finished(item'[i]) => Finished(item[i])
    BY <1>3, QuietRows DEF Finished
  <2> QED
    BY <1>1, <2>1 DEF ApprovedInv
<1> QED
  BY <1>2, <1>3

(* Finalization leaves a pull request with its row decided.                    *)
LEMMA LeftDecided ==
  ASSUME TypeInv, SettledInv, [Next]_vars, Finalizing, at' = at + 1, at \in scope
  PROVE  item'[at].merge # "open"
<1> USE DEF schedule, queue, NextItem, SameRow, OnlyAt
<1>0. at + 1 # at /\ TypeOK /\ pc \in {"execute", "check", "judge", "decide", "rejudge", "item"}
  BY Types, LoopAssumption DEF TypeInv, Finalizing, OnItem, Later
<1>1. CASE TakeEarlyRow
  BY <1>0, <1>1 DEF TakeEarlyRow, SettledInv
<1>2. CASE BlockUnready
  BY <1>2, BlockedEffects DEF Blocks
<1>3. CASE RefreshRefused
  BY <1>3, RefreshRefusedEffects DEF Blocks
<1>4. CASE RefreshConflicts
  BY <1>0, <1>4, BlockedEffects DEF Blocks
<1>5. CASE Ending
  BY <1>0, <1>5, EndingShape DEF Blocks
<1>6. CASE Approved
  BY <1>6, Merges DEF Merging
<1>7. CASE ReviewUnavailable
  BY <1>7, UnavailableEffects
<1>8. CASE Repair
  BY <1>0, <1>8, RepairStopsEffects DEF Repair, NeedsRepair, At, RepairGoesToOwner, StartRound
<1>9. CASE RejudgeRejects
  BY <1>9, RejectEffects
<1>10. ASSUME UNCHANGED at PROVE item'[at].merge # "open"
  BY <1>0, <1>10
<1>11. CASE EarlyPassStarts \/ EarlyMerge \/ EarlyReject \/ EarlyStops \/ PublishRest
            \/ InitialExecuteEnds
  BY <1>0, <1>10, <1>11 DEF EarlyPassStarts, EarlyMerge, EarlyReject, EarlyStops, EarlyPass,
     PublishRest, InitialExecuteEnds, ExecuteEnds, Finalizing, OnItem, Later, Partial, TypeInv, Placed
<1>12. ASSUME NEW i \in Item, BuilderEnds(i) PROVE item'[at].merge # "open"
  BY <1>10, <1>12 DEF BuilderEnds
<1>13. CASE CheckerBlocked \/ CheckerNeverStarts \/ CheckerStarts \/ CheckerCannotPublish
            \/ CheckWritten \/ CheckerEnds
  BY <1>10, <1>13 DEF CheckerBlocked, CheckerNeverStarts, CheckerStarts, CheckerCannotPublish,
     CheckWritten, CheckerEnds
<1>14. CASE NothingMergedYet \/ RefreshClean \/ AuthorDeferredCheck \/ UseEarlyVerdict
            \/ GateAndReview \/ RejudgeApproves \/ SettleRun \/ SetMergePolicy \/ UNCHANGED vars
  BY <1>10, <1>14 DEF NothingMergedYet, RefreshClean, AuthorDeferredCheck, UseEarlyVerdict,
     GateAndReview, RejudgeApproves, SettleRun, SetMergePolicy, vars
<1> QED
  BY <1>1, <1>2, <1>3, <1>4, <1>5, <1>6, <1>7, <1>8, <1>9, <1>11, <1>12, <1>13, <1>14
  DEF Next, Run, Ending

(* Finalization begins when the first call of _execute ends, and its scope and    *)
(* the reason that call gave stay as they were then.                          *)
LEMMA FinalizingStays ==
  ASSUME TypeInv, [Next]_vars, Finalizing', ~InitialExecuteEnds
  PROVE  Finalizing /\ UNCHANGED <<scope, initial>> /\ at' \in {at, at + 1}
<1> USE DEF schedule, queue, outcome, NextItem, At, ToCheck
<1>0. Placed
  BY DEF TypeInv
<1>1. ASSUME NEW i \in Item, BuilderEnds(i)
      PROVE  Finalizing /\ UNCHANGED <<scope, initial>> /\ at' \in {at, at + 1}
  BY <1>1 DEF BuilderEnds, Finalizing, OnItem, Later
<1>2. CASE CheckerBlocked \/ CheckerNeverStarts \/ CheckerStarts \/ CheckerCannotPublish
  BY <1>2 DEF CheckerBlocked, CheckerNeverStarts, CheckerStarts, CheckerCannotPublish, Finalizing,
     OnItem, Later
<1>3. CASE CheckWritten \/ CheckerEnds \/ SetMergePolicy \/ UNCHANGED vars
  BY <1>3 DEF CheckWritten, CheckerEnds, SetMergePolicy, vars, Finalizing, OnItem, Later
<1>4. CASE EarlyPassStarts \/ EarlyMerge \/ EarlyReject \/ EarlyStops \/ PublishRest
  BY <1>0, <1>4 DEF EarlyPassStarts, EarlyMerge, EarlyReject, EarlyStops, EarlyPass, PublishRest,
     Finalizing, OnItem, Later
<1>5. CASE TakeEarlyRow \/ BlockUnready \/ NothingMergedYet \/ RefreshClean \/ RefreshRefused
  BY <1>5 DEF TakeEarlyRow, BlockUnready, NothingMergedYet, RefreshClean, RefreshRefused, Finalizing
<1>6. CASE RefreshConflicts \/ AuthorDeferredCheck \/ Repair
  BY <1>6 DEF RefreshConflicts, AuthorDeferredCheck, Repair, NeedsRepair, RepairStops,
     RepairGoesToOwner, StartRound, Finalizing, OnItem
<1>7. CASE Ending
  BY <1>7, EndingShape DEF Finalizing, OnItem
<1>8. CASE UseEarlyVerdict \/ GateAndReview \/ Approved \/ ReviewUnavailable
  BY <1>8 DEF UseEarlyVerdict, GateAndReview, Approved, ReviewUnavailable, ToJudge, Finalizing, OnItem
<1>9. CASE RejudgeApproves \/ RejudgeRejects \/ SettleRun
  BY <1>9 DEF RejudgeApproves, RejudgeRejects, SettleRun, Finalizing, OnItem, Later
<1> QED
  BY <1>1, <1>2, <1>3, <1>4, <1>5, <1>6, <1>7, <1>8, <1>9 DEF Next, Run, Ending

LEMMA RowsTaken ==
  ASSUME [Next]_vars
  PROVE  EarlyMerge \/ UNCHANGED earlyRows
<1> USE DEF queue
<1>1. ASSUME NEW i \in Item, BuilderEnds(i) PROVE UNCHANGED earlyRows
  BY <1>1 DEF BuilderEnds
<1>2. CASE CheckerBlocked \/ CheckerNeverStarts \/ CheckerStarts \/ CheckerCannotPublish
  BY <1>2 DEF CheckerBlocked, CheckerNeverStarts, CheckerStarts, CheckerCannotPublish
<1>3. CASE CheckWritten \/ CheckerEnds
  <2>1. CASE CheckWritten
    BY <2>1 DEF CheckWritten
  <2>2. CASE CheckerEnds
    BY <2>2 DEF CheckerEnds
  <2> QED
    BY <1>3, <2>1, <2>2
<1>4. CASE EarlyPassStarts \/ EarlyReject \/ EarlyStops \/ PublishRest \/ InitialExecuteEnds
  BY <1>4 DEF EarlyPassStarts, EarlyReject, EarlyStops, PublishRest, InitialExecuteEnds
<1>5. CASE TakeEarlyRow \/ BlockUnready \/ NothingMergedYet \/ RefreshClean \/ RefreshRefused
           \/ RefreshConflicts \/ AuthorDeferredCheck \/ Repair
  BY <1>5 DEF TakeEarlyRow, BlockUnready, NothingMergedYet, RefreshClean, RefreshRefused,
     RefreshConflicts, AuthorDeferredCheck, Repair
<1>6. CASE RefreshEnds \/ DeferredCheckEnds \/ RepairEnds \/ UseEarlyVerdict \/ GateAndReview
           \/ Approved \/ ReviewUnavailable \/ RejudgeApproves \/ RejudgeRejects \/ SettleRun
  BY <1>6 DEF RefreshEnds, DeferredCheckEnds, RepairEnds, UseEarlyVerdict,
     GateAndReview, Approved, ReviewUnavailable, RejudgeApproves, RejudgeRejects, SettleRun
<1>7. CASE SetMergePolicy \/ UNCHANGED vars
  BY <1>7 DEF SetMergePolicy, vars
<1> QED
  BY <1>1, <1>2, <1>3, <1>4, <1>5, <1>6, <1>7 DEF Next, Run

LEMMA SettledStep ==
  ASSUME TypeInv, ScheduleInv, OrderInv, SettledInv, [Next]_vars
  PROVE  SettledInv'
<1>0. /\ TypeOK /\ at \in 1..(N + 1) /\ N \in Nat /\ Item = 1..N /\ scope \in SUBSET Item
      /\ earlyRows \in SUBSET Item /\ BuilderInv
  BY Types, LoopAssumption DEF TypeInv, Item, ScheduleInv
<1>1. \A i \in earlyRows' : item'[i].merge # "open" /\ role'[i] # "working"
  <2>1. \A i \in earlyRows : item'[i].merge # "open" /\ role'[i] # "working"
    BY <1>0, DecidedStays DEF SettledInv, Decided, SameRow
  <2>2. CASE EarlyMerge
    <3>1. item'[at].merge # "open" /\ role'[at] # "working"
      BY <2>2, Merges DEF Merging, EarlyMerge, EarlyEligible, schedule
    <3>2. earlyRows' = earlyRows \cup {at}
      BY <2>2 DEF EarlyMerge
    <3> QED
      BY <2>1, <3>1, <3>2
  <2>3. CASE UNCHANGED earlyRows
    BY <2>1, <2>3
  <2> QED
    BY <2>2, <2>3, RowsTaken
<1>2. ASSUME Finalizing', NEW i \in scope', i < at' PROVE item'[i].merge # "open"
  <2>1. CASE InitialExecuteEnds
    <3>1. at' = 1 /\ scope' \subseteq Item
      BY <1>0, <1>2, <2>1 DEF InitialExecuteEnds, Finalizing, OnItem, Later
    <3> QED
      BY <1>0, <1>2, <3>1
  <2>2. CASE ~InitialExecuteEnds
    <3>1. Finalizing /\ i \in scope /\ at' \in {at, at + 1} /\ i \in Item
      BY <1>0, <1>2, <2>2, FinalizingStays
    <3>2. CASE i < at
      <4>1. item[i].merge # "open" /\ Decided(i) /\ role[i] # "working"
        BY <1>0, <3>1, <3>2
        DEF SettledInv, Decided, First, Finalizing, OnItem, Later, BuilderInv, Owned
      <4> QED
        BY <3>1, <4>1, DecidedStays DEF SameRow
    <3>3. CASE ~(i < at)
      <4>1. i = at /\ at' = at + 1
        BY <1>0, <1>2, <3>1, <3>3
      <4> QED
        BY <3>1, <4>1, LeftDecided
    <3> QED
      BY <3>2, <3>3
  <2> QED
    BY <2>1, <2>2
<1> QED
  BY <1>1, <1>2 DEF SettledInv

(* Once a run is settled nothing of it moves.                                 *)
LEMMA SettledStops ==
  ASSUME TypeInv, ScheduleInv, [Next]_vars, pc = "settled"
  PROVE  UNCHANGED vars
<1>1. ASSUME NEW i \in Item PROVE ~BuilderEnds(i)
  BY DEF BuilderEnds, ScheduleInv, BuilderInv, Owned
<1>2. ~CheckWritten /\ ~CheckerEnds
  BY DEF CheckWritten, CheckerEnds, ScheduleInv, CheckerInv, CheckerFinished
<1>3. ~(\/ CheckerBlocked \/ CheckerNeverStarts \/ CheckerStarts \/ CheckerCannotPublish
        \/ EarlyPassStarts \/ EarlyMerge \/ EarlyReject \/ EarlyStops \/ PublishRest)
  BY DEF CheckerBlocked, CheckerNeverStarts, CheckerStarts, CheckerCannotPublish, CheckerMayStart,
         EarlyPassStarts, EarlyMerge, EarlyReject, EarlyStops, EarlyPass, PublishRest
<1>4. ~(\/ InitialExecuteEnds \/ RefreshEnds \/ DeferredCheckEnds \/ RepairEnds \/ TakeEarlyRow
        \/ BlockUnready \/ NothingMergedYet \/ RefreshClean \/ RefreshRefused \/ RefreshConflicts)
  BY DEF InitialExecuteEnds, RefreshEnds, DeferredCheckEnds, RepairEnds, LaterExecuteEnds,
         ExecuteEnds, TakeEarlyRow, BlockUnready, NothingMergedYet, RefreshClean, RefreshRefused,
         RefreshConflicts, ToCheck, At
<1>5. ~(\/ AuthorDeferredCheck \/ UseEarlyVerdict \/ GateAndReview \/ Approved \/ ReviewUnavailable
        \/ Repair \/ RejudgeApproves \/ RejudgeRejects \/ SettleRun \/ SetMergePolicy)
  BY DEF AuthorDeferredCheck, UseEarlyVerdict, GateAndReview, ToJudge, Approved, ReviewUnavailable,
         Repair, NeedsRepair, RejudgeApproves, RejudgeRejects, SettleRun, SetMergePolicy, At
<1> QED
  BY <1>1, <1>2, <1>3, <1>4, <1>5 DEF Next, Run

LEMMA StatusKept ==
  ASSUME [Next]_vars
  PROVE  InitialExecuteEnds \/ SettleRun \/ UNCHANGED status
<1> USE DEF outcome
<1>1. ASSUME NEW i \in Item, BuilderEnds(i) PROVE UNCHANGED status
  BY <1>1 DEF BuilderEnds
<1>2. CASE CheckerBlocked \/ CheckerNeverStarts \/ CheckerStarts \/ CheckerCannotPublish
  BY <1>2 DEF CheckerBlocked, CheckerNeverStarts, CheckerStarts, CheckerCannotPublish
<1>3. CASE CheckWritten
  BY <1>3 DEF CheckWritten
<1>4. CASE CheckerEnds \/ SetMergePolicy \/ UNCHANGED vars
  BY <1>4 DEF CheckerEnds, SetMergePolicy, vars
<1>5. CASE EarlyPassStarts \/ EarlyMerge \/ EarlyReject \/ EarlyStops \/ PublishRest
  BY <1>5 DEF EarlyPassStarts, EarlyMerge, EarlyReject, EarlyStops, PublishRest
<1>6. CASE TakeEarlyRow \/ BlockUnready \/ NothingMergedYet \/ RefreshClean \/ RefreshRefused
           \/ RefreshConflicts \/ AuthorDeferredCheck \/ Repair
  BY <1>6 DEF TakeEarlyRow, BlockUnready, NothingMergedYet, RefreshClean, RefreshRefused,
     RefreshConflicts, AuthorDeferredCheck, Repair
<1>7. CASE RefreshEnds \/ DeferredCheckEnds \/ RepairEnds \/ UseEarlyVerdict \/ GateAndReview
           \/ Approved \/ ReviewUnavailable \/ RejudgeApproves \/ RejudgeRejects
  BY <1>7 DEF RefreshEnds, DeferredCheckEnds, RepairEnds, LaterExecuteEnds, UseEarlyVerdict,
     GateAndReview, Approved, ReviewUnavailable, RejudgeApproves, RejudgeRejects
<1> QED
  BY <1>1, <1>2, <1>3, <1>4, <1>5, <1>6, <1>7 DEF Next, Run

LEMMA AnswerStep ==
  ASSUME TypeInv, ScheduleInv, OrderInv, SettledInv, AnswerInv, [Next]_vars
  PROVE  AnswerInv'
<1>1. ASSUME Finalizing', initial' = "" PROVE scope' = Item'
  <2>1. CASE InitialExecuteEnds
    BY <1>1, <2>1, ReasonIsCause
    DEF InitialExecuteEnds, Finalizing, OnItem, Later, Cause, Stop, Item
  <2>2. CASE ~InitialExecuteEnds
    BY <1>1, <2>2, FinalizingStays DEF AnswerInv, Item
  <2> QED
    BY <2>1, <2>2
<1>2. ASSUME status' = "passed"
      PROVE  pc' = "settled" /\ \A i \in Item' : Finished(item'[i])
  <2>1. CASE UNCHANGED status
    <3>1. pc = "settled" /\ \A i \in Item : Finished(item[i])
      BY <1>2, <2>1 DEF AnswerInv
    <3>2. UNCHANGED vars
      BY <3>1, SettledStops
    <3> QED
      BY <3>1, <3>2 DEF vars, Item
  <2>2. CASE InitialExecuteEnds /\ ~UNCHANGED status
    BY <1>2, <2>2 DEF InitialExecuteEnds
  <2>3. CASE SettleRun
    <3>1. pc = "item" /\ at = N + 1 /\ pc' = "settled" /\ UNCHANGED item /\ Answer = "passed"
      BY <1>2, <2>3 DEF SettleRun
    <3>2. initial \in Cause \cup {""} /\ "passed" \notin Cause
      BY DEF TypeInv, TypeOK, Cause, Stop
    <3>3. initial = "" /\ InState({"blocked"}) = {} /\ InState({"review_unavailable"}) = {}
      BY <3>1, <3>2 DEF Answer
    <3>4. scope = Item
      BY <3>1, <3>3 DEF AnswerInv, Finalizing
    <3>5. ASSUME NEW i \in Item PROVE Finished(item[i])
      <4>1. i < at
        BY <3>1, LoopAssumption DEF Item
      <4>2. item[i].merge # "open"
        BY <3>1, <3>4, <4>1 DEF SettledInv, Finalizing
      <4>3. item[i].merge # "blocked" /\ item[i].merge # "review_unavailable"
        BY <3>3, <3>4 DEF InState
      <4>4. item[i].merge \in MergeState
        BY Types, ItemFields DEF TypeInv
      <4> QED
        BY <4>2, <4>3, <4>4 DEF Finished, MergeState
    <3> QED
      BY <3>1, <3>5 DEF Item
  <2> QED
    BY <2>1, <2>2, <2>3, StatusKept
<1> QED
  BY <1>1, <1>2 DEF AnswerInv

LEMMA RowsStep ==
  TypeInv /\ ScheduleInv /\ OrderInv /\ PublicationInv /\ GradeInv /\ RowsInv /\ [Next]_vars => RowsInv'
<1> SUFFICES ASSUME TypeInv, ScheduleInv, OrderInv, PublicationInv, GradeInv, RowsInv, [Next]_vars
             PROVE  RowsInv'
  OBVIOUS
<1> QED
  BY ApprovedStep, SettledStep, AnswerStep DEF RowsInv

-----------------------------------------------------------------------------
(* Work.  A builder at work owes the version its turn was granted for.        *)
WorkInv == \A i \in Item :
    /\ item[i].repairs <= MaxRepairs /\ item[i].refreshes <= MaxBaseRefreshes
    /\ item[i].version <= item[i].refreshes + item[i].repairs
                          + (IF role[i] = "working" THEN 0 ELSE 1)

LEMMA WorkStep ==
  ASSUME TypeInv, ScheduleInv, WorkInv, [Next]_vars
  PROVE  WorkInv'
<1> USE DEF schedule, queue, NextItem, At, ToCheck
<1>0. /\ TypeOK /\ (at <= N => at \in Item) /\ BuilderInv
      /\ role \in [Item -> {"working", "done"} \cup Cause]
      /\ "working" \notin Cause
      /\ \A i \in Item : item[i].version \in Nat /\ item[i].repairs \in Nat /\ item[i].refreshes \in Nat
  BY Here, Types, ItemFields DEF TypeInv, ScheduleInv, Cause, Stop
<1>1. ASSUME \A i \in Item : SameWork(item'[i], item[i])
                             /\ (role'[i] = "working" <=> role[i] = "working")
      PROVE  WorkInv'
  BY <1>0, <1>1 DEF WorkInv, SameWork
<1>2. ASSUME NEW i \in Item, BuilderEnds(i) PROVE WorkInv'
  BY <1>0, <1>2, BuilderEffects DEF WorkInv
<1>3. CASE CheckerStarts \/ CheckerCannotPublish \/ PublishRest
  <2>1. UNCHANGED role
    BY <1>3 DEF CheckerStarts, CheckerCannotPublish, PublishRest
  <2>2. \A i \in Item : Posts(item'[i], item[i])
    BY <1>3, CheckerStartsEffects, PublishEffects
  <2> QED
    BY <1>1, <2>1, <2>2 DEF Posts
<1>4. CASE CheckWritten
  BY <1>1, <1>4, CheckWrittenEffects DEF CheckWritten, SameWork
<1>5. CASE Judging
  <2>1. UNCHANGED role
    BY <1>5 DEF Judging, EarlyReject, GateAndReview, RejudgeApproves, RejudgeRejects
  <2> QED
    BY <1>1, <1>5, <2>1, Judgements DEF JudgesAt, OnlyAt, SameWork
<1>6. CASE Merging
  <2>1. UNCHANGED role
    BY <1>6 DEF Merging, EarlyMerge, Approved
  <2> QED
    BY <1>1, <1>6, <2>1, Merges DEF OnlyAt, SameWork
<1>7. CASE BlockUnready \/ ReviewUnavailable \/ RefreshClean \/ RefreshRefused
  <2>1. UNCHANGED role
    BY <1>7 DEF BlockUnready, ReviewUnavailable, RefreshClean, RefreshRefused
  <2>2. RefreshRefused => at \in Item /\ TypeOK
    BY <1>0 DEF RefreshRefused
  <2> QED
    BY <1>1, <1>7, <2>1, <2>2, BlockedEffects, UnavailableEffects, RefreshCleanEffects,
       RefreshRefusedEffects, RebasedShape DEF Blocks, OnlyAt, SameWork
<1>8. ASSUME OnlyAt, pc \in {"item", "decide"},
             UNCHANGED role \/ \E kind : StartRound(kind, {at}),
             item'[at].version = item[at].version,
             \/ /\ UNCHANGED role
                /\ item'[at].repairs \in Nat /\ item'[at].refreshes \in Nat
                /\ item'[at].repairs >= item[at].repairs
                /\ item'[at].refreshes >= item[at].refreshes
             \/ item'[at].repairs + item'[at].refreshes = item[at].repairs + item[at].refreshes + 1,
             item'[at].repairs <= MaxRepairs, item'[at].refreshes <= MaxBaseRefreshes,
             item'[at].repairs \in Nat, item'[at].refreshes \in Nat
      PROVE  WorkInv'
  <2>1. at \in Item /\ role[at] # "working"
    BY <1>0, <1>8 DEF OnlyAt, BuilderInv, Owned
  <2>2. \A i \in Item : i # at => item'[i] = item[i] /\ role'[i] = role[i]
    BY <1>0, <1>8 DEF OnlyAt, StartRound
  <2> QED
    BY <1>0, <1>8, <2>1, <2>2 DEF WorkInv
<1>9. CASE RefreshConflicts
  <2>1. pc = "item" /\ at \in Item
    BY <1>0, <1>9 DEF RefreshConflicts
  <2>2. CASE Blocks(Rebased) /\ UNCHANGED schedule
    <3>1. SameWork(item'[at], item[at]) /\ OnlyAt
      BY <1>0, <2>1, <2>2, RebasedShape DEF Blocks, SameWork
    <3> QED
      BY <1>1, <2>2, <3>1 DEF OnlyAt, SameWork
  <2>3. CASE /\ item' = [item EXCEPT ![at] = [Rebased EXCEPT !.refreshes = @ + 1]]
             /\ item[at].refreshes < MaxBaseRefreshes
             /\ StartRound("refresh", {at})
    <3>1. /\ OnlyAt /\ item'[at].version = item[at].version
          /\ item'[at].repairs = item[at].repairs
          /\ item'[at].refreshes = item[at].refreshes + 1
      BY <2>1, <2>3, TurnEffects
    <3>2. item'[at].refreshes <= MaxBaseRefreshes /\ item'[at].repairs <= MaxRepairs
      BY <1>0, <2>1, <2>3, <3>1 DEF WorkInv, MaxBaseRefreshes
    <3> QED
      BY <1>0, <1>8, <2>1, <2>3, <3>1, <3>2
  <2> QED
    BY <1>9, <2>2, <2>3, BlockedEffects
<1>10. CASE Repair
  <2>1. pc = "decide" /\ at \in Item /\ at <= N
    BY <1>0, <1>10 DEF Repair, NeedsRepair
  <2>2. CASE RepairStops
    <3>1. /\ OnlyAt /\ item'[at].version = item[at].version
          /\ item'[at].refreshes = item[at].refreshes
          /\ \/ item'[at].repairs = item[at].repairs
             \/ MayRepair /\ item'[at].repairs = item[at].repairs + 1
      BY <2>1, <2>2, RepairStopsEffects
    <3>2. item'[at].refreshes <= MaxBaseRefreshes /\ item'[at].repairs <= MaxRepairs
          /\ item'[at].repairs >= item[at].repairs /\ item'[at].repairs \in Nat
      BY <1>0, <2>1, <3>1 DEF WorkInv, MayRepair, MaxRepairs
    <3>3. UNCHANGED role
      BY <2>2 DEF RepairStops
    <3> QED
      BY <1>0, <1>8, <2>1, <3>1, <3>2, <3>3
  <2>3. CASE RepairGoesToOwner
    <3>1. /\ OnlyAt /\ item'[at].version = item[at].version
          /\ item'[at].refreshes = item[at].refreshes
          /\ item'[at].repairs = item[at].repairs + 1
      BY <2>1, <2>3, TurnEffects DEF RepairGoesToOwner
    <3>2. item'[at].refreshes <= MaxBaseRefreshes /\ item'[at].repairs <= MaxRepairs
      BY <1>0, <2>1, <2>3, <3>1 DEF WorkInv, RepairGoesToOwner, MayRepair, MaxRepairs
    <3> QED
      BY <1>0, <1>8, <2>1, <2>3, <3>1, <3>2 DEF RepairGoesToOwner
  <2> QED
    BY <1>10, <2>2, <2>3 DEF Repair
<1>11. CASE Ending
  <2>1. UNCHANGED role /\ (UNCHANGED item \/ Blocks(item[at]))
    BY <1>11, EndingShape
  <2> QED
    BY <1>1, <2>1 DEF Blocks, OnlyAt, SameWork
<1>12. CASE AuthorDeferredCheck
  <2>1. UNCHANGED item /\ \A i \in Item : role'[i] = role[i]
    BY <1>12 DEF AuthorDeferredCheck, StartRound
  <2> QED
    BY <1>1, <2>1 DEF SameWork
<1>13. ASSUME UNCHANGED <<item, role>> PROVE WorkInv'
  BY <1>1, <1>13 DEF SameWork
<1> QED
  BY <1>2, <1>3, <1>4, <1>5, <1>6, <1>7, <1>9, <1>10, <1>11, <1>12, <1>13
  DEF Next, Run, Judging, Merging, Ending, CheckerBlocked, CheckerNeverStarts, CheckerEnds,
      EarlyPassStarts, EarlyStops, InitialExecuteEnds, TakeEarlyRow, NothingMergedYet,
      UseEarlyVerdict, SettleRun, SetMergePolicy, vars

-----------------------------------------------------------------------------
(* The inductive invariant of the loop.                                       *)
LoopInv ==
    /\ TypeInv /\ ScheduleInv /\ OrderInv /\ PublicationInv /\ SnapInv
    /\ CheckInv /\ GradeInv /\ MergeInv /\ RowsInv /\ WorkInv

LEMMA LoopInit == Init => LoopInv
<1> SUFFICES ASSUME Init PROVE LoopInv
  OBVIOUS
<1>1. TypeInv
  BY TypeInit
<1>2. /\ pc = "execute" /\ round = "initial" /\ checker = "pending" /\ changed = FALSE
      /\ awaited = AwaitedOf(Item) /\ published = {} /\ todo = {} /\ early = {} /\ earlyRows = {}
      /\ landed = <<>> /\ snap = {} /\ at = 1 /\ status = "running"
      /\ N \in Nat /\ Item = 1..N
  BY LoopAssumption DEF Init, Item
<1>3. Landed = {}
  <2>1. Len(landed) = 0
    BY <1>2
  <2> QED
    BY <2>1 DEF Landed
<1>4. \A i \in Item : /\ role[i] = "working"
                      /\ item[i].version = 0 /\ item[i].pr = FALSE /\ item[i].kept = 0
                      /\ item[i].merge = "open" /\ item[i].repairs = 0 /\ item[i].refreshes = 0
  BY DEF Init
<1>5. First /\ ~Later /\ ~OnItem /\ ~Finalizing /\ ~Owned /\ ~Authoring
  BY <1>2 DEF First, Later, OnItem, Finalizing, Owned, Authoring
<1>6. ScheduleInv
  BY <1>2, <1>4, <1>5
  DEF ScheduleInv, CheckerInv, BuilderInv, GateableInv, BlockedInv, AwaitedInv
<1>7. OrderInv
  <2>1. 1..0 = {} /\ 0 \in 0..N
    BY <1>2
  <2> QED
    BY <1>2, <1>3, <2>1 DEF OrderInv, MergesInDependencyOrder
<1>8. PublicationInv
  <2>1. policy = "human_review" => ~Partial
    BY <1>2 DEF Partial, Active, AwaitedOf, ChecksWaiting
  <2> QED
    BY <1>2, <1>4, <1>5, <2>1 DEF PublicationInv, OpenInv, PublishedInv, PersonInv
<1>9. SnapInv /\ MergeInv
  <2>1. SnapInv
    BY <1>2, <1>4 DEF SnapInv
  <2>2. Len(landed) = 0
    BY <1>2
  <2> QED
    BY <1>3, <2>1, <2>2 DEF MergeInv
<1>10. CheckInv /\ GradeInv
  BY <1>2, <1>4, <1>5 DEF CheckInv, SubjectInv, CheckedInv, KeptInv, GradeInv
<1>11. RowsInv
  BY <1>2, <1>4, <1>5 DEF RowsInv, ApprovedInv, SettledInv, AnswerInv, Finished
<1>12. WorkInv
  BY <1>4 DEF WorkInv, MaxRepairs, MaxBaseRefreshes
<1> QED
  BY <1>1, <1>6, <1>7, <1>8, <1>9, <1>10, <1>11, <1>12 DEF LoopInv

LEMMA LoopStep == LoopInv /\ [Next]_vars => LoopInv'
<1> SUFFICES ASSUME LoopInv, [Next]_vars PROVE LoopInv'
  OBVIOUS
<1>1. /\ TypeInv /\ ScheduleInv /\ OrderInv /\ PublicationInv /\ SnapInv
      /\ CheckInv /\ GradeInv /\ MergeInv /\ RowsInv /\ WorkInv
  BY DEF LoopInv
<1>2. TypeInv' /\ ScheduleInv' /\ OrderInv' /\ PublicationInv' /\ SnapInv'
  BY <1>1, TypeStep, ScheduleStep, OrderStep, PublicationStep, SnapStep
<1>3. CheckInv' /\ GradeInv' /\ MergeInv' /\ RowsInv' /\ WorkInv'
  BY <1>1, CheckStep, GradeStep, MergeStep, RowsStep, WorkStep
<1> QED
  BY <1>2, <1>3 DEF LoopInv

(* However the early pass, the policy and finalization share the merging, the    *)
(* default branch gets the pull requests in dependency order, each at most once  *)
(* (_finalize_ready_early stops at the first pull request it must skip, and the  *)
(* loop of _finalize goes on from the rows it decided).                        *)
THEOREM LoopMergesInOrder == Spec => []MergesInDependencyOrder
<1>1. LoopInv => MergesInDependencyOrder
  BY DEF LoopInv, OrderInv
<1> QED
  BY <1>1, LoopInit, LoopStep, PTL DEF Spec

(* Whatever reached the default branch had been published, gated and approved as *)
(* the very version and base that merged, on a tree that held all the run had    *)
(* recorded as merged by then, through every rebase, repair, lost publication    *)
(* and lost answer of a merge (_merge_work_item).                              *)
THEOREM LoopMergedWasProven == Spec => []MergedWasProven
<1>1. ASSUME LoopInv PROVE MergedWasProven
  <2>1. landed \in Seq(Item) /\ MergeInv
    BY <1>1, Types DEF LoopInv, TypeInv
  <2>2. Len(landed) \in Nat /\ \A k \in 1..Len(landed) : landed[k] \in Landed
    BY <2>1, LenProperties DEF Landed
  <2>3. \A k \in 1..Len(landed) : \A j \in 1..(k - 1) : j \in 1..Len(landed) /\ j < k
    BY <2>2
  <2> QED
    BY <2>1, <2>2, <2>3 DEF MergedWasProven, MergeInv
<1> QED
  BY <1>1, LoopInit, LoopStep, PTL DEF Spec

(* Nothing is judged without the executable written for it, and an executable    *)
(* stays the same until its pull request's base moves, however the check was     *)
(* deferred, reused or rewritten (_author_acceptance_test, _prior_check).       *)
THEOREM LoopCheckIsDue == Spec => []CheckIsDue
<1>1. ASSUME LoopInv PROVE CheckIsDue
  <2>1. JudgedHasCheck
    <3>1. TypeInv /\ ScheduleInv /\ CheckedInv
      BY <1>1 DEF LoopInv, CheckInv
    <3> QED
      BY <3>1, JudgedChecked DEF JudgedHasCheck
  <2>2. OneCheckPerBase
    <3>1. KeptInv
      BY <1>1 DEF LoopInv, CheckInv
    <3>2. \A i \in Item : item[i].kept \in Nat
      BY <1>1, Types, ItemFields DEF LoopInv, TypeInv
    <3> QED
      BY <3>1, <3>2 DEF KeptInv, OneCheckPerBase
  <2> QED
    BY <2>1, <2>2 DEF CheckIsDue
<1> QED
  BY <1>1, LoopInit, LoopStep, PTL DEF Spec

(* A passed run has every routed pull request merged or left to a person, with   *)
(* an approval of its current bytes (_settle_run, from what _execute left).     *)
THEOREM LoopPassedMeansProven == Spec => []PassedMeansProven
<1>1. LoopInv => PassedMeansProven
  BY DEF LoopInv, RowsInv, AnswerInv, ApprovedInv, Finished, PassedMeansProven
<1> QED
  BY <1>1, LoopInit, LoopStep, PTL DEF Spec

(* No pull request is refreshed or repaired twice, and its owner takes no turn    *)
(* beside these and the first, whatever is retried ("this can never become       *)
(* re-entrant", _finalize).                                                   *)
THEOREM LoopBoundedWork == Spec => []BoundedWork
<1>1. ASSUME LoopInv PROVE BoundedWork
  <2>1. \A i \in Item : item[i].version \in Nat /\ item[i].repairs \in Nat /\ item[i].refreshes \in Nat
    BY <1>1, Types, ItemFields DEF LoopInv, TypeInv
  <2> QED
    BY <1>1, <2>1 DEF LoopInv, WorkInv, BoundedWork
<1> QED
  BY <1>1, LoopInit, LoopStep, PTL DEF Spec

-----------------------------------------------------------------------------
(* The implementation of ProvenDelivery.  An approval is of the version it is    *)
(* recorded with; the pull request's owner has no turn any more, and its row is  *)
(* decided, or is in the step that follows.  Only the end of a run answers.     *)
ApprovalInv == \A i \in Item : item[i].verdict = "approved" =>
    /\ item[i].judged = item[i].version
    /\ role[i] # "working"
    /\ Decided(i) \/ (pc = "decide" /\ i = at)
UnansweredInv == pc # "settled" => status = "running"
PromiseInv == LoopInv /\ ApprovalInv /\ UnansweredInv

(* What follows the decision to act on an approval: the merge.                *)
LEMMA ActsOnApproval ==
  ASSUME TypeInv, ScheduleInv, OrderInv, [Next]_vars, pc = "decide", at \in Item,
         item[at].verdict = "approved"
  PROVE  \/ UNCHANGED <<item, role, pc, at, round, earlyRows>>
         \/ Approved \/ ReviewUnavailable
<1>1. ASSUME NEW i \in Item PROVE ~BuilderEnds(i)
  BY DEF BuilderEnds, ScheduleInv, BuilderInv, Owned
<1>2. ~CheckWritten /\ ~CheckerEnds
  BY DEF CheckWritten, CheckerEnds, ScheduleInv, CheckerInv, CheckerFinished
<1>3. ~(\/ CheckerBlocked \/ CheckerNeverStarts \/ CheckerStarts \/ CheckerCannotPublish
        \/ EarlyPassStarts \/ EarlyMerge \/ EarlyReject \/ EarlyStops \/ PublishRest)
  BY DEF CheckerBlocked, CheckerNeverStarts, CheckerStarts, CheckerCannotPublish, CheckerMayStart,
         EarlyPassStarts, EarlyMerge, EarlyReject, EarlyStops, EarlyPass, PublishRest
<1>4. ~(\/ InitialExecuteEnds \/ RefreshEnds \/ DeferredCheckEnds \/ RepairEnds \/ TakeEarlyRow
        \/ BlockUnready \/ NothingMergedYet \/ RefreshClean \/ RefreshRefused \/ RefreshConflicts)
  BY DEF InitialExecuteEnds, RefreshEnds, DeferredCheckEnds, RepairEnds, LaterExecuteEnds,
         ExecuteEnds, TakeEarlyRow, BlockUnready, NothingMergedYet, RefreshClean, RefreshRefused,
         RefreshConflicts, ToCheck, At
<1>5. ~(\/ AuthorDeferredCheck \/ UseEarlyVerdict \/ GateAndReview \/ Repair
        \/ RejudgeApproves \/ RejudgeRejects \/ SettleRun)
  BY DEF AuthorDeferredCheck, UseEarlyVerdict, GateAndReview, ToJudge, Repair, NeedsRepair,
         RejudgeApproves, RejudgeRejects, SettleRun, At
<1>6. SetMergePolicy \/ UNCHANGED vars => UNCHANGED <<item, role, pc, at, round, earlyRows>>
  BY DEF SetMergePolicy, vars, schedule, queue
<1> QED
  BY <1>1, <1>2, <1>3, <1>4, <1>5, <1>6 DEF Next, Run

(* An approved pull request stays as it was approved.                         *)
LEMMA ApprovedStays ==
  ASSUME LoopInv, ApprovalInv, [Next]_vars, NEW j \in Item, item[j].verdict = "approved"
  PROVE  /\ SameGrade(item'[j], item[j])
         /\ item'[j].version = item[j].version /\ item'[j].base = item[j].base
         /\ role'[j] # "working"
         /\ Decided(j)' \/ (pc' = "decide" /\ j = at')
<1>0. TypeInv /\ ScheduleInv /\ OrderInv /\ role[j] # "working"
  BY DEF LoopInv, ApprovalInv
<1>1. CASE Decided(j)
  BY <1>0, <1>1, DecidedStays DEF SameWork
<1>2. CASE pc = "decide" /\ j = at
  <2>1. CASE UNCHANGED <<item, role, pc, at, round, earlyRows>>
    BY <1>0, <1>2, <2>1 DEF SameGrade
  <2>2. ASSUME Approved \/ ReviewUnavailable
        PROVE  /\ SameGrade(item'[j], item[j]) /\ SameWork(item'[j], item[j])
               /\ SamePlace(item'[j], item[j])
    <3>1. CASE Approved
      <4>1. ~EarlyMerge
        BY <3>1 DEF Approved, EarlyMerge, EarlyPass, At
      <4> QED
        BY <1>0, <1>2, <3>1, <4>1, Merges DEF Merging, SameGrade, SameWork, SamePlace
    <3>2. CASE ReviewUnavailable
      BY <1>0, <1>2, <3>2, UnavailableEffects
    <3> QED
      BY <2>2, <3>1, <3>2
  <2>3. ASSUME Approved \/ ReviewUnavailable
        PROVE  role'[j] # "working" /\ Decided(j)'
    <3>1. UNCHANGED role /\ at' = at + 1 /\ pc' = "item"
      BY <2>3 DEF Approved, ReviewUnavailable, NextItem, schedule
    <3>2. at \in 1..(N + 1) /\ N \in Nat /\ at + 1 > at
      BY <1>0, Types, LoopAssumption DEF TypeInv
    <3> QED
      BY <1>0, <1>2, <3>1, <3>2 DEF Decided, First
  <2> QED
    BY <1>0, <1>2, <2>1, <2>2, <2>3, ActsOnApproval DEF SameWork, SamePlace
<1> QED
  BY <1>1, <1>2 DEF ApprovalInv

(* A new approval is of the pull request at hand, which is not decided yet.     *)
LEMMA NewApproval ==
  ASSUME LoopInv, [Next]_vars, NEW j \in Item,
         item[j].verdict # "approved", item'[j].verdict = "approved"
  PROVE  /\ j = at /\ item'[j].judged = item'[j].version
         /\ role'[j] # "working"
         /\ Decided(j)' \/ (pc' = "decide" /\ j = at')
         /\ EarlyMerge \/ GateAndReview \/ RejudgeApproves
<1>0. TypeInv /\ ScheduleInv /\ OrderInv /\ PublicationInv /\ GradeInv
  BY DEF LoopInv
<1>1. Judging \/ EarlyMerge
  BY <1>0, GradesKept DEF SameGrade
<1>2. CASE EarlyMerge
  <2>1. OnlyAt /\ Judged(item'[at]) /\ role'[at] # "working"
    BY <1>0, <1>2, MergesProven DEF Merging
  <2>2. earlyRows' = earlyRows \cup {at}
    BY <1>2 DEF EarlyMerge
  <2> QED
    BY <1>2, <2>1, <2>2 DEF OnlyAt, Judged, Decided
<1>3. CASE Judging
  <2>1. PICK v \in Verdict : JudgesAt(v) /\ (RejudgeRejects => v # "approved")
                              /\ (EarlyReject => v # "approved")
    BY <1>0, <1>3, Judgements
  <2>2. j = at /\ v = "approved" /\ (GateAndReview \/ RejudgeApproves)
    BY <1>3, <2>1 DEF JudgesAt, OnlyAt, Judging
  <2>3. item'[j].judged = item'[j].version
    BY <2>1, <2>2 DEF JudgesAt, SameWork
  <2>4. UNCHANGED <<role, at>> /\ pc' = "decide" /\ pc \in {"check", "judge", "rejudge"}
    BY <2>2 DEF GateAndReview, RejudgeApproves, ToJudge, At, schedule
  <2>5. role[j] # "working"
    BY <1>0, <2>4 DEF ScheduleInv, BuilderInv, Owned
  <2> QED
    BY <2>2, <2>3, <2>4, <2>5
<1> QED
  BY <1>1, <1>2, <1>3

LEMMA PromiseStep == PromiseInv /\ [Next]_vars => PromiseInv'
<1> SUFFICES ASSUME PromiseInv, [Next]_vars PROVE PromiseInv'
  OBVIOUS
<1>0. LoopInv /\ ApprovalInv /\ UnansweredInv /\ TypeInv /\ ScheduleInv
  BY DEF PromiseInv, LoopInv
<1>1. LoopInv'
  BY <1>0, LoopStep
<1>2. ApprovalInv'
  <2> SUFFICES ASSUME NEW j \in Item, item'[j].verdict = "approved"
               PROVE  /\ item'[j].judged = item'[j].version
                      /\ role'[j] # "working"
                      /\ Decided(j)' \/ (pc' = "decide" /\ j = at')
    BY DEF ApprovalInv, Item
  <2>1. CASE item[j].verdict = "approved"
    BY <1>0, <2>1, ApprovedStays DEF ApprovalInv, SameGrade
  <2>2. CASE item[j].verdict # "approved"
    BY <1>0, <2>2, NewApproval
  <2> QED
    BY <2>1, <2>2
<1>3. UnansweredInv'
  <2> SUFFICES ASSUME pc' # "settled" PROVE status' = "running"
    BY DEF UnansweredInv
  <2>1. CASE pc = "settled"
    BY <1>0, <2>1, SettledStops DEF vars
  <2>2. CASE InitialExecuteEnds
    BY <1>0, <2>2 DEF InitialExecuteEnds, ExecuteEnds, UnansweredInv
  <2>3. CASE SettleRun
    BY <2>3 DEF SettleRun
  <2>4. CASE UNCHANGED status /\ pc # "settled"
    BY <1>0, <2>4 DEF UnansweredInv
  <2> QED
    BY <2>1, <2>2, <2>3, <2>4, StatusKept
<1> QED
  BY <1>1, <1>2, <1>3 DEF PromiseInv

LEMMA PromiseInit == Init => PromiseInv
<1> SUFFICES ASSUME Init PROVE PromiseInv
  OBVIOUS
<1>1. \A i \in Item : item[i].verdict = "none"
  BY DEF Init
<1>2. status = "running"
  BY DEF Init
<1> QED
  BY <1>1, <1>2, LoopInit DEF PromiseInv, ApprovalInv, UnansweredInv

(* Work goes on only on what is not approved: a builder's turn, or a rebase.    *)
Reworks(i) == /\ \A j \in Item : j # i => Patch(j)' = Patch(j)
              /\ item[i].verdict # "approved" /\ UNCHANGED landed
              /\ \A j \in Item : item'[j].verdict = item[j].verdict

LEMMA OffersKept ==
  ASSUME LoopInv, ApprovalInv, [Next]_vars
  PROVE  (\A j \in Item : Patch(j)' = Patch(j)) \/ \E i \in Item : Reworks(i)
<1>0. TypeInv /\ ScheduleInv /\ OrderInv
  BY DEF LoopInv
<1>1. ASSUME NEW i \in Item, BuilderEnds(i) PROVE Reworks(i)
  <2>1. item[i].verdict # "approved"
    BY <1>1 DEF BuilderEnds, ApprovalInv
  <2>2. UNCHANGED landed /\ \A j \in Item : j # i => item'[j] = item[j]
    BY <1>0, <1>1, BuilderEffects DEF BuilderEnds, branch
  <2> QED
    BY <1>0, <1>1, <2>1, <2>2, BuilderEffects DEF Reworks, Patch, SameGrade
<1>2. ASSUME RefreshClean \/ RefreshRefused \/ RefreshConflicts PROVE Reworks(at)
  <2>1. OnlyAt /\ ~Decided(at) /\ pc = "item" /\ UNCHANGED landed
    BY <1>0, <1>2, AtUndecided
    DEF AtWork, RefreshClean, RefreshRefused, RefreshConflicts, ToCheck, At, branch
  <2>2. item[at].verdict # "approved"
    BY <2>1 DEF ApprovalInv, OnlyAt
  <2>3. SameGrade(item'[at], item[at])
    <3>1. ~Judging /\ ~EarlyMerge
      BY <1>2 DEF RefreshClean, RefreshRefused, RefreshConflicts, ToCheck, At, Judging, EarlyReject,
         GateAndReview, ToJudge, RejudgeApproves, RejudgeRejects, EarlyMerge, EarlyPass
    <3> QED
      BY <1>0, <2>1, <3>1, GradesKept DEF OnlyAt
  <2> QED
    BY <2>1, <2>2, <2>3 DEF Reworks, OnlyAt, Patch, SameGrade
<1>3. ASSUME CheckerStarts \/ CheckerCannotPublish \/ PublishRest
      PROVE  \A j \in Item : Patch(j)' = Patch(j)
  BY <1>0, <1>3, CheckerStartsEffects, PublishEffects DEF Posts, SameWork, Patch
<1>4. ASSUME CheckWritten \/ Judging \/ Merging \/ Ending \/ Settling
      PROVE  \A j \in Item : Patch(j)' = Patch(j)
  BY <1>0, <1>4, PlaceKept DEF SamePlace, Patch
<1>5. ASSUME UNCHANGED item PROVE \A j \in Item : Patch(j)' = Patch(j)
  BY <1>5 DEF Patch
<1>6. (\A j \in Item : Patch(j)' = Patch(j)) \/ (\E i \in Item : BuilderEnds(i))
      \/ RefreshClean \/ RefreshRefused \/ RefreshConflicts
  BY <1>3, <1>4, <1>5
  DEF Next, Run, Judging, Merging, Settling, Ending, CheckerBlocked, CheckerNeverStarts,
      CheckerEnds, EarlyPassStarts, EarlyStops, InitialExecuteEnds, TakeEarlyRow, NothingMergedYet,
      AuthorDeferredCheck, UseEarlyVerdict, SettleRun, SetMergePolicy, vars
<1> QED
  <2>1. RefreshClean \/ RefreshRefused \/ RefreshConflicts => at \in Item
    BY <1>0, AtUndecided DEF AtWork, OnlyAt
  <2> QED
    BY <1>1, <1>2, <1>6, <2>1

(* What merged went to GitHub as it was approved, so it stays as it is there.   *)
LEMMA BranchKept ==
  ASSUME LoopInv, LoopInv', [Next]_vars, NEW k \in 1..Len(landed)
  PROVE  /\ landed[k] \in Item /\ landed[k] \in Landed
         /\ item'[landed[k]].head = item[landed[k]].head
<1>1. landed[k] \in Landed /\ TypeInv /\ ScheduleInv /\ OrderInv /\ MergeInv
  BY DEF Landed, LoopInv
<1>2. landed[k] \in Item /\ Proven(item[landed[k]]) /\ Proven(item'[landed[k]])
  BY <1>1, LandedStays DEF MergeInv
<1>3. item[landed[k]].verdict = "approved" /\ Decided(landed[k]) /\ role[landed[k]] # "working"
  BY <1>1, <1>2 DEF Proven, Judged, MergeInv, OrderInv, Decided
<1>4. item'[landed[k]].version = item[landed[k]].version
      /\ item'[landed[k]].base = item[landed[k]].base
  BY <1>1, <1>2, <1>3, DecidedStays DEF SameWork
<1> QED
  BY <1>1, <1>2, <1>4 DEF Proven, Posted

(* The state the promise is about, in the loop's terms.                       *)
Offers == [i \in Item |-> Patch(i)]
Approvals == {i \in Item : Judged(item[i])}
Entry(k) == <<landed[k], item[landed[k]].head>>
Branch == [k \in 1..Len(landed) |-> Entry(k)]

PatchSet == Nat \X SUBSET Item

LEMMA BranchShape ==
  ASSUME NEW l \in Seq(Item), NEW w \in [Item -> WorkItem]
  PROVE  LET b == [k \in 1..Len(l) |-> <<l[k], w[l[k]].head>>]
         IN  b \in Seq(Item \X PatchSet) /\ Len(b) = Len(l)
<1> DEFINE b == [k \in 1..Len(l) |-> <<l[k], w[l[k]].head>>]
<1>1. Len(l) \in Nat /\ \A k \in 1..Len(l) : l[k] \in Item
  BY LenProperties, ElementOfSeq
<1>2. \A i \in Item : w[i].head \in PatchSet
  BY ItemFields DEF PatchSet
<1>3. b \in [1..Len(l) -> Item \X PatchSet]
  BY <1>1, <1>2
<1>4. b \in Seq(Item \X PatchSet)
  BY <1>1, <1>3, SeqDef
<1>5. DOMAIN b = 1..Len(l) /\ DOMAIN b = 1..Len(b) /\ Len(b) \in Nat
  BY <1>3, <1>4, LenProperties
<1>6. Len(b) = Len(l)
  <2> HIDE DEF b
  <2> QED
    BY <1>1, <1>5
<1> QED
  BY <1>4, <1>6

LEMMA Branches ==
  ASSUME LoopInv, LoopInv'
  PROVE  /\ Branch \in Seq(Item \X PatchSet) /\ Len(Branch) = Len(landed)
         /\ Branch' \in Seq(Item \X PatchSet) /\ Len(Branch') = Len(landed')
         /\ Len(landed) \in Nat
<1>1. landed \in Seq(Item) /\ landed' \in Seq(Item)
      /\ item \in [Item -> WorkItem] /\ item' \in [Item -> WorkItem]
  <2>1. TypeOK /\ TypeOK'
    BY DEF LoopInv, TypeInv
  <2> QED
    BY <2>1 DEF TypeOK, Item
<1> QED
  BY <1>1, BranchShape, LenProperties DEF Branch, Entry

LEMMA BranchStands ==
  ASSUME LoopInv, LoopInv', [Next]_vars, UNCHANGED landed
  PROVE  Branch' = Branch
<1>1. \A k \in 1..Len(landed) : Entry(k)' = Entry(k)
  BY BranchKept DEF Entry
<1> QED
  BY <1>1 DEF Branch

(* A merge adds the patch its pull request offers to the branch, and nothing     *)
(* else changes there.                                                       *)
LEMMA BranchGrows ==
  ASSUME LoopInv, LoopInv', [Next]_vars, Merging, landed' = Append(landed, at)
  PROVE  /\ at \in Item /\ Judged(item'[at])
         /\ Branch' = Append(Branch, <<at, Patch(at)>>)
         /\ \A j \in {Branch[k][1] : k \in 1..Len(Branch)} : j < at
<1>0. /\ TypeInv /\ ScheduleInv /\ OrderInv /\ PublicationInv /\ GradeInv
      /\ landed \in Seq(Item) /\ Len(landed) \in Nat /\ at \in Item /\ Judged(item'[at])
  <2>1. TypeInv /\ ScheduleInv /\ OrderInv /\ PublicationInv /\ GradeInv
    BY DEF LoopInv
  <2>2. TypeOK
    BY <2>1 DEF TypeInv
  <2> QED
    BY <2>1, <2>2, Types, MergesProven, LenProperties
<1>1. /\ Len(landed') = Len(landed) + 1 /\ landed'[Len(landed) + 1] = at
      /\ \A k \in 1..Len(landed) : landed'[k] = landed[k]
  BY <1>0, AppendProperties
<1>2. item'[at].head = Patch(at)
  <2>1. item[at].pr
    <3>1. PICK w \in WorkItem : SamePlace(w, item[at]) /\ (w.pr \/ UNCHANGED branch)
      BY <1>0, Merges
    <3>2. landed' # landed
      BY <1>0, <1>1
    <3> QED
      BY <3>1, <3>2 DEF SamePlace, branch
  <2>2. Posted(item'[at])
    BY <1>0, <2>1, MergesProven
  <2>3. SamePlace(item'[at], item[at]) /\ item'[at].version = item[at].version
    BY <1>0, PlaceKept
  <2> QED
    BY <2>2, <2>3 DEF Posted, SamePlace, Patch
<1> DEFINE e == <<at, Patch(at)>>
<1>3. /\ Branch \in Seq(Item \X PatchSet) /\ Len(Branch) = Len(landed)
      /\ Branch' \in Seq(Item \X PatchSet) /\ Len(Branch') = Len(landed) + 1
  BY <1>1, Branches
<1>4. /\ \A k \in 1..Len(landed) : Branch'[k] = Branch[k]
      /\ Branch'[Len(landed) + 1] = e
  <2>1. \A k \in 1..(Len(landed) + 1) : Branch'[k] = <<landed'[k], item'[landed'[k]].head>>
    BY <1>1 DEF Branch, Entry
  <2>2. \A k \in 1..Len(landed) : Branch[k] = <<landed[k], item[landed[k]].head>>
    BY DEF Branch, Entry
  <2>3. Len(landed) + 1 \in 1..(Len(landed) + 1) /\ 1..Len(landed) \subseteq 1..(Len(landed) + 1)
    BY <1>0
  <2>4. Branch'[Len(landed) + 1] = e
    BY <1>1, <1>2, <2>1, <2>3
  <2>5. ASSUME NEW k \in 1..Len(landed) PROVE Branch'[k] = Branch[k]
    <3>1. item'[landed[k]].head = item[landed[k]].head
      BY BranchKept
    <3>2. landed'[k] = landed[k] /\ k \in 1..(Len(landed) + 1)
      BY <1>1, <2>3
    <3>3. Branch'[k] = <<landed[k], item'[landed[k]].head>>
      BY <2>1, <3>2
    <3> QED
      BY <2>2, <3>1, <3>3
  <2> QED
    BY <2>4, <2>5
<1>5. e \in Item \X PatchSet
  <2>1. item[at] \in WorkItem
    BY <1>0, Types DEF TypeInv
  <2> QED
    BY <1>0, <2>1, ItemFields DEF Patch, PatchSet
<1>6. Branch' = Append(Branch, e)
  <2> HIDE DEF e
  <2>1. /\ Append(Branch, e) \in Seq(Item \X PatchSet)
        /\ Len(Append(Branch, e)) = Len(landed) + 1
        /\ \A k \in 1..Len(landed) : Append(Branch, e)[k] = Branch[k]
        /\ Append(Branch, e)[Len(landed) + 1] = e
    BY <1>3, <1>5, AppendProperties
  <2>2. ASSUME NEW k \in 1..(Len(landed) + 1) PROVE Branch'[k] = Append(Branch, e)[k]
    <3>1. k \in 1..Len(landed) \/ k = Len(landed) + 1
      BY <1>0
    <3> QED
      BY <1>4, <2>1, <3>1
  <2> QED
    BY <1>3, <2>1, <2>2, SeqEqual
<1>7. ASSUME NEW k \in 1..Len(Branch) PROVE Branch[k][1] < at
  <2>1. k \in 1..Len(landed) /\ landed[k] \in Landed
    BY <1>3 DEF Landed
  <2>2. landed[k] < at
    BY <1>0, <2>1, AtUndecided, LandedBefore DEF AtWork
  <2> QED
    BY <2>1, <2>2 DEF Branch, Entry
<1> QED
  BY <1>0, <1>6, <1>7

(* Approvals come one at a time, and what is approved stays.                   *)
LEMMA ApprovalsGrow ==
  ASSUME LoopInv, ApprovalInv, [Next]_vars, UNCHANGED landed,
         \A j \in Item : Patch(j)' = Patch(j)
  PROVE  \/ Approvals' = Approvals
         \/ at \in Item /\ at \notin Approvals /\ Approvals' = Approvals \cup {at}
<1>1. \A j \in Item : j \in Approvals <=> item[j].verdict = "approved"
  BY DEF Approvals, Judged, ApprovalInv
<1>2. ASSUME NEW j \in Item, item[j].verdict = "approved" PROVE j \in Approvals'
  BY <1>2, ApprovedStays DEF Approvals, Judged, ApprovalInv, SameGrade, Item
<1>3. ASSUME NEW j \in Item, item[j].verdict # "approved", j \in Approvals' PROVE j = at
  BY <1>3, NewApproval DEF Approvals, Judged
<1>4. Approvals \subseteq Item /\ Approvals' \subseteq Item
  BY DEF Approvals, Item
<1> QED
  BY <1>1, <1>2, <1>3, <1>4

(* Each step of the loop, as a step of the promise.                           *)
LEMMA PromiseKept ==
  ASSUME PromiseInv, PromiseInv', [Next]_vars
  PROVE  [Delivery!Next]_(Delivery!vars)
<1>0. /\ LoopInv /\ LoopInv' /\ ApprovalInv /\ ApprovalInv' /\ UnansweredInv
      /\ TypeInv /\ ScheduleInv
  BY DEF PromiseInv, LoopInv
<1> USE DEF Offers, Approvals, Branch, Entry
<1>1. CASE pc = "settled"
  <2>1. UNCHANGED vars
    BY <1>0, <1>1, SettledStops
  <2> QED
    BY <2>1 DEF vars, Delivery!vars, branch, outcome, Patch, Judged
<1>2. CASE pc # "settled" /\ (InitialExecuteEnds \/ SettleRun)
  <2>1. UNCHANGED <<item, landed>>
    BY <1>2 DEF InitialExecuteEnds, SettleRun, branch
  <2>2. /\ Offers' = Offers /\ Approvals' = Approvals /\ Branch' = Branch
    BY <2>1 DEF Patch, Judged
  <2>3. status = "running" /\ status' \in {"running", "passed", "needs_human", "failed"}
    BY <1>0, <1>2 DEF UnansweredInv, InitialExecuteEnds, SettleRun
  <2>4. status' = "passed" => Approvals = Item
    BY <1>0, <2>2 DEF LoopInv, RowsInv, AnswerInv, ApprovedInv, Item
  <2>5. CASE status' = "running"
    BY <2>2, <2>3, <2>5 DEF Delivery!vars
  <2>6. CASE status' # "running"
    <3>1. Delivery!Conclude(status')
      BY <2>2, <2>4 DEF Delivery!Conclude
    <3> QED
      BY <2>3, <2>6, <3>1 DEF Delivery!Next
  <2> QED
    BY <2>5, <2>6
<1>3. CASE pc # "settled" /\ UNCHANGED status
  <2>1. status = "running"
    BY <1>0, <1>3 DEF UnansweredInv
  <2>2. CASE Merging /\ landed' = Append(landed, at)
    <3>1. /\ at \in Item /\ Judged(item'[at]) /\ Branch' = Append(Branch, <<at, Patch(at)>>)
          /\ \A j \in {Branch[k][1] : k \in 1..Len(Branch)} : j < at
      BY <1>0, <2>2, BranchGrows
    <3>2. Offers' = Offers
      BY <1>0, <2>2, PlaceKept DEF SamePlace, Patch, Item
    <3>3. Approvals' = Approvals \cup {at}
      <4>1. \A j \in Item : j # at => item'[j] = item[j]
        BY <1>0, <2>2, Merges DEF OnlyAt
      <4> QED
        BY <3>1, <4>1 DEF Judged, Item
    <3>4. PICK i \in Item : i = at
      BY <3>1
    <3>5. Delivery!Merge(i)
      BY <3>1, <3>2, <3>3, <3>4 DEF Delivery!Merge, Delivery!Merged
    <3>6. Delivery!Next
      BY <1>3, <2>1, <3>5 DEF Delivery!Next
    <3> QED
      BY <3>6
  <2>3. CASE UNCHANGED landed /\ \A j \in Item : Patch(j)' = Patch(j)
    <3>1. Offers' = Offers /\ Branch' = Branch
      BY <1>0, <2>3, BranchStands DEF Item
    <3>2. CASE Approvals' = Approvals
      BY <1>3, <3>1, <3>2 DEF Delivery!vars
    <3>3. CASE at \in Item /\ at \notin Approvals /\ Approvals' = Approvals \cup {at}
      <4>1. Delivery!Approve(at)
        BY <3>1, <3>3 DEF Delivery!Approve
      <4> QED
        BY <1>3, <2>1, <3>3, <4>1 DEF Delivery!Next
    <3> QED
      BY <1>0, <2>3, <3>2, <3>3, ApprovalsGrow
  <2>4. ASSUME NEW i \in Item, Reworks(i) PROVE Delivery!Next
    <3>1. Branch' = Branch
      BY <1>0, <2>4, BranchStands DEF Reworks
    <3>2. Approvals' = Approvals
      <4>1. \A j \in Item : item[j].verdict = "approved" =>
              item'[j].verdict = "approved" /\ item'[j].judged = item'[j].version
        BY <1>0, ApprovedStays DEF ApprovalInv, SameGrade
      <4>2. \A j \in Item : item'[j].verdict = "approved" => item[j].verdict = "approved"
        BY <2>4 DEF Reworks
      <4> QED
        BY <1>0, <4>1, <4>2 DEF Judged, ApprovalInv, Item
    <3>3. Offers' = [Offers EXCEPT ![i] = Offers'[i]]
      BY <2>4 DEF Reworks, Item
    <3>4. i \notin Approvals
      BY <2>4 DEF Reworks, Judged
    <3>5. Delivery!Rework(i)
      BY <3>1, <3>2, <3>3, <3>4 DEF Delivery!Rework
    <3> QED
      BY <1>3, <2>1, <3>5 DEF Delivery!Next
  <2>5. UNCHANGED landed \/ (Merging /\ landed' = Append(landed, at))
    <3>1. ~Merging => UNCHANGED landed
      BY <1>0, QuietRows DEF branch
    <3>2. Merging => UNCHANGED landed \/ landed' = Append(landed, at)
      BY <1>0, Merges DEF branch
    <3> QED
      BY <3>1, <3>2
  <2> QED
    BY <1>0, <2>2, <2>3, <2>4, <2>5, OffersKept
<1> QED
  BY <1>1, <1>2, <1>3, StatusKept

(* The pull-request loop keeps its promise: no approved patch changes, the        *)
(* default branch grows by approved patches only, as they were approved, in       *)
(* dependency order, and a run that answers "passed" had every pull request       *)
(* approved (_finalize, _merge_work_item, _settle_run).                        *)
THEOREM LoopKeepsPromise == Spec => ImplementsProvenDelivery
<1>1. Init => Delivery!Init
  <2> SUFFICES ASSUME Init PROVE Delivery!Init
    OBVIOUS
  <2>1. landed = <<>> /\ status = "running" /\ \A i \in Item : item[i].verdict = "none"
    BY DEF Init
  <2>2. Len(landed) = 0
    BY <2>1
  <2>3. Branch = <<>>
    BY <2>2 DEF Branch
  <2>4. Approvals = {}
    BY <2>1 DEF Approvals, Judged
  <2> QED
    BY <2>1, <2>3, <2>4 DEF Delivery!Init, Branch, Entry, Approvals
<1> QED
  BY <1>1, PromiseInit, PromiseStep, PromiseKept, PTL
     DEF Spec, ImplementsProvenDelivery, Delivery!Spec
==============================================================================
