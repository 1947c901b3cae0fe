-------------------------- MODULE RepositoryWriter --------------------------
(***************************************************************************)
(* One role's branch and pull request, as the coordinator writes it through  *)
(* the Gateway: orchestrator/github.py, with the tools it calls in            *)
(* coding-agents/gateway_mcp/app/main.py.  A call that fails in transport is   *)
(* tried again, though the tool may have done its work, or may still be at     *)
(* it; a call that answers with an error is not.  A person works on the same   *)
(* repository.                                                               *)
(*                                                                           *)
(* A commit is its author and the version of the patch it carries; the default *)
(* branch is its tip, one higher with everything that lands.                 *)
(***************************************************************************)
EXTENDS Integers, Sequences, FiniteSets

CONSTANTS MaxVersion,  \* the patches the role makes
          Attempts,    \* _RPC_ATTEMPTS: how often a call is made
          MaxVisit     \* what a person does meanwhile

ASSUME WriterAssumption ==
    /\ MaxVersion \in Nat /\ Attempts \in Nat \ {0} /\ MaxVisit \in Nat

VARIABLES
    hub,     \* the repository on GitHub
    item,    \* the work item and its pull request, as the coordinator records them
    doing,      \* what the coordinator is doing, and the call it waits for
    exec,    \* the tool's work on that call, and on one it has given up
    said,    \* what it reports
    visits

writerVars == <<hub, item, doing, exec, said, visits>>

Slot == {"call", "late"}
Tool == {"none", "commit", "issue", "create", "labels", "repository", "merge", "head", "archive",
         "comment", "tools", "branch", "reset"}
Writes == {"commit", "create", "merge"}
CommitRecord == [by : {"role", "person"}, version : 0..MaxVersion]
PullRequest == [state : {"open", "closed", "merged"}, landed : Nat, by : {"", "coordinator", "person"}]
ToolRun == [tool : Tool, step : {"look", "make", "recheck", "move", "go", "done", "failed", "over"},
            expects : Nat, sees : Nat, makes : Nat, version : 0..MaxVersion, pr : Nat]
NoToolRun == [tool |-> "none", step |-> "over", expects |-> 0, sees |-> 0, makes |-> 0,
           version |-> 0, pr |-> 0]

WriterTypeOK ==
    /\ hub \in [commits : Seq(CommitRecord), head : Nat, tip : Nat, default : {"main", "trunk"},
                prs : Seq(PullRequest), probe : {"missing", "old", "new"},
                access : {"read", "write"}]
    /\ item \in [version : 0..MaxVersion, head : Nat, pr : Nat, reviewed : 0..MaxVersion,
                 state : {"new", "based", "built", "unpublished", "in_review", "approved",
                          "merged", "blocked"}]
    /\ doing \in [kind : {"none", "prepare", "publish", "merge", "snapshot", "comment", "doctor"},
               tool : Tool, try : 0..Attempts, sha : Nat]
    /\ exec \in [Slot -> ToolRun]
    /\ said \in [sha : Nat, tree : Nat, ready : {"", "yes", "no"}]
    /\ visits \in 0..MaxVisit

(* An item waits for its run, or its run has ended; the doctor was asked       *)
(* before, or was not.                                                       *)
WriterInit ==
    /\ \E probe \in {"missing", "old"}, access \in {"read", "write"} :
          hub = [commits |-> <<>>, head |-> 0, tip |-> 1, default |-> "main", prs |-> <<>>,
                 probe |-> probe, access |-> access]
    /\ item \in [version : {0}, head : {0}, pr : {0}, reviewed : {0}, state : {"new", "blocked"}]
    /\ doing = [kind |-> "none", tool |-> "none", try |-> 0, sha |-> 0]
    /\ exec = [s \in Slot |-> NoToolRun]
    /\ said \in [sha : {0}, tree : {0}, ready : {"", "no"}]
    /\ visits = 0

-----------------------------------------------------------------------------
(* Calls. *)

Writable == hub.access = "write"

ToolArguments(t) ==
    IF t \notin Writes THEN NoToolRun
    ELSE [NoToolRun EXCEPT !.tool = t, !.step = IF t = "commit" THEN "look" ELSE "go",
                        !.expects = item.head, !.version = item.version, !.pr = item.pr]
Calls(kind, t, s) ==
    /\ doing' = [kind |-> kind, tool |-> t, try |-> 1, sha |-> s]
    /\ exec' = [exec EXCEPT !["call"] = ToolArguments(t)]
Goes(t) == Calls(doing.kind, t, doing.sha)
Rests == /\ doing' = [kind |-> "none", tool |-> "none", try |-> 0, sha |-> 0]
         /\ exec' = [exec EXCEPT !["call"] = NoToolRun]
Waits(t) == doing.tool = t
Did(t) == Waits(t) /\ exec["call"].step = "done"

(* An operation that fails leaves what its caller makes of it: a first         *)
(* publication may have been refused unnoticed (_execute), a later one not.   *)
OperationFails ==
    /\ item' = [item EXCEPT !.state =
                   IF doing.kind = "publish" /\ item.version = 1 THEN "unpublished"
                   ELSE IF doing.kind \in {"prepare", "publish", "merge"} THEN "blocked" ELSE @]
    /\ said' = IF doing.kind = "doctor" THEN [said EXCEPT !.ready = "no"] ELSE said
    /\ Rests

(* The tool answers with an error: that is an answer, and not tried again.    *)
ToolRefuses ==
    /\ doing.tool # "none"
    /\ doing.tool \in Writes => exec["call"].step = "failed"
    /\ OperationFails
    /\ UNCHANGED <<hub, visits>>

(* The connection fails: what was asked may be lost with it, be done already,  *)
(* or go on.                                                                 *)
Abandoned == IF exec["call"].step \notin {"done", "failed", "over"} /\ exec["late"] = NoToolRun
             THEN {exec["late"], exec["call"]} ELSE {exec["late"]}
Unanswered ==
    IF ~Writable THEN {hub}
    ELSE CASE doing.tool = "branch" -> {hub, [hub EXCEPT !.probe = IF @ = "missing" THEN "new" ELSE @]}
           [] doing.tool = "reset" -> {hub, [hub EXCEPT !.probe = "new"]}
           [] OTHER -> {hub}
CallFails ==
    /\ doing.tool # "none"
    /\ hub' \in Unanswered
    /\ IF doing.try < Attempts
       THEN /\ doing' = [doing EXCEPT !.try = @ + 1]
            /\ \E l \in Abandoned : exec' = [call |-> ToolArguments(doing.tool), late |-> l]
            /\ UNCHANGED <<item, said>>
       ELSE OperationFails
    /\ UNCHANGED visits

-----------------------------------------------------------------------------
(* The tools. *)

(* Nobody waits for the answer of a call that was given up.                  *)
Becomes(s, step) == exec' = [exec EXCEPT ![s] = IF s = "late" /\ step \in {"done", "failed"}
                                                THEN NoToolRun ELSE [@ EXCEPT !.step = step]]
Does(s, t, step) == exec[s].tool = t /\ exec[s].step = step
(* Slip: the branch is not compared with the commit its owner left there.     *)
LooksUnchecked(s) ==
    /\ Does(s, "commit", "look")
    /\ exec' = [exec EXCEPT ![s].step = "make", ![s].sees = hub.head]
    /\ UNCHANGED hub

CommitLooks(s) ==
    /\ Does(s, "commit", "look")
    /\ IF exec[s].expects \notin {0, hub.head} \/ ~Writable
       THEN Becomes(s, "failed")
       ELSE exec' = [exec EXCEPT ![s].step = "make", ![s].sees = hub.head]
    /\ UNCHANGED hub

(* The commit is made on the default branch as it is now, and is on no branch  *)
(* yet.                                                                      *)
CommitIsMade(s) ==
    /\ Does(s, "commit", "make")
    /\ hub' = [hub EXCEPT !.commits = Append(@, [by |-> "role", version |-> exec[s].version])]
    /\ exec' = [exec EXCEPT ![s].step = IF exec[s].sees = 0 THEN "move" ELSE "recheck",
                            ![s].makes = Len(hub.commits) + 1]

CommitLooksAgain(s) ==
    /\ Does(s, "commit", "recheck")
    /\ Becomes(s, IF hub.head = exec[s].sees THEN "move" ELSE "failed")
    /\ UNCHANGED hub

(* A new branch is created, and refused when it exists; one that was there is  *)
(* moved by force, wherever it is by now.                                    *)
BranchMoves(s) ==
    /\ Does(s, "commit", "move")
    /\ IF Writable /\ (exec[s].sees = 0 => hub.head = 0)
       THEN hub' = [hub EXCEPT !.head = exec[s].makes] /\ Becomes(s, "done")
       ELSE UNCHANGED hub /\ Becomes(s, "failed")

OpenOnes == {n \in 1..Len(hub.prs) : hub.prs[n].state = "open"}

PullRequestOpens(s) ==
    /\ Does(s, "create", "go")
    /\ IF Writable /\ hub.head # 0 /\ OpenOnes = {}
       THEN /\ hub' = [hub EXCEPT !.prs = Append(@, [state |-> "open", landed |-> 0, by |-> ""])]
            /\ exec' = IF s = "late" THEN [exec EXCEPT ![s] = NoToolRun]
                       ELSE [exec EXCEPT ![s].step = "done", ![s].pr = Len(hub.prs) + 1]
       ELSE UNCHANGED hub /\ Becomes(s, "failed")

(* Slip: whatever is on the branch is merged.                                *)
MergesUnpinned(s) ==
    /\ Does(s, "merge", "go")
    /\ IF Writable /\ exec[s].pr \in OpenOnes
       THEN /\ hub' = [hub EXCEPT !.prs[exec[s].pr] = [state |-> "merged", landed |-> hub.head,
                                                       by |-> "coordinator"],
                                  !.tip = @ + 1]
            /\ Becomes(s, "done")
       ELSE UNCHANGED hub /\ Becomes(s, "failed")

PullRequestMerges(s) ==
    /\ Does(s, "merge", "go")
    /\ IF Writable /\ exec[s].pr \in OpenOnes /\ hub.head = exec[s].expects
       THEN /\ hub' = [hub EXCEPT !.prs[exec[s].pr] = [state |-> "merged", landed |-> hub.head,
                                                       by |-> "coordinator"],
                                  !.tip = @ + 1]
            /\ Becomes(s, "done")
       ELSE UNCHANGED hub /\ Becomes(s, "failed")

ToolWorks ==
    /\ \E s \in Slot : \/ CommitLooks(s) \/ CommitIsMade(s) \/ CommitLooksAgain(s)
                       \/ BranchMoves(s) \/ PullRequestOpens(s) \/ PullRequestMerges(s)
    /\ UNCHANGED <<item, doing, said, visits>>

-----------------------------------------------------------------------------
(* The checkout of a branch, before the run and after a merge. *)

PrepareBase ==
    /\ doing.kind = "none" /\ item.state = "new"
    /\ Calls("prepare", "repository", 0)
    /\ UNCHANGED <<hub, item, said, visits>>

HeadAnswers ==
    /\ Waits("head")
    /\ Calls(doing.kind, "archive", hub.tip)
    /\ UNCHANGED <<hub, item, said, visits>>

(* Slip: the archive is asked for by the name of the branch.                 *)
ArchiveOfBranch ==
    /\ Waits("archive")
    /\ said' = [said EXCEPT !.sha = doing.sha, !.tree = hub.tip]
    /\ item' = IF doing.kind = "prepare" THEN [item EXCEPT !.state = "based"] ELSE item
    /\ Rests
    /\ UNCHANGED <<hub, visits>>

(* The whole tree replaces the checkout, or nothing does.                    *)
ArchiveExtracted ==
    /\ Waits("archive")
    /\ said' = [said EXCEPT !.sha = doing.sha, !.tree = doing.sha]
    /\ item' = IF doing.kind = "prepare" THEN [item EXCEPT !.state = "based"] ELSE item
    /\ Rests
    /\ UNCHANGED <<hub, visits>>

-----------------------------------------------------------------------------
(* The role's pull request. *)

(* The role's turn ends with a patch: its first, a refresh or a repair.       *)
PatchMade ==
    /\ doing.kind = "none" /\ item.state \in {"based", "unpublished", "in_review"}
    /\ item.version < MaxVersion
    /\ item' = [item EXCEPT !.version = @ + 1, !.state = "built"]
    /\ UNCHANGED <<hub, doing, exec, said, visits>>

PublishWorkItem ==
    /\ doing.kind = "none" /\ item.state = "built"
    /\ Calls("publish", "commit", 0)
    /\ UNCHANGED <<hub, item, said, visits>>

CommitAnswers ==
    /\ Did("commit")
    /\ item' = [item EXCEPT !.head = exec["call"].makes]
    /\ Goes(IF item.pr # 0 THEN "issue" ELSE "create")
    /\ UNCHANGED <<hub, said, visits>>

(* A pull request that is no longer open is replaced.                        *)
IssueAnswers ==
    /\ Waits("issue")
    /\ IF item.pr \in OpenOnes
       THEN Goes("labels") /\ UNCHANGED item
       ELSE Goes("create") /\ item' = [item EXCEPT !.pr = 0]
    /\ UNCHANGED <<hub, said, visits>>

CreateAnswers ==
    /\ Did("create")
    /\ item' = [item EXCEPT !.pr = exec["call"].pr]
    /\ Goes("labels")
    /\ UNCHANGED <<hub, said, visits>>

LabelsAnswer ==
    /\ Waits("labels")
    /\ item' = [item EXCEPT !.state = "in_review"]
    /\ Rests
    /\ UNCHANGED <<hub, said, visits>>

(* Gate and review look at the patch; what they find is the engine's.         *)
ReviewApproves ==
    /\ doing.kind = "none" /\ item.state \in {"unpublished", "in_review"}
    /\ item' = [item EXCEPT !.state = "approved", !.reviewed = item.version]
    /\ UNCHANGED <<hub, doing, exec, said, visits>>

CommentOnWorkItem ==
    /\ doing.kind = "none" /\ item.state \in {"in_review", "blocked"} /\ item.pr # 0
    /\ Calls("comment", "comment", 0)
    /\ UNCHANGED <<hub, item, said, visits>>

CommentAnswers ==
    /\ Waits("comment")
    /\ Rests
    /\ UNCHANGED <<hub, item, said, visits>>

(* Without a pull request on the branch the run began from there is nothing    *)
(* to merge.                                                                 *)
MergeWorkItem ==
    /\ doing.kind = "none" /\ item.state = "approved"
    /\ IF item.pr = 0
       THEN item' = [item EXCEPT !.state = "blocked"] /\ UNCHANGED <<doing, exec>>
       ELSE Calls("merge", "repository", 0) /\ UNCHANGED item
    /\ UNCHANGED <<hub, said, visits>>

(* The default branch is asked for again before a merge.                     *)
RepositoryAnswers ==
    /\ Waits("repository")
    /\ CASE doing.kind = "prepare" -> Goes("head") /\ UNCHANGED <<item, said>>
         [] doing.kind = "doctor" -> Goes("branch") /\ UNCHANGED <<item, said>>
         [] doing.kind = "merge" -> IF hub.default = "main" /\ item.head # 0
                                 THEN Goes("merge") /\ UNCHANGED <<item, said>>
                                 ELSE OperationFails
    /\ UNCHANGED <<hub, visits>>

(* What merged is the base of the next pull request: it is checked out.       *)
MergeAnswers ==
    /\ Did("merge")
    /\ item' = [item EXCEPT !.state = "merged"]
    /\ Calls("snapshot", "head", 0)
    /\ UNCHANGED <<hub, said, visits>>

-----------------------------------------------------------------------------
(* The doctor: is the path usable, before a run finds out. *)

Doctor ==
    /\ doing.kind = "none" /\ said.ready = ""
    /\ Calls("doctor", "tools", 0)
    /\ hub' = [hub EXCEPT !.probe = IF @ = "missing" THEN @ ELSE "old"]
    /\ UNCHANGED <<item, said, visits>>

ToolsAnswer ==
    /\ Waits("tools")
    /\ Goes("repository")
    /\ UNCHANGED <<hub, item, said, visits>>

(* Slip: a branch that is there is taken for proof.                          *)
ProbeBranchSuffices ==
    /\ Waits("branch")
    /\ hub.probe # "missing"
    /\ said' = [said EXCEPT !.ready = "yes"]
    /\ Rests
    /\ UNCHANGED <<hub, item, visits>>

(* The branch is made, or is there already.                                  *)
ProbeBranch ==
    /\ Waits("branch")
    /\ hub.probe # "missing" \/ Writable
    /\ hub' = [hub EXCEPT !.probe = IF @ = "missing" THEN "new" ELSE @]
    /\ Goes("reset")
    /\ UNCHANGED <<item, said, visits>>

ProbeReset ==
    /\ Waits("reset")
    /\ Writable
    /\ hub' = [hub EXCEPT !.probe = "new"]
    /\ said' = [said EXCEPT !.ready = "yes"]
    /\ Rests
    /\ UNCHANGED <<item, visits>>

-----------------------------------------------------------------------------
(* A person, on GitHub. *)

PersonActs ==
    /\ visits < MaxVisit /\ visits' = visits + 1
    /\ \/ /\ hub.head # 0
          /\ hub' = [hub EXCEPT !.commits = Append(@, [by |-> "person", version |-> 0]),
                                !.head = Len(hub.commits) + 1]
       \/ \E n \in OpenOnes : hub' = [hub EXCEPT !.prs[n].state = "closed"]
       \/ \E n \in OpenOnes : hub' = [hub EXCEPT !.prs[n] = [state |-> "merged", landed |-> hub.head,
                                                             by |-> "person"],
                                                 !.tip = @ + 1]
       \/ hub' = [hub EXCEPT !.tip = @ + 1]
       \/ hub' = [hub EXCEPT !.default = "trunk"]
       \/ hub' = [hub EXCEPT !.access = IF @ = "read" THEN "write" ELSE "read"]
    /\ UNCHANGED <<item, doing, exec, said>>

WriterNext ==
    \/ ToolRefuses \/ CallFails \/ ToolWorks
    \/ PrepareBase \/ HeadAnswers \/ ArchiveExtracted
    \/ PatchMade \/ PublishWorkItem \/ CommitAnswers \/ IssueAnswers \/ CreateAnswers \/ LabelsAnswer
    \/ ReviewApproves \/ CommentOnWorkItem \/ CommentAnswers
    \/ MergeWorkItem \/ RepositoryAnswers \/ MergeAnswers
    \/ Doctor \/ ToolsAnswer \/ ProbeBranch \/ ProbeReset
    \/ PersonActs

WriterSpec == WriterInit /\ [][WriterNext]_writerVars

-----------------------------------------------------------------------------
(* Properties. *)

(* What the coordinator merges is the patch that was reviewed, whatever was    *)
(* pushed to the branch meanwhile and whichever of its calls went through      *)
(* late (merge_work_item, merge_pull_request).                               *)
MergedIsReviewed ==
    \A n \in 1..Len(hub.prs) : hub.prs[n].by = "coordinator" =>
        /\ hub.commits[hub.prs[n].landed].by = "role"
        /\ hub.commits[hub.prs[n].landed].version = item.reviewed

(* What it reports is so: a pull request in review carries the patch, one it   *)
(* calls merged was merged at the recorded head, a checkout is the tree of its *)
(* commit, and a doctor that passes has written now.    *)
ReportsAreTrue ==
    /\ item.state = "in_review" =>
          /\ item.pr \in 1..Len(hub.prs)
          /\ hub.commits[item.head].by = "role" /\ hub.commits[item.head].version = item.version
    /\ item.state = "merged" => /\ hub.prs[item.pr].state = "merged"
                                /\ hub.prs[item.pr].landed = item.head
    /\ said.tree = said.sha
    /\ said.ready = "yes" => hub.probe = "new"

(* A refresh never replaces a person's commit that was on the branch when it   *)
(* looked (commit_changes: expected_parent).  One pushed after its last look   *)
(* is replaced.                                                              *)
SeenCommitsAreKept ==
    [][\A s \in Slot : /\ Does(s, "commit", "move") /\ hub'.head # hub.head
                       /\ exec[s].expects # 0 /\ exec[s].sees = hub.head
                       => hub.commits[hub.head].by = "role"]_writerVars
=============================================================================
