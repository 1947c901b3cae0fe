----------------------- MODULE RepositoryWriterProofs -----------------------
(***************************************************************************)
(* Theorems of the repository writer: what the coordinator merges, what it   *)
(* reports, and what a refresh of its branch may replace, for any number of  *)
(* patches, attempts and visits of a person.                                 *)
(*                                                                           *)
(* The argument follows the commits.  A commit never leaves the repository    *)
(* and a merged pull request never changes (HubGrows), so what a call was     *)
(* asked to do, a late one too, stays what it was: a call that merges was     *)
(* pinned to the reviewed commit when it was made, and from the approval on   *)
(* nothing changes what was reviewed.                                        *)
(***************************************************************************)
EXTENDS RepositoryWriter, TLAPS

RoleCommit(c) == c \in 1 .. Len(hub.commits) /\ hub.commits[c].by = "role"

(* The recorded head is a commit of the role, and of its latest patch whenever  *)
(* that has been published.                                                    *)
ItemInv ==
    /\ item.head # 0 => /\ RoleCommit(item.head) /\ hub.commits[item.head].version # 0
                        /\ hub.commits[item.head].version <= item.version
                        /\ item.state \in {"unpublished", "in_review", "approved", "merged"} =>
                             hub.commits[item.head].version = item.version
    /\ item.pr # 0 => item.pr \in 1 .. Len(hub.prs)
    /\ item.state \in {"built", "unpublished", "in_review", "approved", "merged"} => item.version # 0
    /\ item.state = "in_review" => item.head # 0 /\ item.pr # 0
    /\ item.state \in {"approved", "merged"} => item.reviewed = item.version
    /\ item.state = "merged" => /\ item.pr # 0 /\ hub.prs[item.pr].state = "merged"
                                /\ hub.prs[item.pr].landed = item.head

(* The review's word is final: no later one replaces it.                       *)
Decided == item.state \in {"approved", "merged", "blocked"}

LandedInv ==
    \A n \in 1 .. Len(hub.prs) : hub.prs[n].by = "coordinator" =>
        /\ RoleCommit(hub.prs[n].landed) /\ hub.commits[hub.prs[n].landed].version = item.reviewed
        /\ Decided

(* What a tool's work on a call, given up or not, was asked and has seen.       *)
RunInv(s) ==
    /\ exec[s].expects # 0 => RoleCommit(exec[s].expects)
    /\ exec[s].tool = "commit" => exec[s].version # 0 /\ exec[s].version <= item.version
    /\ Does(s, "commit", "make") \/ Does(s, "commit", "recheck") \/ Does(s, "commit", "move") =>
         (exec[s].expects # 0 => exec[s].sees = exec[s].expects)
    /\ Does(s, "commit", "recheck") \/ Does(s, "commit", "move") \/ Does(s, "commit", "done") =>
         /\ RoleCommit(exec[s].makes) /\ hub.commits[exec[s].makes].version = exec[s].version
    /\ Does(s, "merge", "go") =>
         /\ exec[s].expects # 0 /\ hub.commits[exec[s].expects].version = item.reviewed
         /\ Decided

(* What the coordinator waits for, and why it asked.                           *)
CallInv ==
    /\ doing.tool \in Writes => exec["call"].tool = doing.tool
    /\ doing.tool \notin Writes => exec["call"].tool = "none"
    /\ doing.kind = "none" <=> doing.tool = "none"
    /\ doing.kind = "prepare" => item.state = "new"
    /\ doing.kind = "publish" => item.state = "built"
    /\ doing.kind = "merge" => item.state = "approved"
    /\ doing.kind = "doctor" => said.ready = ""
    /\ doing.tool = "repository" => doing.kind \in {"prepare", "merge", "doctor"}
    /\ doing.tool = "tools" => doing.kind = "doctor"
    /\ doing.tool = "commit" => doing.kind = "publish" /\ exec["call"].version = item.version
    /\ doing.tool \in {"issue", "create", "labels"} =>
         doing.kind = "publish" /\ item.head # 0 /\ hub.commits[item.head].version = item.version
    /\ doing.tool = "labels" => item.pr # 0
    /\ Did("create") => exec["call"].pr \in 1 .. Len(hub.prs)
    /\ doing.tool = "merge" => /\ doing.kind = "merge" /\ item.head # 0
                               /\ exec["call"].pr = item.pr /\ exec["call"].expects = item.head
    /\ Did("merge") => /\ item.pr # 0 /\ hub.prs[item.pr].state = "merged"
                       /\ hub.prs[item.pr].landed = item.head

SaidInv == said.tree = said.sha /\ (said.ready = "yes" => hub.probe = "new")

WriterInv ==
    WriterTypeOK /\ ItemInv /\ LandedInv /\ (\A s \in Slot : RunInv(s)) /\ CallInv /\ SaidInv

-----------------------------------------------------------------------------
(* What is typed of each record.                                              *)

LEMMA HubFacts ==
    ASSUME WriterTypeOK
    PROVE  /\ hub.commits \in Seq(CommitRecord) /\ Len(hub.commits) \in Nat
           /\ hub.prs \in Seq(PullRequest) /\ Len(hub.prs) \in Nat
           /\ hub.head \in Nat /\ hub.tip \in Nat /\ hub.default \in {"main", "trunk"}
           /\ hub.probe \in {"missing", "old", "new"} /\ hub.access \in {"read", "write"}
           /\ hub = [commits |-> hub.commits, head |-> hub.head, tip |-> hub.tip,
                     default |-> hub.default, prs |-> hub.prs, probe |-> hub.probe,
                     access |-> hub.access]
           /\ \A c \in 1 .. Len(hub.commits) : /\ hub.commits[c].by \in {"role", "person"}
                                               /\ hub.commits[c].version \in 0 .. MaxVersion
           /\ \A n \in 1 .. Len(hub.prs) : /\ hub.prs[n] \in PullRequest
                                           /\ hub.prs[n].state \in {"open", "closed", "merged"}
                                           /\ hub.prs[n].landed \in Nat
<1>1. hub \in [commits : Seq(CommitRecord), head : Nat, tip : Nat, default : {"main", "trunk"},
               prs : Seq(PullRequest), probe : {"missing", "old", "new"},
               access : {"read", "write"}]
    BY DEF WriterTypeOK
<1>2. /\ hub.commits \in Seq(CommitRecord) /\ hub.prs \in Seq(PullRequest)
      /\ hub.head \in Nat /\ hub.tip \in Nat /\ hub.default \in {"main", "trunk"}
      /\ hub.probe \in {"missing", "old", "new"} /\ hub.access \in {"read", "write"}
      /\ hub = [commits |-> hub.commits, head |-> hub.head, tip |-> hub.tip,
                default |-> hub.default, prs |-> hub.prs, probe |-> hub.probe,
                access |-> hub.access]
    BY <1>1
<1>3. Len(hub.commits) \in Nat /\ Len(hub.prs) \in Nat
    BY <1>2
<1>4. \A c \in 1 .. Len(hub.commits) : hub.commits[c] \in CommitRecord
    BY <1>2
<1>5. \A n \in 1 .. Len(hub.prs) : hub.prs[n] \in PullRequest
    BY <1>2
<1>6. \A c \in 1 .. Len(hub.commits) : /\ hub.commits[c].by \in {"role", "person"}
                                       /\ hub.commits[c].version \in 0 .. MaxVersion
    BY <1>4 DEF CommitRecord
<1>7. \A n \in 1 .. Len(hub.prs) : /\ hub.prs[n].state \in {"open", "closed", "merged"}
                                   /\ hub.prs[n].landed \in Nat
    BY <1>5 DEF PullRequest
<1> QED BY <1>2, <1>3, <1>5, <1>6, <1>7

LEMMA ItemFacts ==
    ASSUME WriterTypeOK
    PROVE  /\ item.version \in 0 .. MaxVersion /\ item.version \in Nat /\ item.head \in Nat
           /\ item.pr \in Nat /\ item.reviewed \in 0 .. MaxVersion
           /\ item.state \in {"new", "based", "built", "unpublished", "in_review", "approved",
                              "merged", "blocked"}
           /\ item = [version |-> item.version, head |-> item.head, pr |-> item.pr,
                      reviewed |-> item.reviewed, state |-> item.state]
<1>1. item \in [version : 0..MaxVersion, head : Nat, pr : Nat, reviewed : 0..MaxVersion,
                state : {"new", "based", "built", "unpublished", "in_review", "approved",
                         "merged", "blocked"}]
    BY DEF WriterTypeOK
<1>2. item.version \in 0 .. MaxVersion
    BY <1>1
<1>3. item.version \in Nat
    BY <1>2, WriterAssumption
<1> QED BY <1>1, <1>2, <1>3

LEMMA DoingFacts ==
    ASSUME WriterTypeOK
    PROVE  /\ doing.kind \in {"none", "prepare", "publish", "merge", "snapshot", "comment", "doctor"}
           /\ doing.tool \in Tool /\ doing.try \in 0 .. Attempts /\ doing.sha \in Nat
           /\ said.sha \in Nat /\ said.tree \in Nat /\ said.ready \in {"", "yes", "no"}
           /\ said = [sha |-> said.sha, tree |-> said.tree, ready |-> said.ready]
           /\ doing = [kind |-> doing.kind, tool |-> doing.tool, try |-> doing.try,
                       sha |-> doing.sha]
           /\ visits \in 0 .. MaxVisit
BY DEF WriterTypeOK

LEMMA RunFacts ==
    ASSUME WriterTypeOK, NEW s \in Slot
    PROVE  /\ exec \in [Slot -> ToolRun] /\ exec[s] \in ToolRun
           /\ exec[s].tool \in Tool /\ exec[s].expects \in Nat /\ exec[s].sees \in Nat
           /\ exec[s].makes \in Nat /\ exec[s].version \in 0 .. MaxVersion /\ exec[s].pr \in Nat
           /\ exec[s].version \in Nat
           /\ exec[s].step \in {"look", "make", "recheck", "move", "go", "done", "failed", "over"}
<1>1. exec \in [Slot -> ToolRun] /\ exec[s] \in ToolRun
    BY DEF WriterTypeOK
<1>2. exec[s].version \in 0 .. MaxVersion
    BY <1>1 DEF ToolRun
<1>3. exec[s].version \in Nat
    BY <1>2, WriterAssumption
<1> QED BY <1>1, <1>2, <1>3 DEF ToolRun

LEMMA NoRun ==
    /\ NoToolRun \in ToolRun /\ NoToolRun.tool = "none" /\ NoToolRun.step = "over"
    /\ NoToolRun.expects = 0 /\ NoToolRun.version = 0
BY WriterAssumption DEF NoToolRun, ToolRun, Tool

-----------------------------------------------------------------------------
(* What no step takes back.                                                   *)

(* The repository gains commits and pull requests; one that is merged stays as  *)
(* it is, and one the coordinator merges holds what was reviewed.              *)
HubGrows ==
    /\ Len(hub.commits) <= Len(hub'.commits) /\ Len(hub'.commits) \in Nat
    /\ \A c \in 1 .. Len(hub.commits) : hub'.commits[c] = hub.commits[c]
    /\ Len(hub.prs) <= Len(hub'.prs) /\ Len(hub'.prs) \in Nat
    /\ \A n \in 1 .. Len(hub.prs) : hub.prs[n].state = "merged" =>
         hub'.prs[n].state = "merged" /\ hub'.prs[n].landed = hub.prs[n].landed
    /\ \A n \in 1 .. Len(hub'.prs) : hub'.prs[n].by = "coordinator" =>
         \/ /\ n \in 1 .. Len(hub.prs) /\ hub.prs[n].by = "coordinator"
            /\ hub'.prs[n].landed = hub.prs[n].landed
         \/ /\ RoleCommit(hub'.prs[n].landed)
            /\ hub.commits[hub'.prs[n].landed].version = item.reviewed
            /\ Decided

(* The item's patches only go forward, and what was reviewed stays once the      *)
(* review has decided.                                                         *)
ItemGoes ==
    /\ item.version <= item'.version
    /\ Decided => Decided' /\ item'.reviewed = item.reviewed

LEMMA HubRests ==
    ASSUME WriterTypeOK, UNCHANGED <<hub.commits, hub.prs>>
    PROVE  HubGrows
<1>1. Len(hub.commits) \in Nat /\ Len(hub.prs) \in Nat
    BY HubFacts
<1> QED BY <1>1 DEF HubGrows

LEMMA ItemRests ==
    ASSUME WriterTypeOK, item' = item
    PROVE  ItemGoes
BY ItemFacts DEF ItemGoes, Decided

LEMMA CommitStays ==
    ASSUME WriterTypeOK, HubGrows, NEW c, RoleCommit(c)
    PROVE  /\ c \in 1 .. Len(hub'.commits) /\ hub'.commits[c] = hub.commits[c]
           /\ hub'.commits[c].by = "role"
BY HubFacts DEF HubGrows, RoleCommit

LEMMA ItemStays ==
    ASSUME WriterTypeOK, ItemInv, HubGrows, item' = item
    PROVE  ItemInv'
<1>1. ASSUME item.head # 0
      PROVE  /\ item.head \in 1 .. Len(hub'.commits)
             /\ hub'.commits[item.head] = hub.commits[item.head]
             /\ hub'.commits[item.head].by = "role"
  <2>1. RoleCommit(item.head)
      BY <1>1 DEF ItemInv
  <2> QED BY <2>1, CommitStays
<1>2. ASSUME item.pr # 0
      PROVE  item.pr \in 1 .. Len(hub.prs) /\ item.pr \in 1 .. Len(hub'.prs)
  <2>1. item.pr \in 1 .. Len(hub.prs)
      BY <1>2 DEF ItemInv
  <2> QED BY <2>1, HubFacts DEF HubGrows
<1>3. item.head # 0 => /\ item.head \in 1 .. Len(hub'.commits)
                       /\ hub'.commits[item.head].by = "role"
                       /\ hub'.commits[item.head].version # 0
                       /\ hub'.commits[item.head].version <= item.version
                       /\ item.state \in {"unpublished", "in_review", "approved", "merged"} =>
                            hub'.commits[item.head].version = item.version
    BY <1>1 DEF ItemInv
<1>4. item.state = "merged" => /\ item.pr # 0 /\ hub'.prs[item.pr].state = "merged"
                               /\ hub'.prs[item.pr].landed = item.head
    BY <1>2 DEF ItemInv, HubGrows
<1> QED BY <1>2, <1>3, <1>4 DEF ItemInv, RoleCommit

LEMMA LandedStays ==
    ASSUME WriterTypeOK, LandedInv, HubGrows, ItemGoes
    PROVE  LandedInv'
<1> SUFFICES ASSUME NEW n \in 1 .. Len(hub'.prs), hub'.prs[n].by = "coordinator"
             PROVE  /\ hub'.prs[n].landed \in 1 .. Len(hub'.commits)
                    /\ hub'.commits[hub'.prs[n].landed].by = "role"
                    /\ hub'.commits[hub'.prs[n].landed].version = item'.reviewed
                    /\ Decided'
    BY DEF LandedInv, RoleCommit
<1>1. PICK c : c = hub'.prs[n].landed
    OBVIOUS
<1>2. RoleCommit(c) /\ hub.commits[c].version = item.reviewed /\ Decided
    BY <1>1 DEF HubGrows, LandedInv
<1>3. /\ c \in 1 .. Len(hub'.commits) /\ hub'.commits[c] = hub.commits[c]
      /\ hub'.commits[c].by = "role"
    BY <1>2, CommitStays
<1> QED BY <1>1, <1>2, <1>3 DEF ItemGoes

(* A tool's work is what it was, in the slot of the call or given up.           *)
LEMMA RunGoesOn ==
    ASSUME WriterTypeOK, NEW s \in Slot, NEW u \in Slot, RunInv(u), HubGrows, ItemGoes,
           WriterTypeOK', exec'[s] = exec[u]
    PROVE  RunInv(s)'
<1>1. /\ exec[u].version \in Nat /\ item.version \in Nat /\ item'.version \in Nat
      /\ item.version <= item'.version
  <2>1. item'.version \in 0 .. MaxVersion
      BY DEF WriterTypeOK
  <2> QED BY <2>1, RunFacts, ItemFacts, WriterAssumption DEF ItemGoes
<1>2. ASSUME exec[u].expects # 0
      PROVE  /\ RoleCommit(exec[u].expects)
             /\ hub'.commits[exec[u].expects] = hub.commits[exec[u].expects]
             /\ exec[u].expects \in 1 .. Len(hub'.commits)
             /\ hub'.commits[exec[u].expects].by = "role"
  <2>1. RoleCommit(exec[u].expects)
      BY <1>2 DEF RunInv
  <2> QED BY <2>1, CommitStays DEF RoleCommit
<1>3. ASSUME Does(u, "commit", "recheck") \/ Does(u, "commit", "move") \/ Does(u, "commit", "done")
      PROVE  /\ RoleCommit(exec[u].makes) /\ hub'.commits[exec[u].makes] = hub.commits[exec[u].makes]
             /\ exec[u].makes \in 1 .. Len(hub'.commits)
             /\ hub'.commits[exec[u].makes].by = "role"
             /\ hub.commits[exec[u].makes].version = exec[u].version
  <2>1. RoleCommit(exec[u].makes) /\ hub.commits[exec[u].makes].version = exec[u].version
      BY <1>3 DEF RunInv
  <2> QED BY <2>1, CommitStays DEF RoleCommit
<1>4. exec[u].tool = "commit" => exec[u].version # 0 /\ exec[u].version <= item'.version
    BY <1>1 DEF RunInv
<1>5. Does(u, "merge", "go") =>
        /\ exec[u].expects # 0 /\ hub'.commits[exec[u].expects].version = item'.reviewed
        /\ Decided'
    BY <1>2 DEF RunInv, ItemGoes
<1>6. Does(u, "commit", "make") \/ Does(u, "commit", "recheck") \/ Does(u, "commit", "move") =>
        (exec[u].expects # 0 => exec[u].sees = exec[u].expects)
    BY DEF RunInv
<1> QED BY <1>2, <1>3, <1>4, <1>5, <1>6 DEF RunInv, Does, RoleCommit

LEMMA RunStays ==
    ASSUME WriterTypeOK, NEW s \in Slot, RunInv(s), HubGrows, ItemGoes,
           WriterTypeOK', exec'[s] = exec[s]
    PROVE  RunInv(s)'
BY RunGoesOn

LEMMA CallStays ==
    ASSUME WriterTypeOK, ItemInv, CallInv, HubGrows, item' = item, doing' = doing,
           said'.ready = said.ready, exec'["call"] = exec["call"]
    PROVE  CallInv'
<1>1. ASSUME item.head # 0
      PROVE  hub'.commits[item.head] = hub.commits[item.head]
  <2>1. RoleCommit(item.head)
      BY <1>1 DEF ItemInv
  <2> QED BY <2>1, CommitStays
<1>2. ASSUME item.pr # 0, hub.prs[item.pr].state = "merged"
      PROVE  /\ hub'.prs[item.pr].state = "merged"
             /\ hub'.prs[item.pr].landed = hub.prs[item.pr].landed
    BY <1>2 DEF ItemInv, HubGrows
<1>3. exec["call"].pr \in 1 .. Len(hub.prs) => exec["call"].pr \in 1 .. Len(hub'.prs)
    BY HubFacts DEF HubGrows
<1> QED BY <1>1, <1>2, <1>3 DEF CallInv, Did, Waits

-----------------------------------------------------------------------------
(* A tool's work on a call.                                                   *)

HubType == [commits : Seq(CommitRecord), head : Nat, tip : Nat, default : {"main", "trunk"},
            prs : Seq(PullRequest), probe : {"missing", "old", "new"}, access : {"read", "write"}]

LEMMA RunIsTyped ==
    ASSUME WriterTypeOK, NEW s \in Slot, NEW r \in ToolRun, exec' = [exec EXCEPT ![s] = r],
           hub' \in HubType, UNCHANGED <<item, doing, said>>, visits' \in 0 .. MaxVisit
    PROVE  WriterTypeOK' /\ exec'[s] = r /\ \A t \in Slot : t # s => exec'[t] = exec[t]
<1>1. exec \in [Slot -> ToolRun]
    BY RunFacts
<1>2. exec' \in [Slot -> ToolRun] /\ exec'[s] = r /\ \A t \in Slot : t # s => exec'[t] = exec[t]
    BY <1>1
<1> QED BY <1>2 DEF WriterTypeOK, HubType

(* A step of a tool keeps the invariant when what it has now done is so.        *)
LEMMA ToolRunKeeps ==
    ASSUME WriterInv, NEW s \in Slot, NEW r \in ToolRun, exec' = [exec EXCEPT ![s] = r],
           HubGrows, hub' \in HubType, hub'.probe = hub.probe,
           UNCHANGED <<item, doing, said, visits>>,
           r.tool = exec[s].tool, r.expects = exec[s].expects, r.version = exec[s].version,
           r.tool # "create" => r.pr = exec[s].pr,
           r.tool = "commit" /\ r.step \in {"make", "recheck", "move"} =>
             (r.expects # 0 => r.sees = r.expects),
           r.tool = "commit" /\ r.step \in {"recheck", "move", "done"} =>
             /\ r.makes \in 1 .. Len(hub'.commits) /\ hub'.commits[r.makes].by = "role"
             /\ hub'.commits[r.makes].version = r.version,
           r.tool = "create" /\ r.step = "done" => r.pr \in 1 .. Len(hub'.prs),
           r.tool = "merge" => r.step # "go",
           r.tool = "merge" /\ r.step = "done" =>
             /\ r.pr # 0 /\ hub'.prs[r.pr].state = "merged"
             /\ hub'.prs[r.pr].landed = r.expects
    PROVE  WriterInv'
<1>1. /\ WriterTypeOK /\ ItemInv /\ LandedInv /\ RunInv(s) /\ CallInv /\ SaidInv
      /\ \A t \in Slot : RunInv(t)
    BY DEF WriterInv
<1>2. visits' \in 0 .. MaxVisit
    BY <1>1, DoingFacts
<1>3. WriterTypeOK' /\ exec'[s] = r /\ \A t \in Slot : t # s => exec'[t] = exec[t]
    BY <1>1, <1>2, RunIsTyped
<1>4. ItemGoes
    BY <1>1, ItemRests
<1>5. ItemInv' /\ LandedInv'
    BY <1>1, <1>4, ItemStays, LandedStays
<1>6. \A t \in Slot : t # s => RunInv(t)'
    BY <1>1, <1>3, <1>4, RunStays
<1>7. RunInv(s)'
  <2>1. ASSUME r.expects # 0
        PROVE  r.expects \in 1 .. Len(hub'.commits) /\ hub'.commits[r.expects].by = "role"
    <3>1. RoleCommit(r.expects)
        BY <1>1, <2>1 DEF RunInv
    <3> QED BY <1>1, <3>1, CommitStays
  <2>2. r.tool = "commit" => r.version # 0 /\ r.version <= item.version
      BY <1>1 DEF RunInv
  <2> QED BY <1>3, <2>1, <2>2 DEF RunInv, RoleCommit, Does
<1>8. CallInv'
  <2>1. CASE s = "late"
    <3>1. exec'["call"] = exec["call"]
        BY <1>3, <2>1 DEF Slot
    <3> QED BY <1>1, <3>1, CallStays
  <2>2. CASE s = "call"
    <3>1. exec'["call"] = r
        BY <1>3, <2>2
    <3>2. ASSUME item.head # 0
          PROVE  hub'.commits[item.head] = hub.commits[item.head]
      <4>1. RoleCommit(item.head)
          BY <1>1, <3>2 DEF ItemInv
      <4> QED BY <1>1, <4>1, CommitStays
    <3>3. /\ doing.tool \in Writes => r.tool = doing.tool
          /\ doing.tool \notin Writes => r.tool = "none"
          /\ doing.kind = "none" <=> doing.tool = "none"
          /\ doing.kind = "prepare" => item.state = "new"
          /\ doing.kind = "publish" => item.state = "built"
          /\ doing.kind = "merge" => item.state = "approved"
          /\ doing.kind = "doctor" => said.ready = ""
          /\ doing.tool = "repository" => doing.kind \in {"prepare", "merge", "doctor"}
          /\ doing.tool = "tools" => doing.kind = "doctor"
          /\ doing.tool = "commit" => doing.kind = "publish" /\ r.version = item.version
          /\ doing.tool = "labels" => item.pr # 0
      <4>1. r.tool = exec["call"].tool /\ r.version = exec["call"].version
          BY <2>2
      <4>2. CallInv
          BY <1>1
      <4> QED BY <4>1, <4>2 DEF CallInv
    <3>4. doing.tool \in {"issue", "create", "labels"} =>
             doing.kind = "publish" /\ item.head # 0 /\ hub'.commits[item.head].version = item.version
      <4>1. doing.tool \in {"issue", "create", "labels"} =>
               doing.kind = "publish" /\ item.head # 0 /\ hub.commits[item.head].version = item.version
          BY <1>1 DEF CallInv
      <4>2. item.head # 0 => hub'.commits[item.head] = hub.commits[item.head]
          BY <3>2
      <4> QED BY <4>1, <4>2
    <3>5. doing.tool = "create" /\ r.step = "done" => r.pr \in 1 .. Len(hub'.prs)
        BY <3>3 DEF Writes
    <3>6. doing.tool = "merge" => /\ doing.kind = "merge" /\ item.head # 0
                                  /\ r.pr = item.pr /\ r.expects = item.head
        BY <1>1, <2>2, <3>3 DEF CallInv, Writes
    <3>7. doing.tool = "merge" /\ r.step = "done" =>
             /\ item.pr # 0 /\ hub'.prs[item.pr].state = "merged"
             /\ hub'.prs[item.pr].landed = item.head
        BY <3>3, <3>6 DEF Writes
    <3> QED BY <3>1, <3>3, <3>4, <3>5, <3>6, <3>7 DEF CallInv, Did, Waits
  <2> QED BY <2>1, <2>2 DEF Slot
<1>9. SaidInv'
    BY <1>1 DEF SaidInv
<1> QED BY <1>3, <1>5, <1>6, <1>7, <1>8, <1>9 DEF WriterInv

(* A call that was given up leaves nothing when it ends.                        *)
LEMMA LateRunEnds ==
    ASSUME WriterInv, exec' = [exec EXCEPT !["late"] = NoToolRun],
           HubGrows, hub' \in HubType, hub'.probe = hub.probe,
           UNCHANGED <<item, doing, said, visits>>
    PROVE  WriterInv'
<1>1. /\ WriterTypeOK /\ ItemInv /\ LandedInv /\ CallInv /\ SaidInv
      /\ RunInv("call") /\ "call" \in Slot /\ "late" \in Slot
    BY DEF WriterInv, Slot
<1>2. visits' \in 0 .. MaxVisit
    BY <1>1, DoingFacts
<1>3. WriterTypeOK' /\ exec'["late"] = NoToolRun /\ exec'["call"] = exec["call"]
    BY <1>1, <1>2, NoRun, RunIsTyped
<1>4. ItemGoes
    BY <1>1, ItemRests
<1>5. ItemInv' /\ LandedInv' /\ RunInv("call")' /\ CallInv'
    BY <1>1, <1>3, <1>4, ItemStays, LandedStays, RunStays, CallStays
<1>6. RunInv("late")'
    BY <1>3, NoRun DEF RunInv, Does
<1>7. SaidInv'
    BY <1>1 DEF SaidInv
<1> QED BY <1>3, <1>5, <1>6, <1>7 DEF WriterInv, Slot

(* A tool's work that only comes one step further, or ends.                    *)
LEMMA BecomesKeeps ==
    ASSUME WriterInv, NEW s \in Slot, NEW step \in {"move", "done", "failed"}, Becomes(s, step),
           HubGrows, hub' \in HubType, hub'.probe = hub.probe,
           UNCHANGED <<item, doing, said, visits>>,
           step = "move" => Does(s, "commit", "recheck"),
           step = "done" => \/ Does(s, "commit", "move")
                            \/ /\ exec[s].tool = "merge" /\ exec[s].pr # 0
                               /\ hub'.prs[exec[s].pr].state = "merged"
                               /\ hub'.prs[exec[s].pr].landed = exec[s].expects
    PROVE  WriterInv'
<1>1. /\ WriterTypeOK /\ RunInv(s)
    BY DEF WriterInv
<1>2. CASE s = "late" /\ step \in {"done", "failed"}
  <2>1. exec' = [exec EXCEPT !["late"] = NoToolRun]
      BY <1>2 DEF Becomes
  <2> QED BY <2>1, LateRunEnds
<1>3. CASE ~(s = "late" /\ step \in {"done", "failed"})
  <2> DEFINE r == [exec[s] EXCEPT !.step = step]
  <2>1. exec[s] \in ToolRun
      BY <1>1, RunFacts
  <2>2. /\ r \in ToolRun /\ r.tool = exec[s].tool /\ r.expects = exec[s].expects
        /\ r.version = exec[s].version /\ r.pr = exec[s].pr /\ r.sees = exec[s].sees
        /\ r.makes = exec[s].makes /\ r.step = step
      BY <2>1 DEF ToolRun
  <2>3. exec' = [exec EXCEPT ![s] = r]
      BY <1>3 DEF Becomes
  <2> HIDE DEF r
  <2>4. r.tool = "commit" /\ r.step \in {"make", "recheck", "move"} =>
          (r.expects # 0 => r.sees = r.expects)
      BY <1>1, <2>2 DEF RunInv, Does
  <2>5. ASSUME r.tool = "commit", r.step \in {"recheck", "move", "done"}
        PROVE  /\ r.makes \in 1 .. Len(hub'.commits) /\ hub'.commits[r.makes].by = "role"
               /\ hub'.commits[r.makes].version = r.version
    <3>1. Does(s, "commit", "recheck") \/ Does(s, "commit", "move")
        BY <2>2, <2>5 DEF Does
    <3>2. RoleCommit(r.makes) /\ hub.commits[r.makes].version = r.version
        BY <1>1, <2>2, <3>1 DEF RunInv
    <3> QED BY <1>1, <3>2, CommitStays
  <2>6. ~(r.tool = "create" /\ r.step = "done") /\ r.step # "go"
      BY <2>2 DEF Does
  <2>7. r.tool = "merge" /\ r.step = "done" =>
          /\ r.pr # 0 /\ hub'.prs[r.pr].state = "merged"
          /\ hub'.prs[r.pr].landed = r.expects
      BY <2>2 DEF Does
  <2> QED BY <2>2, <2>3, <2>4, <2>5, <2>6, <2>7, ToolRunKeeps
<1> QED BY <1>2, <1>3

LEMMA CommitSteps ==
    ASSUME WriterInv, NEW s \in Slot, UNCHANGED <<item, doing, said, visits>>,
           CommitLooks(s) \/ CommitIsMade(s) \/ CommitLooksAgain(s) \/ BranchMoves(s)
    PROVE  WriterInv'
<1>1. WriterTypeOK /\ RunInv(s) /\ exec[s] \in ToolRun /\ hub \in HubType
    BY RunFacts DEF WriterInv, WriterTypeOK, HubType
<1>2. /\ exec[s].tool = "commit" /\ exec[s].version \in 0 .. MaxVersion
      /\ exec[s].expects \in Nat /\ hub.head \in Nat /\ exec[s].makes \in Nat
      /\ hub.commits \in Seq(CommitRecord) /\ Len(hub.commits) \in Nat
    BY <1>1, RunFacts, HubFacts DEF CommitLooks, CommitIsMade, CommitLooksAgain, BranchMoves, Does
<1>3. ASSUME UNCHANGED hub
      PROVE  HubGrows /\ hub' \in HubType /\ hub'.probe = hub.probe
    BY <1>1, <1>3, HubRests
<1>4. CASE CommitLooks(s)
  <2>1. UNCHANGED hub /\ exec[s].step = "look"
      BY <1>4 DEF CommitLooks, Does
  <2>2. CASE exec[s].expects \notin {0, hub.head} \/ ~Writable
    <3>1. Becomes(s, "failed")
        BY <1>4, <2>2 DEF CommitLooks
    <3> QED BY <1>3, <2>1, <3>1, BecomesKeeps
  <2>3. CASE ~(exec[s].expects \notin {0, hub.head} \/ ~Writable)
    <3> DEFINE r == [exec[s] EXCEPT !.step = "make", !.sees = hub.head]
    <3>1. exec' = [exec EXCEPT ![s] = r]
      <4>1. exec' = [exec EXCEPT ![s].step = "make", ![s].sees = hub.head]
          BY <1>4, <2>3 DEF CommitLooks
      <4>2. exec \in [Slot -> ToolRun]
          BY <1>1, RunFacts
      <4> QED BY <4>1, <4>2
    <3>2. /\ r \in ToolRun /\ r.tool = "commit" /\ r.step = "make" /\ r.sees = hub.head
          /\ r.expects = exec[s].expects /\ r.version = exec[s].version /\ r.pr = exec[s].pr
        BY <1>1, <1>2 DEF ToolRun
    <3>3. r.expects # 0 => r.sees = r.expects
        BY <2>3, <3>2
    <3> HIDE DEF r
    <3> QED BY <1>2, <1>3, <2>1, <3>1, <3>2, <3>3, ToolRunKeeps
  <2> QED BY <2>2, <2>3
<1>5. CASE CommitIsMade(s)
  <2> DEFINE n == Len(hub.commits) + 1
             c == [by |-> "role", version |-> exec[s].version]
             step == IF exec[s].sees = 0 THEN "move" ELSE "recheck"
             r == [exec[s] EXCEPT !.step = step, !.makes = n]
  <2>1. /\ hub' = [hub EXCEPT !.commits = Append(hub.commits, c)] /\ exec[s].step = "make"
        /\ exec' = [exec EXCEPT ![s].step = step, ![s].makes = n]
      BY <1>5 DEF CommitIsMade, Does
  <2>2. c \in CommitRecord
      BY <1>2 DEF CommitRecord
  <2>3. /\ Append(hub.commits, c) \in Seq(CommitRecord) /\ Len(Append(hub.commits, c)) = n
        /\ Append(hub.commits, c)[n] = c
        /\ \A i \in 1 .. Len(hub.commits) : Append(hub.commits, c)[i] = hub.commits[i]
      BY <1>2, <2>2
  <2>4. /\ hub' \in HubType /\ hub'.probe = hub.probe /\ hub'.prs = hub.prs
        /\ hub'.commits = Append(hub.commits, c)
      BY <1>1, <2>1, <2>3 DEF HubType
  <2>5. n \in Nat /\ n \in 1 .. n /\ Len(hub.commits) <= n
      BY <1>2
  <2>6. /\ r \in ToolRun /\ r.tool = "commit" /\ r.step = step /\ r.sees = exec[s].sees
        /\ r.expects = exec[s].expects /\ r.version = exec[s].version /\ r.pr = exec[s].pr
        /\ r.makes = n
      BY <1>1, <1>2, <2>5 DEF ToolRun
  <2>7. exec' = [exec EXCEPT ![s] = r]
    <3>1. exec \in [Slot -> ToolRun]
        BY <1>1, RunFacts
    <3> QED BY <2>1, <3>1
  <2>8. step \in {"move", "recheck"}
      OBVIOUS
  <2>9. c.by = "role" /\ c.version = exec[s].version
      OBVIOUS
  <2> HIDE DEF r, step, c, n
  <2>10. HubGrows
    <3>1. Len(hub.prs) \in Nat
        BY <1>1, HubFacts
    <3> QED BY <2>3, <2>4, <2>5, <3>1 DEF HubGrows
  <2>11. r.expects # 0 => r.sees = r.expects
      BY <1>1, <1>2, <2>1, <2>6 DEF RunInv, Does
  <2>12. /\ r.makes \in 1 .. Len(hub'.commits) /\ hub'.commits[r.makes].by = "role"
         /\ hub'.commits[r.makes].version = r.version
      BY <2>3, <2>4, <2>5, <2>6, <2>9
  <2>13. r.tool # "create" /\ r.tool # "merge" /\ r.tool = exec[s].tool
      BY <1>2, <2>6
  <2> QED BY <2>4, <2>6, <2>7, <2>10, <2>11, <2>12, <2>13, ToolRunKeeps
<1>6. CASE CommitLooksAgain(s)
  <2>1. UNCHANGED hub /\ Does(s, "commit", "recheck")
      BY <1>6 DEF CommitLooksAgain
  <2>2. PICK step \in {"move", "failed"} : Becomes(s, step)
      BY <1>6 DEF CommitLooksAgain
  <2> QED BY <1>3, <2>1, <2>2, BecomesKeeps
<1>7. CASE BranchMoves(s)
  <2>1. Does(s, "commit", "move")
      BY <1>7 DEF BranchMoves
  <2>2. CASE Writable /\ (exec[s].sees = 0 => hub.head = 0)
    <3>1. hub' = [hub EXCEPT !.head = exec[s].makes] /\ Becomes(s, "done")
        BY <1>7, <2>2 DEF BranchMoves
    <3>2. /\ hub' \in HubType /\ hub'.probe = hub.probe
          /\ hub'.commits = hub.commits /\ hub'.prs = hub.prs
        BY <1>1, <1>2, <3>1 DEF HubType
    <3>3. HubGrows
        BY <1>1, <3>2, HubRests
    <3> QED BY <2>1, <3>1, <3>2, <3>3, BecomesKeeps
  <2>3. CASE ~(Writable /\ (exec[s].sees = 0 => hub.head = 0))
    <3>1. UNCHANGED hub /\ Becomes(s, "failed")
        BY <1>7, <2>3 DEF BranchMoves
    <3> QED BY <1>3, <3>1, BecomesKeeps
  <2> QED BY <2>2, <2>3
<1> QED BY <1>4, <1>5, <1>6, <1>7

LEMMA PullRequestSteps ==
    ASSUME WriterInv, NEW s \in Slot, UNCHANGED <<item, doing, said, visits>>,
           PullRequestOpens(s) \/ PullRequestMerges(s)
    PROVE  WriterInv'
<1>1. WriterTypeOK /\ RunInv(s) /\ exec[s] \in ToolRun /\ hub \in HubType
    BY RunFacts DEF WriterInv, WriterTypeOK, HubType
<1>2. /\ exec \in [Slot -> ToolRun] /\ exec[s].pr \in Nat /\ hub.head \in Nat /\ hub.tip \in Nat
      /\ hub.prs \in Seq(PullRequest) /\ Len(hub.prs) \in Nat /\ Len(hub.commits) \in Nat
    BY <1>1, RunFacts, HubFacts
<1>3. ASSUME UNCHANGED hub
      PROVE  HubGrows /\ hub' \in HubType /\ hub'.probe = hub.probe
    BY <1>1, <1>3, HubRests
<1>4. CASE PullRequestOpens(s)
  <2>1. exec[s].tool = "create"
      BY <1>4 DEF PullRequestOpens, Does
  <2>2. CASE Writable /\ hub.head # 0 /\ OpenOnes = {}
    <3> DEFINE n == Len(hub.prs) + 1
               q == [state |-> "open", landed |-> 0, by |-> ""]
               r == [exec[s] EXCEPT !.step = "done", !.pr = n]
    <3>1. /\ hub' = [hub EXCEPT !.prs = Append(hub.prs, q)]
          /\ exec' = IF s = "late" THEN [exec EXCEPT ![s] = NoToolRun]
                     ELSE [exec EXCEPT ![s].step = "done", ![s].pr = n]
        BY <1>4, <2>2 DEF PullRequestOpens
    <3>2. q \in PullRequest /\ q.by # "coordinator"
        BY DEF PullRequest
    <3>3. /\ Append(hub.prs, q) \in Seq(PullRequest) /\ Len(Append(hub.prs, q)) = n
          /\ Append(hub.prs, q)[n] = q
          /\ \A i \in 1 .. Len(hub.prs) : Append(hub.prs, q)[i] = hub.prs[i]
      <4> HIDE DEF q
      <4> QED BY <1>2, <3>2
    <3>4. /\ hub' \in HubType /\ hub'.probe = hub.probe /\ hub'.commits = hub.commits
          /\ hub'.prs = Append(hub.prs, q)
        BY <1>1, <3>1, <3>3 DEF HubType
    <3>5. n \in Nat /\ n \in 1 .. n /\ Len(hub.prs) <= n
          /\ \A i \in 1 .. n : i \in 1 .. Len(hub.prs) \/ i = n
        BY <1>2
    <3>6. /\ r \in ToolRun /\ r.tool = "create" /\ r.step = "done" /\ r.pr = n
          /\ r.expects = exec[s].expects /\ r.version = exec[s].version
        BY <1>1, <2>1, <3>5 DEF ToolRun
    <3>7. s # "late" => exec' = [exec EXCEPT ![s] = r]
        BY <1>2, <3>1
    <3>8. s = "late" => exec' = [exec EXCEPT !["late"] = NoToolRun]
        BY <3>1
    <3> HIDE DEF r, q, n
    <3>9. HubGrows
        BY <1>2, <3>2, <3>3, <3>4, <3>5 DEF HubGrows
    <3>10. CASE s = "late"
        BY <3>4, <3>8, <3>9, <3>10, LateRunEnds
    <3>11. CASE s # "late"
      <4>1. r.pr \in 1 .. Len(hub'.prs)
          BY <3>3, <3>4, <3>5, <3>6
      <4>2. r.tool # "commit" /\ r.tool # "merge" /\ r.tool = exec[s].tool
          BY <2>1, <3>6
      <4> QED BY <3>4, <3>6, <3>7, <3>9, <3>11, <4>1, <4>2, ToolRunKeeps
    <3> QED BY <3>10, <3>11
  <2>3. CASE ~(Writable /\ hub.head # 0 /\ OpenOnes = {})
    <3>1. UNCHANGED hub /\ Becomes(s, "failed")
        BY <1>4, <2>3 DEF PullRequestOpens
    <3> QED BY <1>3, <3>1, BecomesKeeps
  <2> QED BY <2>2, <2>3
<1>5. CASE PullRequestMerges(s)
  <2>1. exec[s].tool = "merge" /\ Does(s, "merge", "go")
      BY <1>5 DEF PullRequestMerges, Does
  <2>2. CASE Writable /\ exec[s].pr \in OpenOnes /\ hub.head = exec[s].expects
    <3> DEFINE p == exec[s].pr
               q == [state |-> "merged", landed |-> hub.head, by |-> "coordinator"]
               prs == [hub.prs EXCEPT ![p] = q]
    <3>1. /\ hub' = [hub EXCEPT !.prs = prs, !.tip = hub.tip + 1]
          /\ Becomes(s, "done")
      <4>1. /\ hub' = [hub EXCEPT !.prs[exec[s].pr] = [state |-> "merged", landed |-> hub.head,
                                                       by |-> "coordinator"],
                                  !.tip = @ + 1]
            /\ Becomes(s, "done")
          BY <1>5, <2>2 DEF PullRequestMerges
      <4> QED BY <1>1, <4>1 DEF HubType
    <3>2. q \in PullRequest /\ q.state = "merged" /\ q.landed = hub.head
        BY <1>2 DEF PullRequest
    <3>3. p \in 1 .. Len(hub.prs) /\ hub.prs[p].state = "open" /\ p # 0
        BY <1>2, <2>2 DEF OpenOnes
    <3>4. /\ prs \in Seq(PullRequest) /\ Len(prs) = Len(hub.prs) /\ prs[p] = q
          /\ \A i \in 1 .. Len(hub.prs) : i # p => prs[i] = hub.prs[i]
        BY <1>2, <3>2, <3>3
    <3>5. hub.tip + 1 \in Nat
        BY <1>2
    <3> HIDE DEF q, prs
    <3>6. /\ hub' \in HubType /\ hub'.probe = hub.probe /\ hub'.commits = hub.commits
          /\ hub'.prs = prs
        BY <1>1, <3>1, <3>4, <3>5 DEF HubType
    <3>7. /\ RoleCommit(hub.head) /\ hub.commits[hub.head].version = item.reviewed /\ Decided
        BY <1>1, <2>1, <2>2 DEF RunInv
    <3>8. HubGrows
      <4>1. /\ RoleCommit(q.landed) /\ hub.commits[q.landed].version = item.reviewed
            /\ hub'.prs[p] = q
          BY <3>2, <3>4, <3>6, <3>7
      <4>2. \A i \in 1 .. Len(hub.prs) : i # p => hub'.prs[i] = hub.prs[i]
          BY <3>4, <3>6
      <4>3. hub'.commits = hub.commits /\ Len(hub'.prs) = Len(hub.prs)
          BY <3>4, <3>6
      <4>4. \A i \in 1 .. Len(hub'.prs) : hub'.prs[i].by = "coordinator" =>
              \/ /\ i \in 1 .. Len(hub.prs) /\ hub.prs[i].by = "coordinator"
                 /\ hub'.prs[i].landed = hub.prs[i].landed
              \/ /\ RoleCommit(hub'.prs[i].landed)
                 /\ hub.commits[hub'.prs[i].landed].version = item.reviewed
                 /\ Decided
          BY <3>7, <4>1, <4>2, <4>3
      <4> QED BY <1>2, <3>3, <4>2, <4>3, <4>4 DEF HubGrows
    <3>9. /\ hub'.prs[exec[s].pr].state = "merged"
          /\ hub'.prs[exec[s].pr].landed = exec[s].expects
        BY <2>2, <3>2, <3>4, <3>6
    <3> QED BY <2>1, <3>1, <3>3, <3>6, <3>8, <3>9, BecomesKeeps
  <2>3. CASE ~(Writable /\ exec[s].pr \in OpenOnes /\ hub.head = exec[s].expects)
    <3>1. UNCHANGED hub /\ Becomes(s, "failed")
        BY <1>5, <2>3 DEF PullRequestMerges
    <3> QED BY <1>3, <3>1, BecomesKeeps
  <2> QED BY <2>2, <2>3
<1> QED BY <1>4, <1>5

LEMMA ToolWorksKeeps ==
    ASSUME WriterInv, ToolWorks
    PROVE  WriterInv'
<1>1. UNCHANGED <<item, doing, said, visits>>
    BY DEF ToolWorks
<1>2. PICK s \in Slot : \/ CommitLooks(s) \/ CommitIsMade(s) \/ CommitLooksAgain(s)
                        \/ BranchMoves(s) \/ PullRequestOpens(s) \/ PullRequestMerges(s)
    BY DEF ToolWorks
<1> QED BY <1>1, <1>2, CommitSteps, PullRequestSteps

-----------------------------------------------------------------------------
(* A person.                                                                  *)

(* Whatever the repository gains while nothing else moves.                     *)
LEMMA HubMovesAlone ==
    ASSUME WriterInv, HubGrows, hub' \in HubType, hub'.probe = hub.probe,
           UNCHANGED <<item, doing, exec, said>>, visits' \in 0 .. MaxVisit
    PROVE  WriterInv'
<1>1. /\ WriterTypeOK /\ ItemInv /\ LandedInv /\ CallInv /\ SaidInv
      /\ \A s \in Slot : RunInv(s)
    BY DEF WriterInv
<1>2. WriterTypeOK'
    BY <1>1 DEF WriterTypeOK, HubType
<1>3. ItemGoes
    BY <1>1, ItemRests
<1>4. ItemInv' /\ LandedInv' /\ CallInv' /\ \A s \in Slot : RunInv(s)'
    BY <1>1, <1>2, <1>3, ItemStays, LandedStays, RunStays, CallStays
<1>5. SaidInv'
    BY <1>1 DEF SaidInv
<1> QED BY <1>2, <1>4, <1>5 DEF WriterInv

LEMMA PersonKeeps ==
    ASSUME WriterInv, PersonActs
    PROVE  WriterInv'
<1>1. WriterTypeOK /\ hub \in HubType
    BY DEF WriterInv, WriterTypeOK, HubType
<1>2. /\ hub.head \in Nat /\ hub.tip \in Nat /\ hub.tip + 1 \in Nat
      /\ hub.prs \in Seq(PullRequest) /\ Len(hub.prs) \in Nat
      /\ hub.commits \in Seq(CommitRecord) /\ Len(hub.commits) \in Nat
    BY <1>1, HubFacts
<1>3. UNCHANGED <<item, doing, exec, said>> /\ visits' \in 0 .. MaxVisit
  <2>1. visits \in 0 .. MaxVisit /\ MaxVisit \in Nat
      BY <1>1, WriterAssumption DEF WriterTypeOK
  <2>2. /\ visits < MaxVisit /\ visits' = visits + 1
        /\ UNCHANGED <<item, doing, exec, said>>
      BY DEF PersonActs
  <2> QED BY <2>1, <2>2
<1>4. ASSUME hub' = [hub EXCEPT !.commits = Append(@, [by |-> "person", version |-> 0]),
                                !.head = Len(hub.commits) + 1]
      PROVE  WriterInv'
  <2> DEFINE c == [by |-> "person", version |-> 0]
             commits == Append(hub.commits, c)
  <2>1. c \in CommitRecord
      BY WriterAssumption DEF CommitRecord
  <2>2. /\ commits \in Seq(CommitRecord) /\ Len(commits) = Len(hub.commits) + 1
        /\ \A i \in 1 .. Len(hub.commits) : commits[i] = hub.commits[i]
      BY <1>2, <2>1
  <2>3. hub' = [hub EXCEPT !.commits = commits, !.head = Len(hub.commits) + 1]
      BY <1>1, <1>4 DEF HubType
  <2> HIDE DEF c, commits
  <2>4. Len(hub.commits) + 1 \in Nat
      BY <1>2
  <2>5. /\ hub' \in HubType /\ hub'.probe = hub.probe /\ hub'.commits = commits
        /\ hub'.prs = hub.prs
      BY <1>1, <2>2, <2>3, <2>4 DEF HubType
  <2>6. HubGrows
      BY <1>2, <2>2, <2>5 DEF HubGrows
  <2> QED BY <1>3, <2>5, <2>6, HubMovesAlone
<1>5. ASSUME NEW n \in OpenOnes, hub' = [hub EXCEPT !.prs[n].state = "closed"]
      PROVE  WriterInv'
  <2> DEFINE q == [hub.prs[n] EXCEPT !.state = "closed"]
             prs == [hub.prs EXCEPT ![n] = q]
  <2>1. n \in 1 .. Len(hub.prs) /\ hub.prs[n].state = "open" /\ hub.prs[n] \in PullRequest
      BY <1>2 DEF OpenOnes
  <2>2. /\ q \in PullRequest /\ q.by = hub.prs[n].by /\ q.landed = hub.prs[n].landed
      BY <2>1 DEF PullRequest
  <2>3. /\ prs \in Seq(PullRequest) /\ Len(prs) = Len(hub.prs) /\ prs[n] = q
        /\ \A i \in 1 .. Len(hub.prs) : i # n => prs[i] = hub.prs[i]
      BY <1>2, <2>1, <2>2
  <2>4. hub' = [hub EXCEPT !.prs = prs]
      BY <1>1, <1>5 DEF HubType
  <2> HIDE DEF q, prs
  <2>5. /\ hub' \in HubType /\ hub'.probe = hub.probe /\ hub'.commits = hub.commits
        /\ hub'.prs = prs
      BY <1>1, <2>3, <2>4 DEF HubType
  <2>6. HubGrows
      BY <1>2, <2>1, <2>2, <2>3, <2>5 DEF HubGrows
  <2> QED BY <1>3, <2>5, <2>6, HubMovesAlone
<1>6. ASSUME NEW n \in OpenOnes,
             hub' = [hub EXCEPT !.prs[n] = [state |-> "merged", landed |-> hub.head,
                                            by |-> "person"],
                                !.tip = @ + 1]
      PROVE  WriterInv'
  <2> DEFINE q == [state |-> "merged", landed |-> hub.head, by |-> "person"]
             prs == [hub.prs EXCEPT ![n] = q]
  <2>1. n \in 1 .. Len(hub.prs) /\ hub.prs[n].state = "open"
      BY <1>2 DEF OpenOnes
  <2>2. /\ q \in PullRequest /\ q.by = "person"
      BY <1>2 DEF PullRequest
  <2>3. /\ prs \in Seq(PullRequest) /\ Len(prs) = Len(hub.prs) /\ prs[n] = q
        /\ \A i \in 1 .. Len(hub.prs) : i # n => prs[i] = hub.prs[i]
      BY <1>2, <2>1, <2>2
  <2>4. hub' = [hub EXCEPT !.prs = prs, !.tip = hub.tip + 1]
      BY <1>1, <1>6 DEF HubType
  <2> HIDE DEF q, prs
  <2>5. /\ hub' \in HubType /\ hub'.probe = hub.probe /\ hub'.commits = hub.commits
        /\ hub'.prs = prs
      BY <1>1, <1>2, <2>3, <2>4 DEF HubType
  <2>6. HubGrows
      BY <1>2, <2>1, <2>2, <2>3, <2>5 DEF HubGrows
  <2> QED BY <1>3, <2>5, <2>6, HubMovesAlone
<1>7. ASSUME \/ hub' = [hub EXCEPT !.tip = @ + 1]
             \/ hub' = [hub EXCEPT !.default = "trunk"]
             \/ hub' = [hub EXCEPT !.access = IF @ = "read" THEN "write" ELSE "read"]
      PROVE  WriterInv'
  <2>1. /\ hub' \in HubType /\ hub'.probe = hub.probe /\ hub'.commits = hub.commits
        /\ hub'.prs = hub.prs
      BY <1>1, <1>2, <1>7 DEF HubType
  <2>2. HubGrows
      BY <1>1, <2>1, HubRests
  <2> QED BY <1>3, <2>1, <2>2, HubMovesAlone
<1> QED BY <1>4, <1>5, <1>6, <1>7 DEF PersonActs

-----------------------------------------------------------------------------
(* The coordinator: a call begins, or its operation ends.                      *)

ItemType == [version : 0..MaxVersion, head : Nat, pr : Nat, reviewed : 0..MaxVersion,
             state : {"new", "based", "built", "unpublished", "in_review", "approved",
                      "merged", "blocked"}]
DoingType == [kind : {"none", "prepare", "publish", "merge", "snapshot", "comment", "doctor"},
              tool : Tool, try : 0..Attempts, sha : Nat]
SaidType == [sha : Nat, tree : Nat, ready : {"", "yes", "no"}]

LEMMA FirstAttempt == 1 \in 0 .. Attempts
<1>1. Attempts \in Nat /\ Attempts # 0
    BY WriterAssumption
<1> QED BY <1>1

LEMMA Parts ==
    /\ WriterTypeOK <=> /\ hub \in HubType /\ item \in ItemType /\ doing \in DoingType
                        /\ exec \in [Slot -> ToolRun] /\ said \in SaidType
                        /\ visits \in 0..MaxVisit
    /\ WriterTypeOK' <=> /\ hub' \in HubType /\ item' \in ItemType /\ doing' \in DoingType
                         /\ exec' \in [Slot -> ToolRun] /\ said' \in SaidType
                         /\ visits' \in 0..MaxVisit
BY DEF WriterTypeOK, HubType, ItemType, DoingType, SaidType

LEMMA Arguments ==
    ASSUME WriterTypeOK, NEW t \in Tool
    PROVE  /\ ToolArguments(t) \in ToolRun
           /\ t \notin Writes => ToolArguments(t) = NoToolRun
           /\ t \in Writes => /\ ToolArguments(t).tool = t
                              /\ ToolArguments(t).step = IF t = "commit" THEN "look" ELSE "go"
                              /\ ToolArguments(t).expects = item.head
                              /\ ToolArguments(t).version = item.version
                              /\ ToolArguments(t).pr = item.pr
<1>1. CASE t \notin Writes
    BY <1>1, NoRun DEF ToolArguments
<1>2. CASE t \in Writes
  <2>1. ToolArguments(t) = [tool |-> t, step |-> IF t = "commit" THEN "look" ELSE "go",
                            expects |-> item.head, sees |-> 0, makes |-> 0,
                            version |-> item.version, pr |-> item.pr]
      BY <1>2 DEF ToolArguments, NoToolRun
  <2>2. item.head \in Nat /\ item.version \in 0 .. MaxVersion /\ item.pr \in Nat
      BY ItemFacts
  <2>3. (IF t = "commit" THEN "look" ELSE "go")
          \in {"look", "make", "recheck", "move", "go", "done", "failed", "over"}
      OBVIOUS
  <2>4. ToolArguments(t) \in ToolRun
      BY <2>1, <2>2, <2>3 DEF ToolRun
  <2> QED BY <1>2, <2>1, <2>4
<1> QED BY <1>1, <1>2

(* What a new call asks of a tool is so of the item.                           *)
LEMMA NewRun ==
    ASSUME WriterTypeOK, WriterTypeOK', ItemInv, HubGrows, ItemGoes, NEW t \in Tool,
           exec'["call"] = ToolArguments(t),
           t = "commit" => item.version # 0,
           t = "merge" => item.head # 0 /\ item.state = "approved"
    PROVE  RunInv("call")'
<1>1. CASE t \notin Writes
  <2>1. exec'["call"] = NoToolRun
      BY <1>1, Arguments
  <2> QED BY <2>1, NoRun DEF RunInv, Does
<1>2. CASE t \in Writes
  <2> DEFINE r == ToolArguments(t)
  <2>1. /\ r.tool = t /\ r.step \in {"look", "go"} /\ r.expects = item.head
        /\ r.version = item.version /\ (t = "commit" => r.step = "look")
      BY <1>2, Arguments
  <2> HIDE DEF r
  <2>2. exec'["call"] = r
      BY DEF r
  <2>3. item.version <= item'.version
      BY DEF ItemGoes
  <2>4. ASSUME item.head # 0
        PROVE  /\ item.head \in 1 .. Len(hub'.commits)
               /\ hub'.commits[item.head] = hub.commits[item.head]
               /\ hub'.commits[item.head].by = "role"
    <3>1. RoleCommit(item.head)
        BY <2>4 DEF ItemInv
    <3> QED BY <3>1, CommitStays
  <2>5. t = "merge" => /\ hub'.commits[item.head].version = item'.reviewed /\ Decided'
      BY <2>4 DEF ItemInv, ItemGoes, Decided
  <2> QED BY <2>1, <2>2, <2>3, <2>4, <2>5 DEF RunInv, Does, RoleCommit
<1> QED BY <1>1, <1>2

LEMMA CallingKeeps ==
    ASSUME WriterInv, HubGrows, ItemGoes, hub' \in HubType, item' \in ItemType, said' \in SaidType,
           visits' = visits, ItemInv', SaidInv',
           NEW kind \in {"prepare", "publish", "merge", "snapshot", "comment", "doctor"},
           NEW t \in Tool \ {"none"}, NEW n \in Nat, Calls(kind, t, n),
           kind = "prepare" => item'.state = "new",
           kind = "publish" => item'.state = "built",
           kind = "merge" => item'.state = "approved",
           kind = "doctor" => said'.ready = "",
           t = "repository" => kind \in {"prepare", "merge", "doctor"},
           t = "tools" => kind = "doctor",
           t = "commit" => kind = "publish" /\ item' = item,
           t \in {"issue", "create", "labels"} =>
             kind = "publish" /\ item'.head # 0 /\ hub'.commits[item'.head].version = item'.version,
           t = "labels" => item'.pr # 0,
           t = "merge" => kind = "merge" /\ item.head # 0 /\ item' = item
    PROVE  WriterInv'
<1>1. /\ WriterTypeOK /\ ItemInv /\ LandedInv /\ CallInv /\ RunInv("late")
      /\ "late" \in Slot /\ "call" \in Slot
    BY DEF WriterInv, Slot
<1>2. /\ doing' = [kind |-> kind, tool |-> t, try |-> 1, sha |-> n]
      /\ exec' = [exec EXCEPT !["call"] = ToolArguments(t)]
    BY DEF Calls
<1>3. 1 \in 0 .. Attempts
    BY FirstAttempt
<1>4. doing' \in DoingType /\ doing'.kind = kind /\ doing'.tool = t
    BY <1>2, <1>3 DEF DoingType
<1>5. exec \in [Slot -> ToolRun] /\ visits \in 0 .. MaxVisit /\ ToolArguments(t) \in ToolRun
    BY <1>1, RunFacts, DoingFacts, Arguments
<1>6. /\ exec' \in [Slot -> ToolRun] /\ exec'["call"] = ToolArguments(t)
      /\ exec'["late"] = exec["late"]
    BY <1>1, <1>2, <1>5
<1>7. WriterTypeOK'
    BY <1>4, <1>5, <1>6, Parts
<1>8. LandedInv' /\ RunInv("late")'
    BY <1>1, <1>6, <1>7, LandedStays, RunStays
<1>9. t = "commit" => item.version # 0
    BY <1>1 DEF ItemInv
<1>10. RunInv("call")'
    BY <1>1, <1>6, <1>7, <1>9, NewRun
<1>11. CallInv'
  <2>1. /\ t \notin Writes => exec'["call"].tool = "none"
        /\ t \in Writes => /\ exec'["call"].tool = t /\ exec'["call"].step # "done"
                           /\ exec'["call"].expects = item.head
                           /\ exec'["call"].version = item.version
                           /\ exec'["call"].pr = item.pr
      BY <1>1, <1>6, NoRun, Arguments
  <2>2. t \in {"commit", "create", "merge"} <=> t \in Writes
      BY DEF Writes
  <2>3. ~Did("create")' /\ ~Did("merge")'
      BY <1>4, <2>1, <2>2 DEF Did, Waits
  <2>4. /\ doing'.tool \in Writes => exec'["call"].tool = doing'.tool
        /\ doing'.tool \notin Writes => exec'["call"].tool = "none"
        /\ (doing'.kind = "none") <=> (doing'.tool = "none")
        /\ doing'.kind = "prepare" => item'.state = "new"
        /\ doing'.kind = "publish" => item'.state = "built"
        /\ doing'.kind = "merge" => item'.state = "approved"
        /\ doing'.kind = "doctor" => said'.ready = ""
        /\ doing'.tool = "repository" => doing'.kind \in {"prepare", "merge", "doctor"}
        /\ doing'.tool = "tools" => doing'.kind = "doctor"
      BY <1>4, <2>1
  <2>5. doing'.tool = "commit" => doing'.kind = "publish" /\ exec'["call"].version = item'.version
      BY <1>4, <2>1, <2>2
  <2>6. /\ doing'.tool \in {"issue", "create", "labels"} =>
             /\ doing'.kind = "publish" /\ item'.head # 0
             /\ hub'.commits[item'.head].version = item'.version
        /\ doing'.tool = "labels" => item'.pr # 0
      BY <1>4
  <2>7. doing'.tool = "merge" => /\ doing'.kind = "merge" /\ item'.head # 0
                                 /\ exec'["call"].pr = item'.pr
                                 /\ exec'["call"].expects = item'.head
      BY <1>4, <2>1, <2>2
  <2> QED BY <2>3, <2>4, <2>5, <2>6, <2>7 DEF CallInv
<1> QED BY <1>7, <1>8, <1>10, <1>11 DEF WriterInv, Slot

LEMMA RestingKeeps ==
    ASSUME WriterInv, HubGrows, ItemGoes, hub' \in HubType, item' \in ItemType, said' \in SaidType,
           visits' = visits, ItemInv', SaidInv', Rests
    PROVE  WriterInv'
<1>1. /\ WriterTypeOK /\ ItemInv /\ LandedInv /\ RunInv("late")
      /\ "late" \in Slot /\ "call" \in Slot
    BY DEF WriterInv, Slot
<1>2. /\ doing' = [kind |-> "none", tool |-> "none", try |-> 0, sha |-> 0]
      /\ exec' = [exec EXCEPT !["call"] = NoToolRun]
    BY DEF Rests
<1>3. 0 \in 0 .. Attempts /\ "none" \in Tool
    BY WriterAssumption DEF Tool
<1>4. doing' \in DoingType /\ doing'.kind = "none" /\ doing'.tool = "none"
    BY <1>2, <1>3 DEF DoingType
<1>5. exec \in [Slot -> ToolRun] /\ visits \in 0 .. MaxVisit
    BY <1>1, RunFacts, DoingFacts
<1>6. /\ exec' \in [Slot -> ToolRun] /\ exec'["call"] = NoToolRun /\ exec'["late"] = exec["late"]
    BY <1>1, <1>2, <1>5, NoRun
<1>7. WriterTypeOK'
    BY <1>4, <1>5, <1>6, Parts
<1>8. LandedInv' /\ RunInv("late")'
    BY <1>1, <1>6, <1>7, LandedStays, RunStays
<1>9. RunInv("call")'
    BY <1>6, NoRun DEF RunInv, Does
<1>10. CallInv'
    BY <1>4, <1>6, NoRun DEF CallInv, Did, Waits, Writes
<1> QED BY <1>7, <1>8, <1>9, <1>10 DEF WriterInv, Slot

(* The item moves while the coordinator asks for nothing.                      *)
LEMMA IdleKeeps ==
    ASSUME WriterInv, doing.kind = "none", UNCHANGED <<hub, doing, exec, said, visits>>,
           item' \in ItemType, ItemGoes, ItemInv'
    PROVE  WriterInv'
<1>1. /\ WriterTypeOK /\ LandedInv /\ CallInv /\ SaidInv /\ \A s \in Slot : RunInv(s)
    BY DEF WriterInv
<1>2. WriterTypeOK'
    BY <1>1, Parts
<1>3. HubGrows
    BY <1>1, HubRests
<1>4. LandedInv' /\ \A s \in Slot : RunInv(s)'
    BY <1>1, <1>2, <1>3, LandedStays, RunStays
<1>5. CallInv'
  <2>1. doing.tool = "none" /\ exec["call"].tool = "none"
      BY <1>1 DEF CallInv, Writes
  <2> QED BY <2>1 DEF CallInv, Did, Waits, Writes
<1>6. SaidInv'
    BY <1>1 DEF SaidInv
<1> QED BY <1>2, <1>4, <1>5, <1>6 DEF WriterInv

-----------------------------------------------------------------------------
(* The coordinator's own record.                                              *)

(* The item changes its state only, and has what its new state says.            *)
LEMMA StateMoves ==
    ASSUME WriterTypeOK, ItemInv, HubGrows,
           NEW state \in {"based", "blocked", "unpublished", "in_review", "merged"},
           item' = [item EXCEPT !.state = state],
           state = "based" => item.state = "new",
           state = "unpublished" => item.state = "built" /\ item.version = 1,
           state = "in_review" => /\ item.state = "built" /\ item.head # 0 /\ item.pr # 0
                                  /\ hub.commits[item.head].version = item.version,
           state = "merged" => /\ item.state = "approved" /\ item.pr # 0
                               /\ hub.prs[item.pr].state = "merged"
                               /\ hub.prs[item.pr].landed = item.head
    PROVE  /\ item' \in ItemType /\ ItemInv' /\ ItemGoes
           /\ item'.state = state /\ item'.version = item.version /\ item'.head = item.head
           /\ item'.pr = item.pr /\ item'.reviewed = item.reviewed
<1>1. item \in ItemType
    BY Parts
<1>2. /\ item' \in ItemType /\ item'.state = state /\ item'.version = item.version
      /\ item'.head = item.head /\ item'.pr = item.pr /\ item'.reviewed = item.reviewed
    BY <1>1 DEF ItemType
<1>3. ItemGoes
  <2>1. item.version <= item'.version
      BY <1>2, ItemFacts
  <2>2. Decided => state \in {"blocked", "merged"}
      BY DEF Decided
  <2> QED BY <1>2, <2>1, <2>2 DEF ItemGoes, Decided
<1>4. ASSUME item.head # 0
      PROVE  /\ item.head \in 1 .. Len(hub'.commits) /\ hub'.commits[item.head].by = "role"
             /\ hub'.commits[item.head].version = hub.commits[item.head].version
             /\ hub.commits[item.head].version # 0
             /\ hub.commits[item.head].version <= item.version
             /\ hub.commits[item.head].version \in Nat
  <2>1. /\ RoleCommit(item.head) /\ hub.commits[item.head].version # 0
        /\ hub.commits[item.head].version <= item.version
      BY <1>4 DEF ItemInv
  <2>2. hub.commits[item.head].version \in 0 .. MaxVersion
      BY <2>1, HubFacts DEF RoleCommit
  <2>3. hub.commits[item.head].version \in Nat
      BY <2>2, WriterAssumption
  <2> QED BY <2>1, <2>3, CommitStays
<1>5. ASSUME item.head # 0, state \in {"unpublished", "in_review", "approved", "merged"}
      PROVE  hub.commits[item.head].version = item.version
  <2>1. CASE state = "unpublished"
      BY <1>4, <1>5, <2>1
  <2>2. CASE state = "in_review"
      BY <2>2
  <2>3. CASE state = "merged"
      BY <1>5, <2>3 DEF ItemInv
  <2> QED BY <1>5, <2>1, <2>2, <2>3
<1>6. ASSUME item.pr # 0
      PROVE  item.pr \in 1 .. Len(hub.prs) /\ item.pr \in 1 .. Len(hub'.prs)
  <2>1. item.pr \in 1 .. Len(hub.prs)
      BY <1>6 DEF ItemInv
  <2> QED BY <2>1, HubFacts DEF HubGrows
<1>7. state = "merged" => /\ item.pr # 0 /\ hub'.prs[item.pr].state = "merged"
                          /\ hub'.prs[item.pr].landed = item.head
    BY <1>6 DEF HubGrows
<1>8. state \in {"unpublished", "in_review", "merged"} => item.version # 0
    BY DEF ItemInv
<1>9. state = "merged" => item.reviewed = item.version
    BY DEF ItemInv
<1>10. ItemInv'
    BY <1>2, <1>4, <1>5, <1>6, <1>7, <1>8, <1>9 DEF ItemInv, RoleCommit
<1> QED BY <1>2, <1>3, <1>10

(* An operation that fails leaves the item where its caller can go on.          *)
LEMMA FailureKeeps ==
    ASSUME WriterInv, OperationFails, doing.kind # "none", hub' \in HubType,
           hub'.commits = hub.commits, hub'.prs = hub.prs,
           said.ready = "yes" => hub'.probe = "new", visits' = visits
    PROVE  WriterInv'
<1>1. WriterTypeOK /\ ItemInv /\ CallInv /\ SaidInv
    BY DEF WriterInv
<1>2. /\ item' = [item EXCEPT !.state =
                     IF doing.kind = "publish" /\ item.version = 1 THEN "unpublished"
                     ELSE IF doing.kind \in {"prepare", "publish", "merge"} THEN "blocked" ELSE @]
      /\ said' = IF doing.kind = "doctor" THEN [said EXCEPT !.ready = "no"] ELSE said
      /\ Rests
    BY DEF OperationFails
<1>3. HubGrows
    BY <1>1, HubRests
<1>4. item' \in ItemType /\ ItemInv' /\ ItemGoes
  <2>1. CASE doing.kind = "publish" /\ item.version = 1
    <3>1. item' = [item EXCEPT !.state = "unpublished"] /\ item.state = "built"
        BY <1>1, <1>2, <2>1 DEF CallInv
    <3> QED BY <1>1, <1>3, <2>1, <3>1, StateMoves
  <2>2. CASE doing.kind \in {"prepare", "publish", "merge"} /\ ~(doing.kind = "publish" /\ item.version = 1)
    <3>1. item' = [item EXCEPT !.state = "blocked"]
        BY <1>2, <2>2
    <3> QED BY <1>1, <1>3, <3>1, StateMoves
  <2>3. CASE doing.kind \notin {"prepare", "publish", "merge"}
    <3>1. item' = item
      <4>1. item' = [item EXCEPT !.state = @]
          BY <1>2, <2>3
      <4>2. item \in ItemType
          BY <1>1, Parts
      <4> QED BY <4>1, <4>2 DEF ItemType
    <3>2. item' \in ItemType
        BY <1>1, <3>1, Parts
    <3> QED BY <1>1, <1>3, <3>1, <3>2, ItemStays, ItemRests
  <2> QED BY <2>1, <2>2, <2>3
<1>5. /\ said' \in SaidType /\ said'.sha = said.sha /\ said'.tree = said.tree
      /\ said'.ready \in {said.ready, "no"}
  <2>1. said \in SaidType
      BY <1>1, Parts
  <2> QED BY <1>2, <2>1 DEF SaidType
<1>6. SaidInv'
    BY <1>1, <1>5 DEF SaidInv
<1> QED BY <1>2, <1>3, <1>4, <1>5, <1>6, RestingKeeps

(* A connection that fails may leave the doctor's branch made or reset.         *)
LEMMA UnansweredHub ==
    ASSUME WriterTypeOK, hub' \in Unanswered
    PROVE  /\ hub' \in HubType /\ hub'.commits = hub.commits /\ hub'.prs = hub.prs
           /\ hub'.probe \in {hub.probe, "new"}
<1>1. hub \in HubType
    BY Parts
<1>2. \/ hub' = hub
      \/ hub' = [hub EXCEPT !.probe = IF hub.probe = "missing" THEN "new" ELSE hub.probe]
      \/ hub' = [hub EXCEPT !.probe = "new"]
  <2>1. CASE ~Writable
      BY <2>1 DEF Unanswered
  <2>2. CASE Writable /\ doing.tool = "branch"
    <3>1. hub' \in {hub, [hub EXCEPT !.probe = IF @ = "missing" THEN "new" ELSE @]}
        BY <2>2 DEF Unanswered
    <3> QED BY <1>1, <3>1 DEF HubType
  <2>3. CASE Writable /\ doing.tool = "reset"
      BY <2>3 DEF Unanswered
  <2>4. CASE Writable /\ doing.tool \notin {"branch", "reset"}
      BY <2>4 DEF Unanswered
  <2> QED BY <2>1, <2>2, <2>3, <2>4
<1>3. CASE hub' = hub
    BY <1>1, <1>3
<1>4. CASE hub' = [hub EXCEPT !.probe = IF hub.probe = "missing" THEN "new" ELSE hub.probe]
    BY <1>1, <1>4 DEF HubType
<1>5. CASE hub' = [hub EXCEPT !.probe = "new"]
    BY <1>1, <1>5 DEF HubType
<1> QED BY <1>2, <1>3, <1>4, <1>5

(* The call is made again, and what is still at it goes on unobserved.          *)
LEMMA RetryKeeps ==
    ASSUME WriterInv, doing.tool # "none", hub' \in Unanswered, doing.try < Attempts,
           doing' = [doing EXCEPT !.try = @ + 1],
           \E l \in Abandoned : exec' = [call |-> ToolArguments(doing.tool), late |-> l],
           UNCHANGED <<item, said, visits>>
    PROVE  WriterInv'
<1>1. /\ WriterTypeOK /\ ItemInv /\ LandedInv /\ CallInv /\ SaidInv
      /\ RunInv("call") /\ RunInv("late") /\ "call" \in Slot /\ "late" \in Slot
    BY DEF WriterInv, Slot
<1>2. /\ hub' \in HubType /\ hub'.commits = hub.commits /\ hub'.prs = hub.prs
      /\ hub'.probe \in {hub.probe, "new"}
    BY <1>1, UnansweredHub
<1>3. HubGrows /\ ItemGoes
    BY <1>1, <1>2, HubRests, ItemRests
<1>4. doing.tool \in Tool /\ doing.try \in 0 .. Attempts /\ doing \in DoingType
    BY <1>1, DoingFacts, Parts
<1>5. doing.try + 1 \in 0 .. Attempts
    BY <1>4, WriterAssumption
<1>6. /\ doing' \in DoingType /\ doing'.kind = doing.kind /\ doing'.tool = doing.tool
    BY <1>4, <1>5 DEF DoingType
<1>7. PICK u \in Slot : exec' = [call |-> ToolArguments(doing.tool), late |-> exec[u]]
  <2>1. PICK l \in Abandoned : exec' = [call |-> ToolArguments(doing.tool), late |-> l]
      OBVIOUS
  <2>2. l = exec["late"] \/ l = exec["call"]
      BY <2>1 DEF Abandoned
  <2> QED BY <1>1, <2>1, <2>2
<1>8. /\ exec'["call"] = ToolArguments(doing.tool) /\ exec'["late"] = exec[u]
      /\ exec' \in [Slot -> ToolRun]
  <2>1. ToolArguments(doing.tool) \in ToolRun /\ exec[u] \in ToolRun
      BY <1>1, <1>4, Arguments, RunFacts
  <2> QED BY <1>7, <2>1 DEF Slot
<1>9. WriterTypeOK'
    BY <1>1, <1>2, <1>6, <1>8, Parts
<1>10. RunInv("late")'
  <2>1. RunInv(u)
      BY <1>1 DEF Slot
  <2> QED BY <1>1, <1>3, <1>8, <1>9, <2>1, RunGoesOn
<1>11. /\ doing.tool = "commit" => item.version # 0
       /\ doing.tool = "merge" => item.head # 0 /\ item.state = "approved"
    BY <1>1 DEF CallInv, ItemInv
<1>12. RunInv("call")'
    BY <1>1, <1>3, <1>4, <1>8, <1>9, <1>11, NewRun
<1>13. ItemInv' /\ LandedInv'
    BY <1>1, <1>3, ItemStays, LandedStays
<1>14. CallInv'
  <2> DEFINE t == doing.tool
  <2>1. /\ t \notin Writes => exec'["call"].tool = "none"
        /\ t \in Writes => /\ exec'["call"].tool = t /\ exec'["call"].step # "done"
                           /\ exec'["call"].expects = item.head
                           /\ exec'["call"].version = item.version
                           /\ exec'["call"].pr = item.pr
      BY <1>1, <1>4, <1>8, NoRun, Arguments
  <2>2. t \in {"commit", "create", "merge"} <=> t \in Writes
      BY DEF Writes
  <2>3. ~Did("create")' /\ ~Did("merge")'
      BY <1>6, <2>1, <2>2 DEF Did, Waits
  <2>4. /\ t \in Writes => exec'["call"].tool = t
        /\ doing.kind = "none" <=> t = "none"
        /\ doing.kind = "prepare" => item.state = "new"
        /\ doing.kind = "publish" => item.state = "built"
        /\ doing.kind = "merge" => item.state = "approved"
        /\ doing.kind = "doctor" => said.ready = ""
        /\ t = "repository" => doing.kind \in {"prepare", "merge", "doctor"}
        /\ t = "tools" => doing.kind = "doctor"
        /\ t = "commit" => doing.kind = "publish"
        /\ t \in {"issue", "create", "labels"} =>
             doing.kind = "publish" /\ item.head # 0 /\ hub.commits[item.head].version = item.version
        /\ t = "labels" => item.pr # 0
        /\ t = "merge" => doing.kind = "merge" /\ item.head # 0
      BY <1>1, <2>1 DEF CallInv
  <2> HIDE DEF t
  <2>5. doing'.tool = t
      BY <1>6 DEF t
  <2> QED BY <1>2, <1>6, <2>1, <2>2, <2>3, <2>4, <2>5 DEF CallInv
<1>15. SaidInv'
    BY <1>1, <1>2 DEF SaidInv
<1> QED BY <1>9, <1>10, <1>12, <1>13, <1>14, <1>15 DEF WriterInv, Slot

LEMMA FailedCallKeeps ==
    ASSUME WriterInv, ToolRefuses \/ CallFails
    PROVE  WriterInv'
<1>1. WriterTypeOK /\ CallInv /\ SaidInv
    BY DEF WriterInv
<1>2. doing.tool # "none" /\ doing.kind # "none"
    BY <1>1 DEF ToolRefuses, CallFails, CallInv
<1>3. CASE ToolRefuses
  <2>1. UNCHANGED <<hub, visits>> /\ OperationFails
      BY <1>3 DEF ToolRefuses
  <2>2. hub' \in HubType /\ (said.ready = "yes" => hub'.probe = "new")
      BY <1>1, <2>1, Parts DEF SaidInv
  <2> QED BY <1>2, <2>1, <2>2, FailureKeeps
<1>4. CASE CallFails
  <2>1. hub' \in Unanswered /\ visits' = visits
      BY <1>4 DEF CallFails
  <2>2. CASE doing.try < Attempts
    <3>1. /\ doing' = [doing EXCEPT !.try = @ + 1]
          /\ \E l \in Abandoned : exec' = [call |-> ToolArguments(doing.tool), late |-> l]
          /\ UNCHANGED <<item, said>>
        BY <1>4, <2>2 DEF CallFails
    <3> QED BY <1>2, <2>1, <2>2, <3>1, RetryKeeps
  <2>3. CASE ~(doing.try < Attempts)
    <3>1. OperationFails
        BY <1>4, <2>3 DEF CallFails
    <3>2. /\ hub' \in HubType /\ hub'.commits = hub.commits /\ hub'.prs = hub.prs
          /\ hub'.probe \in {hub.probe, "new"}
        BY <1>1, <2>1, UnansweredHub
    <3>3. said.ready = "yes" => hub'.probe = "new"
        BY <1>1, <3>2 DEF SaidInv
    <3> QED BY <1>2, <2>1, <3>1, <3>2, <3>3, FailureKeeps
  <2> QED BY <2>2, <2>3
<1> QED BY <1>3, <1>4

(* A call that leaves the records alone when it begins.                        *)
LEMMA AskingKeeps ==
    ASSUME WriterInv, UNCHANGED <<hub, item, said, visits>>,
           NEW kind \in {"prepare", "publish", "merge", "snapshot", "comment", "doctor"},
           NEW t \in Tool \ {"none"}, NEW n \in Nat, Calls(kind, t, n),
           kind = "prepare" => item.state = "new",
           kind = "publish" => item.state = "built",
           kind = "merge" => item.state = "approved",
           kind = "doctor" => said.ready = "",
           t = "repository" => kind \in {"prepare", "merge", "doctor"},
           t = "tools" => kind = "doctor",
           t = "commit" => kind = "publish",
           t \in {"issue", "create", "labels"} =>
             kind = "publish" /\ item.head # 0 /\ hub.commits[item.head].version = item.version,
           t = "labels" => item.pr # 0,
           t = "merge" => kind = "merge" /\ item.head # 0
    PROVE  WriterInv'
<1>1. WriterTypeOK /\ ItemInv /\ SaidInv
    BY DEF WriterInv
<1>2. HubGrows /\ ItemGoes /\ hub' \in HubType /\ item' \in ItemType /\ said' \in SaidType
    BY <1>1, HubRests, ItemRests, Parts
<1>3. ItemInv' /\ SaidInv'
    BY <1>1, <1>2, ItemStays DEF SaidInv
<1> QED BY <1>2, <1>3, CallingKeeps

LEMMA AskSteps ==
    ASSUME WriterInv,
           PrepareBase \/ HeadAnswers \/ PublishWorkItem \/ CommentOnWorkItem \/ ToolsAnswer
    PROVE  WriterInv'
<1>1. WriterTypeOK /\ CallInv /\ 0 \in Nat /\ hub.tip \in Nat /\ doing.sha \in Nat
      /\ doing.kind \in {"none", "prepare", "publish", "merge", "snapshot", "comment", "doctor"}
    BY HubFacts, DoingFacts DEF WriterInv
<1>2. UNCHANGED <<hub, item, said, visits>>
    BY DEF PrepareBase, HeadAnswers, PublishWorkItem, CommentOnWorkItem, ToolsAnswer
<1>3. {"repository", "archive", "commit", "comment"} \subseteq Tool \ {"none"}
    BY DEF Tool
<1>4. CASE PrepareBase
    BY <1>1, <1>2, <1>3, <1>4, AskingKeeps DEF PrepareBase
<1>5. CASE PublishWorkItem
    BY <1>1, <1>2, <1>3, <1>5, AskingKeeps DEF PublishWorkItem
<1>6. CASE CommentOnWorkItem
    BY <1>1, <1>2, <1>3, <1>6, AskingKeeps DEF CommentOnWorkItem
<1>7. ASSUME doing.tool # "none"
      PROVE  /\ doing.kind # "none"
             /\ doing.kind = "prepare" => item.state = "new"
             /\ doing.kind = "publish" => item.state = "built"
             /\ doing.kind = "merge" => item.state = "approved"
             /\ doing.kind = "doctor" => said.ready = ""
    BY <1>1, <1>7 DEF CallInv
<1>8. CASE HeadAnswers
  <2>1. doing.tool # "none" /\ Calls(doing.kind, "archive", hub.tip)
      BY <1>8 DEF HeadAnswers, Waits
  <2> QED BY <1>1, <1>2, <1>3, <1>7, <2>1, AskingKeeps
<1>9. CASE ToolsAnswer
  <2>1. doing.tool = "tools" /\ Calls(doing.kind, "repository", doing.sha)
      BY <1>9 DEF ToolsAnswer, Waits, Goes
  <2>2. doing.kind \in {"prepare", "merge", "doctor"}
      BY <1>1, <2>1 DEF CallInv
  <2> QED BY <1>1, <1>2, <1>3, <1>7, <2>1, <2>2, AskingKeeps
<1> QED BY <1>4, <1>5, <1>6, <1>8, <1>9

(* The steps of a publication (publish_work_item).                             *)
LEMMA PublishSteps ==
    ASSUME WriterInv, CommitAnswers \/ IssueAnswers \/ CreateAnswers \/ LabelsAnswer
    PROVE  WriterInv'
<1>1. /\ WriterTypeOK /\ ItemInv /\ CallInv /\ SaidInv /\ RunInv("call") /\ "call" \in Slot
      /\ item \in ItemType /\ doing.sha \in Nat
    BY DoingFacts, Parts DEF WriterInv, Slot
<1>2. /\ UNCHANGED <<hub, said, visits>> /\ HubGrows /\ hub' \in HubType /\ said' \in SaidType
      /\ SaidInv'
  <2>1. UNCHANGED <<hub, said, visits>>
      BY DEF CommitAnswers, IssueAnswers, CreateAnswers, LabelsAnswer
  <2> QED BY <1>1, <2>1, HubRests, Parts DEF SaidInv
<1>3. {"issue", "create", "labels"} \subseteq Tool \ {"none"}
    BY DEF Tool
<1>4. CASE CommitAnswers
  <2>1. /\ doing.tool = "commit" /\ exec["call"].step = "done"
        /\ item' = [item EXCEPT !.head = exec["call"].makes]
        /\ Calls(doing.kind, IF item.pr # 0 THEN "issue" ELSE "create", doing.sha)
      BY <1>4 DEF CommitAnswers, Did, Waits, Goes
  <2>2. /\ doing.kind = "publish" /\ item.state = "built" /\ exec["call"].version = item.version
        /\ Does("call", "commit", "done")
      BY <1>1, <2>1 DEF CallInv, Does, Writes
  <2>3. /\ RoleCommit(exec["call"].makes) /\ exec["call"].makes \in Nat
        /\ hub.commits[exec["call"].makes].version = item.version /\ exec["call"].makes # 0
    <3>1. RoleCommit(exec["call"].makes) /\ exec["call"].makes \in Nat
          /\ hub.commits[exec["call"].makes].version = item.version
        BY <1>1, <2>2, RunFacts DEF RunInv
    <3> QED BY <1>1, <3>1, HubFacts DEF RoleCommit
  <2>4. /\ item' \in ItemType /\ item'.head = exec["call"].makes /\ item'.version = item.version
        /\ item'.pr = item.pr /\ item'.state = "built" /\ item'.reviewed = item.reviewed
      BY <1>1, <2>1, <2>2, <2>3 DEF ItemType
  <2>5. ItemGoes
      BY <1>1, <2>2, <2>4, ItemFacts DEF ItemGoes, Decided
  <2>6. ItemInv'
    <3>1. item.version \in Nat /\ item.version # 0
        BY <1>1, <2>2, ItemFacts DEF ItemInv
    <3>2. item.pr # 0 => item.pr \in 1 .. Len(hub.prs)
        BY <1>1 DEF ItemInv
    <3> QED BY <1>2, <2>3, <2>4, <3>1, <3>2 DEF ItemInv, RoleCommit
  <2>7. PICK t \in {"issue", "create"} : Calls(doing.kind, t, doing.sha)
      BY <2>1
  <2>8. item'.head # 0 /\ hub'.commits[item'.head].version = item'.version
      BY <1>2, <2>3, <2>4
  <2> QED BY <1>1, <1>2, <1>3, <2>2, <2>4, <2>5, <2>6, <2>7, <2>8, CallingKeeps
<1>5. ASSUME doing.tool \in {"issue", "create", "labels"}
      PROVE  /\ doing.kind = "publish" /\ item.state = "built" /\ item.head # 0
             /\ hub.commits[item.head].version = item.version
    BY <1>1, <1>5 DEF CallInv
<1>6. CASE IssueAnswers
  <2>1. doing.tool = "issue"
      BY <1>6 DEF IssueAnswers, Waits
  <2>2. CASE item.pr \in OpenOnes
    <3>1. Calls(doing.kind, "labels", doing.sha) /\ item' = item
        BY <1>6, <2>2 DEF IssueAnswers, Goes
    <3>2. item.pr # 0
        BY <1>1, <2>2, HubFacts DEF OpenOnes
    <3> QED BY <1>1, <1>2, <1>3, <1>5, <2>1, <3>1, <3>2, AskingKeeps
  <2>3. CASE item.pr \notin OpenOnes
    <3>1. Calls(doing.kind, "create", doing.sha) /\ item' = [item EXCEPT !.pr = 0]
        BY <1>6, <2>3 DEF IssueAnswers, Goes
    <3>2. /\ item' \in ItemType /\ item'.pr = 0 /\ item'.version = item.version
          /\ item'.head = item.head /\ item'.state = item.state /\ item'.reviewed = item.reviewed
        BY <1>1, <3>1 DEF ItemType
    <3>3. ItemGoes
        BY <1>1, <1>5, <2>1, <3>2, ItemFacts DEF ItemGoes, Decided
    <3>4. ItemInv'
        BY <1>1, <1>2, <1>5, <2>1, <3>2 DEF ItemInv, RoleCommit
    <3>5. item'.head # 0 /\ hub'.commits[item'.head].version = item'.version
          /\ doing.kind = "publish" /\ item'.state = "built"
        BY <1>2, <1>5, <2>1, <3>2
    <3> QED BY <1>1, <1>2, <1>3, <3>1, <3>2, <3>3, <3>4, <3>5, CallingKeeps
  <2> QED BY <2>2, <2>3
<1>7. CASE CreateAnswers
  <2>1. /\ doing.tool = "create" /\ Did("create")
        /\ item' = [item EXCEPT !.pr = exec["call"].pr]
        /\ Calls(doing.kind, "labels", doing.sha)
      BY <1>7 DEF CreateAnswers, Did, Waits, Goes
  <2>2. exec["call"].pr \in 1 .. Len(hub.prs) /\ exec["call"].pr \in Nat /\ exec["call"].pr # 0
    <3>1. exec["call"].pr \in 1 .. Len(hub.prs) /\ exec["call"].pr \in Nat
        BY <1>1, <2>1, RunFacts DEF CallInv
    <3> QED BY <1>1, <3>1, HubFacts
  <2>3. /\ item' \in ItemType /\ item'.pr = exec["call"].pr /\ item'.version = item.version
        /\ item'.head = item.head /\ item'.state = item.state /\ item'.reviewed = item.reviewed
      BY <1>1, <2>1, <2>2 DEF ItemType
  <2>4. ItemGoes
      BY <1>1, <1>5, <2>1, <2>3, ItemFacts DEF ItemGoes, Decided
  <2>5. ItemInv'
      BY <1>1, <1>2, <1>5, <2>1, <2>2, <2>3 DEF ItemInv, RoleCommit
  <2>6. item'.head # 0 /\ hub'.commits[item'.head].version = item'.version
        /\ doing.kind = "publish" /\ item'.state = "built" /\ item'.pr # 0
      BY <1>2, <1>5, <2>1, <2>2, <2>3
  <2> QED BY <1>1, <1>2, <1>3, <2>1, <2>3, <2>4, <2>5, <2>6, CallingKeeps
<1>8. CASE LabelsAnswer
  <2>1. doing.tool = "labels" /\ item' = [item EXCEPT !.state = "in_review"] /\ Rests
      BY <1>8 DEF LabelsAnswer, Waits
  <2>2. item.pr # 0
      BY <1>1, <2>1 DEF CallInv
  <2>3. item' \in ItemType /\ ItemInv' /\ ItemGoes
      BY <1>1, <1>2, <1>5, <2>1, <2>2, StateMoves
  <2> QED BY <1>2, <2>1, <2>3, RestingKeeps
<1> QED BY <1>4, <1>6, <1>7, <1>8

(* The role's turn, and the verdict on its patch.                              *)
LEMMA PatchSteps ==
    ASSUME WriterInv, PatchMade \/ ReviewApproves
    PROVE  WriterInv'
<1>1. /\ WriterTypeOK /\ ItemInv /\ LandedInv /\ item \in ItemType
      /\ item.version \in 0 .. MaxVersion /\ item.version \in Nat
    BY ItemFacts, Parts DEF WriterInv
<1>2. UNCHANGED <<hub, doing, exec, said, visits>> /\ doing.kind = "none" /\ ~Decided
    BY DEF PatchMade, ReviewApproves, Decided
<1>3. CASE PatchMade
  <2>1. item.version < MaxVersion /\ item' = [item EXCEPT !.version = @ + 1, !.state = "built"]
      BY <1>3 DEF PatchMade
  <2>2. item.version + 1 \in 0 .. MaxVersion
      BY <1>1, <2>1, WriterAssumption
  <2>3. /\ item' \in ItemType /\ item'.version = item.version + 1 /\ item'.state = "built"
        /\ item'.head = item.head /\ item'.pr = item.pr /\ item'.reviewed = item.reviewed
      BY <1>1, <2>1, <2>2 DEF ItemType
  <2>4. ItemGoes
      BY <1>1, <1>2, <2>3 DEF ItemGoes
  <2>5. ItemInv'
    <3>1. ASSUME item.head # 0
          PROVE  hub.commits[item.head].version <= item.version + 1
      <4>1. hub.commits[item.head].version <= item.version
            /\ hub.commits[item.head].version \in 0 .. MaxVersion
          BY <1>1, <3>1, HubFacts DEF ItemInv, RoleCommit
      <4> QED BY <1>1, <4>1, WriterAssumption
    <3>2. item.version + 1 # 0
        BY <1>1
    <3> QED BY <1>1, <1>2, <2>3, <3>1, <3>2 DEF ItemInv, RoleCommit
  <2> QED BY <1>2, <2>3, <2>4, <2>5, IdleKeeps
<1>4. CASE ReviewApproves
  <2>1. /\ item.state \in {"unpublished", "in_review"}
        /\ item' = [item EXCEPT !.state = "approved", !.reviewed = item.version]
      BY <1>4 DEF ReviewApproves
  <2>2. /\ item' \in ItemType /\ item'.version = item.version /\ item'.state = "approved"
        /\ item'.head = item.head /\ item'.pr = item.pr /\ item'.reviewed = item.version
      BY <1>1, <2>1 DEF ItemType
  <2>3. ItemGoes
      BY <1>1, <1>2, <2>2 DEF ItemGoes
  <2>4. ItemInv'
      BY <1>1, <1>2, <2>1, <2>2 DEF ItemInv, RoleCommit
  <2> QED BY <1>2, <2>2, <2>3, <2>4, IdleKeeps
<1> QED BY <1>3, <1>4

(* The steps of a merge, and of the checkouts before and after one.            *)
LEMMA MergeSteps ==
    ASSUME WriterInv,
           MergeWorkItem \/ RepositoryAnswers \/ MergeAnswers \/ ArchiveExtracted \/ CommentAnswers
    PROVE  WriterInv'
<1>1. /\ WriterTypeOK /\ ItemInv /\ CallInv /\ SaidInv /\ hub \in HubType
      /\ item \in ItemType /\ said \in SaidType /\ doing.sha \in Nat /\ 0 \in Nat
    BY DoingFacts, Parts DEF WriterInv
<1>2. UNCHANGED <<hub, visits>> /\ HubGrows /\ hub' \in HubType
  <2>1. UNCHANGED <<hub, visits>>
      BY DEF MergeWorkItem, RepositoryAnswers, MergeAnswers, ArchiveExtracted, CommentAnswers
  <2> QED BY <1>1, <2>1, HubRests
<1>3. {"repository", "head", "branch", "merge"} \subseteq Tool \ {"none"}
    BY DEF Tool
<1>4. CASE MergeWorkItem
  <2>1. doing.kind = "none" /\ item.state = "approved" /\ said' = said
      BY <1>4 DEF MergeWorkItem
  <2>2. CASE item.pr = 0
    <3>1. item' = [item EXCEPT !.state = "blocked"] /\ UNCHANGED <<doing, exec>>
        BY <1>4, <2>2 DEF MergeWorkItem
    <3>2. item' \in ItemType /\ ItemInv' /\ ItemGoes
        BY <1>1, <1>2, <3>1, StateMoves
    <3> QED BY <1>2, <2>1, <3>1, <3>2, IdleKeeps
  <2>3. CASE item.pr # 0
    <3>1. Calls("merge", "repository", 0) /\ item' = item
        BY <1>4, <2>3 DEF MergeWorkItem
    <3> QED BY <1>1, <1>2, <1>3, <2>1, <3>1, AskingKeeps
  <2> QED BY <2>2, <2>3
<1>5. CASE RepositoryAnswers
  <2>1. doing.tool = "repository"
      BY <1>5 DEF RepositoryAnswers, Waits
  <2>2. /\ doing.kind \in {"prepare", "merge", "doctor"} /\ doing.kind # "none"
        /\ doing.kind = "prepare" => item.state = "new"
        /\ doing.kind = "merge" => item.state = "approved"
        /\ doing.kind = "doctor" => said.ready = ""
      BY <1>1, <2>1 DEF CallInv
  <2>3. CASE doing.kind = "prepare"
    <3>1. Calls(doing.kind, "head", doing.sha) /\ UNCHANGED <<item, said>>
        BY <1>5, <2>3 DEF RepositoryAnswers, Goes
    <3> QED BY <1>1, <1>2, <1>3, <2>2, <2>3, <3>1, AskingKeeps
  <2>4. CASE doing.kind = "doctor"
    <3>1. Calls(doing.kind, "branch", doing.sha) /\ UNCHANGED <<item, said>>
        BY <1>5, <2>4 DEF RepositoryAnswers, Goes
    <3> QED BY <1>1, <1>2, <1>3, <2>2, <2>4, <3>1, AskingKeeps
  <2>5. CASE doing.kind = "merge"
    <3>1. IF hub.default = "main" /\ item.head # 0
          THEN Goes("merge") /\ UNCHANGED <<item, said>>
          ELSE OperationFails
        BY <1>5, <2>5 DEF RepositoryAnswers
    <3>2. CASE hub.default = "main" /\ item.head # 0
      <4>1. Calls(doing.kind, "merge", doing.sha) /\ UNCHANGED <<item, said>>
          BY <3>1, <3>2 DEF Goes
      <4> QED BY <1>1, <1>2, <1>3, <2>2, <2>5, <3>2, <4>1, AskingKeeps
    <3>3. CASE ~(hub.default = "main" /\ item.head # 0)
      <4>1. OperationFails
          BY <3>1, <3>3
      <4>2. said.ready = "yes" => hub'.probe = "new"
          BY <1>1, <1>2 DEF SaidInv
      <4> QED BY <1>2, <2>2, <4>1, <4>2, FailureKeeps
    <3> QED BY <3>2, <3>3
  <2> QED BY <2>2, <2>3, <2>4, <2>5
<1>6. CASE MergeAnswers
  <2>1. /\ Did("merge") /\ doing.tool = "merge" /\ item' = [item EXCEPT !.state = "merged"]
        /\ Calls("snapshot", "head", 0) /\ said' = said
      BY <1>6 DEF MergeAnswers, Did, Waits
  <2>2. /\ item.state = "approved" /\ item.pr # 0 /\ hub.prs[item.pr].state = "merged"
        /\ hub.prs[item.pr].landed = item.head
      BY <1>1, <2>1 DEF CallInv
  <2>3. item' \in ItemType /\ ItemInv' /\ ItemGoes
      BY <1>1, <1>2, <2>1, <2>2, StateMoves
  <2>4. SaidInv' /\ said' \in SaidType
      BY <1>1, <1>2, <2>1 DEF SaidInv
  <2> QED BY <1>1, <1>2, <1>3, <2>1, <2>3, <2>4, CallingKeeps
<1>7. CASE ArchiveExtracted
  <2>1. /\ doing.tool = "archive" /\ Rests
        /\ said' = [said EXCEPT !.sha = doing.sha, !.tree = doing.sha]
        /\ item' = IF doing.kind = "prepare" THEN [item EXCEPT !.state = "based"] ELSE item
      BY <1>7 DEF ArchiveExtracted, Waits
  <2>2. /\ said' \in SaidType /\ said'.sha = doing.sha /\ said'.tree = doing.sha
        /\ said'.ready = said.ready
      BY <1>1, <2>1 DEF SaidType
  <2>3. SaidInv'
      BY <1>1, <1>2, <2>2 DEF SaidInv
  <2>4. item' \in ItemType /\ ItemInv' /\ ItemGoes
    <3>1. CASE doing.kind = "prepare"
      <4>1. item.state = "new" /\ item' = [item EXCEPT !.state = "based"]
          BY <1>1, <2>1, <3>1 DEF CallInv
      <4> QED BY <1>1, <1>2, <4>1, StateMoves
    <3>2. CASE doing.kind # "prepare"
      <4>1. item' = item
          BY <2>1, <3>2
      <4> QED BY <1>1, <1>2, <4>1, ItemStays, ItemRests
    <3> QED BY <3>1, <3>2
  <2> QED BY <1>2, <2>1, <2>2, <2>3, <2>4, RestingKeeps
<1>8. CASE CommentAnswers
  <2>1. Rests /\ UNCHANGED <<item, said>>
      BY <1>8 DEF CommentAnswers
  <2>2. SaidInv' /\ said' \in SaidType /\ item' \in ItemType /\ ItemInv' /\ ItemGoes
      BY <1>1, <1>2, <2>1, ItemStays, ItemRests DEF SaidInv
  <2> QED BY <1>2, <2>1, <2>2, RestingKeeps
<1> QED BY <1>4, <1>5, <1>6, <1>7, <1>8

(* The doctor passes on a write of its own, made while it had not answered.     *)
LEMMA DoctorSteps ==
    ASSUME WriterInv, Doctor \/ ProbeBranch \/ ProbeReset
    PROVE  WriterInv'
<1>1. /\ WriterTypeOK /\ ItemInv /\ CallInv /\ SaidInv /\ hub \in HubType
      /\ item \in ItemType /\ said \in SaidType /\ doing.sha \in Nat /\ 0 \in Nat
    BY DoingFacts, Parts DEF WriterInv
<1>2. /\ UNCHANGED <<item, visits>> /\ item' \in ItemType /\ ItemGoes
  <2>1. UNCHANGED <<item, visits>>
      BY DEF Doctor, ProbeBranch, ProbeReset
  <2> QED BY <1>1, <2>1, ItemRests
<1>3. {"tools", "reset"} \subseteq Tool \ {"none"}
    BY DEF Tool
<1>4. CASE Doctor
  <2>1. /\ said.ready = "" /\ Calls("doctor", "tools", 0) /\ said' = said
        /\ hub' = [hub EXCEPT !.probe = IF @ = "missing" THEN @ ELSE "old"]
      BY <1>4 DEF Doctor
  <2>2. /\ hub' \in HubType /\ hub'.commits = hub.commits /\ hub'.prs = hub.prs
      BY <1>1, <2>1 DEF HubType
  <2>3. HubGrows
      BY <1>1, <2>2, HubRests
  <2>4. ItemInv' /\ SaidInv' /\ said' \in SaidType
      BY <1>1, <1>2, <2>1, <2>3, ItemStays DEF SaidInv
  <2> QED BY <1>1, <1>2, <1>3, <2>1, <2>2, <2>3, <2>4, CallingKeeps
<1>5. CASE ProbeBranch
  <2>1. /\ doing.tool = "branch" /\ Calls(doing.kind, "reset", doing.sha) /\ said' = said
        /\ hub' = [hub EXCEPT !.probe = IF @ = "missing" THEN "new" ELSE @]
      BY <1>5 DEF ProbeBranch, Waits, Goes
  <2>2. /\ hub' \in HubType /\ hub'.commits = hub.commits /\ hub'.prs = hub.prs
        /\ hub'.probe \in {hub.probe, "new"}
      BY <1>1, <2>1 DEF HubType
  <2>3. HubGrows
      BY <1>1, <2>2, HubRests
  <2>4. ItemInv' /\ SaidInv' /\ said' \in SaidType
      BY <1>1, <1>2, <2>1, <2>2, <2>3, ItemStays DEF SaidInv
  <2>5. /\ doing.kind \in {"prepare", "publish", "merge", "snapshot", "comment", "doctor"}
        /\ doing.kind = "prepare" => item'.state = "new"
        /\ doing.kind = "publish" => item'.state = "built"
        /\ doing.kind = "merge" => item'.state = "approved"
        /\ doing.kind = "doctor" => said'.ready = ""
    <3>1. doing.kind # "none"
        BY <1>1, <2>1 DEF CallInv
    <3>2. doing.kind \in {"none", "prepare", "publish", "merge", "snapshot", "comment", "doctor"}
        BY <1>1, DoingFacts
    <3> QED BY <1>1, <1>2, <2>1, <3>1, <3>2 DEF CallInv
  <2> QED BY <1>1, <1>2, <1>3, <2>1, <2>2, <2>3, <2>4, <2>5, CallingKeeps
<1>6. CASE ProbeReset
  <2>1. /\ Rests /\ said' = [said EXCEPT !.ready = "yes"]
        /\ hub' = [hub EXCEPT !.probe = "new"]
      BY <1>6 DEF ProbeReset
  <2>2. /\ hub' \in HubType /\ hub'.commits = hub.commits /\ hub'.prs = hub.prs
        /\ hub'.probe = "new"
      BY <1>1, <2>1 DEF HubType
  <2>3. HubGrows
      BY <1>1, <2>2, HubRests
  <2>4. said' \in SaidType /\ said'.sha = said.sha /\ said'.tree = said.tree
      BY <1>1, <2>1 DEF SaidType
  <2>5. ItemInv' /\ SaidInv'
      BY <1>1, <1>2, <2>2, <2>3, <2>4, ItemStays DEF SaidInv
  <2> QED BY <1>2, <2>1, <2>2, <2>3, <2>4, <2>5, RestingKeeps
<1> QED BY <1>4, <1>5, <1>6

-----------------------------------------------------------------------------
(* The theorems.                                                              *)

LEMMA WriterStart ==
    ASSUME WriterInit
    PROVE  WriterInv
<1>1. PICK probe \in {"missing", "old"}, access \in {"read", "write"} :
          hub = [commits |-> <<>>, head |-> 0, tip |-> 1, default |-> "main", prs |-> <<>>,
                 probe |-> probe, access |-> access]
    BY DEF WriterInit
<1>2. /\ item \in [version : {0}, head : {0}, pr : {0}, reviewed : {0}, state : {"new", "blocked"}]
      /\ doing = [kind |-> "none", tool |-> "none", try |-> 0, sha |-> 0]
      /\ exec = [s \in Slot |-> NoToolRun]
      /\ said \in [sha : {0}, tree : {0}, ready : {"", "no"}]
      /\ visits = 0
    BY DEF WriterInit
<1>3. 0 \in 0 .. MaxVersion /\ 0 \in 0 .. Attempts /\ 0 \in 0 .. MaxVisit /\ "none" \in Tool
    BY WriterAssumption DEF Tool
<1>4. WriterTypeOK
  <2>1. <<>> \in Seq(CommitRecord) /\ <<>> \in Seq(PullRequest)
      OBVIOUS
  <2>2. hub \in HubType
      BY <1>1, <2>1 DEF HubType
  <2>3. item \in ItemType
    <3>1. {0} \subseteq 0 .. MaxVersion /\ {0} \subseteq Nat
        BY <1>3
    <3> QED BY <1>2, <3>1 DEF ItemType
  <2>4. doing \in DoingType
      BY <1>2, <1>3 DEF DoingType
  <2>5. exec \in [Slot -> ToolRun]
      BY <1>2, NoRun
  <2>6. said \in SaidType
    <3>1. said \in [sha : {0}, tree : {0}, ready : {"", "no"}]
        BY <1>2
    <3>2. {0} \subseteq Nat
        OBVIOUS
    <3> QED BY <3>1, <3>2 DEF SaidType
  <2>7. visits \in 0 .. MaxVisit
      BY <1>2, <1>3
  <2> QED BY <2>2, <2>3, <2>4, <2>5, <2>6, <2>7, Parts
<1>5. Len(hub.prs) = 0
    BY <1>1
<1>6. ItemInv /\ LandedInv
  <2>1. item.head = 0 /\ item.pr = 0 /\ item.state \in {"new", "blocked"}
      BY <1>2
  <2> QED BY <1>5, <2>1 DEF ItemInv, LandedInv
<1>7. \A s \in Slot : RunInv(s)
    BY <1>2, NoRun DEF RunInv, Does
<1>8. CallInv
  <2>1. exec["call"] = NoToolRun
      BY <1>2 DEF Slot
  <2> QED BY <1>2, <2>1, NoRun DEF CallInv, Did, Waits, Writes
<1>9. SaidInv
    BY <1>2 DEF SaidInv
<1> QED BY <1>4, <1>6, <1>7, <1>8, <1>9 DEF WriterInv

LEMMA WriterStep ==
    ASSUME WriterInv, [WriterNext]_writerVars
    PROVE  WriterInv'
<1>1. CASE WriterNext
    BY <1>1, FailedCallKeeps, ToolWorksKeeps, AskSteps, PublishSteps, PatchSteps, MergeSteps,
       DoctorSteps, PersonKeeps DEF WriterNext
<1>2. CASE UNCHANGED writerVars
  <2>1. UNCHANGED <<hub, item, doing, exec, said, visits>>
      BY <1>2 DEF writerVars
  <2>2. /\ WriterTypeOK /\ HubGrows /\ hub' \in HubType /\ visits' \in 0 .. MaxVisit
    <3>1. WriterTypeOK
        BY DEF WriterInv
    <3> QED BY <2>1, <3>1, HubRests, Parts
  <2> QED BY <2>1, <2>2, HubMovesAlone
<1> QED BY <1>1, <1>2

LEMMA WriterInvariant == WriterSpec => []WriterInv
BY WriterStart, WriterStep, PTL DEF WriterSpec

(* What the coordinator merges is the patch that was reviewed, whatever was      *)
(* pushed to the branch meanwhile and whichever of its calls went through late   *)
(* (GitHubClient.merge_work_item, the Gateway's merge_pull_request).            *)
THEOREM MergesAreReviewed == WriterSpec => []MergedIsReviewed
<1>1. WriterInv => MergedIsReviewed
    BY DEF WriterInv, LandedInv, RoleCommit, MergedIsReviewed
<1> QED BY <1>1, WriterInvariant, PTL

(* What it reports is so: a pull request in review carries the patch, one it     *)
(* calls merged was merged at the recorded head, a checkout is the tree of its   *)
(* commit, and a doctor that passes has written now.                           *)
THEOREM ReportsHold == WriterSpec => []ReportsAreTrue
<1>1. WriterInv => ReportsAreTrue
  <2> SUFFICES ASSUME WriterInv
               PROVE  ReportsAreTrue
      OBVIOUS
  <2>1. ItemInv /\ SaidInv
      BY DEF WriterInv
  <2> QED BY <2>1 DEF ItemInv, SaidInv, RoleCommit, ReportsAreTrue
<1> QED BY <1>1, WriterInvariant, PTL

(* A refresh replaces no person's commit that was on the branch when it looked    *)
(* (commit_changes: expected_parent).                                          *)
THEOREM SeenCommitsStay == WriterSpec => SeenCommitsAreKept
<1>1. WriterInv =>
        [\A s \in Slot : /\ Does(s, "commit", "move") /\ hub'.head # hub.head
                         /\ exec[s].expects # 0 /\ exec[s].sees = hub.head
                         => hub.commits[hub.head].by = "role"]_writerVars
  <2> SUFFICES ASSUME WriterInv, NEW s \in Slot, Does(s, "commit", "move"),
                      exec[s].expects # 0, exec[s].sees = hub.head
               PROVE  hub.commits[hub.head].by = "role"
      OBVIOUS
  <2>1. RunInv(s)
      BY DEF WriterInv
  <2> QED BY <2>1 DEF RunInv, RoleCommit
<1> QED BY <1>1, WriterInvariant, PTL DEF SeenCommitsAreKept
==============================================================================
