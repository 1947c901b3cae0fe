---------------------------- MODULE ProvenDelivery ----------------------------
(***************************************************************************)
(* What the pull-request loop promises the repository's owner.  A pull     *)
(* request offers a patch that may change until it is approved, and never  *)
(* after; the default branch only grows, by approved patches, in the order *)
(* of the pull requests and each once; and a run that says it passed has   *)
(* had every one of its pull requests approved.  Nothing follows its       *)
(* answer.                                                                 *)
(***************************************************************************)
EXTENDS Naturals, Sequences

CONSTANT Item      \* the run's pull requests, numbered in dependency order

VARIABLES offered,  \* per pull request, the patch it offers
          approved, \* the pull requests whose patch was gated green and approved
          branch,   \* what the default branch received: <<pull request, patch>>
          answer    \* the run's status

vars == <<offered, approved, branch, answer>>

Merged == {branch[k][1] : k \in 1..Len(branch)}

TypeOK == /\ DOMAIN offered = Item
          /\ Merged \subseteq approved /\ approved \subseteq Item
          /\ answer \in {"running", "passed", "needs_human", "failed"}

Init == /\ DOMAIN offered = Item
        /\ approved = {}
        /\ branch = <<>>
        /\ answer = "running"

(* Work on a pull request that nobody approved.                             *)
Rework(i) == /\ i \notin approved
             /\ offered' = [offered EXCEPT ![i] = offered'[i]]
             /\ UNCHANGED <<approved, branch>>

Approve(i) == /\ i \notin approved
              /\ approved' = approved \cup {i}
              /\ UNCHANGED <<offered, branch>>

(* A merge acts on an approval, which it may follow at once.                *)
Merge(i) == /\ \A j \in Merged : j < i
            /\ approved' = approved \cup {i}
            /\ branch' = Append(branch, <<i, offered[i]>>)
            /\ UNCHANGED offered

Conclude(s) == /\ s = "passed" => approved = Item
               /\ answer' = s
               /\ UNCHANGED <<offered, approved, branch>>

Next == /\ answer = "running"
        /\ \/ \E i \in Item : (Rework(i) \/ Approve(i) \/ Merge(i)) /\ UNCHANGED answer
           \/ \E s \in {"passed", "needs_human", "failed"} : Conclude(s)

Spec == Init /\ [][Next]_vars
===============================================================================
