------------------------------ MODULE WorkItems ------------------------------
(***************************************************************************)
(* The trees of the builders of one run (orchestrator/work_items.py), in the     *)
(* order their shared brief gives them (integration_plan.create).  Each builder  *)
(* works on a checkout of the default branch; its pull request is the patch       *)
(* from the base it received to what it left there.  A pull request lands by      *)
(* itself on the branch as it stands, and those still open are carried onto the   *)
(* branch that a sibling moved, by the engine where no path conflicts and by      *)
(* their owner otherwise.                                                      *)
(*                                                                           *)
(* A file is who wrote it; a second writing by the same builder looks the same.   *)
(* Four paths tell the cases apart: two that cannot both be files, the ignore     *)
(* file, and a path it ignores.                                                *)
(***************************************************************************)
EXTENDS Integers, Sequences, FiniteSets

CONSTANTS Roster,    \* the builders routed to the run, in the registry's order
          MaxEdit    \* bound: paths one turn of a builder changes

Builder == {Roster[i] : i \in DOMAIN Roster}

ASSUME RosterAssumption ==
    /\ Roster \in Seq(Builder)
    /\ \A i, j \in DOMAIN Roster : Roster[i] = Roster[j] => i = j

WorkPath == {"rules", "out", "dir", "leaf"}     \* leaf is a file in directory dir
Missing == "missing"
Seeded == "seeded"                              \* written before the run

(* What a directory can hold: no path is a file and a directory.              *)
WorkTree == {t \in [WorkPath -> {Missing, Seeded} \cup Builder] :
                t["dir"] = Missing \/ t["leaf"] = Missing}
NoFiles == [p \in WorkPath |-> Missing]
Ignores(t, p) == p = "out" /\ t["rules"] # Missing

VARIABLES brief,     \* the replies asked for, and the merge order agreed on
          trunk,     \* the default branch: each tree it had, and who landed it
          piece      \* per builder: its work item and its checkout

workVars == <<brief, trunk, piece>>

PieceState == {"working", "in_review", "refreshing", "repairing", "failed", "left", "merged"}

(* base indexes branch; prior is .workshop/prior-work.  left and seen are what the *)
(* owner's own last turn ended with, and on which base.                         *)
FreshCheckout(n, t) ==
    [state |-> "working", base |-> n, work |-> t, prior |-> NoFiles,
     left |-> t, seen |-> n, repaired |-> FALSE, refreshed |-> FALSE]

WorkTypeOK ==
    /\ brief \in [state : {"asked", "asked_again", "agreed", "refused", "cycle", "broken"},
                  reply : Seq(Builder), order : Seq(Builder)]
    /\ \A n \in DOMAIN trunk :
          trunk[n] \in [tree : WorkTree, by : Builder \cup {Seeded}, seen : 1..n]
    /\ piece \in [Builder ->
          [state : PieceState, base : DOMAIN trunk, work : WorkTree,
           prior : [WorkPath -> {Missing, Seeded} \cup Builder],
           left : WorkTree, seen : DOMAIN trunk, repaired : BOOLEAN, refreshed : BOOLEAN]]

WorkInit ==
    /\ brief = [state |-> "asked", reply |-> <<>>, order |-> <<>>]
    /\ \E t \in WorkTree :
          /\ t["rules"] = Missing /\ \A p \in WorkPath : t[p] \in {Missing, Seeded}
          /\ trunk = <<[tree |-> t, by |-> Seeded, seen |-> 1]>>
          /\ piece = [r \in Builder |-> FreshCheckout(1, t)]

-----------------------------------------------------------------------------
(* The brief.                                                                *)

\* Slip: every builder is named, perhaps twice.
NamesEveryBuilder(order) == {order[i] : i \in DOMAIN order} = Builder

(* _validate: every builder, once.                                           *)
Agrees(order) ==
    Len(order) = Len(Roster) /\ {order[i] : i \in DOMAIN order} = Builder

(* create: each item depends on the one before it in the merge order.          *)
DependsOn(order) ==
    [r \in Builder |-> LET i == CHOOSE i \in DOMAIN order :
                                  order[i] = r /\ \A j \in DOMAIN order : order[j] = r => j <= i
                       IN  IF i = 1 THEN {} ELSE {order[i - 1]}]

(* dependency_order: round by round, all whose dependencies are out, in the     *)
(* input's order.  It is shorter than the roster where there is a cycle.        *)
Ready(depends, done) ==
    {i \in DOMAIN Roster : Roster[i] \notin done /\ depends[Roster[i]] \subseteq done}
InInputOrder(ready) ==
    LET s == CHOOSE s \in [1..Cardinality(ready) -> ready] :
                 \A i, j \in DOMAIN s : i < j => s[i] < s[j]
    IN  [i \in DOMAIN s |-> Roster[s[i]]]
Round(depends, out) ==
    out \o InInputOrder(Ready(depends, {out[i] : i \in DOMAIN out}))
DependencyOrder(depends) ==
    LET out[n \in Nat] == IF n = 0 THEN <<>> ELSE Round(depends, out[n - 1])
    IN  out[Len(Roster)]

(* A reply of the model is a merge order, of which <<>> stands for all that is  *)
(* not usable.  One that does not agree is asked for once more.                *)
BriefReply ==
    /\ brief.state \in {"asked", "asked_again"}
    /\ \E reply \in UNION {[1..n -> Builder] : n \in 0..Len(Roster) + 1} :
          brief' = IF Agrees(reply)
                   THEN LET order == DependencyOrder(DependsOn(reply))
                        IN  [state |-> IF Len(order) = Len(Roster) THEN "agreed" ELSE "cycle",
                             reply |-> reply, order |-> order]
                   ELSE [brief EXCEPT !.state = IF @ = "asked" THEN "asked_again" ELSE "refused"]
    /\ UNCHANGED <<trunk, piece>>

(* llm.invoke raises: the run fails before any builder starts.                 *)
NoBrief ==
    /\ brief.state \in {"asked", "asked_again"}
    /\ brief' = [brief EXCEPT !.state = "refused"]
    /\ UNCHANGED <<trunk, piece>>

-----------------------------------------------------------------------------
(* Patches.                                                                  *)

(* diff_trees: a new file that the work tree itself ignores is no change.       *)
Changes(base, work) ==
    {p \in WorkPath : base[p] # work[p] /\ ~(base[p] = Missing /\ Ignores(work, p))}

Patched(tree, paths, work) == [p \in WorkPath |-> IF p \in paths THEN work[p] ELSE tree[p]]

\* Slip: a path that the branch no longer has does not conflict.
ConflictsOfEdits(base, work, now) ==
    {p \in Changes(base, work) : now[p] \notin {base[p], work[p], Missing}}

(* The paths that the branch changed too, and differently.                     *)
Conflicts(base, work, now) ==
    {p \in Changes(base, work) : now[p] \notin {base[p], work[p]}}

(* Writing the files one by one meets a directory where a file shall be, or the  *)
(* reverse: dir is written before leaf.  The error is the system's, no StalePatch. *)
Clash(now, paths, work) ==
    \/ "dir" \in paths /\ work["dir"] # Missing /\ now["leaf"] # Missing
    \/ "leaf" \in paths /\ work["leaf"] # Missing /\ now["dir"] # Missing /\ "dir" \notin paths

(* prepare_refresh_checkout also removes what the branch has lost itself: writing *)
(* or removing dir fails where it is a directory, and anything below it where dir *)
(* is, or was just written, a file.                                           *)
RefreshClash(now, paths, work) ==
    \/ "dir" \in paths /\ now["leaf"] # Missing
    \/ "leaf" \in paths /\ Patched(now, paths, work)["dir"] # Missing

Tip == Len(trunk)

(* reset_worktree: nothing of the earlier checkout stays.                     *)
ResetWorktree(c, seed, prior) == [c EXCEPT !.base = Tip, !.work = seed, !.prior = prior]

TrunkTree == trunk[Tip].tree
BaseOf(r) == trunk[piece[r].base].tree
PatchOf(r) == Changes(BaseOf(r), piece[r].work)

-----------------------------------------------------------------------------
(* A builder's turn.                                                         *)

(* What a builder may leave in its checkout.                                  *)
Edited(r, t) ==
    {u \in WorkTree : /\ \A p \in WorkPath : u[p] \in {t[p], Missing, r}
                      /\ Cardinality({p \in WorkPath : u[p] # t[p]}) <= MaxEdit}

Owned(r) == piece[r].state \in {"working", "refreshing", "repairing"}

(* _require_item_change and the publication of the patch.                      *)
OwnerTurn(r) ==
    /\ brief.state = "agreed" /\ Owned(r)
    /\ \E t \in Edited(r, piece[r].work) :
          piece' = IF Changes(BaseOf(r), t) = {}
                   THEN [piece EXCEPT ![r].state = "failed", ![r].work = t]
                   ELSE [piece EXCEPT ![r].state = "in_review", ![r].work = t,
                                      ![r].left = t, ![r].seen = piece[r].base]
    /\ UNCHANGED <<brief, trunk>>

OwnerTurnFails(r) ==
    /\ brief.state = "agreed" /\ Owned(r)
    /\ piece' = [piece EXCEPT ![r].state = "failed"]
    /\ UNCHANGED <<brief, trunk>>

-----------------------------------------------------------------------------
(* The pull requests, in dependency order.                                    *)

Settled(r) == piece[r].state \in {"failed", "left", "merged"}
IsNext(r) ==
    /\ brief.state = "agreed" /\ piece[r].state = "in_review"
    /\ \E i \in DOMAIN brief.order :
          brief.order[i] = r /\ \A j \in 1..i - 1 : Settled(brief.order[j])

(* What apply_patch writes: what the branch does not say already.               *)
ToWrite(r) == {p \in PatchOf(r) : TrunkTree[p] # piece[r].work[p]}
Builds(r) == ~Clash(TrunkTree, ToWrite(r), piece[r].work)

(* The check and the review pass on the tree that apply_patch builds, and the    *)
(* pull request is merged: in the early pass before any refresh.                *)
MergeItem(r) ==
    /\ IsNext(r) /\ Builds(r)
    /\ Conflicts(BaseOf(r), piece[r].work, TrunkTree) = {}
    /\ trunk' = Append(trunk, [tree |-> Patched(TrunkTree, ToWrite(r), piece[r].work),
                                 by |-> r, seen |-> piece[r].seen])
    /\ piece' = [piece EXCEPT ![r].state = "merged"]
    /\ UNCHANGED brief

(* Refresh has been considered; the check or the review does not pass.          *)
AskRepair(r) ==
    /\ IsNext(r) /\ Builds(r) /\ piece[r].base = Tip
    /\ piece' = [piece EXCEPT ![r].state = IF piece[r].repaired THEN "left" ELSE "repairing",
                              ![r].repaired = TRUE]
    /\ UNCHANGED <<brief, trunk>>

(* The policy leaves it to a person, it has no check, or its tree cannot be      *)
(* built, which the checker's turn fails with.                                *)
LeaveToPerson(r) ==
    /\ IsNext(r)
    /\ piece' = [piece EXCEPT ![r].state = "left"]
    /\ UNCHANGED <<brief, trunk>>

(* _refresh_after_sibling_merge: the checkout is replaced by the branch with the *)
(* changes that do not conflict.  A patch that becomes empty, or a publication   *)
(* that fails, leaves the pull request to a person; an error in writing the      *)
(* files ends the run.                                                       *)
RefreshItem(r) ==
    LET patch == PatchOf(r)
        stale == Conflicts(BaseOf(r), piece[r].work, TrunkTree)
        seed == Patched(TrunkTree, patch \ stale, piece[r].work)
    IN  /\ IsNext(r) /\ piece[r].base < Tip /\ ~piece[r].refreshed
        /\ IF RefreshClash(TrunkTree, patch \ stale, piece[r].work)
           THEN brief' = [brief EXCEPT !.state = "broken"] /\ UNCHANGED piece
           ELSE /\ UNCHANGED brief
                /\ \E outcome \in IF stale # {} THEN {"refreshing"}
                                  ELSE IF Changes(TrunkTree, seed) = {} THEN {"left"}
                                  ELSE {"in_review", "left"} :
                      piece' = [piece EXCEPT ![r] =
                        [ResetWorktree(@, seed, Patched(NoFiles, stale, piece[r].work))
                           EXCEPT !.state = outcome, !.refreshed = TRUE]]
        /\ UNCHANGED trunk

WorkNext ==
    \/ BriefReply \/ NoBrief
    \/ \E r \in Builder : \/ OwnerTurn(r) \/ OwnerTurnFails(r)
                          \/ MergeItem(r) \/ AskRepair(r) \/ LeaveToPerson(r) \/ RefreshItem(r)

WorkSpec == WorkInit /\ [][WorkNext]_workVars

-----------------------------------------------------------------------------
(* Properties.                                                               *)

(* A brief that was accepted is the order in which the work is judged: its chain *)
(* of dependencies is no cycle, and ordering it again gives it back.            *)
BriefIsKept == /\ brief.state # "cycle"
               /\ brief.state \in {"agreed", "broken"} => brief.order = brief.reply

(* What the owner's own last turn changed.                                    *)
Authored(r) == Changes(trunk[piece[r].seen].tree, piece[r].left)

(* A landing changes what its owner changed and no more, and replaces nothing    *)
(* that landed after the base its owner's own last turn began with, whether the   *)
(* pull request was built on a moved branch or refreshed onto it.               *)
NothingLandedIsLost ==
    \A n \in 2..Tip, p \in WorkPath :
      trunk[n].tree[p] # trunk[n - 1].tree[p] =>
        /\ p \in Authored(trunk[n].by)
        /\ trunk[n - 1].tree[p] = trunk[trunk[n].seen].tree[p]

(* What the owner changed is in its pull request and in what lands, carried over  *)
(* any refresh, or lies before the owner who has to settle a conflict (a removal   *)
(* is only listed).                                                          *)
IsCarried(r, p) ==
    LET kept(t) == t[p] = piece[r].left[p]
    IN  /\ piece[r].state = "refreshing" =>
              kept(piece[r].work) \/ kept(piece[r].prior) \/ piece[r].left[p] = Missing
        /\ piece[r].state = "in_review" => kept(Patched(BaseOf(r), PatchOf(r), piece[r].work))
        /\ \A n \in 2..Tip : trunk[n].by = r => kept(trunk[n].tree)

(* "Non-conflicting changes are carried forward" (prepare_refresh_checkout), but  *)
(* for a new file that the branch came to ignore meanwhile: it is in the refreshed *)
(* checkout, and diff_trees no longer sees it.                                 *)
WorkIsCarried ==
    \A r \in Builder : \A p \in Authored(r) : Ignores(BaseOf(r), p) \/ IsCarried(r, p)

(* The brief's order is kept, and along it the work of every builder lands whole  *)
(* and replaces no other's.  (With the variables' types.)                       *)
WorkLandsWhole == WorkTypeOK /\ BriefIsKept /\ NothingLandedIsLost /\ WorkIsCarried
==============================================================================
