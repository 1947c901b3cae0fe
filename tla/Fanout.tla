------------------------------- MODULE Fanout -------------------------------
(***************************************************************************)
(* One agent of coding-agents/fanout.py: a session on the Runtime clones the   *)
(* bare repository, runs its agent and force-pushes the agent's one branch,    *)
(* and the host reads the session's output, collects the branch and checks it  *)
(* out as a worktree.  Agents have branches and worktrees of their own, so one *)
(* stands for all.  A session whose stream broke may go on running: its retry, *)
(* and the next run of the script, push the same branch.                       *)
(***************************************************************************)
EXTENDS Integers

CONSTANTS MaxSession,       \* bound: sessions started, over every run of the script
          Retries           \* NO_WORK_RETRIES

ASSUME FanoutAssumption == MaxSession \in Nat \ {0} /\ Retries \in Nat

Sessions == 1 .. MaxSession
NoSession == 0

VARIABLES tile,         \* the host's record of the agent
          agentSession, \* per session: what it did last
          branch,       \* sessions whose push the branch took, latest last pushed
          pushes,       \* how many pushes the branch took
          checkout      \* the worktree: the session whose commit it holds, own edits

fanoutVars == <<tile, agentSession, branch, pushes, checkout>>

AgentStage == {"none", "booted", "clone_failed", "working", "push_failed", "pushed", "killed"}
RunningStages == {"booted", "working"}

FanoutTypeOK ==
    /\ tile.step \in {"idle", "session", "ended", "fetch", "add", "over"}
    /\ tile.state \in {"queued", "starting", "working", "collecting", "done", "failed"}
    /\ tile.session \in 0 .. MaxSession /\ tile.retry \in 0 .. Retries
    /\ tile.up \in BOOLEAN /\ tile.errors \in BOOLEAN /\ tile.cloneFailed \in BOOLEAN
    /\ tile.pushed \in 0 .. MaxSession /\ tile.fetched \in 0 .. MaxSession
    /\ tile.collected \in BOOLEAN /\ tile.keptEdits \in BOOLEAN /\ tile.agentDone \in BOOLEAN
    /\ agentSession \in [Sessions -> AgentStage]
    /\ branch \in [Sessions -> 0 .. MaxSession] /\ pushes \in 0 .. MaxSession
    /\ checkout.holds \in 0 .. MaxSession /\ checkout.edited \in BOOLEAN

NewTile(s) == [step |-> "idle", state |-> "queued", session |-> s, retry |-> 0, up |-> FALSE,
               errors |-> FALSE, cloneFailed |-> FALSE, pushed |-> NoSession, fetched |-> NoSession,
               collected |-> FALSE, keptEdits |-> FALSE, agentDone |-> FALSE]

FanoutInit ==
    /\ tile = NewTile(0)
    /\ agentSession = [s \in Sessions |-> "none"]
    /\ branch = [n \in Sessions |-> NoSession] /\ pushes = 0
    /\ checkout = [holds |-> NoSession, edited |-> FALSE]

----------------------------------------------------------------------------
(* agent_command, in its session.                                           *)

SessionBecomes(s, stage) == agentSession' = [agentSession EXCEPT ![s] = stage]

Clones(s) ==
    /\ agentSession[s] = "booted"
    /\ SessionBecomes(s, "clone_failed") \/ SessionBecomes(s, "working")
    /\ UNCHANGED <<tile, branch, pushes, checkout>>

\* git push -f: the branch takes the session's commit whatever it held.
Pushes(s) ==
    /\ agentSession[s] = "working"
    /\ \/ /\ SessionBecomes(s, "pushed")
          /\ branch' = [branch EXCEPT ![pushes + 1] = s] /\ pushes' = pushes + 1
       \/ SessionBecomes(s, "push_failed") /\ UNCHANGED <<branch, pushes>>
    /\ UNCHANGED <<tile, checkout>>

----------------------------------------------------------------------------
(* run_tile and run_tile_with_one_retry.                                     *)

(* The command is accepted and its session boots, or the call fails: before     *)
(* the session began, or after it.                                          *)
InvokeAgent ==
    /\ tile.step = "idle" /\ tile.session < MaxSession
    /\ LET s == tile.session + 1
       IN /\ \/ /\ SessionBecomes(s, "booted")
                /\ tile' = [tile EXCEPT !.step = "session", !.state = "starting", !.session = s]
             \/ /\ UNCHANGED agentSession \/ SessionBecomes(s, "booted")
                /\ tile' = [tile EXCEPT !.step = "ended", !.state = "failed", !.session = s,
                                        !.errors = TRUE]
          /\ UNCHANGED <<branch, pushes, checkout>>

CurrentStage == agentSession[tile.session]

(* read_line, for the lines that decide: UP comes with the boot.              *)
ReadUp ==
    /\ tile.step = "session" /\ ~tile.up
    /\ tile' = [tile EXCEPT !.up = TRUE, !.state = "working"]
    /\ UNCHANGED <<agentSession, branch, pushes, checkout>>

(* The stream ends with the command: the rest of its lines are read, and a      *)
(* session that pushed and left 0 is done.                                   *)
StreamDone ==
    /\ tile.step = "session" /\ tile.up /\ CurrentStage \notin RunningStages
    /\ \E zero \in BOOLEAN :
         tile' = [tile EXCEPT
           !.step = "ended",
           !.pushed = IF CurrentStage = "pushed" THEN tile.session ELSE NoSession,
           !.cloneFailed = CurrentStage = "clone_failed",
           !.errors = @ \/ CurrentStage \in {"clone_failed", "push_failed"},
           !.state = IF zero /\ CurrentStage = "pushed" THEN "done" ELSE "failed"]
    /\ UNCHANGED <<agentSession, branch, pushes, checkout>>

(* The stream breaks, perhaps after the receipt of the push was read;           *)
(* stop_runtime_session may or may not reach the session.                     *)
StreamBreaks ==
    /\ tile.step = "session"
    /\ \E receipt \in {NoSession, tile.session} :
         /\ receipt # NoSession => tile.up /\ CurrentStage = "pushed"
         /\ tile' = [tile EXCEPT !.step = "ended", !.state = "failed", !.errors = TRUE,
                                 !.pushed = receipt]
    /\ UNCHANGED agentSession \/ (CurrentStage \in RunningStages /\ SessionBecomes(tile.session, "killed"))
    /\ UNCHANGED <<branch, pushes, checkout>>

NoWork == ~tile.up \/ tile.cloneFailed

(* A failure before the agent started gets a new session; what else ended is    *)
(* a result, collected when it pushed.                                       *)
AfterSession ==
    /\ tile.step = "ended"
    /\ tile' = IF tile.state = "failed" /\ NoWork /\ tile.errors /\ tile.retry < Retries
               THEN [tile EXCEPT !.step = "idle", !.retry = @ + 1, !.state = "starting",
                                 !.up = FALSE, !.cloneFailed = FALSE]
               ELSE IF tile.pushed = NoSession THEN [tile EXCEPT !.step = "over"]
               ELSE [tile EXCEPT !.step = "fetch", !.agentDone = tile.state = "done",
                       !.state = IF tile.state = "done" THEN "collecting" ELSE @]
    /\ UNCHANGED <<agentSession, branch, pushes, checkout>>

----------------------------------------------------------------------------
(* collect: the mount shows the branch with a delay.                         *)

(* A GitError of collect.                                                    *)
NotCollected == tile' = [tile EXCEPT !.step = "over", !.state = "failed"]

Fetch ==
    /\ tile.step = "fetch"
    /\ \/ \E n \in 1 .. pushes :
            tile' = [tile EXCEPT !.step = "add", !.fetched = branch[n]]
       \/ NotCollected     \* a minute passed
    /\ UNCHANGED <<agentSession, branch, pushes, checkout>>

\* Slip: whatever the fetch brought is taken for what the session pushed.
MovedUnnoticed == tile.fetched = NoSession

Moved == tile.fetched # tile.pushed

(* add_worktree leaves a worktree with uncommitted edits as it is.             *)
PlacesCheckout ==
    checkout' = IF checkout.edited THEN checkout ELSE [checkout EXCEPT !.holds = tile.fetched]

(* Git may fail before the worktree is placed, as it does for a branch that moved, *)
(* and after: shortstat fails, and the worktree has moved uncollected.         *)
AddWorktree ==
    /\ tile.step = "add"
    /\ \/ /\ ~Moved /\ PlacesCheckout
          /\ \/ tile' = [tile EXCEPT !.step = "over", !.collected = TRUE,
                            !.keptEdits = checkout.edited,
                            !.state = IF tile.agentDone THEN "done" ELSE "failed"]
             \/ NotCollected
       \/ NotCollected /\ UNCHANGED checkout
    /\ UNCHANGED <<agentSession, branch, pushes>>

Edit ==
    /\ checkout.holds # NoSession /\ ~checkout.edited
    /\ checkout' = [checkout EXCEPT !.edited = TRUE]
    /\ UNCHANGED <<tile, agentSession, branch, pushes>>

(* The script is run again; sessions of the run before may still work.         *)
RunAgain ==
    /\ tile.step = "over" /\ tile.session < MaxSession
    /\ tile' = NewTile(tile.session)
    /\ UNCHANGED <<agentSession, branch, pushes, checkout>>

FanoutNext ==
    \/ \E s \in Sessions : Clones(s) \/ Pushes(s)
    \/ InvokeAgent \/ ReadUp \/ StreamDone \/ StreamBreaks \/ AfterSession
    \/ Fetch \/ AddWorktree \/ Edit \/ RunAgain

FanoutSpec == FanoutInit /\ [][FanoutNext]_fanoutVars

----------------------------------------------------------------------------
(* Properties.                                                              *)

(* What the board calls collected is what this run's own session pushed,       *)
(* though an earlier session of the same agent may push the branch later; and  *)
(* an agent reported done has its worktree.                                   *)
CollectedIsPushed ==
    /\ tile.collected /\ ~tile.keptEdits => checkout.holds = tile.session
    /\ tile.step = "over" /\ tile.state = "done" => tile.collected /\ tile.pushed = tile.session
==============================================================================
