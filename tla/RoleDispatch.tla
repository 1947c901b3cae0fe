---------------------------- MODULE RoleDispatch ----------------------------
(***************************************************************************)
(* One role turn on a remote AgentCore Runtime and the archives it is       *)
(* handed over with: engine._runtime_cli, runtime_exec.run_in_runtime, the  *)
(* console's PTY (interactive-api/runtime_shell.py) and runtime_stage.      *)
(*                                                                         *)
(* A turn is at most two attempts.  An attempt opens a fresh remote session, *)
(* hydrates the role's input archive there, runs the CLI, and uploads one   *)
(* create-only result under its own handoff key.  Without a console the     *)
(* whole attempt is one shell command with an exit status; with one, the    *)
(* CLI is a TUI in a shared PTY that never exits, so the end of the turn is *)
(* inferred from silence and a second shell packs the tree.  A result that  *)
(* is accepted becomes the role's next input.  The remote process goes on   *)
(* whatever happens to the connection.                                      *)
(***************************************************************************)
EXTENDS Integers, FiniteSets

CONSTANTS Item,        \* the run's roles, each with one checkout (work item)
          Checker,     \* those that may be asked again after a failed turn
          Hosted,      \* those whose Runtime a console in this process can open
          MaxTurn,     \* bound: turns asked of one role
          Stalls       \* the PTY's frames may stop while its TUI still works

ASSUME DispatchAssumption == Checker \subseteq Item /\ Hosted \subseteq Item
                             /\ MaxTurn \in Nat /\ Stalls \in BOOLEAN

Attempt == 1 .. 2 * MaxTurn

(* A tree is what the attempts put into it, each wholly or in part.          *)
Tree == SUBSET (Attempt \X {"whole", "part"})
Base == {}
NoTree == {<<0, "absent">>}

VARIABLES phase,    \* per role: where its dispatch is
          turns,    \* per role: turns asked so far
          tries,    \* per role: dispatches of this turn, at most two
          attempt,  \* per role: the latest attempt, numbered over all turns
          console,  \* per role and attempt: it drives a console PTY
          proc,     \* per role and attempt: the remote process
          packing,  \* per role and attempt: the snapshot shell beside a PTY
          tree,     \* per role and attempt: the remote worktree
          result,   \* per role and attempt: the archive at its handoff key
          input,    \* per role: the coordinator-owned input archive
          unsettled,\* run._unsettled_runtime_sessions, as <<role, attempt>>
          exchange  \* "open", "kept", or "deleted" when the run has ended

vars == <<phase, turns, tries, attempt, console, proc, packing, tree, result,
          input, unsettled, exchange>>
remote == <<proc, packing, tree, result>>
ledger == <<turns, tries, attempt, console>>

Between == {"done", "failed", "unsettled"}
Phase == Between \cup {"idle", "redispatch", "opening", "watching", "ready",
                       "waiting", "snapshot", "watchingSnapshot", "accepting"}
ProcState == {"none", "sent", "idle", "working", "finished", "failed",
              "exit0", "exit1", "gone"}
PackState == {"none", "running", "exit0", "exit1"}

TypeOK ==
    /\ phase \in [Item -> Phase]
    /\ turns \in [Item -> 0 .. MaxTurn]
    /\ tries \in [Item -> 0 .. 2]
    /\ attempt \in [Item -> 0 .. 2 * MaxTurn]
    /\ console \in [Item -> [Attempt -> BOOLEAN]]
    /\ proc \in [Item -> [Attempt -> ProcState]]
    /\ packing \in [Item -> [Attempt -> PackState]]
    /\ tree \in [Item -> [Attempt -> Tree]]
    /\ result \in [Item -> [Attempt -> Tree \cup {NoTree}]]
    /\ input \in [Item -> Tree \cup {NoTree}]
    /\ unsettled \subseteq Item \X Attempt
    /\ exchange \in {"open", "kept", "deleted"}

Init ==
    /\ phase = [i \in Item |-> "idle"]
    /\ turns = [i \in Item |-> 0]
    /\ tries = [i \in Item |-> 0]
    /\ attempt = [i \in Item |-> 0]
    /\ console = [i \in Item |-> [a \in Attempt |-> FALSE]]
    /\ proc = [i \in Item |-> [a \in Attempt |-> "none"]]
    /\ packing = [i \in Item |-> [a \in Attempt |-> "none"]]
    /\ tree = [i \in Item |-> [a \in Attempt |-> Base]]
    /\ result = [i \in Item |-> [a \in Attempt |-> NoTree]]
    /\ input = [i \in Item |-> Base]
    /\ unsettled = {}
    /\ exchange = "open"

To(i, p) == phase' = [phase EXCEPT ![i] = p]
Becomes(i, a, s) == proc' = [proc EXCEPT ![i][a] = s]
OnConsole(i) == console[i][attempt[i]]
Latest(i) == proc[i][attempt[i]]
Snapshot(i) == packing[i][attempt[i]]

-----------------------------------------------------------------------------
(* Asking for a turn.  A builder whose turn failed has no candidate left to  *)
(* repair; the checker may still be asked for a deferred check.              *)

AskAgain(i) == phase[i] \in {"idle", "done"} \/ (i \in Checker /\ phase[i] \in Between)

(* _live_session_for: a console PTY when this process hosts one, or headless *)
(* when it does not or could not open it.                                    *)
Opens(i) == console' \in {console, [console EXCEPT ![i][attempt[i] + 1] = i \in Hosted]}

(* _runtime_cli: the first of the turn's two attempts.  Between turns the    *)
(* engine may have staged a refreshed checkout over the input archive.       *)
BeginTurn(i) ==
    /\ exchange = "open"
    /\ AskAgain(i)
    /\ turns[i] < MaxTurn
    /\ turns' = [turns EXCEPT ![i] = @ + 1]
    /\ tries' = [tries EXCEPT ![i] = 1]
    /\ attempt' = [attempt EXCEPT ![i] = @ + 1]
    /\ Opens(i)
    /\ input' \in {input, [input EXCEPT ![i] = Base]}
    /\ To(i, "opening")
    /\ UNCHANGED <<remote, unsettled, exchange>>

(* One bounded re-dispatch on a fresh shell.                                 *)
Redispatch(i) ==
    /\ phase[i] = "redispatch"
    /\ tries' = [tries EXCEPT ![i] = @ + 1]
    /\ attempt' = [attempt EXCEPT ![i] = @ + 1]
    /\ Opens(i)
    /\ To(i, "opening")
    /\ UNCHANGED <<turns, remote, input, unsettled, exchange>>

(* Slip: a failed dispatch is repeated until one succeeds.                   *)
RetryForEver(i) == To(i, "redispatch")

(* A RoleExecutionError of the attempt: retried once, then the role failed.  *)
RoleExecutionError(i) ==
    To(i, IF tries[i] < 2 THEN "redispatch" ELSE "failed")

(* Slip: an unknown completion is handled as any other failed dispatch.      *)
UnsettledRetried(i) ==
    /\ RoleExecutionError(i)
    /\ unsettled' = unsettled

(* RemoteExecutionUnsettled: recorded, and never re-dispatched by this turn. *)
Unsettled(i) ==
    /\ To(i, "unsettled")
    /\ unsettled' = unsettled \cup {<<i, attempt[i]>>}

-----------------------------------------------------------------------------
(* Without a console: one shell command and its exit status.                 *)

(* Every open attempt failed: nothing was typed.  The error is the           *)
(* transport's own, which _runtime_cli does not retry.                       *)
OpenFails(i) ==
    /\ phase[i] \in {"opening", "snapshot"}
    /\ phase[i] = "opening" => ~OnConsole(i)
    /\ To(i, "failed")
    /\ UNCHANGED <<ledger, remote, input, unsettled, exchange>>

(* execution["attempted"] is set before the send, so a failed send is        *)
(* unsettled whether or not the bytes arrived.                               *)
SendCommand(i) ==
    /\ phase[i] = "opening" /\ ~OnConsole(i)
    /\ LET a == attempt[i]
       IN \/ Becomes(i, a, "sent") /\ To(i, "watching") /\ UNCHANGED unsettled
          \/ Becomes(i, a, "sent") /\ Unsettled(i)
          \/ Unsettled(i) /\ UNCHANGED proc
    /\ UNCHANGED <<ledger, packing, tree, result, input, exchange>>

(* The termination status arrives: the command is known to have ended.       *)
StatusArrives(i) ==
    /\ phase[i] = "watching"
    /\ \/ Latest(i) = "exit0" /\ To(i, "accepting")
       \/ Latest(i) = "exit1" /\ RoleExecutionError(i)
       \/ Latest(i) = "exit1" /\ To(i, "failed")     \* the CLI's turn limit
    /\ UNCHANGED <<ledger, remote, input, unsettled, exchange>>

(* Slip: the deadline was tested only after a frame had arrived.             *)
DeadlineAfterFrame(i) ==
    /\ phase[i] \in {"watching", "watchingSnapshot"}
    /\ Latest(i) \notin {"gone", "sent", "working"}
    /\ Unsettled(i)
    /\ UNCHANGED <<ledger, remote, input, exchange>>

(* The deadline passes in silence, or the shell closes without an exit code. *)
ConnectionEnds(i) ==
    /\ phase[i] \in {"watching", "watchingSnapshot"}
    /\ Unsettled(i)
    /\ UNCHANGED <<ledger, remote, input, exchange>>

-----------------------------------------------------------------------------
(* With a console: a TUI in the shared PTY.                                  *)

(* wait_ready: the PTY launched, hydrated and painted the TUI ...            *)
PtyReady(i) ==
    /\ phase[i] = "opening" /\ OnConsole(i)
    /\ input[i] # NoTree
    /\ Becomes(i, attempt[i], "idle")
    /\ tree' = [tree EXCEPT ![i][attempt[i]] = input[i]]
    /\ To(i, "ready")
    /\ UNCHANGED <<ledger, packing, result, input, unsettled, exchange>>

(* ... or did not; no turn was typed into it.                                *)
PtyNeverReady(i) ==
    /\ phase[i] = "opening" /\ OnConsole(i)
    /\ RoleExecutionError(i)
    /\ UNCHANGED <<ledger, remote, input, unsettled, exchange>>

(* The TUI starts on the prompt: its worktree holds part of the work.        *)
Submitted(i) ==
    /\ Latest(i) = "idle"
    /\ Becomes(i, attempt[i], "working")
    /\ tree' = [tree EXCEPT ![i][attempt[i]] = @ \cup {<<attempt[i], "part">>}]

(* send_turn: pasted, painted, settled, then Enter.  A paste that does not   *)
(* settle is not submitted; an Enter that is not confirmed may have been.    *)
(* Either is after turn_attempted, so the session counts as unsettled.       *)
SendTurn(i) ==
    /\ phase[i] = "ready"
    /\ \/ Submitted(i) /\ To(i, "waiting") /\ UNCHANGED unsettled
       \/ Submitted(i) /\ Unsettled(i)
       \/ Unsettled(i) /\ UNCHANGED <<proc, tree>>
    /\ UNCHANGED <<ledger, packing, result, input, exchange>>

(* wait_turn_idle takes silence for the end: a working TUI repaints.  A      *)
(* shell prompt means the TUI is gone, a known failed turn.                  *)
Quiet(i) == Latest(i) # "working" \/ Stalls

TurnIdle(i) ==
    /\ phase[i] = "waiting"
    /\ Quiet(i)
    /\ IF Latest(i) = "failed" THEN RoleExecutionError(i) ELSE To(i, "snapshot")
    /\ UNCHANGED <<ledger, remote, input, unsettled, exchange>>

(* The turn outlasted its time, or the PTY died or was closed by a person.   *)
PtyEnds(i) ==
    /\ phase[i] = "waiting"
    /\ Unsettled(i)
    /\ UNCHANGED <<ledger, remote, input, exchange>>

(* A second shell in the PTY's own session packs and uploads the worktree.   *)
SendSnapshot(i) ==
    /\ phase[i] = "snapshot"
    /\ \/ packing' = [packing EXCEPT ![i][attempt[i]] = "running"] /\ To(i, "watchingSnapshot")
          /\ UNCHANGED unsettled
       \/ packing' = [packing EXCEPT ![i][attempt[i]] = "running"] /\ Unsettled(i)
       \/ Unsettled(i) /\ UNCHANGED packing
    /\ UNCHANGED <<ledger, proc, tree, result, input, exchange>>

SnapshotStatus(i) ==
    /\ phase[i] = "watchingSnapshot"
    /\ \/ Snapshot(i) = "exit0" /\ To(i, "accepting")
       \/ Snapshot(i) = "exit1" /\ RoleExecutionError(i)
    /\ UNCHANGED <<ledger, remote, input, unsettled, exchange>>

-----------------------------------------------------------------------------
(* The remote side.  It has no fairness: a CLI may work or hang for ever.    *)

(* The command hydrates the input archive there and then, or exits.          *)
Hydrate(i, a) ==
    /\ proc[i][a] = "sent"
    /\ \/ /\ input[i] # NoTree
          /\ Becomes(i, a, "working")
          /\ tree' = [tree EXCEPT ![i][a] = input[i] \cup {<<a, "part">>}]
       \/ Becomes(i, a, "exit1") /\ UNCHANGED tree
    /\ UNCHANGED <<phase, ledger, packing, result, input, unsettled, exchange>>

(* The CLI ends its work, or fails with a part of it in the worktree.        *)
WorkEnds(i, a) ==
    /\ proc[i][a] = "working"
    /\ \/ /\ Becomes(i, a, "finished")
          /\ tree' = [tree EXCEPT ![i][a] = (@ \ {<<a, "part">>}) \cup {<<a, "whole">>}]
       \/ Becomes(i, a, "failed") /\ UNCHANGED tree
    /\ UNCHANGED <<phase, ledger, packing, result, input, unsettled, exchange>>

(* put-object --if-none-match '*' at the attempt's own handoff key.          *)
Upload(i, a) ==
    /\ result[i][a] = NoTree
    /\ result' = [result EXCEPT ![i][a] = tree[i][a]]

(* The command packs and uploads whatever the CLI left, then exits with the  *)
(* CLI's code, or with the upload's when the CLI succeeded.                  *)
CommandExits(i, a) ==
    /\ ~console[i][a]
    /\ proc[i][a] \in {"finished", "failed"}
    /\ \/ Upload(i, a) /\ Becomes(i, a, IF proc[i][a] = "finished" THEN "exit0" ELSE "exit1")
       \/ UNCHANGED result /\ Becomes(i, a, "exit1")
    /\ UNCHANGED <<phase, ledger, packing, tree, input, unsettled, exchange>>

(* The snapshot shell packs the PTY's worktree; it fails without one.        *)
SnapshotExits(i, a) ==
    /\ packing[i][a] = "running"
    /\ \/ /\ proc[i][a] # "gone"
          /\ Upload(i, a)
          /\ packing' = [packing EXCEPT ![i][a] = "exit0"]
       \/ UNCHANGED result /\ packing' = [packing EXCEPT ![i][a] = "exit1"]
    /\ UNCHANGED <<phase, ledger, proc, tree, input, unsettled, exchange>>

(* The session's microVM ends without a word.                                *)
Vanish(i, a) ==
    /\ proc[i][a] \in {"sent", "idle", "working", "finished"}
    /\ Becomes(i, a, "gone")
    /\ UNCHANGED <<phase, ledger, packing, tree, result, input, unsettled, exchange>>

-----------------------------------------------------------------------------
(* Accepting the result, and the end of the run.                             *)

Seal(i, a) == input' = [input EXCEPT ![i] = result[i][a]]

(* Slip: the newest archive of the role is sealed, whatever its command did. *)
AcceptAny(i) ==
    /\ phase[i] \in {"accepting", "watching"}
    /\ \E a \in Attempt : result[i][a] # NoTree /\ Seal(i, a)
    /\ To(i, "done")
    /\ UNCHANGED <<ledger, remote, unsettled, exchange>>

(* accept_result verifies the exact handoff archive and puts its bytes over  *)
(* the role's input.  Any failure is the attempt's, even when the put took   *)
(* effect.  A spent quota found in the transcript, or a named artifact that  *)
(* is missing, is noticed only after the seal.                               *)
Accept(i) ==
    /\ phase[i] = "accepting"
    /\ LET a == attempt[i]
       IN \/ RoleExecutionError(i) /\ UNCHANGED input
          \/ /\ result[i][a] # NoTree
             /\ Seal(i, a)
             /\ \/ To(i, "done")
                \/ To(i, "failed")             \* ModelQuotaError
                \/ RoleExecutionError(i)        \* no answer to the put, or no artifact
    /\ UNCHANGED <<ledger, remote, unsettled, exchange>>

AtRest == \A i \in Item : phase[i] \in Between \cup {"idle"}

(* Slip: the exchange is deleted though a session is unsettled.              *)
EndRunAnyway ==
    /\ exchange = "open" /\ AtRest
    /\ exchange' = "deleted"
    /\ input' = [i \in Item |-> NoTree]
    /\ result' = [i \in Item |-> [a \in Attempt |-> NoTree]]
    /\ UNCHANGED <<phase, ledger, proc, packing, tree, unsettled>>

(* The run's finalizer: archives are transport, deleted after the verdict is *)
(* durable (as far as S3 lets it), unless a session is unsettled.            *)
EndRun ==
    /\ exchange = "open" /\ AtRest
    /\ IF unsettled # {}
       THEN exchange' = "kept" /\ UNCHANGED <<input, result>>
       ELSE \E gone \in SUBSET Item :
               /\ exchange' = "deleted"
               /\ input' = [i \in Item |-> IF i \in gone THEN NoTree ELSE input[i]]
               /\ result' = [i \in Item |-> IF i \in gone THEN [a \in Attempt |-> NoTree]
                                                         ELSE result[i]]
    /\ UNCHANGED <<phase, ledger, proc, packing, tree, unsettled>>

Coordinator(i) ==
    \/ Redispatch(i) \/ OpenFails(i) \/ SendCommand(i) \/ StatusArrives(i)
    \/ ConnectionEnds(i) \/ PtyReady(i) \/ PtyNeverReady(i) \/ SendTurn(i)
    \/ TurnIdle(i) \/ PtyEnds(i) \/ SendSnapshot(i) \/ SnapshotStatus(i) \/ Accept(i)

Remote(i, a) ==
    Hydrate(i, a) \/ WorkEnds(i, a) \/ CommandExits(i, a) \/ SnapshotExits(i, a) \/ Vanish(i, a)

Next ==
    \/ EndRun
    \/ \E i \in Item :
          BeginTurn(i) \/ Coordinator(i) \/ \E a \in Attempt : Remote(i, a)

(* Every wait of the coordinator has a deadline of its own, and the run's    *)
(* worker goes on to its finalizer; nothing is assumed of the Runtime.       *)
Spec ==
    /\ Init /\ [][Next]_vars
    /\ WF_vars(EndRun) /\ \A i \in Item : WF_vars(Coordinator(i))

-----------------------------------------------------------------------------
(* Properties. *)

(* The remote process of an attempt may still change the world: a command    *)
(* before its exit, a TUI on a prompt, a snapshot being packed.              *)
Executing(i, a) ==
    \/ proc[i][a] \in {"sent", "working"}
    \/ proc[i][a] \in {"finished", "failed"} /\ ~console[i][a]
    \/ packing[i][a] = "running"

OneExecution(i) == \A a, b \in Attempt : Executing(i, a) /\ Executing(i, b) => a = b

(* A builder's turn is dispatched again only when the earlier attempt is     *)
(* known to have ended: two attempts never work at the same time             *)
(* (runtime_exec.RemoteExecutionUnsettled, engine._runtime_cli).             *)
BuildersNeverOverlap == \A i \in Item \ Checker : OneExecution(i)

(* "No retry": no role has two remote turns at once, which is what           *)
(* engine._runtime_cli says of an unsettled session without exception.       *)
NoRoleOverlaps == \A i \in Item : OneExecution(i)

(* The transfer archives are deleted, and with them the run's claim given    *)
(* back, only when nothing remote can still read or write them               *)
(* (engine._drive_bound's cleanup after _cleanup_runtime_exchange).          *)
ArchivesOutliveWork ==
    exchange = "deleted" => \A i \in Item, a \in Attempt : ~Executing(i, a)

(* What a role's next turn or the engine reads back holds only work of       *)
(* attempts that are known to have completed, each in full: never the part   *)
(* of a failed, abandoned or still running one (runtime_stage.accept_result).*)
SealedWorkIsWhole ==
    \A i \in Item : input[i] # NoTree =>
        \A w \in input[i] : w[2] = "whole" /\ <<i, w[1]>> \notin unsettled

(* A turn reported as done has its own attempt's work in the sealed tree,    *)
(* so an unsubmitted prompt is never read as a builder that finished.        *)
DoneIsSealed ==
    exchange = "open" => \A i \in Item :
        phase[i] = "done" => <<attempt[i], "whole">> \in input[i]

(* What was sealed is a completed turn's work, whole, and every completed turn's *)
(* work is there: a role's result is neither invented nor lost.              *)
SealIsFaithful == SealedWorkIsWhole /\ DoneIsSealed

(* However the Runtime behaves, the run's dispatches come to an end: a       *)
(* silent shell or a hung TUI is given up by the wall clock.                 *)
DispatchEnds == <>(exchange # "open")
=============================================================================
