# TLA+ models of the coding-agents coordinator

The repository runs a team of coding agents on one GitHub repository. A
coordinator process turns a request into a *run*: it routes the request to
roles, lets builder roles write code in remote runtimes, has a checker role
publish their pull requests and write one executable check for each, gates and
reviews every pull request, repairs it once, and merges it or leaves it to a
person. This directory holds the TLA+ modules that model that program, the
configurations TLC checks them with, and the theorems TLAPS proves about them.
Paths below are relative to `src/`.

To check: `tlc -config <cfg> <module>` for the runs of `PROJECT.json`, and
`tlapm <module>` for each `...Proofs.tla`.

## 1. Inventory

| component (source) | state it keeps | operations | what is hard | module |
|---|---|---|---|---|
| repository admission (`orchestrator/repository_admission.py`, `engine.submit`, `_release_repository`) | one claim per repository, in S3 (`IfNoneMatch` / `IfMatch`) or a flocked file; per run a nonce and an ETag | acquire, release, retain | lost, late and repeated requests; a coordinator lost while its remote turns go on | `RepositoryAdmission` |
| pull-request loop (`engine._execute`, `_finalize`, `_finalize_ready_early`, `_settle_run`) with the role graph (`role_graph.py`) | work items, recorded heads, kept executables, deferred checks, early verdicts, the local copy of the default branch | builder turns, publication, checks, gate, review, refresh, repair, merge | builders finish in any order; a merge moves the base under the others; publication and merge may half succeed; a person edits the merge policy | `PullRequestLoop` |
| work item algorithms, integration planning (`work_items.py`, `integration_plan.py`) | the shared brief; each builder's base, checkout and patch | agree on an order, diff, apply, refresh, reset | a patch taken from one base is put on another | `WorkItems` |
| run lifecycle (`engine.submit`, `_drive_bound`, `_heartbeat_loop`, `transition`, `reconcile`) | `run.status`, the ledger, the durable snapshot | submit, admit, drive, grade, persist, report, release; heartbeat; sweep | three threads write one status; a snapshot saved after it went stale; process loss | `RunLifecycle` |
| run store (`run_store.py`, `watch_run.py`) | a JSON snapshot per run, on disk and in S3 | save, load, list, active, prune | two stores, failed writes, listings read page by page | `RunRecords` |
| remote role dispatch, runtime exchange (`runtime_exec.py`, `executor.py`, `runtime_stage.py`) | remote sessions, exit evidence, sealed archives | connect, retry, send, await the end, accept the result, delete | an exit never reported; a retry of what was delivered | `RoleDispatch` |
| reviewer and gate (`reviewer.py`, `review_build_outputs.py`, `gate_diagnostics.py`) | the check's process group, the review's context | run a check, list and read a tree, ask a model, parse | the product outlives its check; a bounded view of the tree | `Review` |
| GitHub client and agent tool gateway (`github.py`, `gateway_mcp/app/main.py`) | a branch, a pull request, recorded heads | commit, open, merge, check out, doctor | a write whose answer is lost is sent again; a person pushes meanwhile | `RepositoryWriter` |
| compose lease (`engine._Lease`, `_compose_commit`) | a scratch git repository, a lease, a file lock | take, steal, stage, commit, tag | a lease taken from a holder that is slow, not dead | `EvidenceRepository` |
| chat coordinator, connection API (`chat.py`, `chat_request.py`, `connection_api.py`, `orchestrator-agent/main.py`) | a conversation's ledger of the participant's words | open a turn, build, dispatch, resubmit, stop, commit | tool calls between admission and submission while the turn ends | `Conversation` |
| webhook endpoint (`coding-agents/pr_review/handler.py`, `chat.start_event_build`) | a row per delivered body | deliver, hand off, forget; review, fix, develop | failures between row, hand-off and answer | `EventIntake` |
| runtime session activity (`orchestrator-agent/session_activity.py`) | a task and its window | observe, register, release | an observation that is stale when acted on | `SessionActivity` |
| game host, gallery (`game_host.py`, `gallery.py`) | route, units, launch file, `current.json` | capture, publish, unpublish, restore, restart | partial publication, signals in the rollback | `GameHost` |
| interactive sessions (`interactive-api/interactive_api.py`, `runtime_shell.py`) | shells, buffers, streams | open, type, resize, close, follow | threads that share descriptor numbers | `WorkspaceSession`, `SharedTerminal` |
| runtime and orchestrator deployment (`runtime_deploy.py`, `promote_runtime.py`) | the Runtime's revisions, a saved ID | create, update, wait, promote | reads that return older states | `RuntimeDeployment` |
| fan-out driver (`fanout.py`, `session.py`) | a tile, a branch, a worktree | run, retry once, collect | a lost session goes on and pushes | `Fanout` |
| GitHub App setup (`gateway_mcp/create-github-app.py`) | a checkpoint, a key | exchange, resume, restart, complete | a code that converts once | `AppSetup` |
| console server, web client, metrics, roles, presets, prompts | none that interleaves | | | not modelled, see 7 |

How they interact: a chat turn, a webhook or the console calls `Engine.submit`,
which acquires the repository's claim and starts one worker thread and one
heartbeat thread for the run. The worker asks a model for the brief, calls
`_execute` (a graph whose nodes dispatch remote turns through `runtime_exec`)
and then `_finalize`, which calls GitHub through the Gateway, the gate and the
reviewer, and `_execute` again for refreshes, late checks and repairs. The
worker's `finally` grades the run, saves it, reports it on the issue it came
from and releases the claim. The heartbeat saves the same snapshot every few
seconds; the console process also runs a sweep that ends runs it takes for
stranded.

What makes each part correct:

* admission: no two runs of a repository execute at once, whatever the network
  and the operator do; nothing executes that the store does not name.
* pull-request loop: what merges is what was published, gated and approved, on
  the branch as the run knows it; merges follow the dependencies; "passed" is
  never said of anything less; every run settles with bounded work.
* work items: the brief's order is kept, and along it every builder's work
  lands whole and replaces no other's.
* lifecycle and store: a limit on live runs; a verdict that never changes once
  persisted; a record that never claims more than happened; a strict reader
  that misses no active run; a claim that returns only after a run is over.
* dispatch: one execution of a role at a time; what becomes the next input is
  the whole work of a turn that is known to have ended.
* gate, review, GitHub, evidence: a red check is never read as green, an approval
  stands on all of the tree, what merges is what was reviewed, an evidence
  commit holds its own run's files.
* around them: words are built once, a body is acted on once, the issue is told
  the truth, the public route serves the publication on record, a shell has a
  session, a deployment's outcome is its own, an App's key is not lost.

The hazards these properties answer are listed, each at its line, under
`hazards` in `PROJECT.json`.

## 2. Modules

Besides those of the table: `ExclusiveExecution` is the abstract promise that
executions begin one at a time, each run at most once, which `RepositoryAdmission`
implements; `ProvenDelivery` is the abstract promise of the pull-request loop to the
repository's owner, which `PullRequestLoop` implements; the eight `...Proofs` modules hold the theorems (section 4 says which
hold what); `MC...` are the instances TLC checks.

The models meet at named places rather than in one product. In `RunLifecycle` a
claim is `none`, `held` or `released` (`RepositoryAdmission` models how it is
stored) and a phase is only its effect on `run.status` (`PullRequestLoop` models
what it does). `PullRequestLoop` takes as nondeterministic outcomes what
`RoleDispatch` (a turn ends, fails or is unsettled), `WorkItems` (a patch applies
or is stale), `Review` (a verdict) and `RepositoryWriter` (a publication or a
merge succeeds, fails or is not seen) work out. `unsettled` stands for the same
flag in the first two and in `RoleDispatch`: `_unsettled_runtime_sessions`.

A definition whose comment starts with "Slip:" is not part of any `Next`. It
is a plausible mistake in the code, written beside the definition it would
replace. Each checked property is listed in `PROJECT.json` with the slip that
breaks it. A property that is a conjunction is one statement about a component
whose parts are named and commented on their own.

### RepositoryAdmission

`claim` is the stored object, identified with the run that wrote it since every
body has a fresh nonce. `puts` and `deletes` are the conditional requests still
in the network: a request may take effect after its caller gave up, and more
than once. `phase[r]` is the coordinator of run `r`: `acquiring` and `reading`
are inside `acquire`, `holding` is `submit` between the claim and the worker,
`working` is the worker, `releasing` and `deleting` are `_release_repository`;
`busy`, `unavailable`, `released`, `retained`, `crashed` are ends. `turn[r][s]`
is a remote role turn; a `lost` one was delivered and never answered, and may
still be running. `unsettled` is the record of that. `Crash` takes the
coordinator's threads and leaves the network and the remote turns.
`OperatorReleases` is the runbook in the module's docstring: release a claim
only when its run is over and nothing executes remotely.

`Executes(r)` is deliberately wide: a run executes while it may start a worker,
while the worker lives, and as long as any remote turn it started is alive.

### PullRequestLoop

Items are numbered in dependency order. A tree is the set of pull requests it
contains, so the local branch `snap` is a set, and `landed` is the sequence
GitHub really merged. A patch is its owner's `version` and the `base` it is
against; a published `head` names both, so a head that was not republished
after a rebase is told from one that was. `check` is the executable the gate
runs, `kept`/`keptOn` the one remembered across calls and the base it was
written on. `verdict`, `judged` and `on` are the last gate and review: their
outcome, the version they judged, the tree under it.

`pc` is the worker thread: `execute` (a call of `_execute`, with `round` saying
which), `join` and `closing` (the end of the first call), then per item `item`,
`check`, `judge`, `decide`, `rejudge`, and `settled`. `role`, `checker`,
`awaited`, `todo` and `published` are the graph of the present call; `early`,
`earlyRows` and `deferred` are what the early pass leaves to finalization.
Publication is one action with every outcome it can stop at (`CheckerCannotPublish`,
`PublishRest`): refused before the commit, after the commit, after the pull
request opened. A merge has four outcomes, one of which is that GitHub merged
and the coordinator does not know (`MergedUnseen`).

Abstracted: the gate's and the reviewer's verdicts are nondeterministic; a
pull request without an executable is always red, and "stale" (the patch does not
apply) is possible only when the base moved. Several role errors that the code
treats alike are one `ROLE_EXECUTION_ERROR`. The merge policy is read at every
decision, and `SetMergePolicy` lets a person change it. Left out: pushes to the
default branch by others, a person who closes a pull request, the rule that
skips a review of a digest already reviewed, the optional semantic refresh
(off by default), and exceptions of `_finalize`, which are in `RunLifecycle`.

### RunLifecycle

`run[r].stage` is the worker's place in `submit` and `_drive_bound`; `status` is
`run.status`; `ledger` the statuses its rows in the ledger tell, any of which may be
lost, `swept` a row the sweep has still to append; `posted` the result on
the origin issue; `beat` and `copy` the heartbeat and the snapshot it has taken
and not yet saved; `record[r]` the status in the durable snapshot, which a save
may fail to write. `console` says whether this process runs the sweep: only the
console starts one. `rounds` counts calls of `_execute`. The sweep's age limit
`STRANDED_AFTER_S` is sized for `MaxIterations` rounds, and finalization may make
more calls than that, each with its own budget, so `Reconcile` is enabled for an
active run in a later round.

### RunRecords

A record is "active" or "over" with the time it carries (`saved`) and the time
its file or object was written (`modified`, on S3's clock, behind by `Skew`).
`saver` is the worker and the heartbeat of a run, each between taking a snapshot
and having written it to the disk and then to the mirror; `pulse` is when the last
whole save of a run began. `reader` is one read under way: of one run
(`load`), of a page at a time of the list (`list`), or by the strict reader
(`active`) that a GitHub event asks, which refuses to answer where the others
skip. A coordinator in a microVM has a disk of its own and the mirror; the
console's box has its disk.

### RoleDispatch

`phase[i]` is the coordinator's side of a role's turn, `proc[i][a]` the remote
process of attempt `a`, `packing` the second shell that packs the tree of a TUI.
The remote side goes on whatever happens to the connection. A tree is the set of
attempts that put something into it, wholly or in part; `input` is the sealed
archive the next turn starts from. Assumed: an S3 put is atomic when its call
returns; a TUI that prints nothing for the quiet window has stopped (`Stalls =
FALSE`; with `TRUE` it is the code's own stated residual risk). Left out: a person
typing into the PTY, the seam for local development.

### WorkItems

A file is who wrote it, a tree what each path holds. `brief` is the exchange with
the model about the merge order; `trunk` the default branch's trees, oldest
first; `piece[r]` the builder's work item: the base it received (an index into
`trunk`), its checkout, `.workshop/prior-work`, and what its own last turn left.
`Changes` is `diff_trees`, `Conflicts` and `Clash` what stops `apply_patch`,
`RefreshClash` what stops `prepare_refresh_checkout`, which also removes files that
the branch no longer has, `RefreshItem` is `_refresh_pending_work`. Four paths tell the cases apart: the
ignore file, a path it ignores, and a directory and a file of which only one can
be there.

### Conversation, EventIntake, SessionActivity

`Conversation` is one conversation on the console (a lock admits one turn) or on
the deployed coordinator (a second turn is refused). A call of a build tool is
admitted (`Ask`, `AskAgain`), then asks which roles it needs, then submits
(`Kick`), and any of that may fall after the turn was stopped. The ledger's
turns are numbers; which of them a build was made of is its `words`.
`EventIntake` is the endpoint, its asynchronous copies and the coordinator
session each `/develop` opens. `SessionActivity` is the tracker with the
builds, the requests and the Runtime's idle clock around it, in units of the window.

### Review, RepositoryWriter, EvidenceRepository

`Review` has `run_gate` (check, process group, wall clock) and `assess` (list,
read, ask twice, decide). A file is its kind and size. `RepositoryWriter` has
the coordinator's operations as sequences of calls (`doing`), each made up to
`Attempts` times, and the tool's own steps on the current call and on one given
up (`exec["late"]`), with a person's visits between any two of them.
`EvidenceRepository` has each git command of `_compose_commit` as a step of a
run's thread, the lease of a process and the lock between processes.

### GameHost, WorkspaceSession, SharedTerminal

`GameHost` has the helper's steps in the order `publish` and its rollback take
them, with `Escape` (an exception or signal in any step), a kill, a host restart
and socket activation. `WorkspaceSession` models descriptor numbers because a
reader thread reads a number and not a file. `SharedTerminal` has the connection
thread, its one buffer, watchers and resizes.

### RuntimeDeployment, Fanout, AppSetup

The service in `RuntimeDeployment` is the history of the Runtime's states, of
which a read returns any. In `Fanout` agents have branches and worktrees of
their own, so one stands for all; a Git command of `collect` may fail before the
worktree is placed and after it, and the agent then ends failed and uncollected.
`AppSetup` has the script's processes, its
browser tabs, the checkpoint and the key, and a code that converts once.

## 3. Runs

| run | question | instance | states |
|---|---|---|---|
| `admission` | does the claim exclude, and implement `ExclusiveExecution`? | 3 runs, 2 turns each, both stores | 408,013 |
| `pull_requests` | is every merge and every verdict justified, does the loop implement `ProvenDelivery`, and is every run settled? | 3 builders, two plans, both policies, changed once under the pair | 1,502,257 |
| `lifecycle` | do three threads keep one verdict, one record, one release, and the limit? | 1 run with heartbeat and sweep, 3 rounds of which the sweep allows 2; or 2 runs, limit 1, no threads and no saves | 186,710 |
| `role_dispatch` | does a turn end, once, and is what it hands over whole? | 1 builder in a PTY, 1 checker, 2 attempts each | 495,401 |
| `services` | the components around the work, one at a time | below | 841,069 |
| `delivery` | the components that make, publish and record it, one at a time | below | 910,820 |
| `stale_checkpoint`, `swept_worker` | comments the code does not keep: see 5 | as `lifecycle` | violated |
| `early_verdict`, `unseen_merge`, `changed_policy` | the same | as `pull_requests` | violated |
| `deferred_check_overlap` | the same | a checker alone | violated |

`services` and `delivery` hold components that share no state: `chosen` names the
one that takes every step, the others rest in one state, and the run's state graph
is the disjoint union of the components' own. `lifecycle` uses the
same device for two parts. What each explores and why it is enough:

* `EventIntake`: two deliveries of one body under each kind of work, of two
  bodies of two kinds, and two `/develop` comments from when both were handed on;
  two copies (`MaxJob`), a clock of three steps, one more than a row lives, so that a row expires and
  a late delivery is ignored.
* `Conversation`: three messages, the first already answered (or built with
  nothing to show), two tool calls at once, and a ledger that keeps one turn, so that
  old turns are counted and dropped.
* `SessionActivity`: two builds, a window of three units, idleness of two: long
  enough for a window to run out under a build.
* `GameHost`: three publications, so that a rollback has an earlier one and a
  later one overtakes it.
* `SharedTerminal`: two watchers, two attempts to open, three pieces of output,
  two resizes. `WorkspaceSession`: two sessions, one of them the Development
  session, two terminals, two pieces of output of which the buffer retains one,
  two descriptor numbers, so that a number is reused under a reader.
* `AppSetup`: three starts of the script, two Apps, two tabs.
* `WorkItems`: two builders, four paths, two paths changed in a turn (so that one patch
  conflicts in part), an empty, partly or wholly seeded repository.
* `RepositoryWriter`: two versions of a patch, one visit by a person, two attempts
  of a call (the code makes three; two already give a late first and an answered
  second), begun before anything, at the first publication, or with the doctor alone.
* `Review`: three files, of which one is changed and one is an entry, sizes 1 (fits) and 9 (never
  fits), three files and three characters at most, a wall clock of one step.
* `EvidenceRepository`: three composers in two processes, from nothing or with
  the first already recording. `RuntimeDeployment`: two deployers, three accepted
  operations. `Fanout`: three sessions over all runs of the script, two retries.

For the others. *Admission*: three runs give a holder, a successor and a third
whose late create or repeated delete meets both; a claim has one holder, so a fourth
adds only another refused one. Two turns tell "this turn" from "some other turn
of the run". The theorems remove both bounds. *Records*: two runs of which the
second ended earlier; a unit of time is longer than a heartbeat's period, a
record is stale after one unit (four heartbeats in the code), `Skew` = `Slack` = 1,
one file is kept, one write fails, a read spans one unit at most. A worker's repeated saves after its verdict are left out: that
a stale snapshot may overwrite it is the finding `stale_checkpoint` of
`RunLifecycle`. *Pull requests*: the roster serves three builders. The plans are
a chain, where every check but the first is deferred, and a pair of independent
builders with a third that waits for one of them, where the checker waits for some
builders and the early pass merges. Two of the causes a turn fails with are kept:
the ordinary one and one in `Stop`; `ROLE_PR_PUBLISH_ERROR` comes from
publication. *Lifecycle*: runs of a process meet only where admission counts
them, so one run is checked in full (`alone`), and the limit for two whose
heartbeats have stopped and whose saves all fail: neither touches a phase. Three rounds, with two allowed for, are the least that make
the sweep meet a live worker. *Dispatch*: roles meet only in the run's exchange,
so one of each kind is enough; one turn of two attempts each (`MaxTurn = 1`).
The checker alone takes two turns in `deferred_check_overlap`.

Deadlock checking is off everywhere because each of these systems stops: a run
is over, a script has ended, and no more runs are submitted.

Not among a run's properties, though stated: `AdmissionInv` and `LifecycleInv`,
the inductive invariants, are what the proofs rest on, and imply the ones listed.

Fairness. `PullRequestLoop` has weak fairness of the run's own steps: every role
turn ends, because `_execute` gives the graph a phase budget and cancels what
outlives it, and the worker thread itself never waits for anything else. A person's
change of the policy is never assumed. `RunLifecycle` has weak fairness of each
run's worker thread and of its heartbeat thread: both are plain threads the
operating system schedules. A submission, the sweep and a crash are never assumed
to happen. `RoleDispatch` has weak fairness of the coordinator's own steps only, its
deadlines among them, and of the end of the run: the Runtime, the remote
processes and the network promise nothing. The others state safety only.

## 4. Proofs

Every theorem is of a component's own specification (`Spec`, or `EventSpec`,
`SessionSpec` and so on), for every value of its constants that its assumption allows.
The assumptions say that a marker (`NoClaim`, `Nobody`, `NoComposer`) is none of
the things it stands beside, that sets are finite where they are counted, that
counts are numbers, that there is a descriptor to open a terminal with, that a plan's
dependencies come earlier, that a roster names no
builder twice, and that the limits which
the code requires to be positive are. TLC evaluates each of them. The instances
`services` and `delivery` start some components further on, in states their
specifications reach.

| proofs in | of |
|---|---|
| `RepositoryAdmissionProofs`, `RunLifecycleProofs`, `PullRequestLoopProofs`, `RoleDispatchProofs`, `RepositoryWriterProofs` | the module of that name |
| `DeliveryProofs` | `EvidenceRepository`, `Fanout`, `Review`, `RuntimeDeployment`, `WorkItems`, `RunRecords`; the types of `MCDelivery` |
| `ServicesProofs` | `SessionActivity`, `SharedTerminal`, `AppSetup`, `EventIntake`, `Conversation` |
| `HostingProofs` | `GameHost`, `WorkspaceSession`; the types of `MCServices` |

Hardly any property is inductive. Each proof strengthens it to an invariant
(`...Inv`) that TLC checked on the run's instance first, shows that the first state has
it and that each action keeps it, one step per action, and concludes the
property. Where one action touches little, lemmas of two kinds carry the rest:
what no step ever takes back (a commit, a history, a spent code), and what a
clause needs to be left alone.

**Admission.** `AtMostOneExecutes` is not inductive: a delete still in the
network would remove the claim under a remote turn of its run that is still alive, unless
we know there is none. `AdmissionInv` says that what executes is what the store names
(`ExecutionHoldsClaim`), that no turn precedes its worker, that a turn lost by a
live worker was recorded (so that worker will retain the claim), and that a run
giving its claim back, or with a delete in the network, has no live turn. From it follow
`MutualExclusion` and `AdmissionImplementsExclusion`: each step of
`RepositoryAdmission` begins one execution, ends one, or is a stutter of
`ExclusiveExecution`.

**Lifecycle.** `LifecycleInv` is made of `Sound` and `Honest`, which speak of
one run, of `AtMostMaxConcurrent` and of `RecordIsHonest`. `Sound` strengthens
`ReleasedMeansOver`: an unsettled session is recorded only after a role was dispatched, so that an
earlier release cannot be invalidated, a graded run is terminal, what was posted
is the status, and what says "passed" (status, snapshot or row) says it of a run past
its phases, whose status then is lowered by `Grade` for an unsettled session or not at
all. `Honest` strengthens the part of `RecordIsHonest` that the sweep breaks with the
snapshot the heartbeat holds, which the record will become. The limit needs a counting argument
(`RoomForOne`): the run that admits itself counted every other live run, and
`Working` is among them. `VerdictIsFinal` is an action property: the sweep
transitions only active runs, and `Sound` says that a persisted run is not one.
`OneRunMoves` says that a step of one run leaves the others, `AdvanceKeepsInv` that a
step which keeps `Sound` and `Honest` of its own run, does not enter the phases and
writes only an honest record keeps `LifecycleInv`.

**Pull-request loop.** `LoopInv` has ten parts, proved in the order in which one
needs another. `ScheduleInv` says who may be at work where: a builder works only in the first call or on the
pull request in hand, a checker's `todo` is empty once it has stopped, what the
early pass has decided is out of finalization's list. `OrderInv` makes
`MergesInDependencyOrder` inductive: what landed is a prefix decided early or lies
before the item in hand, and everything it waits for landed before. `PublicationInv`
says which heads are published as they stand at each place: from it follows that a
check is written on, and a merge made of, the latest bytes. `SnapInv`
relates the rows to the local branch and that to GitHub's. `CheckInv` counts executables:
the kept one is the first, on the empty branch, or the one rewritten on the present
base. `GradeInv` says that an approval still to be acted on is of the present version
and branch, which the early pass's copies need not be (see 5: only a repair may be
based on those). `MergeInv` says that what landed is proven and left alone,
`RowsInv` that a row never says more than was proven, and `WorkInv` bounds turns by
refreshes and repairs. The invariants of the run are read off these.

`LoopKeepsPromise` says that the loop implements `ProvenDelivery`. A merged pull
request is out of anybody's reach, but one that was approved and not merged is still in
the queue: `PromiseInv` says what the loop knows of it at each place (its approval is
the one in hand, or its answer is final), so that no later step changes the patch it
offers or takes the approval back. With that, each action is a step of the promise or a stutter:
the commit that resolves a gap or refreshes a base is `Rework`, a verdict `Approve`, the
squash `Merge`, the end of finalization `Conclude`. `LoopMergesInOrder`
(`MergesInDependencyOrder`) is the order alone, with the dependencies.

**Role dispatch.** `Placed(i)` says for every phase of the coordinator what the
remote side of the latest attempt may be doing, that an earlier attempt has ended
unless its session is recorded as unsettled, and that a builder with such a record
makes no more attempts. `EndInv` adds that the exchange closes on idle roles, and is
deleted only with nothing unsettled. Together they give `BuildersNeverOverlap` and
`ArchivesOutliveWork`. `SealInv` follows the trees: what the next turn starts from
is earlier whole work, and the latest attempt's own once it is known to have completed.
Three of the theorems assume `~Stalls`: the code takes a quiet terminal for
a finished one (`runtime_exec.wait_turn_idle`), which is right only when a TUI at
work keeps repainting. With `Stalls` they are false, and the code says so.

**Evidence, fan-out, review, deployment.** `EvidenceInv`: the file lock is held from
its taking to the end, so the scratch repository is what its holder's last command
left (`Stands`, one clause per command), also when the lease was stolen or a process
stopped; the one thing not known is the index behind a stale `index.lock`, which
makes the next command fail. `FanoutInv`: a receipt belongs to the tile's present
session, since only a session that did nothing is replaced, and the number of
pushes is the number of sessions that pushed, which bounds them. `ReviewInv`: the gate's
code is the check's own or one of three it cannot give, and a model is asked only once
every file is accounted for. `DeployInv`: every state of the history between an
operation's acceptance and its end carries that operation's revision
(`HistoryInv`), so that a reader who asks for at least the revision it submitted cannot
take an earlier READY for its own, however old the states it reads.

**Sessions, terminals, setup, events, conversations.** `ActivityInv`: an
observer's count is of the past, and still not 0 once the request that added
builds has closed. `TerminalInv`: what a watcher was shown and what is queued for it
add up to the output; the size measured last is in the request, last in the queue
or at the shell. `AppInv`: one process holds the lock and the checkpoint is what it
saved; a code that was or is about to be posted is `Spent`, so no process and no
tab can post it again; an App that was shown has its key on disk and a checkpoint to
resume from. `EventInv`: a body handed on has its row until it is too late for another
delivery to count as fresh, unless the hand-off's own answer was lost
(`lost`, see 5). `LedgerInv`: one turn streams at a time and turns settle in order,
so the words a turn was shown cannot be built under it (`WordInv`, with the exception
of a turn whose own build is being settled); a call may still submit only while its
turn streams, and a resubmission is recorded before it starts. `StoppedTurnsStartNothing` is
an action property of the same invariant.

**Repository writer.** `WriterInv` follows commits. A commit never leaves the
repository and a merged pull request never changes (`HubGrows`), so a late call
still does what it was asked. A merge was pinned to the reviewed commit when it was asked
for, and from the review's decision on nothing changes what was reviewed
(`LandedInv`, `RunInv`). `CallInv` says what each call in hand is made for, from
which `ReportsAreTrue` follows. `SeenCommitsStay` is an action property: the tool moves a
branch it was told to expect only from the very head it compared.

**Game host.** Every operation is a list of steps, and `HostInv` says what the host
looks like with n steps to go (`PublishInv(n)`, `RestoreOpenInv(n)`,
`RestoreShutInv(n)`), so that an exception between any two steps, which leaves one
list for another, is one case. Between operations the route is open, in nginx or in
its file, only with a publication on record whose copy was verified (`AtRest`).
Nothing is claimed once `disturbed`, for the reason given in 5.

**Workspace sessions.** `ShellInv`: a terminal on record belongs to one open session and
owns its descriptor (`TerminalsOwned`); nothing else runs or holds one (`NoStrays`);
a reader whose descriptor was closed and given away belongs to a terminal on nobody's
record, so a recorded terminal buffers only its own output (`ReadersFaithful`); what
the buffer holds up to the stream's offset was shown (`Covers`). The last survives
trimming because a stream is behind by a number of pieces and not by a position
in the buffer.

**Work items.** `OrderIsKept`: ordering the chain of an agreed brief gives the brief
back, for a roster of any length. The function `dependency_order` is given a witness (the
brief's prefixes, one builder longer each round, `NextReady`) and shown to agree with
it by the least place where it would not. `WorkInv` then follows the trees. `Carries`
says for every item that its patch is what its owner left of it, from what the owner saw,
and, once refreshed, that nothing else was added; `RefreshedInFront` that a refreshed item still
open stands on the tip, because only the first unsettled item of the order is
refreshed and nothing else lands before it settles (`OneInFront`). So each landing is
whole (`LandedWhole`), and its row in the history is never changed.

**Saved records.** `RecordInv`: any copy of a run, on a disk, in the mirror, listed or
already read, is at least as young as the run's last whole save, and says "over" only of a
settled run (`TrueCopy`); an object's time in S3 lags its record by no more than
the skew; a run on the box whose file is gone was crowded out by as many later saves
(`BoxKeepsNewest`, a counting argument over `Prune`). A read knows pulses of the past
(`ReaderPast`), and every healthy run that its listing has come by was found, read or
crowded out (`NothingMissed`). That an answer is given only once all was read needs
`SomeNewest`: of finitely many candidates one is the newest.

**Types of the composed instances.** `ServicesTyped` and `DeliveryTyped` assume of each
component only its own specification, so they hold of every interleaving of
the components, also of those in which several step in turn. Each conjunct is a
lemma (`SessionTyped`, `RecordTyped` ...) of the component's inductive invariant,
where that already bounds its variables. Some bounds need more. A reader may count
output of a shell that is not its own (section 5), so a buffer's total has no bound
by itself: `Balanced` says that the pieces counted are as many as the pieces taken from all
the shells, and no shell prints more than `MaxPiece`. What an operation of the game host
still has in hand is a copy taken before (`HostBounds`). A build names an earlier
build (`LedgerBounds`). What a listing of records has found is a
copy that the clock stamped when it was saved, here or in S3 (`RecordBounds`).

**Model-checked only.** Liveness (`WorkerAlwaysEnds`, `RunSettles`, `DispatchEnds`) is
beyond the prover under fairness. Every invariant, every other action property and both
refinements that a passing run checks are theorems.

## 5. What the code says and does not do

Six are runs that TLC must find violated; `PROJECT.json` quotes the lines.

* `CheckpointIsCurrent` (`engine._persist_run`): the lock serializes the writes
  but not the snapshots, so a heartbeat that took its snapshot before the verdict may
  save "running" over it.
* `NeverDoubleTransition` (`engine.transition`, `reconcile`): only the sweep
  uses the guard. A run in a round beyond those the age limit allows is swept while its worker
  goes on, and has rows that disagree: the sweep's tells whatever the status is by the
  time it is appended, "running" too.
* `RepairHasCurrentEvidence` (`_finalize_ready_early`): a verdict kept by the
  early pass is acted on after a refresh has given the owner a turn, so the one
  repair may be spent on evidence about bytes that are gone.
* `MergedOnCurrentBranch` (`_gate_one_pull_request`): after a merge GitHub did
  and the coordinator did not see, later pull requests are judged on a base
  that lacks it.
* `PassedMeansOpen` (`_execute`, `merge_policy`): a person turns auto merge off
  while the slowest builder works; its late publication fails and is only logged,
  and the run passes, leaving to a person a pull request that does not exist. On the
  way the checker may write a check for a builder still at work (`engine.py:2849`).
* `NoRoleOverlaps` (`_author_deferred_check`): the checker is asked again whatever
  became of its earlier turn.

The others came up while modelling. The models contain each, and the properties
are stated so that they hold with it.

* `WorkItems`. After a refresh, a new file that the branch came to ignore is in the
  checkout and no longer in the patch, since `diff_trees` asks the tree's own
  `.gitignore` and the file is new relative to the refreshed base; git would keep
  a file the pull request already has, and "Non-conflicting changes are carried
  forward" (`work_items.py`, `prepare_refresh_checkout`). A file where the branch now has a
  directory, or the reverse, raises `IsADirectoryError`, `NotADirectoryError` or
  `FileExistsError` and not `StalePatch`, in a refresh also where the patch only
  removes it and the branch has lost it already: in a check's turn that turn fails, in
  a refresh it passes the `except RuntimeError` and ends the run. A reply whose
  merge order holds lists or objects raises `TypeError` and not
  `IntegrationPlanError`, so the model is not asked again.
* `RepositoryWriter`. A lost answer of `commit_changes` makes every later one of
  that item `STALE_BRANCH`; of `create_pull_request`, every later publication a
  422; of a merge, "merge failed" for what merged. A first publication that is
  retried may move the branch over a person's commit, as may any push that falls
  between the last look and the forced move.
* `Review`. Files of the base branch in directories with a dot are neither shown nor listed.
  A service that leaves the check's process group outlives the gate. After a
  timeout the check is a zombie nobody has reaped, so the teardown waits out both
  grace periods.
* `EvidenceRepository`. A git command killed at its timeout, or a stopped process,
  leaves `index.lock`, and every later compose fails until a person removes it.
* `Conversation`. An approval that is itself named as a request builds the word
  "go". `build_agent` raising in `stream_chat` leaves the turn neither closed nor
  committed. A request that names some earlier turns drops the others. A focused dispatch
  that revises a preset run records no preset.
* `EventIntake`. "acts on each signed body once" fails when the hand-off's own
  answer is lost; a function that ends between its row and its hand-off, or whose
  `forget` fails, loses the event.
* `GameHost`. A killed publish leaves the launch file of a copy that `current.json` does
  not name, and the next `restore` starts and serves it ("The previous sharing
  state was restored"). `restore` starts the saved game while the route may still
  be open. `RouteIsSafe` is stated for hosts where no helper was killed and no
  rollback failed.
* `SharedTerminal`. Closing a terminal before its loop runs leaks the connection.
* `WorkspaceSession`. A background job that outlives bash keeps the old reader alive on a
  descriptor number that the next shell may get, and then takes its output. A
  follower whose PTY is reopened skips output and gets no end frame. `prune`
  deletes the workspace of an open session.
* `Fanout`. A stream lost before `UP` was read is retried while its first agent may run.
  An edit made between `git status` and `reset --hard` is lost. A failed `shortstat`
  reports an agent as failed whose worktree has moved.
* `AppSetup`. `--resume` of a complete setup rewrites the environment file without
  the webhook secret; an answer after the wait was closed leaves the checkpoint at
  "exchanging".
* `RunRecords`. `list_runs` judges staleness after the whole listing, so a listing
  longer than the margin may call a healthy run interrupted; the property counts
  the pulse at the read's start.

## 6. Plan

Done: the run's safety and the truth of its answer (admission, lifecycle,
pull-request loop), what these rest on (records, dispatch, trees, gate, review,
GitHub, evidence) and what surrounds them. Left, in this order:

1. The stages of `interactive_api` beside its shells (shelf, file operations,
   scaffolding, one-shot commands), and console adoption in `runtime_deploy`.

## 7. Not modelled

The console server, the web client and the metrics API route, authenticate, show
or query; they keep no state that interleaves. Roles, presets, policy and prompts
are data: a run's roster is a constant. Rendering of deployment files, health
checks, version pins, Gateway discovery and preflight checks only poll or write
once. In the modelled components these are left out, as `PROJECT.json` says at each: names, digests and
archive formats, wording, file modes and links, the leaderboard and gallery
signing, the offline double of the reviewer (which approves without a review), the
semantic refresh that is off by default, the preservation of a check as evidence
(`save_check`). Cancellation inside the Strands library is external; its effect is
that a turn ends. Times are abstracted to order: a timeout is an action that may
happen, except where an age decides (`EventIntake`, `SessionActivity`, `RunRecords`,
`Review`), and there a small clock counts units. `RuntimeDeployment` takes the
promotion's read, merge and write of the CLI's state file as one step, and
`RunRecords` a listing of the local directory.
