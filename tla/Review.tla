------------------------------- MODULE Review -------------------------------
(***************************************************************************)
(* The executable gate and the review of one pull request                    *)
(* (orchestrator/reviewer.py).  run_gate starts the check that the validator   *)
(* wrote, which may start the product and leave it running, and tears down      *)
(* what it started.  assess shows a model the tree the check ran on, and makes  *)
(* a verdict of its reply.                                                    *)
(*                                                                           *)
(* Time is the steps of Budget.  A file is its kind and its size; a reply is   *)
(* what the parser tells apart.  A file's kind is text, binary (or generated)   *)
(* by its name or first bytes, late when only its later bytes show it is not    *)
(* text, declared by package scripts (so many claims) as built from entry, or  *)
(* hidden, in a directory with a dot.                                        *)
(***************************************************************************)
EXTENDS Integers, FiniteSets

CONSTANTS Budget,    \* GATE_TIMEOUT_S
          Artifact,  \* the files of the tree
          Changed,   \* those the pull request changed
          entry,     \* the file that a declared build output is built from
          Sizes,     \* sizes of files, the check's being 1
          MaxFiles,  \* _MAX_JUDGE_FILES
          MaxChars   \* _MAX_JUDGE_CONTENT_CHARS

ASSUME ReviewAssumption ==
    /\ Changed \subseteq Artifact /\ entry \in Artifact
    /\ Budget \in Nat /\ Sizes \subseteq Nat /\ 1 \in Sizes /\ MaxFiles \in Nat /\ MaxChars \in Nat

VARIABLES
    gate,     \* where run_gate is, and the exit code it takes for the check's
    check,    \* how the check ended by itself, and when
    group,    \* the processes of the check's group
    clock,
    tree,     \* the tree under review
    context,  \* what the reviewer is shown, told of, and what is still to be read
    ask,      \* the attempt at a reply, and the last one
    verdict

reviewVars == <<gate, check, group, clock, tree, context, ask, verdict>>

(* Exit codes of the gate beside the check's 0 and 1.                         *)
NoExit == -1
NoCheck == 125
CannotRun == 126
TimedOut == 124

Artifacts == [kind : {"text", "late"}, size : Sizes, claims : {0}] \cup
             [kind : {"binary", "hidden"}, size : {1}, claims : {0}] \cup
             [kind : {"declared"}, size : {1}, claims : {1, 2}]
ReviewReply == [form : {"valid", "broken"}, approve : BOOLEAN, reasons : BOOLEAN,
          evidence : BOOLEAN, lenses : BOOLEAN]
NoReply == [form |-> "broken", approve |-> FALSE, reasons |-> FALSE,
            evidence |-> FALSE, lenses |-> FALSE]
NoContext == [shown |-> {}, listed |-> {}, todo |-> {}, left |-> MaxChars]
theCheck == "check"   \* the file, and the process that runs it

ReviewTypeOK ==
    /\ gate \in [pc : {"start", "wait", "term", "kill", "over"},
                 code : {NoExit, 0, 1, NoCheck, CannotRun, TimedOut}]
    /\ check \in [exit : {NoExit, 0, 1}, at : 0..Budget]
    /\ group \subseteq {theCheck, "service"}
    /\ clock \in 0..Budget
    /\ tree \in [Artifact -> Artifacts]
    /\ context.shown \cup context.todo \subseteq Artifact \cup {theCheck}
    /\ context.listed \subseteq Artifact /\ context.left \in 0..MaxChars
    /\ ask \in [attempt : 0..2, reply : ReviewReply]
    /\ verdict \in {"none", "approved", "changes_requested", "unavailable"}

ReviewInit ==
    /\ gate = [pc |-> "start", code |-> NoExit]
    /\ check = [exit |-> NoExit, at |-> 0]
    /\ group = {} /\ clock = 0
    /\ tree = [f \in Artifact |-> [kind |-> "text", size |-> 1, claims |-> 0]]
    /\ context = NoContext
    /\ ask = [attempt |-> 0, reply |-> NoReply]
    /\ verdict = "none"

-----------------------------------------------------------------------------
(* run_gate. *)

Over(code) == gate' = [pc |-> "over", code |-> code]

(* A gate without a check is red; so is a check that cannot be executed.      *)
GateIsRed ==
    /\ gate.pc = "start"
    /\ Over(NoCheck) \/ Over(CannotRun)
    /\ UNCHANGED <<check, group, clock, tree, context, ask, verdict>>

CheckStarts ==
    /\ gate.pc = "start"
    /\ gate' = [gate EXCEPT !.pc = "wait"]
    /\ group' = {theCheck}
    /\ UNCHANGED <<check, clock, tree, context, ask, verdict>>

(* The check starts the product, which keeps the group and the open output.   *)
ServiceStarts ==
    /\ theCheck \in group
    /\ group' = group \cup {"service"}
    /\ UNCHANGED <<gate, check, clock, tree, context, ask, verdict>>

CheckExits ==
    /\ theCheck \in group
    /\ \E code \in {0, 1} : check' = [exit |-> code, at |-> clock]
    /\ group' = group \ {theCheck}
    /\ UNCHANGED <<gate, clock, tree, context, ask, verdict>>

TimePasses ==
    /\ gate.pc = "wait" /\ clock < Budget
    /\ clock' = clock + 1
    /\ UNCHANGED <<gate, check, group, tree, context, ask, verdict>>

(* Slip: the gate reads to the end of the output, which the product holds.    *)
OutputIsOver == group = {}

(* The gate waits for the process.                                           *)
CheckIsOver == theCheck \notin group

WaitEnds ==
    /\ gate.pc = "wait" /\ (CheckIsOver \/ clock = Budget)
    /\ gate' = [pc |-> "term", code |-> IF CheckIsOver THEN check.exit ELSE TimedOut]
    /\ UNCHANGED <<check, group, clock, tree, context, ask, verdict>>

(* Whatever lives in the group gets SIGTERM, some time to end, and SIGKILL.    *)
GroupIsTerminated ==
    /\ gate.pc = "term"
    /\ group' \in SUBSET group
    /\ gate' = [gate EXCEPT !.pc = IF group' = {} THEN "over" ELSE "kill"]
    /\ UNCHANGED <<check, clock, tree, context, ask, verdict>>

GroupIsKilled ==
    /\ gate.pc = "kill"
    /\ group' = {} /\ Over(gate.code)
    /\ UNCHANGED <<check, clock, tree, context, ask, verdict>>

Passed == gate.pc = "over" /\ gate.code = 0

-----------------------------------------------------------------------------
(* assess. *)

Undecided == verdict = "none"
Stays == UNCHANGED <<gate, check, group, clock>>

RedIsRejected ==
    /\ Undecided /\ gate.pc = "over" /\ ~Passed
    /\ verdict' = "changes_requested"
    /\ Stays /\ UNCHANGED <<tree, context, ask>>

(* One script's claim exempts its output, unless that is itself an input.     *)
DeclaredOutputs(t) ==
    {f \in Artifact \ {entry} : t[f].kind = "declared" /\ t[f].claims = 1 /\ t[entry].kind # "hidden"}

(* A claim counts only when its source can be read in full.                   *)
Reviewable(t) == t[entry].kind = "text" /\ t[entry].size <= MaxChars

(* What the review leaves out, and lists.                                    *)
Omitted(t) == {f \in Artifact : t[f].kind = "binary"} \cup
              (IF Reviewable(t) THEN DeclaredOutputs(t) ELSE {})

(* The tree is walked when the check is over, which may have written to it.    *)
(* Directories with a dot are left out, but for a changed file.               *)
ListArtifacts ==
    /\ Undecided /\ Passed /\ ask.attempt = 0 /\ context.todo = {} /\ context.shown = {}
    /\ tree' \in [Artifact -> Artifacts]
    /\ LET listed == Omitted(tree')
           files == {f \in Artifact \ listed : tree'[f].kind # "hidden" \/ f \in Changed}
       IN IF Cardinality(files) + 1 > MaxFiles
          THEN verdict' = "unavailable" /\ UNCHANGED context
          ELSE /\ context' = [context EXCEPT !.todo = files \cup {theCheck}, !.listed = listed]
               /\ UNCHANGED verdict
    /\ Stays /\ UNCHANGED ask

(* No model can be asked, or a file cannot be read.                          *)
NoReviewer ==
    /\ Undecided /\ Passed /\ ask.attempt = 0
    /\ verdict' = "unavailable"
    /\ Stays /\ UNCHANGED <<tree, context, ask>>

(* The check first, then what the pull request changed, then its base.        *)
Soonest(files) == IF theCheck \in files THEN {theCheck}
                 ELSE IF files \cap Changed # {} THEN files \cap Changed ELSE files
SizeOf(f) == IF f = theCheck THEN 1 ELSE tree[f].size
IsText(f) == f = theCheck \/ tree[f].kind # "late"

(* Slip: a file that is too long is shown as far as it goes.                  *)
ReadsPrefix ==
    \E f \in Soonest(context.todo) :
        /\ IF IsText(f)
           THEN context' = [context EXCEPT !.todo = @ \ {f},
                               !.left = IF SizeOf(f) > @ THEN 0 ELSE @ - SizeOf(f),
                               !.shown = IF SizeOf(f) > context.left THEN @ ELSE @ \cup {f}]
           ELSE context' = [context EXCEPT !.todo = @ \ {f}, !.listed = @ \cup {f}]
        /\ ask' = IF context.todo = {f} THEN [ask EXCEPT !.attempt = 1] ELSE ask
        /\ UNCHANGED verdict

(* Slip: only the file's bytes are held against the budget, not its text.      *)
ReadsByBytes ==
    \E f \in Soonest(context.todo) :
        IF SizeOf(f) > 4 * (context.left + 1)
        THEN verdict' = "unavailable" /\ UNCHANGED <<context, ask>>
        ELSE /\ context' = IF IsText(f)
                           THEN [context EXCEPT !.todo = @ \ {f}, !.shown = @ \cup {f},
                                                !.left = @ - SizeOf(f)]
                           ELSE [context EXCEPT !.todo = @ \ {f}, !.listed = @ \cup {f}]
             /\ ask' = IF context.todo = {f} THEN [ask EXCEPT !.attempt = 1] ELSE ask
             /\ UNCHANGED verdict

(* Every file is shown whole: one that does not fit ends the review.  A file   *)
(* that turns out not to be text is listed.                                  *)
ReadsWhole ==
    \E f \in Soonest(context.todo) :
        IF SizeOf(f) > 4 * (context.left + 1) \/ (IsText(f) /\ SizeOf(f) > context.left)
        THEN verdict' = "unavailable" /\ UNCHANGED <<context, ask>>
        ELSE /\ context' = IF IsText(f)
                           THEN [context EXCEPT !.todo = @ \ {f}, !.shown = @ \cup {f},
                                                !.left = @ - SizeOf(f)]
                           ELSE [context EXCEPT !.todo = @ \ {f}, !.listed = @ \cup {f}]
             /\ ask' = IF context.todo = {f} THEN [ask EXCEPT !.attempt = 1] ELSE ask
             /\ UNCHANGED verdict

ReadArtifact ==
    /\ Undecided /\ context.todo # {}
    /\ ReadsWhole
    /\ Stays /\ UNCHANGED tree

(* Slip: a defect on record does not override the reply's approval.           *)
ApprovesByFlag(r) == r.approve

(* An approval that lists a defect is none.                                  *)
ApprovesWith(r) == r.approve /\ ~r.reasons

Reading(r) == IF r.form = "broken" THEN "invalid"
              ELSE IF ApprovesWith(r) /\ ~r.evidence THEN "unproven"
              ELSE IF ~r.lenses THEN "invalid"
              ELSE IF ApprovesWith(r) THEN "approved" ELSE "changes_requested"

SecondAttempt == ask' = [ask EXCEPT !.attempt = 2] /\ UNCHANGED verdict

InvocationFails ==
    /\ Undecided /\ ask.attempt > 0
    /\ IF ask.attempt = 1 THEN SecondAttempt ELSE verdict' = "unavailable" /\ UNCHANGED ask
    /\ Stays /\ UNCHANGED <<tree, context>>

(* The second reply that cannot be used is no decision, but an approval without *)
(* evidence asks for changes.                                                *)
ReplyArrives ==
    /\ Undecided /\ ask.attempt > 0
    /\ \E r \in ReviewReply :
          IF Reading(r) \in {"invalid", "unproven"} /\ ask.attempt = 1
          THEN ask' = [attempt |-> 2, reply |-> r] /\ UNCHANGED verdict
          ELSE /\ ask' = [ask EXCEPT !.reply = r]
               /\ verdict' = CASE Reading(r) = "invalid" -> "unavailable"
                               [] Reading(r) = "unproven" -> "changes_requested"
                               [] OTHER -> Reading(r)
    /\ Stays /\ UNCHANGED <<tree, context>>

ReviewNext ==
    \/ GateIsRed \/ CheckStarts \/ ServiceStarts \/ CheckExits \/ TimePasses
    \/ WaitEnds \/ GroupIsTerminated \/ GroupIsKilled
    \/ RedIsRejected \/ ListArtifacts \/ NoReviewer \/ ReadArtifact
    \/ InvocationFails \/ ReplyArrives

ReviewSpec == ReviewInit /\ [][ReviewNext]_reviewVars

-----------------------------------------------------------------------------
(* Properties. *)

(* The gate's result is the check's own: a check that exits in time decides it, *)
(* though what it started is still running and holds its output, and nothing    *)
(* else can pass it.  Nothing of its group outlives the gate (run_gate,        *)
(* _kill_process_group).                                                     *)
GateIsHonest ==
    gate.pc = "over" =>
        /\ check.exit # NoExit /\ check.at < Budget => gate.code = check.exit
        /\ gate.code \in {0, 1} => gate.code = check.exit
        /\ group = {}

(* An approval stands on a passed check, on a last reply that covers both       *)
(* lenses, proves the contribution's use and lists no defect, and on every      *)
(* source file having been shown whole (build output only where its source     *)
(* was).  A change is asked for only for a red gate or for what a reply says:   *)
(* a review that did not take place is not a finding (assess).               *)
VerdictIsFounded ==
    /\ verdict = "approved" =>
          /\ Passed
          /\ ask.reply = [form |-> "valid", approve |-> TRUE, reasons |-> FALSE,
                           evidence |-> TRUE, lenses |-> TRUE]
          /\ theCheck \in context.shown
          /\ \A f \in Artifact :
                \/ f \in context.shown
                \/ tree[f].kind \in {"binary", "late"} /\ f \in context.listed
                \/ tree[f].kind = "declared" /\ tree[f].claims = 1 /\ f # entry
                   /\ entry \in context.shown
                \/ tree[f].kind = "hidden" /\ f \notin Changed
    /\ verdict = "changes_requested" =>
          \/ gate.code # 0
          \/ ask.reply.form = "valid" /\ (~ask.reply.approve \/ ask.reply.reasons
                                           \/ ~ask.reply.evidence)

(* A red check is never read as green, and no verdict rests on less than the    *)
(* whole of what was judged.                                                  *)
ReviewIsFounded == GateIsHonest /\ VerdictIsFounded
=============================================================================
