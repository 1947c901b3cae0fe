----------------------------- MODULE MCDelivery -----------------------------
(* The components that make, judge, publish and record the builders' work, each  *)
(* on its own: they share no state with one another.  The run chooses one, which takes  *)
(* every step, and the others rest.                                           *)
EXTENDS RunRecords, WorkItems, RepositoryWriter, Review, EvidenceRepository,
        RuntimeDeployment, Fanout, TLC

CONSTANTS readme, index, bundle, run1, run2, run3

MCRoster == <<"frontend", "backend">>

VARIABLE chosen

(* Deployments of a role, whose execution role may be new.                     *)
Roles == \A p \in Deployer : deployer[p].kind = "deploy"

(* A work item, where the doctor was asked before, from its start or from its  *)
(* first publication; or the doctor alone.                                   *)
Works == item.state = "new" /\ said.ready = "no" /\ hub.probe = "old" /\ Writable
Asked == item.state = "blocked" /\ said.ready = ""
Published ==
    /\ hub = [commits |-> <<[by |-> "role", version |-> 1]>>, head |-> 1, tip |-> 1,
              default |-> "main", prs |-> <<[state |-> "open", landed |-> 0, by |-> ""]>>,
              probe |-> "old", access |-> "write"]
    /\ item = [version |-> 1, head |-> 1, pr |-> 1, reviewed |-> 0, state |-> "in_review"]
    /\ doing = [kind |-> "none", tool |-> "none", try |-> 0, sha |-> 0]
    /\ exec = [s \in Slot |-> NoToolRun]
    /\ said = [sha |-> 1, tree |-> 1, ready |-> "no"] /\ visits = 0

(* A first run is recording its evidence.                                     *)
Recording ==
    /\ lease = [p \in ComposerProcess |-> IF p = "local" THEN run1 ELSE NoComposer]
    /\ lock = run1
    /\ scratch = [head |-> run1, tree |-> {}, index |-> {}, locked |-> FALSE]
    /\ branches = [r \in Composer |-> {}]
    /\ composer = [r \in Composer |-> [pc |-> IF r = run1 THEN "copy1" ELSE "idle",
                                      recorded |-> NoEvidence]]

(* An earlier run has ended: nothing is left of it, and a write may fail, or it  *)
(* left its verdict where the present run saves.                              *)
Earlier ==
    LET none == [r \in SavedRun |-> NotSaved]
        old == [none EXCEPT ![2] = [over |-> TRUE, saved |-> 0, modified |-> 0]]
    IN  /\ instant = 1 /\ reader = NoReader
        /\ place \in {<<"box", "box">>, <<"session", "sibling">>}
        /\ worker = <<"unborn", "settled">> /\ registry = [h \in Host |-> {}]
        /\ saver = [r \in SavedRun |-> [t \in SaverThread |-> Resting]]
        /\ disk = [h \in Host |-> IF h = place[1] /\ h = "box" THEN old ELSE none]
        /\ IF place[1] = "box" THEN mirror = none /\ fault = MaxFault
           ELSE \/ mirror = old /\ fault = MaxFault
                \/ mirror = none /\ fault = 0
        /\ pulse = [r \in SavedRun |-> Never]

Init ==
    /\ chosen \in {"records", "trees", "writer", "review", "evidence", "deployment", "fanout"}
    /\ Earlier /\ (chosen = "records" \/ fault = 0)
    /\ WorkInit /\ (chosen = "trees" \/ trunk[1].tree = NoFiles)
    /\ \/ WriterInit /\ (Works \/ (Asked /\ chosen = "writer"))
       \/ chosen = "writer" /\ Published
    /\ ReviewInit
    /\ EvidenceInit \/ (chosen = "evidence" /\ Recording)
    /\ DeployInit /\ (roleUsable \/ (chosen = "deployment" /\ Roles))
    /\ chosen = "deployment" \/ Roles
    /\ FanoutInit

(* All but the component that steps rest.                                    *)
OthersRest ==
    /\ UNCHANGED chosen
    /\ IF chosen = "records" THEN TRUE ELSE UNCHANGED recordVars
    /\ IF chosen = "trees" THEN TRUE ELSE UNCHANGED workVars
    /\ IF chosen = "writer" THEN TRUE ELSE UNCHANGED writerVars
    /\ IF chosen = "review" THEN TRUE ELSE UNCHANGED reviewVars
    /\ IF chosen = "evidence" THEN TRUE ELSE UNCHANGED evidenceVars
    /\ IF chosen = "deployment" THEN TRUE ELSE UNCHANGED deployVars
    /\ IF chosen = "fanout" THEN TRUE ELSE UNCHANGED fanoutVars

Next ==
    \/ chosen = "records" /\ RecordNext /\ OthersRest
    \/ chosen = "trees" /\ WorkNext /\ OthersRest
    \/ chosen = "writer" /\ WriterNext /\ OthersRest
    \/ chosen = "review" /\ ReviewNext /\ OthersRest
    \/ chosen = "evidence" /\ EvidenceNext /\ OthersRest
    \/ chosen = "deployment" /\ DeployNext /\ OthersRest
    \/ chosen = "fanout" /\ FanoutNext /\ OthersRest

DeliverySpec ==
    Init /\ [][Next]_<<chosen, recordVars, workVars, writerVars, reviewVars, evidenceVars,
                      deployVars, fanoutVars>>

(* The component that steps keeps its variables' types (the others are as they *)
(* began).                                                                   *)
DeliveryTypeOK ==
    /\ chosen = "records" => RecordTypeOK
    /\ chosen = "trees" => WorkTypeOK
    /\ chosen = "writer" => WriterTypeOK
    /\ chosen = "review" => ReviewTypeOK
    /\ chosen = "evidence" => EvidenceTypeOK
    /\ chosen = "deployment" => DeployTypeOK
    /\ chosen = "fanout" => FanoutTypeOK

==============================================================================
