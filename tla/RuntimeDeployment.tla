------------------------- MODULE RuntimeDeployment -------------------------
(***************************************************************************)
(* Deploying an AgentCore Runtime (coding-agents/runtime_deploy.py, and       *)
(* orchestrator-agent/promote_runtime.py for the coordinator's).  The service  *)
(* is a history of the Runtime's states of which a read returns any: "Get may  *)
(* briefly return an older FAILED as well as an older READY".  Deployers run   *)
(* against it at once: role deployments that submit their own image, or       *)
(* promotions of what the coordinator's CloudFormation stack deployed, beside  *)
(* that stack's own operations.                                             *)
(***************************************************************************)
EXTENDS Integers, Sequences

CONSTANTS Deployer,
          MaxOperation      \* bound: creations and updates the service accepts

ASSUME DeploymentAssumption == MaxOperation \in Nat \ {0}

Platform == {"V1", "V2"}
Selected == "V1"            \* selected_platform()
BusyStatus == {"CREATING", "UPDATING"}
FailedStatus == {"CREATE_FAILED", "UPDATE_FAILED"}
Operation == 0 .. MaxOperation

VARIABLES history,          \* the Runtime's states, oldest first
          accepted,         \* operations the service accepted
          roleUsable,       \* IAM has propagated the execution role
          known,            \* runtime_config.json holds the Runtime's ID
          stack,            \* CDK stack: operation in force, and whether complete
          deployer          \* per deployer: the invocation under way

deployVars == <<history, accepted, roleUsable, known, stack, deployer>>

(* What a submission carries: a role deployment's own image, or the content    *)
(* of one of the stack's operations.                                         *)
Image == ({"role"} \X Deployer) \cup ({"stack"} \X Operation)
RuntimeState == [revision : Operation, status : BusyStatus \cup FailedStatus \cup {"READY"},
          platform : Platform, image : Image, at : Operation]
Phase == {"idle", "create", "read", "have", "earlier", "check", "update", "waiting", "verify",
          "done", "failed"}

DeployTypeOK ==
    /\ history \in Seq(RuntimeState) /\ accepted \in Operation
    /\ {roleUsable, known} \subseteq BOOLEAN
    /\ stack.operation \in Operation /\ stack.complete \in BOOLEAN
    /\ \A p \in Deployer :
         /\ deployer[p].kind \in {"deploy", "promote"} /\ deployer[p].phase \in Phase
         /\ deployer[p].current \in 0 .. Len(history)
         /\ deployer[p].expected \in Operation /\ deployer[p].since \in Operation
         /\ deployer[p].operation \in Operation
         /\ deployer[p].blames \in 0 .. Len(history)

Invocation(k) == [kind |-> k, phase |-> "idle", current |-> 0, expected |-> 0, since |-> 0,
                  operation |-> 0, blames |-> 0]

DeployInit ==
    /\ history = <<>> /\ accepted = 0 /\ roleUsable \in BOOLEAN /\ known = FALSE
    /\ stack = [operation |-> 0, complete |-> FALSE]
    /\ \E k \in {"deploy", "promote"} : deployer = [p \in Deployer |-> Invocation(k)]

PhaseGoes(p, phase) == deployer' = [deployer EXCEPT ![p].phase = phase]
\* The command has ended, and what it knew with it.
Fails(p) == deployer' = [deployer EXCEPT ![p] = [Invocation(@.kind) EXCEPT !.phase = "failed"]]
Latest == history[Len(history)]
Is(p, kind, phase) == deployer[p].kind = kind /\ deployer[p].phase = phase
Now(p) == history[deployer[p].current]

----------------------------------------------------------------------------
(* The service.  A submission is refused while another operation runs.        *)

Free == history # <<>> => Latest.status \notin BusyStatus
Submitted(image, platform) ==
    Append(history, [revision |-> accepted + 1,
                     status |-> IF history = <<>> THEN "CREATING" ELSE "UPDATING",
                     platform |-> platform, image |-> image, at |-> accepted + 1])

(* An operation ends; a failed update may keep the revision before it.         *)
Settle ==
    /\ history # <<>> /\ Latest.status \in BusyStatus
    /\ \E s \in {"READY", "CREATE_FAILED", "UPDATE_FAILED"}, r \in Operation, v \in Platform :
         /\ s # "READY" => v = Latest.platform
         /\ s = "CREATE_FAILED" <=> Latest.status = "CREATING" /\ s # "READY"
         /\ r = Latest.revision \/ (s = "UPDATE_FAILED" /\ r = Latest.revision - 1)
         /\ history' = Append(history, [Latest EXCEPT !.status = s, !.revision = r,
                                                      !.platform = v])
    /\ UNCHANGED <<accepted, roleUsable, known, stack, deployer>>

RoleSpreads ==
    /\ ~roleUsable /\ roleUsable' = TRUE
    /\ UNCHANGED <<history, accepted, known, stack, deployer>>

(* agentcore deploy: the stack submits its content and completes when it is    *)
(* READY.  It runs beside promotions only.                                   *)
StackDeploys ==
    /\ \A p \in Deployer : deployer[p].kind = "promote"
    /\ accepted < MaxOperation /\ Free
    /\ history' = Submitted(<<"stack", accepted + 1>>, "V1")
    /\ accepted' = accepted + 1
    /\ stack' = [operation |-> accepted + 1, complete |-> FALSE]
    /\ UNCHANGED <<roleUsable, known, deployer>>

StackCompletes ==
    /\ stack.operation # 0 /\ ~stack.complete
    /\ \E i \in 1 .. Len(history) :
         history[i].at = stack.operation /\ history[i].status = "READY"
    /\ stack' = [stack EXCEPT !.complete = TRUE]
    /\ UNCHANGED <<history, accepted, roleUsable, known, deployer>>

----------------------------------------------------------------------------
(* deploy(): by the saved ID when there is one, else create and, when the      *)
(* name is taken, recover by name.                                          *)

BeginDeploy(p) ==
    /\ Is(p, "deploy", "idle")
    /\ IF known THEN \E i \in 1 .. Len(history) :
                       deployer' = [deployer EXCEPT ![p].current = i, ![p].phase = "have"]
       ELSE PhaseGoes(p, "create")
    /\ UNCHANGED <<history, accepted, roleUsable, known, stack>>

(* create_runtime_with_role_retry: one idempotency token, tried again while    *)
(* the role spreads and until its budget ends.                               *)
CreateRefused(p) ==
    /\ Is(p, "deploy", "create") /\ ~roleUsable
    /\ PhaseGoes(p, "create") \/ Fails(p)
    /\ UNCHANGED <<history, accepted, roleUsable, known, stack>>

Create(p) ==
    /\ Is(p, "deploy", "create") /\ roleUsable
    /\ IF history = <<>>
       THEN /\ accepted < MaxOperation
            /\ history' = Submitted(<<"role", p>>, Selected) /\ accepted' = accepted + 1
            /\ \/ deployer' = [deployer EXCEPT ![p].phase = "waiting",
                                 ![p].expected = accepted + 1, ![p].since = accepted + 1]
               \/ Fails(p)                 \* the answer is lost
       ELSE /\ \/ \E i \in 1 .. Len(history) :      \* ConflictException: _by_name
                    deployer' = [deployer EXCEPT ![p].current = i, ![p].phase = "have"]
               \/ Fails(p)
            /\ UNCHANGED <<history, accepted>>
    /\ UNCHANGED <<roleUsable, known, stack>>

(* An operation seen under way is waited for first, on any platform.           *)
Have(p) ==
    /\ deployer[p].phase = "have"
    /\ IF Now(p).status \in BusyStatus
       THEN deployer' = [deployer EXCEPT ![p].phase = "earlier",
                           ![p].expected = Now(p).revision, ![p].since = Now(p).at]
       ELSE IF deployer[p].kind = "promote" /\ Now(p).status = "READY"
               /\ Now(p).platform = Selected
       THEN PhaseGoes(p, "verify")
       ELSE PhaseGoes(p, IF deployer[p].kind = "promote" THEN "check" ELSE "update")
    /\ UNCHANGED <<history, accepted, roleUsable, known, stack>>

(* update_request keeps what the read showed and replaces what is deployed.    *)
Update(p) ==
    /\ deployer[p].phase = "update"
    /\ IF Free
       THEN /\ accepted < MaxOperation
            /\ history' = Submitted(IF deployer[p].kind = "deploy" THEN <<"role", p>>
                                    ELSE Now(p).image, Selected)
            /\ accepted' = accepted + 1
            /\ \/ deployer' = [deployer EXCEPT ![p].phase = "waiting",
                                 ![p].expected = accepted + 1, ![p].since = accepted + 1]
               \/ Fails(p)                 \* the answer is lost
       ELSE Fails(p) /\ UNCHANGED <<history, accepted>>
    /\ UNCHANGED <<roleUsable, known, stack>>

----------------------------------------------------------------------------
(* wait_ready, one poll at a time.  A promotion's reads pass _CdkControl,      *)
(* which drops what predates or differs from the stack's operation.            *)

Visible(p, s) ==
    deployer[p].kind = "promote" =>
      s.at >= deployer[p].operation /\ s.image = <<"stack", deployer[p].operation>>

\* Slip: a failure of an operation before this one is taken for its own.
FreshAny(p, s) == s.revision >= 0

Fresh(p, s) == s.at >= deployer[p].since

\* Slip: any READY state that is recent enough completes the deployment.
CompletesAny(p, s) == s.at >= deployer[p].since /\ s.status = "READY"

Completes(p, s) ==
    Fresh(p, s) /\ s.revision = deployer[p].expected /\ s.status = "READY"

Poll(p) ==
    /\ deployer[p].phase \in {"earlier", "waiting"}
    /\ \E i \in 1 .. Len(history) :
         LET s == history[i]
         IN /\ Visible(p, s)
            /\ \/ /\ Fresh(p, s) /\ s.status \in FailedStatus
                  /\ deployer' = [deployer EXCEPT ![p].phase = "failed", ![p].blames = i]
               \/ /\ Completes(p, s)
                  /\ deployer' = [deployer EXCEPT
                       ![p].current = i,
                       ![p].phase =
                         IF deployer[p].phase = "earlier"
                         THEN IF deployer[p].kind = "deploy" THEN "update"
                              ELSE IF s.platform = Selected THEN "verify" ELSE "check"
                         ELSE IF s.platform # Selected THEN "failed"
                         ELSE IF deployer[p].kind = "deploy" THEN "done" ELSE "verify"]
    /\ known' = (known \/ (Is(p, "deploy", "waiting") /\ deployer'[p].phase = "done"))
    /\ UNCHANGED <<history, accepted, roleUsable, stack>>

(* Any deadline, and a read that fails for good.                             *)
GiveUp(p) ==
    /\ deployer[p].phase \in {"read", "earlier", "waiting"}
    /\ Fails(p)
    /\ UNCHANGED <<history, accepted, roleUsable, known, stack>>

(* The person runs the command again.                                        *)
Again(p) ==
    /\ deployer[p].phase \in {"done", "failed"} /\ accepted < MaxOperation
    /\ deployer' = [deployer EXCEPT ![p] = Invocation(deployer[p].kind)]
    /\ UNCHANGED <<history, accepted, roleUsable, known, stack>>

----------------------------------------------------------------------------
(* promote_project: bound to the stack's completed operation.                *)

BeginPromotion(p) ==
    /\ Is(p, "promote", "idle") /\ stack.complete
    /\ deployer' = [deployer EXCEPT ![p].phase = "read", ![p].operation = stack.operation]
    /\ UNCHANGED <<history, accepted, roleUsable, known, stack>>

ReadRuntime(p) ==
    /\ Is(p, "promote", "read")
    /\ \E i \in 1 .. Len(history) :
         /\ Visible(p, history[i])
         /\ deployer' = [deployer EXCEPT ![p].current = i, ![p].phase = "have"]
    /\ UNCHANGED <<history, accepted, roleUsable, known, stack>>

Unchanged(p) == stack.complete /\ stack.operation = deployer[p].operation

(* assert_unchanged comes before the update, and once more at the end, when    *)
(* the verified revision is merged into the CLI's state.                      *)
CheckStack(p) ==
    /\ Is(p, "promote", "check")
    /\ IF Unchanged(p) THEN PhaseGoes(p, "update") ELSE Fails(p)
    /\ UNCHANGED <<history, accepted, roleUsable, known, stack>>

RecordPromotion(p) ==
    /\ Is(p, "promote", "verify")
    /\ IF Unchanged(p) THEN PhaseGoes(p, "done") ELSE Fails(p)
    /\ UNCHANGED <<history, accepted, roleUsable, known, stack>>

DeployNext ==
    \/ Settle \/ RoleSpreads \/ StackDeploys \/ StackCompletes
    \/ \E p \in Deployer :
         \/ BeginDeploy(p) \/ CreateRefused(p) \/ Create(p) \/ Have(p) \/ Update(p)
         \/ Poll(p) \/ GiveUp(p) \/ Again(p)
         \/ BeginPromotion(p) \/ ReadRuntime(p) \/ CheckStack(p) \/ RecordPromotion(p)

DeploySpec == DeployInit /\ [][DeployNext]_deployVars

----------------------------------------------------------------------------
(* Properties.                                                              *)

(* A deployment that reports success saw its own submission, READY on the      *)
(* selected platform; a promotion that does saw the stack's content; and one   *)
(* that reports the service's failure blames no operation before the one it     *)
(* waited for.  Reads may be stale and others may deploy meanwhile.             *)
OutcomesAreOwn ==
    \A p \in Deployer :
      /\ deployer[p].phase = "done" =>
           /\ Now(p).status = "READY" /\ Now(p).platform = Selected
           /\ Now(p).image = IF deployer[p].kind = "deploy" THEN <<"role", p>>
                             ELSE <<"stack", deployer[p].operation>>
      /\ deployer[p].blames # 0 => history[deployer[p].blames].at >= deployer[p].since
==============================================================================
