----------------------------- MODULE MCServices -----------------------------
(* The components around the builders' work, which share no state with one      *)
(* another, each on its own: the run chooses one, which takes every step, and    *)
(* the others rest.                                                          *)
EXTENDS EventIntake, SessionActivity, GameHost, SharedTerminal, Conversation,
        WorkspaceSession, AppSetup, TLC

CONSTANTS event, another, delivery1, delivery2, session1, session2

VARIABLE chosen

(* The webhook's interesting cases: one body twice, two kinds of work, and two *)
(* issues at once, from when the endpoint handed both on.                     *)
Cases(first, second, m) ==
    /\ delivery[delivery1].event = first /\ delivery[delivery2].event = second
    /\ mode[event] = m
SameBody == /\ \E m \in Mode : Cases(event, event, m)
            /\ mode[another] = "review"
TwoKinds == Cases(event, another, "review") /\ mode[another] = "fix"
EventAtRest == SameBody /\ mode[event] = "review"

TwoIssues ==
    /\ now = 0 /\ mode = [e \in Event |-> "develop"]
    /\ row = [e \in Event |-> 0]
    /\ delivery = (delivery1 :> [event |-> event, phase |-> "accepted"]) @@
                  (delivery2 :> [event |-> another, phase |-> "accepted"])
    /\ job = <<Queued(event), Queued(another)>>
    /\ lost = {} /\ claim = 0

WebhookInit ==
    \/ EventInit /\ chosen = "webhook" /\ (SameBody \/ TwoKinds)
    \/ EventInit /\ chosen # "webhook" /\ EventAtRest
    \/ chosen = "webhook" /\ TwoIssues

(* A conversation whose first message was answered without a build, or built   *)
(* with nothing to show.                                                     *)
First == [Unborn EXCEPT !.stage = "over", !.closed = TRUE, !.committed = TRUE]
Empty == [turn |-> 1, words |-> {1}, preset |-> FALSE, revises |-> NoRun,
          repeats |-> NoRun, state |-> "empty"]
ChatInit ==
    /\ console \in BOOLEAN /\ next = 2
    /\ omitted = {} /\ resubmitted = {} /\ call = [c \in Call |-> NoCall]
    /\ \/ /\ pending = <<1>> /\ build = <<>>
          /\ \E k \in TurnKind : turn = [t \in Turn |-> IF t = 1 THEN [First EXCEPT !.kind = k]
                                                         ELSE Unborn]
       \/ /\ pending = <<>> /\ build = <<Empty>>
          /\ turn = [t \in Turn |-> IF t = 1 THEN [First EXCEPT !.started = {1}] ELSE Unborn]

(* A tab beside the Development session, or beside a role's.                  *)
TwoSessions == /\ session[session1].dev /\ ~session[session2].dev
               /\ tab.session = session1

Init ==
    /\ chosen \in {"webhook", "activity", "games", "terminal", "chat", "workspace", "setup"}
    /\ WebhookInit
    /\ ActivityInit /\ GameInit /\ TerminalInit
    /\ ChatInit /\ (chosen = "chat" \/ (console /\ pending = <<>>))
    /\ SessionInit /\ TwoSessions
    /\ SetupInit

(* All but the component that steps rest.                                    *)
OthersRest ==
    /\ UNCHANGED chosen
    /\ IF chosen = "webhook" THEN TRUE ELSE UNCHANGED eventVars
    /\ IF chosen = "activity" THEN TRUE ELSE UNCHANGED activityVars
    /\ IF chosen = "games" THEN TRUE ELSE UNCHANGED hostVars
    /\ IF chosen = "terminal" THEN TRUE ELSE UNCHANGED terminalVars
    /\ IF chosen = "chat" THEN TRUE ELSE UNCHANGED conversationVars
    /\ IF chosen = "workspace" THEN TRUE ELSE UNCHANGED sessionVars
    /\ IF chosen = "setup" THEN TRUE ELSE UNCHANGED setupVars

Next ==
    \/ chosen = "webhook" /\ EventNext /\ OthersRest
    \/ chosen = "activity" /\ ActivityNext /\ OthersRest
    \/ chosen = "games" /\ GameNext /\ OthersRest
    \/ chosen = "terminal" /\ TerminalNext /\ OthersRest
    \/ chosen = "chat" /\ ConversationNext /\ OthersRest
    \/ chosen = "workspace" /\ SessionNext /\ OthersRest
    \/ chosen = "setup" /\ SetupNext /\ OthersRest

ServicesSpec ==
    Init /\ [][Next]_<<chosen, eventVars, activityVars, hostVars, terminalVars, conversationVars,
                      sessionVars, setupVars>>

(* The component that steps keeps its variables' types (the others are as they *)
(* began).                                                                   *)
ServicesTypeOK ==
    /\ chosen = "webhook" => EventTypeOK
    /\ chosen = "activity" => ActivityTypeOK
    /\ chosen = "games" => GameTypeOK
    /\ chosen = "terminal" => TerminalTypeOK
    /\ chosen = "chat" => ConversationTypeOK
    /\ chosen = "workspace" => SessionTypeOK
    /\ chosen = "setup" => SetupTypeOK

==============================================================================
