---------------------------- MODULE Conversation ----------------------------
(***************************************************************************)
(* One conversation with the coordinator: the ledger of the participant's   *)
(* words (orchestrator/chat_request.py), the build tools that choose among  *)
(* them (chat.py), and the two hosts that stream a turn: the console, where *)
(* a lock per conversation admits one turn at a time (connection_api), and  *)
(* the deployed coordinator, whose cached agent refuses a second turn       *)
(* (orchestrator-agent/main.py).                                            *)
(*                                                                         *)
(* A turn's tool call admits a request, asks a model which roles it needs,  *)
(* and only then submits it; meanwhile the turn may be stopped, another     *)
(* call of the same turn may submit, and builds end.  A run is admitted and *)
(* written into the ledger under the request's admission lock, which        *)
(* closing the request takes too.                                           *)
(***************************************************************************)
EXTENDS Integers, Sequences, FiniteSets

CONSTANTS MaxTurn,    \* bound: the participant's messages
          Call,       \* tool calls the model may have running at once
          MaxLedger   \* chat_request.MAX_LEDGER_TURNS

ASSUME ConversationAssumption == MaxTurn \in Nat /\ MaxLedger \in Nat \ {0}

Turn == 1 .. MaxTurn
TurnKind == {"request", "selector", "approval"}   \* is_confirmation, selected_presets
NoRun == 0

VARIABLES console,     \* TRUE: connection_api hosts the chat; FALSE: main.py does
          turn,        \* every message: its UserRequest and its stream
          next,        \* ledger.next_id
          pending,     \* ledger.pending: turns not built yet, oldest kept first
          omitted,     \* the turns ledger.omitted counts
          resubmitted, \* ledger.resubmitted
          build,       \* runs this conversation started: ledger.runs and their fate
          call         \* the tool calls between admission and submission

conversationVars == <<console, turn, next, pending, omitted, resubmitted, build, call>>

Unborn == [stage |-> "unborn", kind |-> "request", prior |-> <<>>, runs |-> 0,
           started |-> {}, closed |-> FALSE, committed |-> FALSE]
NoCall == [turn |-> 0, words |-> {}, preset |-> FALSE, revises |-> NoRun, repeats |-> NoRun]

Run == 1 .. Len(build)
Elements(seq) == {seq[i] : i \in DOMAIN seq}
Streaming == {t \in Turn : turn[t].stage = "streaming"}

ConversationTypeOK ==
    /\ console \in BOOLEAN
    /\ turn \in [Turn -> [stage : {"unborn", "streaming", "refused", "over"},
                          kind : TurnKind, prior : Seq(Turn), runs : Nat,
                          started : SUBSET Run, closed : BOOLEAN, committed : BOOLEAN]]
    /\ next \in 1 .. MaxTurn + 1
    /\ pending \in Seq(Turn) /\ Len(pending) <= MaxLedger
    /\ omitted \subseteq Turn
    /\ resubmitted \subseteq Run
    /\ \A r \in Run : build[r] \in [turn : Turn, words : SUBSET Turn, preset : BOOLEAN,
                                    revises : 0 .. r - 1, repeats : 0 .. r - 1,
                                    state : {"active", "empty", "over"}]
    /\ call \in [Call -> [turn : 0 .. MaxTurn, words : SUBSET Turn, preset : BOOLEAN,
                          revises : 0 .. Len(build), repeats : 0 .. Len(build)]]

ConversationInit ==
    /\ console \in BOOLEAN
    /\ turn = [t \in Turn |-> Unborn]
    /\ next = 1
    /\ pending = <<>> /\ omitted = {} /\ resubmitted = {}
    /\ build = <<>>
    /\ call = [c \in Call |-> NoCall]

----------------------------------------------------------------------------
(* A message arrives.                                                       *)

(* RequestLedger.begin: the turn sees the ledger as it is now.              *)
Opened(k, stage) == [Unborn EXCEPT !.stage = stage, !.kind = k, !.prior = pending,
                                   !.runs = Len(build)]

\* Slip: no lock per conversation, so two tabs stream at once.
BeginTurnUnlocked(k) ==
    /\ next <= MaxTurn
    /\ turn' = [turn EXCEPT ![next] = Opened(k, "streaming")]
    /\ next' = next + 1
    /\ UNCHANGED <<console, pending, omitted, resubmitted, build, call>>

(* chat_stream takes the conversation's lock or answers that it is busy,    *)
(* which changes nothing.  main.invoke opens the request in either case:    *)
(* the agent raises ConcurrencyException inside stream_user_turn.  When     *)
(* build_agent raises, stream_chat ends with the request neither closed nor *)
(* committed.                                                               *)
BeginTurn(k) ==
    /\ next <= MaxTurn
    /\ console => Streaming = {}
    /\ \E stage \in IF Streaming # {} THEN {"refused"}
                    ELSE IF console THEN {"streaming", "over"} ELSE {"streaming"} :
          turn' = [turn EXCEPT ![next] = Opened(k, stage)]
    /\ next' = next + 1
    /\ UNCHANGED <<console, pending, omitted, resubmitted, build, call>>

----------------------------------------------------------------------------
(* The model calls a build tool.                                            *)

RequestOpen(t) == turn[t].stage = "streaming" /\ ~turn[t].closed /\ turn[t].started = {}
Approves(t) == turn[t].kind = "approval"
Selects(S) == \E t \in S : turn[t].kind = "selector"

(* chat_request.admit: which of the participant's words become the request. *)
(* A focused build (dispatch) names no preset and records none.             *)
Ask(c, t, focused) ==
    \E named \in SUBSET Elements(turn[t].prior), revised \in 0 .. turn[t].runs,
       standalone \in BOOLEAN, asked \in IF focused THEN {FALSE} ELSE BOOLEAN :
      LET said == named \cup {t}
          preset == IF revised # NoRun THEN build[revised].preset ELSE asked
          carried == IF revised = NoRun THEN {} ELSE build[revised].words
      IN /\ RequestOpen(t) /\ call[c] = NoCall
         /\ revised # NoRun => ~(Approves(t) /\ named = {})
         /\ revised = NoRun /\ named = {} =>
              /\ ~Approves(t)
              /\ \/ \A u \in Elements(turn[t].prior) : Approves(u)
                 \/ standalone
                 \/ turn[t].kind = "selector"
         /\ ~preset /\ revised = NoRun => ~Selects(said)
         /\ preset /\ revised = NoRun => Selects(said)
         /\ call' = [call EXCEPT ![c] =
              [turn |-> t, preset |-> preset /\ ~focused, revises |-> revised,
               repeats |-> NoRun,
               words |-> carried \cup (IF Approves(t) THEN named ELSE said)]]
         /\ UNCHANGED <<console, turn, next, pending, omitted, resubmitted, build>>

(* chat_request.admit_resubmission.                                         *)
AskAgain(c, t, r) ==
    /\ RequestOpen(t) /\ call[c] = NoCall
    /\ r <= turn[t].runs
    /\ build[r].repeats = NoRun /\ r \notin resubmitted
    /\ call' = [call EXCEPT ![c] =
         [turn |-> t, words |-> build[r].words, preset |-> build[r].preset,
          revises |-> build[r].revises, repeats |-> r]]
    /\ UNCHANGED <<console, turn, next, pending, omitted, resubmitted, build>>

(* The tools.  Each goes on to Kick with what was admitted; a resubmission  *)
(* asks first whether its run produced nothing.                             *)
RunBuild(c, t) == Ask(c, t, FALSE)
DispatchAgent(c, t) == Ask(c, t, TRUE)
ResubmitRun(c, t) == \E r \in Run : build[r].state = "empty" /\ AskAgain(c, t, r)

(* Engine.submit and ledger.record_dispatch, for a call whose request is    *)
(* still what the guard says it is.                                         *)
Admitted(c) ==
    LET a == call[c] IN
    /\ build' = Append(build, [turn |-> a.turn, words |-> a.words, preset |-> a.preset,
                               revises |-> a.revises, repeats |-> a.repeats,
                               state |-> "active"])
    /\ turn' = [turn EXCEPT ![a.turn].started = @ \cup {Len(build) + 1}]
    /\ resubmitted' = resubmitted \cup ({a.repeats} \ {NoRun})
    /\ call' = [call EXCEPT ![c] = NoCall]
    /\ UNCHANGED <<console, next, pending, omitted>>

BuildActive == \E r \in Run : build[r].state = "active"

\* Slip: a request that was closed meanwhile still submits.
KickClosed(c) ==
    /\ call[c] # NoCall /\ turn[call[c].turn].started = {} /\ ~BuildActive
    /\ Admitted(c)

(* The roles are known: chat._kick, under the request's admission lock.     *)
Kick(c) ==
    /\ call[c] # NoCall
    /\ ~turn[call[c].turn].closed
    /\ turn[call[c].turn].started = {}
    /\ ~BuildActive
    /\ Admitted(c)

(* Closed, already started, a duplicate, another build's repository claim,  *)
(* or a claim that cannot be established: the tool answers with an error.   *)
KickRefused(c) ==
    /\ call[c] # NoCall
    /\ call' = [call EXCEPT ![c] = NoCall]
    /\ UNCHANGED <<console, turn, next, pending, omitted, resubmitted, build>>

(* The engine: a run ends, having produced nothing or not.                  *)
BuildEnds(r) ==
    /\ build[r].state = "active"
    /\ \E end \in {"empty", "over"} : build' = [build EXCEPT ![r].state = end]
    /\ UNCHANGED <<console, turn, next, pending, omitted, resubmitted, call>>

----------------------------------------------------------------------------
(* The turn ends: answered, stopped by the participant, or disconnected.    *)

(* UserRequest.close, first half: under the admission lock.                 *)
CloseTurn(t) ==
    /\ turn[t].stage \in {"streaming", "refused"} /\ ~turn[t].closed
    /\ turn' = [turn EXCEPT ![t].closed = TRUE]
    /\ UNCHANGED <<console, next, pending, omitted, resubmitted, build, call>>

(* The newest MaxLedger turns; older ones are counted, not kept.            *)
Kept(seq) == IF Len(seq) > MaxLedger THEN Tail(seq) ELSE seq

\* Slip: a turn that asked for a build counts as built, started or not.
CommitAsked(t) ==
    /\ turn[t].closed /\ ~turn[t].committed
    /\ turn' = [turn EXCEPT ![t].committed = TRUE]
    /\ IF turn[t].started # {} \/ \E c \in Call : call[c].turn = t
       THEN pending' = <<>> /\ omitted' = {}
       ELSE LET all == Append(pending, t) IN
            /\ pending' = Kept(all)
            /\ omitted' = omitted \cup (Elements(all) \ Elements(Kept(all)))
    /\ UNCHANGED <<console, next, resubmitted, build, call>>

\* Slip: the ledger keeps every turn.
CommitUnbounded(t) ==
    /\ turn[t].closed /\ ~turn[t].committed
    /\ turn' = [turn EXCEPT ![t].committed = TRUE]
    /\ pending' = IF turn[t].started # {} THEN <<>> ELSE Append(pending, t)
    /\ UNCHANGED <<console, next, omitted, resubmitted, build, call>>

(* RequestLedger.commit, once per request.                                  *)
Commit(t) ==
    /\ turn[t].closed /\ ~turn[t].committed
    /\ turn' = [turn EXCEPT ![t].committed = TRUE]
    /\ IF turn[t].started # {}
       THEN pending' = <<>> /\ omitted' = {}
       ELSE LET all == Append(pending, t) IN
            /\ pending' = Kept(all)
            /\ omitted' = omitted \cup (Elements(all) \ Elements(Kept(all)))
    /\ UNCHANGED <<console, next, resubmitted, build, call>>

(* The stream is over: chat_stream releases the conversation's lock, the    *)
(* agent takes another invocation.                                          *)
End(t) ==
    /\ turn[t].committed /\ turn[t].stage = "streaming"
    /\ turn' = [turn EXCEPT ![t].stage = "over"]
    /\ UNCHANGED <<console, next, pending, omitted, resubmitted, build, call>>

ConversationNext ==
    \/ \E k \in TurnKind : BeginTurn(k)
    \/ \E t \in Turn : CloseTurn(t) \/ Commit(t) \/ End(t)
    \/ \E c \in Call, t \in Turn : RunBuild(c, t) \/ DispatchAgent(c, t) \/ ResubmitRun(c, t)
    \/ \E c \in Call : Kick(c) \/ KickRefused(c)
    \/ \E r \in Run : BuildEnds(r)

ConversationSpec == ConversationInit /\ [][ConversationNext]_conversationVars

----------------------------------------------------------------------------
(* Properties.                                                              *)

(* A turn starts at most one build, however many tools the model calls and  *)
(* however late their routing answers.                                      *)
OneBuildPerTurn == \A t \in Turn : Cardinality(turn[t].started) <= 1

(* A turn the participant stopped, or whose connection dropped, starts      *)
(* nothing any more: not even a call that was already admitted.             *)
NoBuildAfterStop ==
    [][\A t \in Turn : turn[t].closed => turn'[t].started = turn[t].started]_conversationVars

(* The participant's words are built once.  They are built again only by a  *)
(* revision or by one resubmission of a run that produced nothing, and a     *)
(* resubmission is never resubmitted.                                       *)
WordsBuiltOnce ==
    \A r, s \in Run : r < s =>
      /\ build[r].words \cap build[s].words # {} =>
           build[s].revises # NoRun \/ build[s].repeats # NoRun
      /\ build[s].repeats = r => build[r].repeats = NoRun
      /\ build[r].repeats # NoRun => build[s].repeats # build[r].repeats

(* A turn that was answered without a build stays in the ledger, or is       *)
(* counted as too old to keep, until a build begun no earlier settles it.   *)
(* A turn the deployed coordinator refused is to be sent again.             *)
WordsAreKept ==
    \A t \in Turn :
      turn[t].committed /\ turn[t].stage # "refused" =>
        \/ t \in Elements(pending) \cup omitted
        \/ \E u \in t .. MaxTurn : turn[u].started # {}

(* Words wait in the ledger until they are built, and are built once, by one    *)
(* build of the turn that brings them.                                       *)
LedgerIsHonest == OneBuildPerTurn /\ WordsBuiltOnce /\ WordsAreKept
==============================================================================
