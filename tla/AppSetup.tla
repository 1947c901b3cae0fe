------------------------------ MODULE AppSetup ------------------------------
(***************************************************************************)
(* Registering the workshop's GitHub App                                     *)
(* (coding-agents/gateway_mcp/create-github-app.py).  GitHub redirects the    *)
(* browser to a local receiver with a code, which one request converts, once,  *)
(* into the App's private key.  A checkpoint on disk records how far a setup   *)
(* is; the person may start the script again with --resume or --restart after  *)
(* it timed out, failed or was killed, and refresh the callback tab meanwhile. *)
(* A lock file admits one process; handler threads may outlive its release.    *)
(***************************************************************************)
EXTENDS Integers, FiniteSets

CONSTANTS Receiver,       \* threads of the callback server
          MaxProcess,    \* bound: starts of the script
          MaxSetup       \* bound: Apps set up, the set aside included

ASSUME SetupAssumption == MaxProcess \in Nat /\ MaxSetup \in Nat \ {0}

Process == 1 .. MaxProcess
Setup == 1 .. MaxSetup
Code == Setup \X {1, 2}     \* GitHub's code for each App created under a setup
NoCode == <<0, 0>>
NoCheckpoint == [setup |-> 0, phase |-> "none", code |-> NoCode]

VARIABLES checkpoint,    \* STATE_FILE
          keyFile,       \* the code whose conversion gave the key on disk, or NoCode
          env,           \* ENV_FILE: absent, or whether it exports a webhook secret
          process,       \* where main is, its SetupSession's data, and closed
          handler,       \* a callback being answered
          posts,         \* conversion requests made per code
          shown          \* codes whose browser was told "App created"

setupVars == <<checkpoint, keyFile, env, process, handler, posts, shown>>

Checkpoint ==
    {NoCheckpoint} \cup
    [setup : Setup, code : Code \cup {NoCode},
     phase : {"awaiting_callback", "exchanging", "exchange_failed", "converted", "complete"}]
NoProcess == [stage |-> "none", data |-> NoCheckpoint, closed |-> FALSE]
Waiting == [stage |-> "idle", process |-> 0, code |-> NoCode]

SetupTypeOK ==
    /\ checkpoint \in Checkpoint
    /\ keyFile \in Code \cup {NoCode}
    /\ env \in {"absent", "secret", "no_secret"}
    /\ process \in [Process -> [stage : {"none", "waiting", "installing", "writing",
                                         "completing", "ending", "gone"},
                                data : Checkpoint, closed : BOOLEAN]]
    /\ handler \in [Receiver -> [stage : {"idle", "posting", "answered", "failed", "keying",
                                         "replying"},
                                process : {0} \cup Process, code : Code \cup {NoCode}]]
    /\ posts \in [Code -> Nat]
    /\ shown \subseteq Code

SetupInit ==
    /\ checkpoint = NoCheckpoint /\ keyFile = NoCode /\ env = "absent"
    /\ process = [p \in Process |-> NoProcess]
    /\ handler = [h \in Receiver |-> Waiting]
    /\ posts = [c \in Code |-> 0] /\ shown = {}

Holds(p) == process[p].stage \notin {"none", "ending", "gone"}    \* setup_lock
Starts(p) == /\ process[p].stage = "none" /\ \A q \in Process : q < p => process[q].stage # "none"
            /\ \A q \in Process : ~Holds(q)
Ended(p) == [process EXCEPT ![p].stage = "ending", ![p].closed = TRUE]
Loaded(p, stage, d) == [process EXCEPT ![p].stage = stage, ![p].data = d]

----------------------------------------------------------------------------
(* main takes the lock and finds or makes the checkpoint.                     *)

(* SetupSession.create, for a new setup or after abandon_unfinished_setup set  *)
(* one aside that still waited; it stops at a key, or when its save fails.     *)
Register(p) ==
    LET n == 1 + Cardinality({process[q].data.setup : q \in Process} \ {0})
        new == [setup |-> n, phase |-> "awaiting_callback", code |-> NoCode]
    IN /\ Starts(p) /\ n <= MaxSetup
       /\ checkpoint.phase \in {"none", "awaiting_callback"}
       /\ \/ /\ keyFile = NoCode /\ checkpoint' = new
             /\ process' = Loaded(p, "waiting", new) \/ process' = Loaded(p, "ending", new)
          \/ checkpoint' = NoCheckpoint /\ process' = Ended(p)
       /\ UNCHANGED <<keyFile, env, handler, posts, shown>>

\* --app-id: an App whose key is on disk; there is no checkpoint to complete.
ExistingApp(p) ==
    /\ Starts(p) /\ process' = Loaded(p, "installing", NoCheckpoint)
    /\ UNCHANGED <<checkpoint, keyFile, env, handler, posts, shown>>

\* --resume of a setup that still waits, within its hour.
Resume(p) ==
    /\ Starts(p) /\ checkpoint.phase = "awaiting_callback"
    /\ process' = Loaded(p, "waiting", checkpoint)
    /\ UNCHANGED <<checkpoint, keyFile, env, handler, posts, shown>>

\* --resume of one whose key was saved: credentials() again.
ResumeConverted(p) ==
    /\ Starts(p) /\ checkpoint.phase \in {"converted", "complete"}
    /\ keyFile \in {checkpoint.code} \cup (IF checkpoint.phase = "converted" THEN {NoCode} ELSE {})
    /\ keyFile' = checkpoint.code
    /\ process' = Loaded(p, "installing", checkpoint)
    /\ UNCHANGED <<checkpoint, env, handler, posts, shown>>

----------------------------------------------------------------------------
(* SetupSession.receive, in the handler's thread.  Its lock is held while the  *)
(* checkpoint and the key are written, and not during the request.            *)

Locked(p) == \E h \in Receiver : handler[h].process = p /\ handler[h].stage = "keying"
Answers(h, stage) == handler' = [handler EXCEPT ![h].stage = stage]
Released(h) == handler' = [handler EXCEPT ![h] = Waiting]
Serves(h, p, c) ==
    /\ handler[h].stage = "idle" /\ process[p].stage = "waiting"
    /\ ~Locked(p) /\ ~process[p].closed /\ c[1] = process[p].data.setup

\* Slip: the exchange begins before the checkpoint says so.
ExchangeUnsaved(h, p, c) ==
    /\ Serves(h, p, c) /\ process[p].data.phase = "awaiting_callback"
    /\ process' = [process EXCEPT ![p].data.phase = "exchanging", ![p].data.code = c]
    /\ handler' = [handler EXCEPT ![h] = [stage |-> "posting", process |-> p, code |-> c]]
    /\ UNCHANGED <<checkpoint, keyFile, env, posts, shown>>

(* The checkpoint says "exchanging" before a request is made.  A save that     *)
(* fails, with or without effect, ends the process; so does a deadline that    *)
(* passed while saving, which puts the checkpoint back.                       *)
Exchange(h, p, c) ==
    LET data == [process[p].data EXCEPT !.phase = "exchanging", !.code = c]
    IN /\ Serves(h, p, c) /\ process[p].data.phase = "awaiting_callback"
       /\ \/ /\ checkpoint' = data /\ process' = [process EXCEPT ![p].data = data]
             /\ handler' = [handler EXCEPT ![h] = [stage |-> "posting", process |-> p, code |-> c]]
          \/ checkpoint' \in {checkpoint, data} /\ process' = Ended(p) /\ UNCHANGED handler
       /\ UNCHANGED <<keyFile, env, posts, shown>>

\* A refreshed tab, once converted: the same code is answered again.
Repeat(h, p, c) ==
    /\ Serves(h, p, c) /\ process[p].data.phase = "converted" /\ process[p].data.code = c
    /\ handler' = [handler EXCEPT ![h] = [stage |-> "keying", process |-> p, code |-> c]]
    /\ UNCHANGED <<checkpoint, keyFile, env, process, posts, shown>>

Post(h) ==
    /\ handler[h].stage = "posting"
    /\ posts' = [posts EXCEPT ![handler[h].code] = @ + 1]
    /\ Answers(h, "answered") \/ Answers(h, "failed")
    /\ UNCHANGED <<checkpoint, keyFile, env, process, shown>>

(* The answer, good or bad, is saved by a receiver that still waits.  When the  *)
(* save fails the conversion is not remembered and the process ends.           *)
Save(h) ==
    LET p == handler[h].process
        data == [process[p].data EXCEPT
                   !.phase = IF handler[h].stage = "answered" THEN "converted"
                             ELSE "exchange_failed"]
    IN /\ handler[h].stage \in {"answered", "failed"} /\ ~Locked(p)
       /\ \/ /\ process[p].closed
             /\ Released(h) /\ UNCHANGED <<checkpoint, process>>
          \/ /\ ~process[p].closed /\ handler[h].stage = "answered" /\ checkpoint' = data
             /\ process' = [process EXCEPT ![p].data = data] /\ Answers(h, "keying")
          \/ /\ ~process[p].closed
             /\ checkpoint' \in {checkpoint, data} /\ process' = Ended(p) /\ Released(h)
       /\ UNCHANGED <<keyFile, env, posts, shown>>

(* credentials(): a key is linked into place and never replaced.               *)
WriteKey(h) ==
    LET p == handler[h].process
    IN /\ handler[h].stage = "keying"
       /\ \/ /\ keyFile \in {NoCode, handler[h].code} /\ keyFile' = handler[h].code
             /\ Answers(h, "replying") /\ UNCHANGED process
          \/ process' = Ended(p) /\ Released(h) /\ UNCHANGED keyFile
       /\ UNCHANGED <<checkpoint, env, posts, shown>>

(* The browser is told, or has gone; then main goes on.                        *)
Reply(h) ==
    LET p == handler[h].process
    IN /\ handler[h].stage = "replying"
       /\ shown' \in {shown, shown \cup {handler[h].code}}
       /\ Released(h)
       /\ process' = IF process[p].stage = "waiting" /\ ~Locked(p)
                     THEN [process EXCEPT ![p].stage = "installing", ![p].closed = TRUE]
                     ELSE process
       /\ UNCHANGED <<checkpoint, keyFile, env, posts>>

----------------------------------------------------------------------------
(* The rest of main.                                                         *)

\* wait_for_callback's finally clause closes the session under its lock.
StopWaiting(p) ==
    /\ Holds(p) /\ ~Locked(p) /\ process' = Ended(p)
    /\ UNCHANGED <<checkpoint, keyFile, env, handler, posts, shown>>

MainGoes(p, from, to) == process[p].stage = from /\ process' = [process EXCEPT ![p].stage = to]

Installed(p) ==
    /\ MainGoes(p, "installing", "writing")
    /\ UNCHANGED <<checkpoint, keyFile, env, handler, posts, shown>>

WriteEnv(p) ==
    /\ MainGoes(p, "writing", "completing")
    /\ env' \in {"no_secret"} \cup (IF process[p].data.phase = "converted" THEN {"secret"} ELSE {})
    /\ UNCHANGED <<checkpoint, keyFile, handler, posts, shown>>

Complete(p) ==
    /\ MainGoes(p, "completing", "ending")
    /\ checkpoint' = IF process[p].data = NoCheckpoint THEN checkpoint
                     ELSE [process[p].data EXCEPT !.phase = "complete"]
    /\ UNCHANGED <<keyFile, env, handler, posts, shown>>

\* The process is gone: killed, or it ended and its threads with it.
Gone(p) ==
    /\ process[p].stage \notin {"none", "gone"}
    /\ process' = [process EXCEPT ![p].stage = "gone", ![p].closed = TRUE]
    /\ handler' = [h \in Receiver |-> IF handler[h].process = p THEN Waiting ELSE handler[h]]
    /\ UNCHANGED <<checkpoint, keyFile, env, posts, shown>>

SetupNext ==
    \/ \E p \in Process :
         \/ Register(p) \/ ExistingApp(p) \/ Resume(p) \/ ResumeConverted(p)
         \/ StopWaiting(p) \/ Installed(p) \/ WriteEnv(p) \/ Complete(p) \/ Gone(p)
         \/ \E h \in Receiver, c \in Code : Exchange(h, p, c) \/ Repeat(h, p, c)
    \/ \E h \in Receiver : Post(h) \/ Save(h) \/ WriteKey(h) \/ Reply(h)

SetupSpec == SetupInit /\ [][SetupNext]_setupVars

----------------------------------------------------------------------------
(* Properties.                                                              *)

(* A code is spent in at most one request, however often its tab is refreshed   *)
(* and however often the script is killed and resumed; and an App the browser    *)
(* was told of stays recoverable: its key is on disk and its checkpoint says so. *)
AppIsKept ==
    /\ \A c \in Code : posts[c] <= 1
    /\ \A c \in shown : /\ keyFile = c
                        /\ checkpoint.phase \in {"converted", "complete"}
                        /\ checkpoint.code = c
==============================================================================
