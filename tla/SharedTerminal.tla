--------------------------- MODULE SharedTerminal ---------------------------
(***************************************************************************)
(* A terminal into a deployed Runtime (interactive-api/runtime_shell.py).    *)
(* One connection thread opens the shell, with retries while the Runtime     *)
(* warms, waits for the browser's measured size, launches the agent's CLI    *)
(* and copies its output into one buffer; any number of browsers watch the   *)
(* buffer, and people resize and close the terminal meanwhile.               *)
(***************************************************************************)
EXTENDS Integers, Sequences

CONSTANTS Watcher,      \* browser streams
          MaxAttempt,   \* _SHELL_OPEN_ATTEMPTS
          MaxOutput,    \* bound: pieces of output
          MaxSize       \* bound: resizes

ASSUME TerminalAssumption == MaxAttempt \in Nat \ {0} /\ MaxOutput \in Nat /\ MaxSize \in Nat

Guess == 0              \* the size of the open request; measured ones are 1, 2, ...
Absent == -1

VARIABLES thread,       \* where the connection thread is
          attempt,      \* _open_shell_when_ready's
          listed,       \* the session is in the registry
          live,         \* alive
          shell,        \* _shell is set
          size,         \* _size
          measured,     \* _size_event; measured sizes so far
          resizing,     \* a resize request that recorded its size and has not gone on
          scheduled,    \* resizes scheduled on the thread's loop
          width,        \* the remote PTY's size, or Absent
          output,       \* pieces in the buffer
          final,        \* how many of them were there when the terminal ended
          watcher       \* per stream: pieces shown, and queued for it

terminalVars == <<thread, attempt, listed, live, shell, size, measured, resizing, scheduled,
                  width, output, final, watcher>>
screen == <<size, measured, resizing, scheduled, width>>
stream == <<output, final, watcher>>

ThreadStage == {"none", "starting", "opening", "gate", "launching", "running", "ending", "failing",
          "over"}

TerminalTypeOK ==
    /\ thread \in ThreadStage /\ attempt \in 1 .. MaxAttempt
    /\ {listed, live, shell} \subseteq BOOLEAN
    /\ size \in 0 .. MaxSize /\ measured \in 0 .. MaxSize
    /\ resizing \in {Absent} \cup 1 .. MaxSize
    /\ scheduled \in Seq(1 .. MaxSize)
    /\ width \in {Absent} \cup 0 .. MaxSize
    /\ output \in 0 .. MaxOutput + 1 /\ final \in 0 .. MaxOutput + 1
    /\ watcher \in [Watcher -> [phase : {"none", "open", "closed"},
                                shown : 0 .. MaxOutput + 1, queue : 0 .. MaxOutput + 1]]

TerminalInit ==
    /\ thread = "none" /\ attempt = 1
    /\ listed = FALSE /\ live = TRUE /\ shell = FALSE
    /\ size = Guess /\ measured = 0 /\ resizing = Absent /\ scheduled = <<>> /\ width = Absent
    /\ output = 0 /\ final = 0
    /\ watcher = [w \in Watcher |-> [phase |-> "none", shown |-> 0, queue |-> 0]]

(* _emit: the buffer and every subscribed queue grow under one lock.  The     *)
(* last piece of the bound is kept for the thread's closing words.          *)
Emit ==
    /\ output <= (IF live THEN MaxOutput - 1 ELSE MaxOutput)
    /\ output' = output + 1
    /\ watcher' = [w \in Watcher |-> IF watcher[w].phase = "open"
                                     THEN [watcher[w] EXCEPT !.queue = @ + 1]
                                     ELSE watcher[w]]
    /\ UNCHANGED final

Dies ==
    /\ live' = FALSE
    /\ final' = (IF live THEN output ELSE final)

----------------------------------------------------------------------------
(* The connection thread.                                                   *)

(* open_runtime_session: the thread is started, then the session is listed.  *)
OpenTerminal ==
    /\ thread = "none"
    /\ thread' = "starting" /\ listed' = TRUE
    /\ UNCHANGED <<attempt, live, shell, screen, stream>>

LoopRuns ==
    /\ thread = "starting" /\ thread' = "opening"
    /\ UNCHANGED <<attempt, listed, live, shell, screen, stream>>

(* A Runtime that is still warming is tried again, with a notice.           *)
OpenTimesOut ==
    /\ thread = "opening"
    /\ \/ /\ attempt < MaxAttempt
          /\ Emit
          /\ attempt' = attempt + 1 /\ UNCHANGED thread
       \/ /\ attempt = MaxAttempt
          /\ thread' = "failing" /\ UNCHANGED <<attempt, stream>>
    /\ UNCHANGED <<listed, live, shell, screen>>

\* Slip: the open request's size replaces what the browser measured meanwhile.
ShellOpensReset ==
    /\ thread = "opening"
    /\ thread' = "gate" /\ shell' = TRUE
    /\ size' = Guess
    /\ UNCHANGED <<attempt, listed, live, measured, resizing, scheduled, width, stream>>

ShellOpens ==
    /\ thread = "opening"
    /\ thread' = "gate" /\ shell' = TRUE
    /\ size' = IF measured > 0 THEN size ELSE Guess
    /\ UNCHANGED <<attempt, listed, live, measured, resizing, scheduled, width, stream>>

(* A measured size, or a short wait, opens the gate: the shell is resized.   *)
PassGate ==
    /\ thread = "gate"
    /\ thread' = "launching" /\ width' = size
    /\ UNCHANGED <<attempt, listed, live, shell, size, measured, resizing, scheduled, stream>>

Launch ==
    /\ thread = "launching" /\ thread' = "running"
    /\ UNCHANGED <<attempt, listed, live, shell, screen, stream>>

Output ==
    /\ thread = "running" /\ Emit
    /\ UNCHANGED <<thread, attempt, listed, live, shell, screen>>

(* The remote shell ends: the terminal is marked dead, then says so.         *)
ShellEnds ==
    /\ thread = "running" /\ thread' = "ending" /\ Dies
    /\ UNCHANGED <<attempt, listed, shell, screen, output, watcher>>

Farewell ==
    /\ thread = "ending" /\ thread' = "over" /\ Emit
    /\ UNCHANGED <<attempt, listed, live, shell, screen>>

(* An exception of the connection, or its stopped loop: _run_loop says so      *)
(* and marks the terminal dead.                                             *)
ConnectionFails ==
    /\ thread \in {"gate", "launching", "running"} /\ thread' = "failing"
    /\ UNCHANGED <<attempt, listed, live, shell, screen, stream>>

Complain ==
    /\ \/ /\ thread = "failing" /\ thread' = "over"
          /\ Emit /\ UNCHANGED live
       \/ /\ thread = "over" /\ live
          /\ Dies /\ UNCHANGED <<thread, output, watcher>>
    /\ UNCHANGED <<attempt, listed, shell, screen>>

(* Closing a tab: the session leaves the registry and its loop is stopped; a  *)
(* loop that does not run yet cannot be.                                     *)
CloseTerminal ==
    /\ listed /\ listed' = FALSE /\ Dies
    /\ thread' = IF thread \in {"opening", "gate", "launching", "running"} THEN "failing"
                 ELSE thread
    /\ UNCHANGED <<attempt, shell, screen, output, watcher>>

----------------------------------------------------------------------------
(* People: resize requests are served one at a time, in two steps.           *)

Resize ==
    /\ listed /\ resizing = Absent /\ measured < MaxSize
    /\ measured' = measured + 1 /\ size' = measured + 1 /\ resizing' = measured + 1
    /\ UNCHANGED <<thread, attempt, listed, live, shell, scheduled, width, stream>>

\* A live shell is resized too, by the thread's loop.
ResizeGoesOn ==
    /\ resizing # Absent /\ resizing' = Absent
    /\ scheduled' = IF shell /\ live /\ thread # "over" THEN Append(scheduled, resizing)
                    ELSE scheduled
    /\ UNCHANGED <<thread, attempt, listed, live, shell, size, measured, width, stream>>

ResizeArrives ==
    /\ scheduled # <<>> /\ thread \in {"gate", "launching", "running"}
    /\ width' = Head(scheduled) /\ scheduled' = Tail(scheduled)
    /\ UNCHANGED <<thread, attempt, listed, live, shell, size, measured, resizing, stream>>

\* Slip: the history is read before the stream is subscribed.
WatchApart(w) ==
    /\ listed /\ watcher[w].phase = "none"
    /\ \E h \in 0 .. output :
         watcher' = [watcher EXCEPT ![w] = [phase |-> "open", shown |-> h, queue |-> 0]]
    /\ UNCHANGED <<thread, attempt, listed, live, shell, screen, output, final>>

(* stream_output: subscribe_with_history, then the queue, until the terminal  *)
(* is dead and nothing came for a while.                                    *)
Watch(w) ==
    /\ listed /\ watcher[w].phase = "none"
    /\ watcher' = [watcher EXCEPT ![w] = [phase |-> "open", shown |-> output, queue |-> 0]]
    /\ UNCHANGED <<thread, attempt, listed, live, shell, screen, output, final>>

Show(w) ==
    /\ watcher[w].phase = "open" /\ watcher[w].queue > 0
    /\ watcher' = [watcher EXCEPT ![w].shown = @ + 1, ![w].queue = @ - 1]
    /\ UNCHANGED <<thread, attempt, listed, live, shell, screen, output, final>>

StreamEnds(w) ==
    /\ watcher[w].phase = "open" /\ watcher[w].queue = 0 /\ ~live
    /\ watcher' = [watcher EXCEPT ![w].phase = "closed"]
    /\ UNCHANGED <<thread, attempt, listed, live, shell, screen, output, final>>

TerminalNext ==
    \/ OpenTerminal \/ LoopRuns \/ OpenTimesOut \/ ShellOpens \/ PassGate \/ Launch \/ Output
    \/ ShellEnds \/ Farewell \/ ConnectionFails \/ Complain \/ CloseTerminal
    \/ Resize \/ ResizeGoesOn \/ ResizeArrives
    \/ \E w \in Watcher : Watch(w) \/ Show(w) \/ StreamEnds(w)

TerminalSpec == TerminalInit /\ [][TerminalNext]_terminalVars

----------------------------------------------------------------------------
(* Properties.                                                              *)

(* Whenever a browser starts to watch, it is shown everything the terminal    *)
(* printed, once; a stream that ended missed at most the closing words.      *)
WatcherSeesAll ==
    \A w \in Watcher :
      /\ watcher[w].phase = "open" => watcher[w].shown + watcher[w].queue = output
      /\ watcher[w].phase = "closed" => watcher[w].shown >= final

(* The agent's CLI runs at the size measured last, however the measurements   *)
(* fall between the handshake and the launch.                               *)
LastSizeWins ==
    thread \in {"launching", "running"} /\ scheduled = <<>> /\ resizing = Absent
      => width = measured

(* The terminal is one for all who share it.                                *)
TerminalIsShared == WatcherSeesAll /\ LastSizeWins
==============================================================================
