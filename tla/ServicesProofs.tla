---------------------------- MODULE ServicesProofs ----------------------------
(***************************************************************************)
(* Proofs about the components around the builders' work, one section each.    *)
(* Every section has an inductive invariant of its component, one lemma that    *)
(* shows a step keeps it, and the theorem that follows.                       *)
(***************************************************************************)
EXTENDS EventIntake, SessionActivity, GameHost, SharedTerminal, Conversation,
        WorkspaceSession, AppSetup, FiniteSetTheorems, TLAPS

-----------------------------------------------------------------------------
(* The coordinator's session.  Its build count is read before it is acted on, so  *)
(* what an observer holds is of the past; it still holds what matters.          *)

ActivityTypes ==
    /\ work \in 0 .. MaxWork /\ seen \in Int /\ request \in {"none", "open", "closing"}
    /\ task \in BOOLEAN /\ exhausted \in BOOLEAN /\ observed \in BOOLEAN /\ alive \in BOOLEAN
    /\ window \in Int /\ (window = NoWindow \/ window \in 0 .. Cap) /\ busy \in Nat

(* A session is busy for no longer than its window has run, and is not kept busy  *)
(* a tick longer once an observer found the window used up.                     *)
WindowInv ==
    /\ task => window # NoWindow /\ ~exhausted
    /\ task /\ window = Cap => ~observed
    /\ exhausted => window = Cap
    /\ window = NoWindow => busy = 0
    /\ window # NoWindow => busy <= window

(* Only an open request adds builds: an observer that reads after it sees them,   *)
(* and a response is closed only after one did.                                 *)
GuardInv ==
    /\ request # "open" /\ seen # NotReading /\ work > 0 => seen > 0
    /\ (request = "none" \/ (request = "closing" /\ observed)) /\ work > 0 => task \/ exhausted
    /\ ~alive /\ work > 0 => window = Cap

ActivityInv == ActivityTypes /\ WindowInv /\ GuardInv

LEMMA ActivityMarks == /\ NoWindow \in Int /\ NoWindow < 0
                       /\ NotReading \in Int /\ NotReading < 0
BY DEF NoWindow, NotReading

LEMMA ActivityStep ==
  ASSUME ActivityInv, [ActivityNext]_activityVars
  PROVE  ActivityInv'
<1>1. /\ ActivityTypes /\ WindowInv /\ GuardInv
      /\ MaxWork \in Nat /\ Cap \in Nat \ {0}
      /\ NoWindow \in Int /\ NoWindow < 0 /\ NotReading \in Int /\ NotReading < 0
  BY ActivityAssumption, ActivityMarks DEF ActivityInv
<1> DEFINE Goal == ActivityTypes' /\ WindowInv' /\ GuardInv'
<1>2. ASSUME OpenRequest \/ Dispatch \/ BuildDone PROVE Goal
  BY <1>1, <1>2 DEF OpenRequest, Dispatch, BuildDone, ActivityTypes, WindowInv, GuardInv, tracker
<1>3. ASSUME CloseRequest PROVE Goal
  BY <1>1, <1>3 DEF CloseRequest, ActivityTypes, WindowInv, GuardInv, tracker
<1>4. ASSUME Read PROVE Goal
  BY <1>1, <1>4 DEF Read, ActivityTypes, WindowInv, GuardInv, tracker, Failures
<1>5. ASSUME Act PROVE Goal
  <2> DEFINE started == IF window = NoWindow THEN 0 ELSE window
  <2>1. /\ alive /\ seen' = NotReading /\ observed' /\ observed' \in BOOLEAN
        /\ work' = work /\ request' = request /\ alive' = alive
    BY <1>5 DEF Act
  <2>2. started \in 0 .. Cap /\ (window # NoWindow => started = window)
    BY <1>1 DEF ActivityTypes
  <2>3. CASE seen = 0 /\ task' = FALSE /\ window' = NoWindow /\ exhausted' = FALSE /\ busy' = 0
    <3>1. /\ task' \in BOOLEAN /\ ~task' /\ exhausted' \in BOOLEAN /\ ~exhausted'
          /\ window' = NoWindow /\ busy' = 0 /\ seen = 0
      BY <2>3
    <3> QED
      BY <1>1, <2>1, <3>1 DEF ActivityTypes, WindowInv, GuardInv
  <2>4. CASE seen > 0 /\ started = Cap /\ task' = FALSE /\ window' = window /\ exhausted' = TRUE
             /\ busy' = busy
    <3>1. /\ task' \in BOOLEAN /\ ~task' /\ exhausted' \in BOOLEAN /\ exhausted'
          /\ window' = window /\ busy' = busy
      BY <2>4
    <3>2. window = Cap
      BY <1>1, <2>4
    <3> QED
      BY <1>1, <2>1, <3>1, <3>2 DEF ActivityTypes, WindowInv, GuardInv
  <2>5. CASE seen > 0 /\ started < Cap /\ window' = started /\ task' = (task \/ ~exhausted)
             /\ exhausted' = exhausted /\ busy' = busy
    <3>1. window # Cap
      BY <1>1, <2>5
    <3>2. ~exhausted
      BY <1>1, <3>1 DEF WindowInv
    <3>3. task' /\ task' \in BOOLEAN /\ ~exhausted' /\ exhausted' \in BOOLEAN
      <4>1. task' = TRUE /\ exhausted' = exhausted /\ exhausted \in BOOLEAN
        BY <1>1, <2>5, <3>2 DEF ActivityTypes
      <4> QED
        BY <3>2, <4>1
    <3>4. /\ window' \in 0 .. Cap /\ window' < Cap /\ busy' = busy
          /\ busy <= window'
      BY <1>1, <2>2, <2>5 DEF ActivityTypes, WindowInv
    <3> QED
      BY <1>1, <2>1, <3>3, <3>4 DEF ActivityTypes, WindowInv, GuardInv
  <2> QED
    BY <1>5, <2>3, <2>4, <2>5 DEF Act
<1>6. ASSUME ActivityTick PROVE Goal
  <2>1. /\ alive /\ observed /\ ~observed' /\ observed' \in BOOLEAN
        /\ window' = IF window \in 0 .. Cap - 1 THEN window + 1 ELSE window
        /\ task => busy' = busy + 1
        /\ ~task => busy' = busy
        /\ UNCHANGED <<work, request, task, exhausted, seen, alive>>
    BY <1>6 DEF ActivityTick
  <2>2. /\ window' \in Int /\ (window' = NoWindow \/ window' \in 0 .. Cap)
        /\ window' = NoWindow <=> window = NoWindow
        /\ window # NoWindow => window <= window'
        /\ window \in 0 .. Cap - 1 => window' = window + 1
        /\ window = Cap => window' = Cap
    BY <1>1, <2>1 DEF ActivityTypes
  <2>3. task => window # NoWindow /\ window # Cap /\ ~exhausted
    BY <1>1, <2>1 DEF WindowInv
  <2>4. task => window \in 0 .. Cap - 1
    BY <1>1, <2>3 DEF ActivityTypes
  <2>5. /\ busy' \in Nat
        /\ window' = NoWindow => busy' = 0
        /\ window' # NoWindow => busy' <= window'
    BY <1>1, <2>1, <2>2, <2>4 DEF ActivityTypes, WindowInv
  <2> QED
    BY <1>1, <2>1, <2>2, <2>3, <2>5 DEF ActivityTypes, WindowInv, GuardInv
<1>7. ASSUME Reclaim PROVE Goal
  BY <1>1, <1>7 DEF Reclaim, ActivityTypes, WindowInv, GuardInv, tracker
<1>8. ASSUME UNCHANGED activityVars PROVE Goal
  BY <1>1, <1>8 DEF activityVars, ActivityTypes, WindowInv, GuardInv, tracker
<1> QED
  BY <1>2, <1>3, <1>4, <1>5, <1>6, <1>7, <1>8 DEF ActivityNext, ActivityInv

(* The invariant holds. *)
LEMMA ActivityInvariant == ActivitySpec => []ActivityInv
<1>1. ActivityInit => ActivityInv
  <2> SUFFICES ASSUME ActivityInit PROVE ActivityInv
    OBVIOUS
  <2>1. /\ task \in BOOLEAN /\ ~task /\ exhausted \in BOOLEAN /\ ~exhausted
        /\ observed \in BOOLEAN /\ observed /\ alive \in BOOLEAN /\ alive
        /\ work = 0 /\ request = "none" /\ window = NoWindow /\ seen = NotReading /\ busy = 0
    BY DEF ActivityInit
  <2> QED
    BY <2>1, ActivityAssumption, ActivityMarks DEF ActivityInv, ActivityTypes, WindowInv, GuardInv
<1>2. ActivityInv /\ [ActivityNext]_activityVars => ActivityInv'
  BY ActivityStep
<1> QED
  BY <1>1, <1>2, PTL DEF ActivitySpec

(* A session is reclaimed under a running build only when its activity window was *)
(* used up, and a build that hangs keeps it busy for the window and no longer     *)
(* (session_activity.py observe, with main.py's closing responses).             *)
THEOREM SessionsAreBusyForBuilds == ActivitySpec => []BusyForBuilds
<1>1. ActivityInv => BusyForBuilds
  BY ActivityAssumption, ActivityMarks
  DEF ActivityInv, ActivityTypes, WindowInv, GuardInv, BusyForBuilds, BuildIsProtected, BusyIsBounded
<1> QED
  BY <1>1, ActivityInvariant, PTL

-----------------------------------------------------------------------------
(* The shared terminal.                                                       *)

WatcherType == [phase : {"none", "open", "closed"}, shown : Nat, queue : Nat]

TerminalTypes ==
    /\ thread \in ThreadStage /\ listed \in BOOLEAN /\ live \in BOOLEAN /\ shell \in BOOLEAN
    /\ measured \in Nat /\ size = measured
    /\ resizing \in {Absent} \cup Nat /\ scheduled \in Seq(Nat)
    /\ output \in Nat /\ final \in Nat /\ watcher \in [Watcher -> WatcherType]

(* A stream is behind by what is queued for it; it ends in a dead terminal only, *)
(* whose end no longer moves.                                                 *)
StreamInv ==
    /\ final <= output
    /\ \A w \in Watcher :
         /\ watcher[w].phase = "open" => watcher[w].shown + watcher[w].queue = output
         /\ watcher[w].phase = "closed" => ~live /\ watcher[w].shown >= final

Connected == {"gate", "launching", "running"}
Launched == {"launching", "running"}

(* The measurement made last is on its way to the shell, or arrived: it is with   *)
(* the request that made it, last in the loop's queue, or the shell's width.  A   *)
(* terminal closed before its loop ran goes on without it, and is measured no     *)
(* more.                                                                     *)
SizeInv ==
    /\ resizing # Absent => resizing = measured
    /\ thread \in {"none", "starting", "opening"} => scheduled = <<>> /\ ~shell
    /\ thread = "none" => live /\ ~listed
    /\ thread \in Connected => shell
    /\ thread \in {"starting", "opening"} \cup Connected /\ ~live => scheduled = <<>> /\ ~listed
    /\ thread \in Launched /\ ~live => width = measured
    /\ thread \in Launched /\ resizing = Absent /\ scheduled = <<>> => width = measured
    /\ thread \in Connected /\ resizing = Absent /\ scheduled # <<>> =>
          scheduled[Len(scheduled)] = measured

TerminalInv == TerminalTypes /\ StreamInv /\ SizeInv

LEMMA TerminalMarks == Absent \in Int /\ Absent \notin Nat /\ Guess = 0
BY DEF Absent, Guess

LEMMA StreamStep ==
  ASSUME TerminalTypes, StreamInv, [TerminalNext]_terminalVars
  PROVE  /\ StreamInv' /\ output' \in Nat /\ final' \in Nat
         /\ watcher' \in [Watcher -> WatcherType]
         /\ live' \in BOOLEAN /\ (~live => ~live')
<1> DEFINE Goal == /\ StreamInv' /\ output' \in Nat /\ final' \in Nat
                   /\ watcher' \in [Watcher -> WatcherType]
                   /\ live' \in BOOLEAN /\ (~live => ~live')
<1>1. /\ output \in Nat /\ final \in Nat /\ watcher \in [Watcher -> WatcherType] /\ live \in BOOLEAN
      /\ StreamInv
  BY DEF TerminalTypes
<1>2. ASSUME UNCHANGED <<live, output, final, watcher>> PROVE Goal
  BY <1>1, <1>2 DEF StreamInv
<1>3. ASSUME Emit, live' = live PROVE Goal
  <2>1. /\ output' = output + 1 /\ final' = final
        /\ watcher' = [w \in Watcher |-> IF watcher[w].phase = "open"
                                     THEN [watcher[w] EXCEPT !.queue = @ + 1]
                                     ELSE watcher[w]]
    BY <1>3 DEF Emit
  <2>2. ASSUME NEW w \in Watcher
        PROVE  /\ watcher'[w] \in WatcherType
               /\ watcher'[w].phase = "open" => watcher'[w].shown + watcher'[w].queue = output + 1
               /\ watcher'[w].phase = "closed" => ~live /\ watcher'[w].shown >= final
    <3>1. watcher[w] \in WatcherType
      BY <1>1
    <3>2. CASE watcher[w].phase = "open"
      <4> DEFINE q == watcher[w].queue + 1
      <4>1. q \in Nat /\ watcher[w].shown + q = output + 1
        BY <1>1, <3>1, <3>2 DEF StreamInv, WatcherType
      <4>2. watcher'[w] = [watcher[w] EXCEPT !.queue = q]
        BY <2>1, <3>2
      <4> HIDE DEF q
      <4>3. /\ watcher'[w] \in WatcherType /\ watcher'[w].phase = watcher[w].phase
            /\ watcher'[w].shown = watcher[w].shown /\ watcher'[w].queue = q
        BY <3>1, <4>1, <4>2 DEF WatcherType
      <4> QED
        BY <3>2, <4>1, <4>3
    <3>3. CASE watcher[w].phase # "open"
      BY <1>1, <2>1, <3>1, <3>3 DEF StreamInv
    <3> QED
      BY <3>2, <3>3
  <2>3. watcher' \in [Watcher -> WatcherType]
    BY <2>1, <2>2
  <2> QED
    BY <1>1, <1>3, <2>1, <2>2, <2>3 DEF StreamInv
<1>4. ASSUME Dies, UNCHANGED <<output, watcher>> PROVE Goal
  <2>1. live' = FALSE /\ (live => final' = output) /\ (~live => final' = final)
    BY <1>4 DEF Dies
  <2>2. live' \in BOOLEAN /\ ~live' /\ final' \in Nat /\ final' <= output
    <3>1. live' \in BOOLEAN /\ ~live'
      BY <2>1
    <3>2. CASE live
      BY <1>1, <2>1, <3>1, <3>2
    <3>3. CASE ~live
      BY <1>1, <2>1, <3>1, <3>3 DEF StreamInv
    <3> QED
      BY <3>2, <3>3
  <2>3. ASSUME NEW w \in Watcher, watcher[w].phase = "closed"
        PROVE  watcher[w].shown >= final'
    BY <1>1, <2>1, <2>3 DEF StreamInv
  <2> QED
    BY <1>1, <1>4, <2>2, <2>3 DEF StreamInv
<1>5. ASSUME NEW v \in Watcher, NEW s \in WatcherType, watcher' = [watcher EXCEPT ![v] = s],
             UNCHANGED <<live, output, final>>,
             s.phase = "open" => s.shown + s.queue = output,
             s.phase = "closed" => ~live /\ s.shown >= final
      PROVE  Goal
  BY <1>1, <1>5 DEF StreamInv
<1>6. ASSUME NEW v \in Watcher, Watch(v) PROVE Goal
  <2> DEFINE s == [phase |-> "open", shown |-> output, queue |-> 0]
  <2>1. s \in WatcherType /\ s.phase = "open" /\ s.shown + s.queue = output
    BY <1>1 DEF WatcherType
  <2>2. watcher' = [watcher EXCEPT ![v] = s] /\ UNCHANGED <<live, output, final>>
    BY <1>6 DEF Watch
  <2> HIDE DEF s
  <2> QED
    BY <1>5, <2>1, <2>2
<1>7. ASSUME NEW v \in Watcher, Show(v) PROVE Goal
  <2> DEFINE h == watcher[v].shown + 1
             q == watcher[v].queue - 1
             s == [watcher[v] EXCEPT !.shown = h, !.queue = q]
  <2>1. watcher[v] \in WatcherType /\ watcher[v].phase = "open" /\ watcher[v].queue > 0
    BY <1>1, <1>7 DEF Show
  <2>2. h \in Nat /\ q \in Nat /\ h + q = output
    BY <1>1, <2>1 DEF StreamInv, WatcherType
  <2>3. watcher' = [watcher EXCEPT ![v] = s] /\ UNCHANGED <<live, output, final>>
    BY <1>1, <1>7 DEF Show
  <2> HIDE DEF h, q
  <2>4. s \in WatcherType /\ s.phase = "open" /\ s.shown = h /\ s.queue = q
    BY <2>1, <2>2 DEF WatcherType
  <2> HIDE DEF s
  <2> QED
    BY <1>5, <2>2, <2>3, <2>4
<1>8. ASSUME NEW v \in Watcher, StreamEnds(v) PROVE Goal
  <2> DEFINE s == [watcher[v] EXCEPT !.phase = "closed"]
  <2>1. watcher[v] \in WatcherType /\ watcher[v].phase = "open" /\ watcher[v].queue = 0 /\ ~live
    BY <1>1, <1>8 DEF StreamEnds
  <2>2. watcher[v].shown >= final
    BY <1>1, <2>1 DEF StreamInv, WatcherType
  <2>3. watcher' = [watcher EXCEPT ![v] = s] /\ UNCHANGED <<live, output, final>>
    BY <1>1, <1>8 DEF StreamEnds
  <2>4. s \in WatcherType /\ s.phase = "closed" /\ s.shown = watcher[v].shown
    BY <2>1 DEF WatcherType
  <2> HIDE DEF s
  <2> QED
    BY <1>5, <2>1, <2>2, <2>3, <2>4
<1>9. ASSUME OpenTimesOut \/ Output \/ Farewell PROVE Goal
  BY <1>2, <1>3, <1>9 DEF OpenTimesOut, Output, Farewell, stream
<1>10. ASSUME ShellEnds \/ CloseTerminal PROVE Goal
  BY <1>4, <1>10 DEF ShellEnds, CloseTerminal
<1>11. ASSUME Complain PROVE Goal
  BY <1>3, <1>4, <1>11 DEF Complain
<1>12. ASSUME \/ OpenTerminal \/ LoopRuns \/ ShellOpens \/ PassGate \/ Launch \/ ConnectionFails
              \/ Resize \/ ResizeGoesOn \/ ResizeArrives \/ UNCHANGED terminalVars
       PROVE  Goal
  BY <1>2, <1>12 DEF OpenTerminal, LoopRuns, ShellOpens, PassGate, Launch, ConnectionFails,
     Resize, ResizeGoesOn, ResizeArrives, terminalVars, stream
<1> QED
  BY <1>6, <1>7, <1>8, <1>9, <1>10, <1>11, <1>12 DEF TerminalNext

LEMMA SizeStep ==
  ASSUME TerminalTypes, SizeInv, [TerminalNext]_terminalVars, live' \in BOOLEAN, ~live => ~live'
  PROVE  /\ SizeInv'
         /\ thread' \in ThreadStage /\ listed' \in BOOLEAN /\ shell' \in BOOLEAN
         /\ measured' \in Nat /\ size' = measured'
         /\ resizing' \in {Absent} \cup Nat /\ scheduled' \in Seq(Nat)
<1> DEFINE Goal == /\ SizeInv'
                   /\ thread' \in ThreadStage /\ listed' \in BOOLEAN /\ shell' \in BOOLEAN
                   /\ measured' \in Nat /\ size' = measured'
                   /\ resizing' \in {Absent} \cup Nat /\ scheduled' \in Seq(Nat)
<1>1. /\ thread \in ThreadStage /\ listed \in BOOLEAN /\ live \in BOOLEAN /\ shell \in BOOLEAN
      /\ measured \in Nat /\ size = measured
      /\ resizing \in {Absent} \cup Nat /\ scheduled \in Seq(Nat) /\ Absent \notin Nat /\ Guess = 0
      /\ SizeInv
  BY TerminalMarks DEF TerminalTypes
<1>2. ASSUME OpenTerminal PROVE Goal
  <2>1. /\ thread = "none" /\ thread' = "starting" /\ listed' = TRUE /\ live' = live /\ shell' = shell
        /\ UNCHANGED screen
    BY <1>2 DEF OpenTerminal
  <2>2. listed' \in BOOLEAN /\ thread' \in ThreadStage /\ live'
    BY <1>1, <2>1 DEF ThreadStage, SizeInv
  <2> QED
    BY <1>1, <2>1, <2>2 DEF SizeInv, screen, Connected, Launched
<1>3. ASSUME LoopRuns \/ OpenTimesOut PROVE Goal
  <2>1. /\ thread \in {"starting", "opening"} /\ thread' \in {"opening", "failing"}
        /\ UNCHANGED <<listed, live, shell, size, measured, resizing, scheduled, width>>
    BY <1>3 DEF LoopRuns, OpenTimesOut, screen
  <2>2. thread' \in ThreadStage
    BY <2>1 DEF ThreadStage
  <2> QED
    BY <1>1, <2>1, <2>2 DEF SizeInv, Connected, Launched
<1>4. ASSUME ShellOpens PROVE Goal
  <2>1. /\ thread = "opening" /\ thread' = "gate" /\ shell' = TRUE
        /\ size' = IF measured > 0 THEN size ELSE Guess
        /\ UNCHANGED <<listed, live, measured, resizing, scheduled, width>>
    BY <1>4 DEF ShellOpens
  <2>2. size' = measured' /\ shell' \in BOOLEAN /\ shell' /\ thread' \in ThreadStage
    BY <1>1, <2>1 DEF ThreadStage
  <2> QED
    BY <1>1, <2>1, <2>2 DEF SizeInv, Connected, Launched
<1>5. ASSUME PassGate PROVE Goal
  <2>1. /\ thread = "gate" /\ thread' = "launching" /\ width' = measured
        /\ UNCHANGED <<listed, live, shell, size, measured, resizing, scheduled>>
    BY <1>1, <1>5 DEF PassGate
  <2>2. thread' \in ThreadStage
    BY <2>1 DEF ThreadStage
  <2> QED
    BY <1>1, <2>1, <2>2 DEF SizeInv, Connected, Launched
<1>6. ASSUME Launch \/ Output \/ Farewell \/ ConnectionFails PROVE Goal
  <2>1. /\ \/ thread = "launching" /\ thread' = "running"
           \/ thread = "running" /\ thread' = "running"
           \/ thread = "ending" /\ thread' = "over"
           \/ thread \in Connected /\ thread' = "failing"
        /\ UNCHANGED <<listed, live, shell, size, measured, resizing, scheduled, width>>
    BY <1>6 DEF Launch, Output, Farewell, ConnectionFails, screen, Connected
  <2>2. thread' \in ThreadStage
    BY <2>1 DEF ThreadStage
  <2> QED
    BY <1>1, <2>1, <2>2 DEF SizeInv, Connected, Launched
<1>7. ASSUME ShellEnds \/ Complain PROVE Goal
  <2>1. /\ thread' \in {"ending", "over"}
        /\ UNCHANGED <<listed, shell, size, measured, resizing, scheduled, width>>
    BY <1>7 DEF ShellEnds, Complain, screen
  <2>2. thread' \in ThreadStage
    BY <2>1 DEF ThreadStage
  <2> QED
    BY <1>1, <2>1, <2>2 DEF SizeInv, Connected, Launched
<1>8. ASSUME CloseTerminal PROVE Goal
  <2>1. /\ listed /\ listed' = FALSE
        /\ UNCHANGED <<shell, size, measured, resizing, scheduled, width>>
        /\ thread' = IF thread \in {"opening", "gate", "launching", "running"} THEN "failing"
                     ELSE thread
    BY <1>8 DEF CloseTerminal, screen
  <2>2. thread' \in ThreadStage /\ listed' \in BOOLEAN /\ ~listed'
    BY <1>1, <2>1 DEF ThreadStage
  <2>3. thread # "none"
    BY <1>1, <2>1 DEF SizeInv
  <2>4. \/ thread' = thread /\ thread \notin Connected /\ thread \notin {"none", "opening"}
        \/ thread' = "failing"
    BY <2>1, <2>3 DEF Connected
  <2> QED
    BY <1>1, <2>1, <2>2, <2>4 DEF SizeInv, Connected, Launched
<1>9. ASSUME Resize PROVE Goal
  <2>1. /\ listed /\ resizing = Absent /\ measured' = measured + 1 /\ size' = measured'
        /\ resizing' = measured'
        /\ UNCHANGED <<thread, listed, live, shell, scheduled, width>>
    BY <1>9 DEF Resize
  <2>2. measured' \in Nat /\ resizing' # Absent
    BY <1>1, <2>1
  <2> QED
    BY <1>1, <2>1, <2>2 DEF SizeInv, Connected, Launched
<1>10. ASSUME ResizeGoesOn PROVE Goal
  <2>1. /\ resizing # Absent /\ resizing' = Absent /\ resizing = measured
        /\ scheduled' = IF shell /\ live /\ thread # "over" THEN Append(scheduled, resizing)
                        ELSE scheduled
        /\ UNCHANGED <<thread, listed, live, shell, size, measured, width>>
    BY <1>1, <1>10 DEF ResizeGoesOn, SizeInv
  <2>2. CASE shell /\ live /\ thread # "over"
    <3>1. /\ scheduled' \in Seq(Nat) /\ scheduled' # <<>>
          /\ scheduled'[Len(scheduled')] = measured
      BY <1>1, <2>1, <2>2
    <3>2. thread \notin {"none", "starting", "opening"}
      BY <1>1, <2>2 DEF SizeInv
    <3> QED
      BY <1>1, <2>1, <2>2, <3>1, <3>2 DEF SizeInv, Connected, Launched
  <2>3. CASE ~(shell /\ live /\ thread # "over")
    <3>1. scheduled' = scheduled
      BY <2>1, <2>3
    <3>2. thread \in Connected => ~live
      BY <1>1, <2>3 DEF SizeInv, Connected
    <3> QED
      BY <1>1, <2>1, <3>1, <3>2 DEF SizeInv, Connected, Launched
  <2> QED
    BY <2>2, <2>3
<1>11. ASSUME ResizeArrives PROVE Goal
  <2>1. /\ scheduled # <<>> /\ thread \in Connected
        /\ width' = Head(scheduled) /\ scheduled' = Tail(scheduled)
        /\ UNCHANGED <<thread, listed, live, shell, size, measured, resizing>>
    BY <1>11 DEF ResizeArrives, Connected
  <2>2. /\ scheduled' \in Seq(Nat)
        /\ scheduled' = <<>> => width' = scheduled[Len(scheduled)]
        /\ scheduled' # <<>> => scheduled'[Len(scheduled')] = scheduled[Len(scheduled)]
    <3>1. Len(scheduled) \in Nat \ {0} /\ Len(scheduled') = Len(scheduled) - 1
          /\ scheduled' \in Seq(Nat)
          /\ \A i \in 1 .. Len(scheduled') : scheduled'[i] = scheduled[i + 1]
      BY <1>1, <2>1
    <3>2. CASE Len(scheduled) = 1
      BY <1>1, <2>1, <3>1, <3>2
    <3>3. CASE Len(scheduled) # 1
      <4>1. Len(scheduled') \in 1 .. Len(scheduled') /\ Len(scheduled') + 1 = Len(scheduled)
        BY <3>1, <3>3
      <4>2. scheduled'[Len(scheduled')] = scheduled[Len(scheduled') + 1]
        BY <3>1, <4>1
      <4>3. scheduled' # <<>>
        BY <3>1, <4>1
      <4> QED
        BY <3>1, <4>1, <4>2, <4>3
    <3> QED
      BY <3>2, <3>3
  <2>3. live
    BY <1>1, <2>1 DEF SizeInv
  <2> QED
    BY <1>1, <2>1, <2>2, <2>3 DEF SizeInv, Connected, Launched
<1>12. ASSUME (\E w \in Watcher : Watch(w) \/ Show(w) \/ StreamEnds(w)) \/ UNCHANGED terminalVars
       PROVE  Goal
  <2>1. UNCHANGED <<thread, listed, live, shell, size, measured, resizing, scheduled, width>>
    BY <1>12 DEF Watch, Show, StreamEnds, terminalVars, screen
  <2> QED
    BY <1>1, <2>1 DEF SizeInv, Connected, Launched
<1> QED
  BY <1>2, <1>3, <1>4, <1>5, <1>6, <1>7, <1>8, <1>9, <1>10, <1>11, <1>12 DEF TerminalNext

(* The invariant holds. *)
LEMMA TerminalInvariant == TerminalSpec => []TerminalInv
<1>1. TerminalInit => TerminalInv
  <2> SUFFICES ASSUME TerminalInit PROVE TerminalInv
    OBVIOUS
  <2>1. /\ listed \in BOOLEAN /\ ~listed /\ live \in BOOLEAN /\ live /\ shell \in BOOLEAN /\ ~shell
        /\ thread = "none" /\ size = 0 /\ measured = 0 /\ resizing = Absent /\ scheduled = <<>>
        /\ output = 0 /\ final = 0
    BY TerminalMarks DEF TerminalInit
  <2>2. watcher = [w \in Watcher |-> [phase |-> "none", shown |-> 0, queue |-> 0]]
    BY DEF TerminalInit
  <2>3. watcher \in [Watcher -> WatcherType] /\ \A w \in Watcher : watcher[w].phase = "none"
    BY <2>2 DEF WatcherType
  <2>4. StreamInv
    BY <2>1, <2>3 DEF StreamInv
  <2>5. SizeInv
    BY <2>1 DEF SizeInv, Connected, Launched
  <2> QED
    BY <2>1, <2>3, <2>4, <2>5 DEF TerminalInv, TerminalTypes, ThreadStage
<1>2. TerminalInv /\ [TerminalNext]_terminalVars => TerminalInv'
  BY StreamStep, SizeStep DEF TerminalInv, TerminalTypes
<1> QED
  BY <1>1, <1>2, PTL DEF TerminalSpec

(* A browser is shown everything the terminal printed, once, whenever it starts to *)
(* watch, and the agent's CLI runs at the size measured last, however the          *)
(* measurements fall between the handshake and the launch (runtime_shell.py).    *)
THEOREM TerminalsAreShared == TerminalSpec => []TerminalIsShared
<1>1. TerminalInv => TerminalIsShared
  BY DEF TerminalInv, StreamInv, SizeInv, TerminalIsShared, WatcherSeesAll, LastSizeWins, Launched
<1> QED
  BY <1>1, TerminalInvariant, PTL

-----------------------------------------------------------------------------
(* Registering the GitHub App.  Three kinds of actors write one checkpoint: the   *)
(* process that holds the lock, its handlers, and handlers of processes that let    *)
(* it go; what keeps them apart is that a code is asked for only from a checkpoint   *)
(* that still waits, and that nothing but the next setup lets one wait again.       *)

SavedType ==
    [setup : Setup, code : Code \cup {NoCode},
     phase : {"awaiting_callback", "exchanging", "exchange_failed", "converted", "complete"}]
ProcessType == [stage : {"none", "waiting", "installing", "writing", "completing", "ending", "gone"},
                data : Checkpoint, closed : BOOLEAN]
ReceiverType == [stage : {"idle", "posting", "answered", "failed", "keying", "replying"},
                 process : {0} \cup Process, code : Code \cup {NoCode}]

Used == {process[q].data.setup : q \in Process} \ {0}
\* No code of setup n can be asked for any more.
Spent(n) == n \in Used /\ (checkpoint.setup = n => checkpoint.phase # "awaiting_callback")
Recoverable(c) == checkpoint.phase \in {"converted", "complete"} /\ checkpoint.code = c
Asking == {"posting", "answered", "failed"}

(* One process holds the lock and the checkpoint is what it last saved; setups    *)
(* are numbered in the order they were registered.                              *)
ProcessInv ==
    /\ \A p, q \in Process : Holds(p) /\ Holds(q) => p = q
    /\ \A p \in Process :
         /\ process[p].stage = "none" => process[p].data = NoCheckpoint
         /\ process[p].stage = "waiting" => process[p].data # NoCheckpoint
         /\ Holds(p) /\ process[p].data # NoCheckpoint => checkpoint = process[p].data

NumberInv ==
    /\ \E k \in 0 .. MaxSetup : Used = 1 .. k
    /\ checkpoint.setup \in Used \cup {0}

(* A handler whose session is open exchanges what its process recorded; of the     *)
(* handlers of one process one exchanges, and one has its lock.                   *)
HandlerInv(h) ==
    LET p == handler[h].process
    IN handler[h].stage # "idle" =>
         /\ p \in Process /\ handler[h].code \in Code
         /\ process[p].stage \notin {"none", "gone"}
         /\ process[p].stage # "waiting" => process[p].closed
         /\ handler[h].stage \in Asking /\ ~process[p].closed =>
              process[p].data.phase = "exchanging" /\ process[p].data.code = handler[h].code
         /\ handler[h].stage = "keying" =>
              ~process[p].closed /\ process[p].data.phase = "converted"
              /\ process[p].data.code = handler[h].code
         /\ handler[h].stage = "replying" =>
              keyFile = handler[h].code /\ Recoverable(handler[h].code)
OneAtATime(g, h) ==
    handler[g].process = handler[h].process =>
      /\ handler[g].stage \in Asking /\ handler[h].stage \in Asking => g = h
      /\ handler[g].stage = "keying" /\ handler[h].stage = "keying" => g = h
HandlersInv == /\ \A h \in Receiver : HandlerInv(h)
               /\ \A g, h \in Receiver : OneAtATime(g, h)

(* A code that was or is about to be posted is spent.                           *)
CodeInv ==
    /\ \A c \in Code : posts[c] <= 1 /\ (posts[c] # 0 => Spent(c[1]))
    /\ \A h \in Receiver : handler[h].stage = "posting" =>
         posts[handler[h].code] = 0 /\ Spent(handler[h].code[1])
    /\ \A g, h \in Receiver : handler[g].stage = "posting" /\ handler[h].stage = "posting"
                              /\ handler[g].code = handler[h].code => g = h
ShownInv == \A c \in shown : keyFile = c /\ Recoverable(c)

AppTypes ==
    /\ checkpoint \in Checkpoint /\ keyFile \in Code \cup {NoCode}
    /\ process \in [Process -> ProcessType] /\ handler \in [Receiver -> ReceiverType]
    /\ posts \in [Code -> Nat] /\ shown \subseteq Code
AppInv == AppTypes /\ ProcessInv /\ NumberInv /\ HandlersInv /\ CodeInv /\ ShownInv

LEMMA SetupMarks ==
    /\ NoCode \notin Code
    /\ NoCheckpoint.setup = 0 /\ NoCheckpoint.phase = "none" /\ NoCheckpoint.code = NoCode
    /\ NoCheckpoint \in Checkpoint /\ 0 \notin Setup
    /\ \A d \in Checkpoint : d = NoCheckpoint \/ (d \in SavedType /\ d # NoCheckpoint)
    /\ \A c \in Code : c[1] \in Setup
BY SetupAssumption DEF NoCode, Code, NoCheckpoint, Checkpoint, SavedType, Setup

\* A setup is registered under a number no setup had.
LEMMA NextNumber ==
    ASSUME NumberInv
    PROVE  LET n == 1 + Cardinality(Used)
           IN n \in Nat \ {0} /\ n \notin Used /\ Used \cup {n} = 1 .. n
<1>1. PICK k \in 0 .. MaxSetup : Used = 1 .. k
  BY DEF NumberInv
<1>2. k \in Nat /\ Cardinality(1 .. k) = k
  BY FS_Interval, SetupAssumption
<1> QED
  BY <1>1, <1>2

LEMMA UsedKept ==
    ASSUME \A q \in Process : process'[q].data.setup = process[q].data.setup
    PROVE  Used' = Used
BY DEF Used

LEMMA UsedGrows ==
    ASSUME NEW p \in Process, process[p].data = NoCheckpoint,
           \A q \in Process \ {p} : process'[q].data = process[q].data
    PROVE  Used' = (Used \cup {process'[p].data.setup}) \ {0}
BY SetupMarks DEF Used

LEMMA SessionEnds ==
    ASSUME AppTypes, NEW p \in Process, process' = Ended(p)
    PROVE  /\ process' \in [Process -> ProcessType]
           /\ process'[p].stage = "ending" /\ process'[p].data = process[p].data
           /\ process'[p].closed = TRUE
           /\ \A q \in Process \ {p} : process'[q] = process[q]
<1>1. process[p] \in ProcessType /\ process \in [Process -> ProcessType]
  BY DEF AppTypes
<1> QED
  BY <1>1 DEF Ended, ProcessType

LEMMA SessionLoads ==
    ASSUME AppTypes, NEW p \in Process, NEW d \in Checkpoint,
           NEW stage \in {"waiting", "installing", "ending"}, process' = Loaded(p, stage, d)
    PROVE  /\ process' \in [Process -> ProcessType]
           /\ process'[p].stage = stage /\ process'[p].data = d
           /\ process'[p].closed = process[p].closed
           /\ \A q \in Process \ {p} : process'[q] = process[q]
<1>1. process[p] \in ProcessType /\ process \in [Process -> ProcessType]
  BY DEF AppTypes
<1> QED
  BY <1>1 DEF Loaded, ProcessType

LEMMA SessionMoves ==
    ASSUME AppTypes, NEW p \in Process, NEW from,
           NEW to \in {"writing", "completing", "ending"}, MainGoes(p, from, to)
    PROVE  /\ process' \in [Process -> ProcessType]
           /\ process[p].stage = from /\ process'[p].stage = to
           /\ process'[p].data = process[p].data
           /\ process'[p].closed = process[p].closed
           /\ \A q \in Process \ {p} : process'[q] = process[q]
<1>1. process[p] \in ProcessType /\ process \in [Process -> ProcessType]
  BY DEF AppTypes
<1> QED
  BY <1>1 DEF MainGoes, ProcessType

\* What every step keeps: a code that is spent, an App that is recoverable, its key.
Stays == /\ \A n \in Setup : Spent(n) => Spent(n)'
         /\ \A c \in Code : Recoverable(c) => Recoverable(c)'
         /\ keyFile # NoCode => keyFile' = keyFile

LEMMA MainStep ==
    ASSUME AppInv, NEW p \in Process,
           \/ Register(p) \/ ExistingApp(p) \/ Resume(p) \/ ResumeConverted(p)
           \/ StopWaiting(p) \/ Installed(p) \/ WriteEnv(p) \/ Complete(p) \/ Gone(p)
    PROVE  AppTypes' /\ ProcessInv' /\ NumberInv' /\ Stays
<1>1. /\ AppTypes /\ ProcessInv /\ NumberInv /\ HandlersInv /\ process[p] \in ProcessType
      /\ process[p].data \in Checkpoint /\ checkpoint \in Checkpoint
  BY DEF AppInv, AppTypes, ProcessType
<1> DEFINE Goal == AppTypes' /\ ProcessInv' /\ NumberInv' /\ Stays
<1>2. ASSUME NumberInv, Used' = Used, checkpoint'.setup \in Used \cup {0},
             \A n \in Setup : n \in Used /\ checkpoint'.setup = n /\ checkpoint'.phase = "awaiting_callback"
                => checkpoint' = checkpoint
      PROVE  NumberInv' /\ \A n \in Setup : Spent(n) => Spent(n)'
  BY <1>2 DEF NumberInv, Spent
<1>3. ASSUME Starts(p) PROVE /\ process[p].stage = "none" /\ process[p].data = NoCheckpoint
                             /\ \A q \in Process : ~Holds(q)
  BY <1>1, <1>3 DEF Starts, ProcessInv
<1>4. CASE Register(p)
  <2> DEFINE n == 1 + Cardinality(Used)
             new == [setup |-> n, phase |-> "awaiting_callback", code |-> NoCode]
  <2>1. /\ Starts(p) /\ n <= MaxSetup /\ checkpoint.phase \in {"none", "awaiting_callback"}
        /\ UNCHANGED <<keyFile, handler, posts, shown>>
        /\ \/ /\ checkpoint' = new
              /\ process' = Loaded(p, "waiting", new) \/ process' = Loaded(p, "ending", new)
           \/ checkpoint' = NoCheckpoint /\ process' = Ended(p)
    BY <1>4 DEF Register, Used
  <2>2. n \in Nat \ {0} /\ n \notin Used /\ Used \cup {n} = 1 .. n
    BY <1>1, NextNumber
  <2>3. n \in Setup /\ n # 0
    BY <2>1, <2>2, SetupAssumption DEF Setup
  <2>4. new \in SavedType /\ new \in Checkpoint /\ new # NoCheckpoint
    BY <2>3, SetupMarks DEF SavedType, Checkpoint
  <2>5. \A c \in Code : ~Recoverable(c)
    BY <2>1 DEF Recoverable
  <2>6. CASE /\ checkpoint' = new
             /\ process' = Loaded(p, "waiting", new) \/ process' = Loaded(p, "ending", new)
    <3>1. /\ process' \in [Process -> ProcessType] /\ process'[p].stage \in {"waiting", "ending"}
          /\ process'[p].data = new /\ \A q \in Process \ {p} : process'[q] = process[q]
      BY <1>1, <2>4, <2>6, SessionLoads
    <3>2. Used' = Used \cup {n}
      <4>1. Used' = (Used \cup {process'[p].data.setup}) \ {0}
        BY <1>3, <2>1, <3>1, UsedGrows
      <4>2. process'[p].data.setup = n /\ 0 \notin Used
        BY <3>1 DEF Used
      <4> QED
        BY <4>1, <4>2, <2>3
    <3>3. ProcessInv'
      BY <1>1, <1>3, <2>1, <2>4, <2>6, <3>1 DEF ProcessInv, Holds
    <3>4. checkpoint'.setup = n /\ n \in 0 .. MaxSetup
      BY <2>1, <2>2, <2>6, SetupAssumption
    <3>5. NumberInv'
      BY <2>2, <3>2, <3>4 DEF NumberInv
    <3>6. Stays
      BY <2>1, <2>2, <2>5, <3>2, <3>4 DEF Stays, Spent
    <3>7. AppTypes'
      BY <1>1, <2>1, <2>4, <2>6, <3>1 DEF AppTypes
    <3> QED
      BY <3>3, <3>5, <3>6, <3>7
  <2>7. CASE checkpoint' = NoCheckpoint /\ process' = Ended(p)
    <3>1. /\ process' \in [Process -> ProcessType] /\ process'[p].stage = "ending"
          /\ process'[p].data = process[p].data /\ \A q \in Process \ {p} : process'[q] = process[q]
      BY <1>1, <2>7, SessionEnds
    <3>2. Used' = Used
      BY <3>1, UsedKept
    <3>3. ProcessInv'
      BY <1>1, <1>3, <2>1, <3>1 DEF ProcessInv, Holds
    <3>4. checkpoint'.setup = 0 /\ checkpoint'.phase = "none" /\ checkpoint' \in Checkpoint
      BY <2>7, SetupMarks
    <3>5. NumberInv' /\ \A m \in Setup : Spent(m) => Spent(m)'
      BY <1>1, <1>2, <3>2, <3>4
    <3>6. Stays
      BY <2>1, <2>5, <3>5 DEF Stays
    <3>7. AppTypes'
      BY <1>1, <2>1, <3>1, <3>4 DEF AppTypes
    <3> QED
      BY <3>3, <3>5, <3>6, <3>7
  <2> QED
    BY <2>1, <2>6, <2>7
<1>5. CASE ExistingApp(p) \/ Resume(p) \/ ResumeConverted(p)
  <2> DEFINE d == process'[p].data
  <2>1. /\ Starts(p) /\ UNCHANGED <<checkpoint, handler, posts, shown>>
        /\ keyFile' \in Code \cup {NoCode} /\ (keyFile # NoCode => keyFile' = keyFile)
    <3>1. CASE ExistingApp(p) \/ Resume(p)
      BY <1>1, <3>1 DEF ExistingApp, Resume, AppTypes
    <3>2. CASE ResumeConverted(p)
      <4>1. checkpoint \in SavedType
        BY <1>1, <3>2, SetupMarks DEF ResumeConverted
      <4>2. keyFile' = checkpoint.code /\ checkpoint.code \in Code \cup {NoCode}
        BY <3>2, <4>1 DEF ResumeConverted, SavedType
      <4> QED
        BY <3>2, <4>2 DEF ResumeConverted
    <3> QED
      BY <1>5, <3>1, <3>2
  <2>2. \/ process' = Loaded(p, "installing", NoCheckpoint)
        \/ process' = Loaded(p, "waiting", checkpoint) /\ checkpoint # NoCheckpoint
        \/ process' = Loaded(p, "installing", checkpoint)
    BY <1>5, SetupMarks DEF ExistingApp, Resume, ResumeConverted
  <2>3. /\ process' \in [Process -> ProcessType] /\ process'[p].stage \in {"waiting", "installing"}
        /\ d \in {NoCheckpoint, checkpoint}
        /\ (process'[p].stage = "waiting" => d # NoCheckpoint)
        /\ \A q \in Process \ {p} : process'[q] = process[q]
    BY <1>1, <2>2, SetupMarks, SessionLoads
  <2>4. Used' = Used
    <3>1. Used' = (Used \cup {d.setup}) \ {0}
      BY <1>3, <2>1, <2>3, UsedGrows
    <3>2. d.setup \in Used \cup {0} /\ 0 \notin Used
      BY <1>1, <2>3, SetupMarks DEF NumberInv, Used
    <3> QED
      BY <3>1, <3>2
  <2>5. ProcessInv'
    BY <1>1, <1>3, <2>1, <2>3 DEF ProcessInv, Holds
  <2>6. NumberInv' /\ Stays
    BY <1>1, <2>1, <2>4 DEF NumberInv, Stays, Spent, Recoverable
  <2>7. AppTypes'
    BY <1>1, <2>1, <2>3 DEF AppTypes
  <2> QED
    BY <2>5, <2>6, <2>7
<1>6. CASE StopWaiting(p) \/ Installed(p) \/ WriteEnv(p) \/ Gone(p)
  <2>1. /\ UNCHANGED <<checkpoint, keyFile, posts, shown>>
        /\ handler' \in [Receiver -> ReceiverType]
    <3>1. Waiting \in ReceiverType
      BY DEF Waiting, ReceiverType
    <3> QED
      BY <1>1, <1>6, <3>1 DEF StopWaiting, Installed, WriteEnv, Gone, AppTypes
  <2>2. /\ process' \in [Process -> ProcessType]
        /\ process[p].stage # "none"
        /\ \/ process'[p].stage \in {"ending", "gone"}
           \/ process'[p].stage \in {"writing", "completing"} /\ Holds(p)
        /\ process'[p].data = process[p].data /\ \A q \in Process \ {p} : process'[q] = process[q]
    <3>1. CASE StopWaiting(p)
      BY <1>1, <3>1, SessionEnds DEF StopWaiting, Holds
    <3>2. CASE Installed(p) \/ WriteEnv(p)
      BY <1>1, <3>2, SessionMoves DEF Installed, WriteEnv, Holds
    <3>3. CASE Gone(p)
      BY <1>1, <3>3 DEF Gone, AppTypes, ProcessType
    <3> QED
      BY <1>6, <3>1, <3>2, <3>3
  <2>3. Used' = Used
    BY <2>2, UsedKept
  <2>4. ProcessInv'
    BY <1>1, <2>1, <2>2 DEF ProcessInv, Holds
  <2>5. NumberInv' /\ Stays
    BY <1>1, <2>1, <2>3 DEF NumberInv, Stays, Spent, Recoverable
  <2>6. AppTypes'
    BY <1>1, <2>1, <2>2 DEF AppTypes
  <2> QED
    BY <2>4, <2>5, <2>6
<1>7. CASE Complete(p)
  <2>1. /\ process[p].stage = "completing" /\ Holds(p) /\ process'[p].stage = "ending"
        /\ process' \in [Process -> ProcessType] /\ process'[p].data = process[p].data
        /\ \A q \in Process \ {p} : process'[q] = process[q]
        /\ UNCHANGED <<keyFile, handler, posts, shown>>
    BY <1>1, <1>7, SessionMoves DEF Complete, Holds
  <2>2. \/ checkpoint' = checkpoint
        \/ /\ process[p].data # NoCheckpoint /\ checkpoint = process[p].data
           /\ checkpoint' = [checkpoint EXCEPT !.phase = "complete"]
    BY <1>1, <1>7, <2>1 DEF Complete, ProcessInv
  <2>3. /\ checkpoint' \in Checkpoint /\ checkpoint'.setup = checkpoint.setup
        /\ checkpoint' = checkpoint \/ (checkpoint'.phase = "complete" /\ checkpoint'.code = checkpoint.code)
    <3>1. CASE checkpoint' = checkpoint
      BY <1>1, <3>1
    <3>2. CASE checkpoint' # checkpoint
      <4>1. checkpoint \in SavedType /\ checkpoint' = [checkpoint EXCEPT !.phase = "complete"]
        BY <1>1, <2>2, <3>2, SetupMarks
      <4>2. /\ checkpoint' \in SavedType /\ checkpoint'.setup = checkpoint.setup
            /\ checkpoint'.phase = "complete" /\ checkpoint'.code = checkpoint.code
        BY <4>1 DEF SavedType
      <4> QED
        BY <4>2 DEF SavedType, Checkpoint
    <3> QED
      BY <3>1, <3>2
  <2>4. Used' = Used
    BY <2>1, UsedKept
  <2>5. ProcessInv'
    BY <1>1, <2>1 DEF ProcessInv, Holds
  <2>6. NumberInv' /\ Stays
    BY <1>1, <2>1, <2>3, <2>4 DEF NumberInv, Stays, Spent, Recoverable
  <2>7. AppTypes'
    BY <1>1, <2>1, <2>3 DEF AppTypes
  <2> QED
    BY <2>5, <2>6, <2>7
<1> QED
  BY <1>4, <1>5, <1>6, <1>7

\* A session that ends or moves on leaves its handlers as they should be.
Leaves(p) == /\ process[p].stage # "none" /\ process'[p].stage \notin {"none", "gone"}
             /\ process'[p].data = process[p].data
             /\ \/ process'[p].closed = TRUE /\ ~Locked(p)
                \/ process'[p].closed = process[p].closed /\ process[p].stage # "waiting"

LEMMA HandlersKept ==
    ASSUME AppInv, Stays, NEW p \in Process, handler' = handler,
           \A q \in Process \ {p} : process'[q] = process[q],
           process[p].stage = "none" \/ Leaves(p)
    PROVE  HandlersInv'
<1>1. AppTypes /\ HandlersInv
  BY DEF AppInv
<1>2. \A g, h \in Receiver : OneAtATime(g, h)'
  BY <1>1 DEF HandlersInv, OneAtATime
<1>3. SUFFICES ASSUME NEW h \in Receiver, handler[h].stage # "idle" PROVE HandlerInv(h)'
  BY <1>1, <1>2 DEF HandlersInv, HandlerInv
<1> DEFINE q == handler[h].process
<1>4. HandlerInv(h) /\ q \in Process /\ handler[h].code \in Code /\ handler[h].code # NoCode
  BY <1>1, <1>3, SetupMarks DEF HandlersInv, HandlerInv
<1>5. handler[h].stage = "replying" => (keyFile = handler[h].code /\ Recoverable(handler[h].code))'
  BY <1>1, <1>3, <1>4 DEF HandlerInv, Stays
<1>6. CASE q # p
  <2>1. process'[q] = process[q]
    BY <1>4, <1>6
  <2> QED
    BY <1>3, <1>4, <1>5, <2>1 DEF HandlerInv
<1>7. CASE q = p
  <2>1. Leaves(p)
    BY <1>3, <1>4, <1>7 DEF HandlerInv
  <2>2. handler[h].stage = "keying" => Locked(p) /\ process[p].stage = "waiting"
    BY <1>3, <1>4, <1>7 DEF HandlerInv, Locked
  <2> QED
    BY <1>3, <1>4, <1>5, <1>7, <2>1, <2>2 DEF HandlerInv, Leaves
<1> QED
  BY <1>6, <1>7

LEMMA CodesKept ==
    ASSUME AppInv, Stays, UNCHANGED posts,
           \A c \in shown' : c \in shown \/ (c \in Code /\ keyFile = c /\ Recoverable(c)),
           \A h \in Receiver : handler'[h].stage = "posting" => handler'[h] = handler[h]
    PROVE  CodeInv' /\ ShownInv'
<1>1. /\ AppTypes /\ CodeInv /\ ShownInv /\ HandlersInv
      /\ \A c \in Code : c[1] \in Setup /\ c # NoCode
  BY SetupMarks DEF AppInv
<1>2. \A h \in Receiver : handler[h].stage = "posting" => handler[h].code \in Code
  BY <1>1 DEF HandlersInv, HandlerInv
<1>3. CodeInv'
  BY <1>1, <1>2 DEF CodeInv, Stays
<1>4. ShownInv'
  BY <1>1 DEF ShownInv, Stays, AppTypes
<1> QED
  BY <1>3, <1>4

LEMMA MainKeeps ==
    ASSUME AppInv, NEW p \in Process,
           \/ Register(p) \/ ExistingApp(p) \/ Resume(p) \/ ResumeConverted(p)
           \/ StopWaiting(p) \/ Installed(p) \/ WriteEnv(p) \/ Complete(p) \/ Gone(p)
    PROVE  AppInv'
<1>1. AppTypes' /\ ProcessInv' /\ NumberInv' /\ Stays
  BY MainStep
<1>2. AppTypes /\ HandlersInv /\ process[p] \in ProcessType
  BY DEF AppInv, AppTypes
<1>3. CASE Gone(p)
  <2>1. /\ UNCHANGED <<posts, shown, keyFile, checkpoint>>
        /\ process'[p].stage = "gone"
        /\ \A q \in Process \ {p} : process'[q] = process[q]
        /\ \A h \in Receiver : handler'[h] = IF handler[h].process = p THEN Waiting ELSE handler[h]
    BY <1>2, <1>3 DEF Gone, AppTypes, ProcessType
  <2>2. \A h \in Receiver : handler'[h].stage = "idle"
                            \/ (handler'[h] = handler[h] /\ handler[h].process # p)
    BY <2>1 DEF Waiting
  <2>3. HandlersInv'
    <3>1. \A h \in Receiver : HandlerInv(h)'
      <4>1. SUFFICES ASSUME NEW h \in Receiver, handler'[h] = handler[h], handler[h].process # p,
                            handler[h].stage # "idle"
                     PROVE  HandlerInv(h)'
        BY <2>2 DEF HandlerInv
      <4>2. HandlerInv(h)
        BY <1>2 DEF HandlersInv
      <4>3. handler[h].process \in Process /\ process'[handler[h].process] = process[handler[h].process]
        BY <2>1, <4>1, <4>2 DEF HandlerInv
      <4> QED
        BY <2>1, <4>1, <4>2, <4>3 DEF HandlerInv, Recoverable
    <3>2. \A g, h \in Receiver : OneAtATime(g, h)'
      BY <1>2, <2>2 DEF HandlersInv, OneAtATime, Asking
    <3> QED
      BY <3>1, <3>2 DEF HandlersInv
  <2>4. \A h \in Receiver : handler'[h].stage = "posting" => handler'[h] = handler[h]
    BY <2>2
  <2>5. CodeInv' /\ ShownInv'
    BY <1>1, <2>1, <2>4, CodesKept
  <2> QED
    BY <1>1, <2>3, <2>5 DEF AppInv
<1>4. CASE ~Gone(p)
  <2>1. UNCHANGED <<handler, posts, shown>>
    BY <1>4 DEF Register, ExistingApp, Resume, ResumeConverted, StopWaiting, Installed, WriteEnv, Complete
  <2>2. /\ \A q \in Process \ {p} : process'[q] = process[q]
        /\ process[p].stage = "none" \/ Leaves(p)
    <3>1. CASE Register(p)
      <4>1. process[p].stage = "none" /\ \A q \in Process \ {p} : process'[q] = process[q]
        BY <1>2, <3>1 DEF Register, Starts, Loaded, Ended, AppTypes
      <4> QED
        BY <4>1
    <3>2. CASE ExistingApp(p) \/ Resume(p) \/ ResumeConverted(p)
      BY <1>2, <3>2 DEF ExistingApp, Resume, ResumeConverted, Starts, Loaded, AppTypes
    <3>3. CASE StopWaiting(p)
      <4>1. process[p].stage # "none" /\ ~Locked(p) /\ process' = Ended(p)
        BY <3>3 DEF StopWaiting, Holds
      <4> QED
        BY <1>2, <4>1, SessionEnds DEF Leaves
    <3>4. CASE Installed(p)
      BY <1>2, <3>4, SessionMoves DEF Installed, Leaves
    <3>5. CASE WriteEnv(p)
      <4>1. MainGoes(p, "writing", "completing")
        BY <3>5 DEF WriteEnv
      <4> QED
        BY <1>2, <4>1, SessionMoves DEF Leaves
    <3>6. CASE Complete(p)
      BY <1>2, <3>6, SessionMoves DEF Complete, Leaves
    <3> QED
      BY <1>4, <3>1, <3>2, <3>3, <3>4, <3>5, <3>6
  <2>3. HandlersInv'
    BY <1>1, <2>1, <2>2, HandlersKept
  <2>4. CodeInv' /\ ShownInv'
    BY <1>1, <2>1, CodesKept
  <2> QED
    BY <1>1, <2>3, <2>4 DEF AppInv
<1> QED
  BY <1>3, <1>4

\* The record a handler becomes, and those it leaves alone.
OnlyHandler(h) == /\ handler' \in [Receiver -> ReceiverType]
                  /\ \A g \in Receiver \ {h} : handler'[g] = handler[g]
OnlyProcess(p) == /\ process' \in [Process -> ProcessType]
                  /\ \A q \in Process \ {p} : process'[q] = process[q]

\* A handler's process while it is open: the one that waits, at its checkpoint.
LEMMA OpenSession ==
    ASSUME AppInv, NEW h \in Receiver, handler[h].stage # "idle",
           ~process[handler[h].process].closed
    PROVE  LET p == handler[h].process
           IN /\ p \in Process /\ process[p].stage = "waiting" /\ Holds(p)
              /\ checkpoint = process[p].data /\ checkpoint \in SavedType
<1>1. AppTypes /\ ProcessInv /\ HandlerInv(h)
  BY DEF AppInv, HandlersInv
<1> DEFINE p == handler[h].process
<1>2. p \in Process /\ process[p].stage = "waiting" /\ Holds(p)
  BY <1>1 DEF HandlerInv, Holds
<1>3. checkpoint = process[p].data /\ checkpoint # NoCheckpoint /\ checkpoint \in Checkpoint
  BY <1>1, <1>2 DEF ProcessInv, AppTypes
<1> QED
  BY <1>2, <1>3, SetupMarks

\* A session saves its next checkpoint, or what it has stays.
LEMMA SavedStep ==
    ASSUME AppInv, NEW p \in Process, Holds(p), NEW d \in SavedType,
           checkpoint = process[p].data, checkpoint # NoCheckpoint,
           checkpoint.phase \in {"awaiting_callback", "exchanging"},
           d.setup = checkpoint.setup, d.phase # "awaiting_callback",
           OnlyProcess(p), keyFile' = keyFile,
           \/ checkpoint' = d /\ process'[p].data = d /\ process'[p].stage = process[p].stage
           \/ /\ checkpoint' \in {checkpoint, d}
              /\ process'[p].data = process[p].data /\ process'[p].stage = "ending"
    PROVE  ProcessInv' /\ NumberInv' /\ Stays /\ checkpoint' \in Checkpoint
<1>1. ProcessInv /\ NumberInv /\ checkpoint \in Checkpoint /\ d # NoCheckpoint
  BY SetupMarks DEF AppInv, AppTypes, SavedType
<1>2. Used' = Used
  <2>1. \A q \in Process : process'[q].data.setup = process[q].data.setup
    BY DEF OnlyProcess
  <2> QED
    BY <2>1, UsedKept
<1>3. ProcessInv'
  <2>1. /\ process'[p].stage # "none" /\ (process'[p].stage = "waiting" => process'[p].data # NoCheckpoint)
        /\ (process'[p].stage \notin {"none", "ending", "gone"} => checkpoint' = process'[p].data)
    BY <1>1 DEF Holds, ProcessInv
  <2>2. \A q \in Process : Holds(q) => q = p
    BY <1>1 DEF ProcessInv
  <2> QED
    BY <1>1, <2>1, <2>2 DEF ProcessInv, Holds, OnlyProcess
<1>4. NumberInv' /\ Stays
  BY <1>1, <1>2 DEF NumberInv, Stays, Spent, Recoverable
<1>5. checkpoint' \in Checkpoint
  BY <1>1 DEF Checkpoint, SavedType
<1> QED
  BY <1>3, <1>4, <1>5

LEMMA ExchangeKeeps ==
    ASSUME AppInv, NEW h \in Receiver, NEW p \in Process, NEW c \in Code, Exchange(h, p, c)
    PROVE  AppInv'
<1> DEFINE data == [process[p].data EXCEPT !.phase = "exchanging", !.code = c]
           asks == [stage |-> "posting", process |-> p, code |-> c]
<1>1. AppTypes /\ ProcessInv /\ NumberInv /\ HandlersInv /\ CodeInv /\ ShownInv
      /\ process[p] \in ProcessType /\ c \in Code \cup {NoCode} /\ c # NoCode /\ c[1] \in Setup
  BY SetupMarks DEF AppInv, AppTypes
<1>2. /\ handler[h].stage = "idle" /\ process[p].stage = "waiting" /\ ~Locked(p)
      /\ ~process[p].closed /\ c[1] = process[p].data.setup
      /\ process[p].data.phase = "awaiting_callback" /\ UNCHANGED <<keyFile, env, posts, shown>>
      /\ \/ /\ checkpoint' = data /\ process' = [process EXCEPT ![p].data = data]
            /\ handler' = [handler EXCEPT ![h] = asks]
         \/ checkpoint' \in {checkpoint, data} /\ process' = Ended(p) /\ UNCHANGED handler
  BY DEF Exchange, Serves
<1>3. Holds(p) /\ checkpoint = process[p].data /\ checkpoint # NoCheckpoint /\ checkpoint \in SavedType
  BY <1>1, <1>2, SetupMarks DEF ProcessInv, Holds, AppTypes
<1>4. /\ data \in SavedType /\ data.setup = checkpoint.setup /\ data.phase = "exchanging"
      /\ data.code = c /\ data \in Checkpoint
  BY <1>1, <1>3 DEF SavedType, Checkpoint
<1> HIDE DEF data
<1>5. asks \in ReceiverType
  BY <1>1 DEF ReceiverType
<1>6. /\ OnlyProcess(p)
      /\ \/ checkpoint' = data /\ process'[p].data = data /\ process'[p].stage = process[p].stage
            /\ process'[p].closed = process[p].closed
         \/ /\ checkpoint' \in {checkpoint, data} /\ process'[p].closed = TRUE
            /\ process'[p].data = process[p].data /\ process'[p].stage = "ending"
  <2>1. CASE checkpoint' = data /\ process' = [process EXCEPT ![p].data = data]
    BY <1>1, <1>4, <2>1 DEF OnlyProcess, ProcessType, AppTypes
  <2>2. CASE checkpoint' \in {checkpoint, data} /\ process' = Ended(p)
    BY <1>1, <2>2, SessionEnds DEF OnlyProcess
  <2> QED
    BY <1>2, <2>1, <2>2
<1>7. ProcessInv' /\ NumberInv' /\ Stays /\ checkpoint' \in Checkpoint
  BY <1>2, <1>3, <1>4, <1>6, SavedStep
<1>8. AppTypes'
  <2>1. handler' \in [Receiver -> ReceiverType]
    BY <1>1, <1>2, <1>5 DEF AppTypes
  <2> QED
    BY <1>1, <1>2, <1>6, <1>7, <2>1 DEF AppTypes, OnlyProcess
<1>9. CASE handler' = handler
  <2>2. CASE process'[p].closed = TRUE
    <3>1. Leaves(p)
      BY <1>2, <1>6, <2>2 DEF Leaves
    <3>2. HandlersInv'
      BY <1>6, <1>7, <1>9, <3>1, HandlersKept DEF OnlyProcess
    <3>3. CodeInv' /\ ShownInv'
      BY <1>2, <1>7, <1>9, CodesKept
    <3> QED
      BY <1>7, <1>8, <3>2, <3>3 DEF AppInv
  <2>3. CASE process'[p].closed # TRUE
    <3>1. handler' = [handler EXCEPT ![h] = asks]
      BY <1>1, <1>2, <2>3, SessionEnds
    <3>2. handler'[h].stage = "posting"
      BY <1>1, <3>1 DEF AppTypes
    <3> QED
      BY <1>2, <1>9, <3>2
  <2> QED
    BY <2>2, <2>3
<1>10. CASE handler' # handler
  <2>1. /\ checkpoint' = data /\ process' = [process EXCEPT ![p].data = data]
        /\ handler' = [handler EXCEPT ![h] = asks]
    BY <1>2, <1>10
  <2>2. /\ process'[p].data = data /\ process'[p].stage = "waiting"
        /\ process'[p].closed = process[p].closed /\ ~process'[p].closed
    BY <1>1, <1>2, <2>1 DEF AppTypes, ProcessType
  <2>3. /\ handler'[h].stage = "posting" /\ handler'[h].process = p /\ handler'[h].code = c
        /\ \A g \in Receiver \ {h} : handler'[g] = handler[g]
    BY <1>1, <2>1 DEF AppTypes
  <2>4. \A g \in Receiver \ {h} : handler[g].stage # "idle" /\ handler[g].process = p
                                  => handler[g].stage = "replying"
    BY <1>1, <1>2 DEF HandlersInv, HandlerInv, AppTypes, ReceiverType, Asking
  <2>5. \A b \in Code : ~Recoverable(b)
    BY <1>2, <1>3 DEF Recoverable
  <2>6. \A g \in Receiver \ {h} : HandlerInv(g)'
    BY <1>1, <1>6, <2>3, <2>4, <2>5 DEF HandlersInv, HandlerInv, OnlyProcess
  <2>7. HandlerInv(h)'
    BY <1>1, <1>4, <2>2, <2>3 DEF HandlerInv, Asking
  <2>8. \A g, k \in Receiver : OneAtATime(g, k)'
    <3>1. \A g \in Receiver \ {h} : handler[g].process = p
            => handler[g].stage \in {"idle", "replying"}
      BY <2>4
    <3> QED
      BY <1>1, <2>3, <3>1 DEF HandlersInv, OneAtATime, Asking
  <2>9. ~Spent(c[1]) /\ Spent(c[1])'
    <3>1. c[1] \in Used /\ Used' = Used
      <4>1. c[1] \in Used
        BY <1>1, <1>2, SetupMarks DEF Used
      <4>2. \A q \in Process : process'[q].data.setup = process[q].data.setup
        BY <1>3, <1>4, <1>6, <2>2 DEF OnlyProcess
      <4> QED
        BY <4>1, <4>2, UsedKept
    <3> QED
      BY <1>2, <1>3, <1>4, <2>1, <3>1 DEF Spent
  <2>10. CodeInv'
    <3>1. posts[c] = 0 /\ \A g \in Receiver : handler[g].stage = "posting" => handler[g].code # c
      BY <1>1, <2>9 DEF CodeInv
    <3>2. \A b \in Code : b[1] \in Setup
      BY SetupMarks
    <3>3. \A g \in Receiver : handler[g].stage = "posting" => handler[g].code \in Code
      BY <1>1 DEF HandlersInv, HandlerInv
    <3>4. \A b \in Code : posts'[b] <= 1 /\ (posts'[b] # 0 => Spent(b[1])')
      BY <1>1, <1>2, <1>7, <3>2 DEF CodeInv, Stays
    <3>5. \A g \in Receiver : (handler[g].stage = "posting" =>
            posts[handler[g].code] = 0 /\ Spent(handler[g].code[1]))'
      <4>1. SUFFICES ASSUME NEW g \in Receiver, handler'[g].stage = "posting"
                     PROVE  (posts[handler[g].code] = 0 /\ Spent(handler[g].code[1]))'
        OBVIOUS
      <4>2. CASE g = h
        <5>1. handler'[g].code = c /\ posts'[c] = 0
          BY <1>2, <2>3, <3>1, <4>2
        <5> QED
          BY <2>9, <5>1 DEF Spent
      <4>3. CASE g # h
        <5> DEFINE b == handler[g].code
        <5>1. /\ handler'[g].code = b /\ handler[g].stage = "posting" /\ b \in Code
              /\ posts[b] = 0 /\ Spent(b[1])
          BY <1>1, <2>3, <3>3, <4>1, <4>3 DEF CodeInv
        <5>2. b[1] \in Setup /\ posts'[b] = 0
          BY <1>2, <3>2, <5>1
        <5>3. b[1] \in Used' /\ (checkpoint'.setup = b[1] => checkpoint'.phase # "awaiting_callback")
          BY <1>7, <5>1, <5>2 DEF Stays, Spent
        <5> QED
          BY <5>1, <5>2, <5>3 DEF Spent
      <4> QED
        BY <4>2, <4>3
    <3>6. \A g, k \in Receiver : handler'[g].stage = "posting" /\ handler'[k].stage = "posting"
                                 /\ handler'[g].code = handler'[k].code => g = k
      BY <1>1, <2>3, <3>1 DEF CodeInv
    <3> QED
      BY <3>4, <3>5, <3>6 DEF CodeInv
  <2>11. ShownInv'
    BY <1>1, <1>2, <2>5 DEF ShownInv, AppTypes
  <2> QED
    BY <1>7, <1>8, <2>6, <2>7, <2>8, <2>10, <2>11 DEF AppInv, HandlersInv
<1> QED
  BY <1>9, <1>10

\* A handler takes its process's lock to write the key of the converted App.
LEMMA KeyingKeeps ==
    ASSUME AppInv, Stays, NEW h \in Receiver, NEW p \in Process, NEW c \in Code,
           handler' = [handler EXCEPT ![h] = [stage |-> "keying", process |-> p, code |-> c]],
           OnlyProcess(p), process[p].stage = "waiting", ~process[p].closed, ~Locked(p),
           process'[p].stage = "waiting", process'[p].closed = process[p].closed,
           process'[p].data.phase = "converted", process'[p].data.code = c,
           \A g \in Receiver \ {h} : handler[g].process = p => handler[g].stage \notin Asking,
           UNCHANGED posts, UNCHANGED shown
    PROVE  HandlersInv' /\ CodeInv' /\ ShownInv' /\ handler' \in [Receiver -> ReceiverType]
<1>1. AppTypes /\ HandlersInv
  BY DEF AppInv
<1>2. [stage |-> "keying", process |-> p, code |-> c] \in ReceiverType
  BY DEF ReceiverType
<1>3. /\ handler' \in [Receiver -> ReceiverType] /\ handler'[h].stage = "keying"
      /\ handler'[h].process = p /\ handler'[h].code = c
      /\ \A g \in Receiver \ {h} : handler'[g] = handler[g]
  BY <1>1, <1>2 DEF AppTypes
<1>4. HandlerInv(h)'
  BY <1>3 DEF HandlerInv, Asking
<1>5. \A g \in Receiver \ {h} : HandlerInv(g)'
  <2>1. SUFFICES ASSUME NEW g \in Receiver \ {h}, handler[g].stage # "idle" PROVE HandlerInv(g)'
    BY <1>3 DEF HandlerInv
  <2>2. HandlerInv(g) /\ handler[g].code # NoCode
    BY <1>1, <2>1, SetupMarks DEF HandlersInv, HandlerInv
  <2>3. handler[g].stage = "replying" => (keyFile = handler[g].code /\ Recoverable(handler[g].code))'
    <3>1. ASSUME handler[g].stage = "replying"
          PROVE  keyFile' = handler[g].code /\ checkpoint'.phase \in {"converted", "complete"}
                 /\ checkpoint'.code = handler[g].code
      BY <2>1, <2>2, <3>1 DEF HandlerInv, Stays, Recoverable
    <3> QED
      BY <1>3, <3>1 DEF Recoverable
  <2>4. CASE handler[g].process = p
    <3>1. handler[g].stage = "replying"
      <4>1. handler[g].stage # "keying" /\ handler[g].stage \notin Asking
        BY <2>1, <2>4 DEF Locked
      <4> QED
        BY <1>1, <2>1, <4>1 DEF AppTypes, ReceiverType, Asking
    <3> QED
      BY <1>3, <2>1, <2>2, <2>3, <2>4, <3>1 DEF HandlerInv, Asking
  <2>5. CASE handler[g].process # p
    <3>1. handler[g].process \in Process /\ process'[handler[g].process] = process[handler[g].process]
      BY <2>1, <2>2, <2>5 DEF HandlerInv, OnlyProcess
    <3> QED
      BY <1>3, <2>1, <2>2, <2>3, <3>1 DEF HandlerInv
  <2> QED
    BY <2>4, <2>5
<1>6. \A g, k \in Receiver : OneAtATime(g, k)'
  <2>1. \A g \in Receiver \ {h} : handler[g].process = p => handler[g].stage # "keying"
    BY DEF Locked
  <2> QED
    BY <1>1, <1>3, <2>1 DEF HandlersInv, OneAtATime, Asking
<1>7. \A g \in Receiver : handler'[g].stage = "posting" => handler'[g] = handler[g]
  BY <1>3
<1>8. CodeInv' /\ ShownInv'
  BY <1>7, CodesKept
<1> QED
  BY <1>3, <1>4, <1>5, <1>6, <1>8 DEF HandlersInv

LEMMA RepeatKeeps ==
    ASSUME AppInv, NEW h \in Receiver, NEW p \in Process, NEW c \in Code, Repeat(h, p, c)
    PROVE  AppInv'
<1>1. AppTypes /\ ProcessInv /\ NumberInv /\ HandlersInv
  BY DEF AppInv
<1>2. /\ handler[h].stage = "idle" /\ process[p].stage = "waiting" /\ ~Locked(p)
      /\ ~process[p].closed /\ process[p].data.phase = "converted" /\ process[p].data.code = c
      /\ handler' = [handler EXCEPT ![h] = [stage |-> "keying", process |-> p, code |-> c]]
      /\ UNCHANGED <<checkpoint, keyFile, process, posts, shown>>
  BY DEF Repeat, Serves
<1>3. ProcessInv' /\ NumberInv' /\ Stays /\ OnlyProcess(p)
  <2>1. Used' = Used
    BY <1>2, UsedKept
  <2> QED
    BY <1>1, <1>2, <2>1 DEF ProcessInv, NumberInv, Stays, Spent, Recoverable, OnlyProcess, Holds, AppTypes
<1>4. \A g \in Receiver \ {h} : handler[g].process = p => handler[g].stage \notin Asking
  BY <1>1, <1>2 DEF HandlersInv, HandlerInv, Asking
<1>5. HandlersInv' /\ CodeInv' /\ ShownInv' /\ handler' \in [Receiver -> ReceiverType]
  BY <1>2, <1>3, <1>4, KeyingKeeps
<1> QED
  BY <1>1, <1>2, <1>3, <1>5 DEF AppInv, AppTypes

\* A handler that goes on, or is let go, while the rest stays.
LEMMA HandlerMoves ==
    ASSUME AppInv, Stays, NEW h \in Receiver, OnlyHandler(h),
           NEW p \in Process, OnlyProcess(p), handler[h].process = p, handler[h].stage # "idle",
           process' = process \/ Leaves(p)
             \/ (process[p].stage = "waiting" /\ process'[p].closed = TRUE
                 /\ process'[p].stage \notin {"none", "gone"}
                 /\ process'[p].data = process[p].data
                 /\ \A g \in Receiver \ {h} : handler[g].process = p => handler[g].stage # "keying"),
           \/ handler'[h].stage = "idle"
           \/ /\ handler'[h].process = p /\ handler'[h].code = handler[h].code
              /\ process' = process
              /\ \/ handler[h].stage \in Asking /\ handler'[h].stage \in Asking \ {"posting"}
                 \/ /\ handler'[h].stage = "replying" /\ keyFile' = handler[h].code
                    /\ Recoverable(handler[h].code)
    PROVE  HandlersInv'
<1>1. AppTypes /\ HandlersInv
  BY DEF AppInv
<1>2. \A g \in Receiver \ {h} : HandlerInv(g)'
  <2>1. SUFFICES ASSUME NEW g \in Receiver \ {h}, handler[g].stage # "idle" PROVE HandlerInv(g)'
    BY DEF HandlerInv, OnlyHandler
  <2>2. HandlerInv(g) /\ handler[g].code # NoCode
    BY <1>1, <2>1, SetupMarks DEF HandlersInv, HandlerInv
  <2>3. handler'[g] = handler[g]
    BY DEF OnlyHandler
  <2>4. handler[g].stage = "replying" =>
          /\ keyFile' = handler[g].code /\ checkpoint'.phase \in {"converted", "complete"}
          /\ checkpoint'.code = handler[g].code
    BY <2>1, <2>2 DEF HandlerInv, Stays, Recoverable
  <2>5. CASE handler[g].process # p \/ process' = process
    <3>1. process'[handler[g].process] = process[handler[g].process]
      BY <2>1, <2>2, <2>5 DEF HandlerInv, OnlyProcess
    <3> QED
      BY <2>1, <2>2, <2>3, <2>4, <3>1 DEF HandlerInv, Recoverable
  <2>6. CASE handler[g].process = p /\ process' # process
    <3>1. handler[g].stage = "keying" => Locked(p) /\ process[p].stage = "waiting"
      BY <2>1, <2>2, <2>6 DEF HandlerInv, Locked
    <3>2. /\ handler[g].stage # "keying" /\ process'[p].stage \notin {"none", "gone"}
          /\ process'[p].data = process[p].data
          /\ (process'[p].closed = TRUE
              \/ (process'[p].closed = process[p].closed /\ process[p].stage # "waiting"))
      BY <2>6, <3>1 DEF Leaves
    <3> QED
      BY <2>1, <2>2, <2>3, <2>4, <2>6, <3>2 DEF HandlerInv, Recoverable
  <2> QED
    BY <2>5, <2>6
<1>3. HandlerInv(h)'
  <2>1. CASE handler'[h].stage = "idle"
    BY <2>1 DEF HandlerInv
  <2>2. CASE handler'[h].stage # "idle"
    <3>1. HandlerInv(h) /\ handler[h].code \in Code
      BY <1>1 DEF HandlersInv, HandlerInv
    <3>2. ASSUME Recoverable(handler[h].code)
          PROVE  checkpoint'.phase \in {"converted", "complete"} /\ checkpoint'.code = handler[h].code
      BY <3>1, <3>2 DEF Stays, Recoverable
    <3> QED
      BY <2>2, <3>1, <3>2 DEF HandlerInv, Asking, Recoverable
  <2> QED
    BY <2>1, <2>2
<1>4. \A g, k \in Receiver : OneAtATime(g, k)'
  BY <1>1 DEF HandlersInv, OneAtATime, Asking, OnlyHandler
<1> QED
  BY <1>2, <1>3, <1>4 DEF HandlersInv

LEMMA PostKeeps ==
    ASSUME AppInv, NEW h \in Receiver, Post(h)
    PROVE  AppInv'
<1> DEFINE c == handler[h].code
           p == handler[h].process
<1>1. AppTypes /\ ProcessInv /\ NumberInv /\ HandlersInv /\ CodeInv /\ ShownInv /\ HandlerInv(h)
      /\ \A b \in Code : b[1] \in Setup
  BY SetupMarks DEF AppInv, HandlersInv
<1>2. /\ handler[h].stage = "posting" /\ posts' = [posts EXCEPT ![c] = @ + 1]
      /\ UNCHANGED <<checkpoint, keyFile, env, process, shown>>
      /\ \/ handler' = [handler EXCEPT ![h].stage = "answered"]
         \/ handler' = [handler EXCEPT ![h].stage = "failed"]
  BY DEF Post, Answers
<1>3. c \in Code /\ p \in Process /\ posts[c] = 0 /\ Spent(c[1])
  BY <1>1, <1>2 DEF HandlerInv, CodeInv
<1>4. /\ OnlyHandler(h) /\ handler'[h].stage \in {"answered", "failed"}
      /\ handler'[h].process = p /\ handler'[h].code = c
  BY <1>1, <1>2 DEF OnlyHandler, AppTypes, ReceiverType
<1>5. Used' = Used
  BY <1>2, UsedKept
<1>6. ProcessInv' /\ NumberInv' /\ Stays /\ OnlyProcess(p)
  BY <1>1, <1>2, <1>5 DEF ProcessInv, NumberInv, Stays, Spent, Recoverable, OnlyProcess, Holds, AppTypes
<1>7. HandlersInv'
  BY <1>2, <1>3, <1>4, <1>6, HandlerMoves DEF Asking
<1>8. posts' \in [Code -> Nat] /\ posts'[c] = 1 /\ \A b \in Code \ {c} : posts'[b] = posts[b]
  BY <1>1, <1>2, <1>3 DEF AppTypes
<1>9. CodeInv'
  <2>1. \A n \in Setup : Spent(n) => Spent(n)'
    BY <1>6 DEF Stays
  <2>2. \A b \in Code : posts'[b] <= 1 /\ (posts'[b] # 0 => Spent(b[1])')
    BY <1>1, <1>3, <1>8, <2>1 DEF CodeInv
  <2>3. \A g \in Receiver : handler'[g].stage = "posting" =>
          /\ g # h /\ handler'[g] = handler[g] /\ handler[g].code \in Code
          /\ handler[g].code # c
    BY <1>1, <1>2, <1>4 DEF CodeInv, OnlyHandler, HandlersInv, HandlerInv
  <2>4. \A g \in Receiver : (handler[g].stage = "posting" =>
          posts[handler[g].code] = 0 /\ Spent(handler[g].code[1]))'
    <3>1. SUFFICES ASSUME NEW g \in Receiver, handler'[g].stage = "posting"
                   PROVE  (posts[handler[g].code] = 0 /\ Spent(handler[g].code[1]))'
      OBVIOUS
    <3> DEFINE b == handler[g].code
    <3>2. /\ handler'[g].code = b /\ b \in Code /\ posts'[b] = 0 /\ Spent(b[1]) /\ b[1] \in Setup
      BY <1>1, <1>8, <2>3, <3>1 DEF CodeInv
    <3>3. b[1] \in Used' /\ (checkpoint'.setup = b[1] => checkpoint'.phase # "awaiting_callback")
      BY <2>1, <3>2 DEF Spent
    <3> QED
      BY <3>2, <3>3 DEF Spent
  <2>5. \A g, k \in Receiver : handler'[g].stage = "posting" /\ handler'[k].stage = "posting"
                               /\ handler'[g].code = handler'[k].code => g = k
    BY <1>1, <2>3 DEF CodeInv
  <2> QED
    BY <2>2, <2>4, <2>5 DEF CodeInv
<1>10. ShownInv'
  BY <1>1, <1>2 DEF ShownInv, Recoverable
<1> QED
  BY <1>1, <1>2, <1>4, <1>6, <1>7, <1>8, <1>9, <1>10 DEF AppInv, AppTypes, OnlyHandler

LEMMA SaveKeeps ==
    ASSUME AppInv, NEW h \in Receiver, Save(h)
    PROVE  AppInv'
<1> DEFINE c == handler[h].code
           p == handler[h].process
           phase == IF handler[h].stage = "answered" THEN "converted" ELSE "exchange_failed"
           data == [process[p].data EXCEPT !.phase = phase]
<1>1. AppTypes /\ ProcessInv /\ NumberInv /\ HandlersInv /\ HandlerInv(h) /\ Waiting \in ReceiverType
  BY DEF AppInv, HandlersInv, Waiting, ReceiverType
<1>2. /\ handler[h].stage \in {"answered", "failed"} /\ ~Locked(p)
      /\ UNCHANGED <<keyFile, env, posts, shown>>
      /\ \/ /\ process[p].closed
            /\ handler' = [handler EXCEPT ![h] = Waiting] /\ UNCHANGED <<checkpoint, process>>
         \/ /\ ~process[p].closed /\ handler[h].stage = "answered" /\ checkpoint' = data
            /\ process' = [process EXCEPT ![p].data = data]
            /\ handler' = [handler EXCEPT ![h].stage = "keying"]
         \/ /\ ~process[p].closed
            /\ checkpoint' \in {checkpoint, data} /\ process' = Ended(p)
            /\ handler' = [handler EXCEPT ![h] = Waiting]
  BY DEF Save, Released, Answers
<1>3. /\ p \in Process /\ c \in Code /\ process[p].stage \notin {"none", "gone"}
      /\ process[p] \in ProcessType
  BY <1>1, <1>2 DEF HandlerInv, AppTypes
<1>4. CASE process[p].closed
  <2>1. /\ handler' = [handler EXCEPT ![h] = Waiting] /\ UNCHANGED <<checkpoint, process>>
    BY <1>2, <1>4
  <2>2. OnlyHandler(h) /\ handler'[h].stage = "idle"
    BY <1>1, <2>1 DEF OnlyHandler, AppTypes, Waiting
  <2>3. Used' = Used
    BY <2>1, UsedKept
  <2>4. ProcessInv' /\ NumberInv' /\ Stays /\ OnlyProcess(p)
    BY <1>1, <1>2, <2>1, <2>3 DEF ProcessInv, NumberInv, Stays, Spent, Recoverable, OnlyProcess, Holds, AppTypes
  <2>5. HandlersInv'
    BY <1>2, <1>3, <2>1, <2>2, <2>4, HandlerMoves
  <2>6. \A g \in Receiver : handler'[g].stage = "posting" => handler'[g] = handler[g]
    BY <2>2 DEF OnlyHandler
  <2>7. CodeInv' /\ ShownInv'
    BY <1>2, <2>4, <2>6, CodesKept
  <2> QED
    BY <1>1, <1>2, <2>1, <2>2, <2>4, <2>5, <2>7 DEF AppInv, AppTypes, OnlyHandler
<1>5. CASE ~process[p].closed
  <2>1. /\ process[p].stage = "waiting" /\ Holds(p) /\ checkpoint = process[p].data
        /\ checkpoint \in SavedType /\ checkpoint # NoCheckpoint
        /\ checkpoint.phase = "exchanging" /\ checkpoint.code = c
    BY <1>1, <1>2, <1>3, <1>5, OpenSession, SetupMarks DEF HandlerInv, Asking, SavedType
  <2>2. phase \in {"converted", "exchange_failed"}
        /\ (handler[h].stage = "answered" => phase = "converted")
    OBVIOUS
  <2> HIDE DEF phase
  <2>3. data \in SavedType /\ data.setup = checkpoint.setup /\ data.phase = phase /\ data.code = c
        /\ data \in Checkpoint
    BY <2>1, <2>2 DEF SavedType, Checkpoint
  <2> HIDE DEF data
  <2>9. /\ p \in Process /\ Holds(p) /\ data \in SavedType /\ checkpoint = process[p].data
        /\ checkpoint # NoCheckpoint /\ checkpoint.phase \in {"awaiting_callback", "exchanging"}
        /\ data.setup = checkpoint.setup /\ data.phase # "awaiting_callback" /\ keyFile' = keyFile
    BY <1>2, <1>3, <2>1, <2>2, <2>3
  <2>4. CASE /\ handler[h].stage = "answered" /\ checkpoint' = data
             /\ process' = [process EXCEPT ![p].data = data]
             /\ handler' = [handler EXCEPT ![h].stage = "keying"]
    <3>1. /\ OnlyProcess(p) /\ process'[p].data = data /\ process'[p].stage = "waiting"
          /\ process'[p].closed = process[p].closed
      BY <1>1, <1>3, <2>1, <2>3, <2>4 DEF OnlyProcess, AppTypes, ProcessType
    <3>2. ProcessInv' /\ NumberInv' /\ Stays /\ checkpoint' \in Checkpoint
      <4>1. checkpoint' = data /\ process'[p].data = data /\ process'[p].stage = process[p].stage
        BY <2>1, <2>4, <3>1
      <4>2. OnlyProcess(p)
        BY <3>1
      <4> QED
        BY <2>9, <4>1, <4>2, SavedStep
    <3>3. handler' = [handler EXCEPT ![h] = [stage |-> "keying", process |-> p, code |-> c]]
      <4>1. handler[h] \in ReceiverType
        BY <1>1 DEF AppTypes
      <4>2. [handler[h] EXCEPT !.stage = "keying"] = [stage |-> "keying", process |-> p, code |-> c]
        BY <4>1 DEF ReceiverType
      <4> QED
        BY <1>1, <2>4, <4>2
    <3>4. \A g \in Receiver \ {h} : handler[g].process = p => handler[g].stage \notin Asking
      BY <1>1, <1>2 DEF HandlersInv, OneAtATime, Asking
    <3>5. HandlersInv' /\ CodeInv' /\ ShownInv' /\ handler' \in [Receiver -> ReceiverType]
      <4>1. /\ p \in Process /\ c \in Code /\ process[p].stage = "waiting" /\ ~process[p].closed
            /\ ~Locked(p) /\ UNCHANGED posts /\ UNCHANGED shown
        BY <1>2, <1>3, <1>5, <2>1
      <4>2. process'[p].data.phase = "converted" /\ process'[p].data.code = c
        BY <2>2, <2>3, <2>4, <3>1
      <4> QED
        BY <3>1, <3>2, <3>3, <3>4, <4>1, <4>2, KeyingKeeps
    <3> QED
      BY <1>1, <1>2, <3>1, <3>2, <3>5 DEF AppInv, AppTypes, OnlyProcess
  <2>5. CASE /\ checkpoint' \in {checkpoint, data} /\ process' = Ended(p)
             /\ handler' = [handler EXCEPT ![h] = Waiting]
    <3>1. /\ OnlyProcess(p) /\ process'[p].data = process[p].data /\ process'[p].stage = "ending"
          /\ process'[p].closed = TRUE
      BY <1>1, <1>3, <2>5, SessionEnds DEF OnlyProcess
    <3>2. ProcessInv' /\ NumberInv' /\ Stays /\ checkpoint' \in Checkpoint
      <4>1. /\ checkpoint' \in {checkpoint, data} /\ process'[p].data = process[p].data
            /\ process'[p].stage = "ending" /\ OnlyProcess(p)
        BY <2>5, <3>1
      <4> QED
        BY <2>9, <4>1, SavedStep
    <3>3. OnlyHandler(h) /\ handler'[h].stage = "idle"
      BY <1>1, <2>5 DEF OnlyHandler, AppTypes, Waiting
    <3>4. Leaves(p)
      BY <1>2, <2>1, <3>1 DEF Leaves
    <3>5. HandlersInv'
      BY <1>2, <1>3, <3>1, <3>2, <3>3, <3>4, HandlerMoves
    <3>6. \A g \in Receiver : handler'[g].stage = "posting" => handler'[g] = handler[g]
      BY <3>3 DEF OnlyHandler
    <3>7. CodeInv' /\ ShownInv'
      <4>1. \A b \in shown' : b \in shown
        BY <1>2
      <4> QED
        BY <1>2, <3>2, <3>6, <4>1, CodesKept
    <3> QED
      BY <1>1, <1>2, <3>1, <3>2, <3>3, <3>5, <3>7 DEF AppInv, AppTypes, OnlyProcess, OnlyHandler
  <2> QED
    BY <1>2, <1>5, <2>4, <2>5
<1> QED
  BY <1>4, <1>5

LEMMA WriteKeyKeeps ==
    ASSUME AppInv, NEW h \in Receiver, WriteKey(h)
    PROVE  AppInv'
<1> DEFINE c == handler[h].code
           p == handler[h].process
<1>1. AppTypes /\ ProcessInv /\ NumberInv /\ HandlersInv /\ HandlerInv(h) /\ Waiting \in ReceiverType
  BY DEF AppInv, HandlersInv, Waiting, ReceiverType
<1>2. /\ handler[h].stage = "keying" /\ UNCHANGED <<checkpoint, env, posts, shown>>
      /\ \/ /\ keyFile \in {NoCode, c} /\ keyFile' = c
            /\ handler' = [handler EXCEPT ![h].stage = "replying"] /\ UNCHANGED process
         \/ /\ process' = Ended(p) /\ handler' = [handler EXCEPT ![h] = Waiting]
            /\ UNCHANGED keyFile
  BY DEF WriteKey, Released, Answers
<1>3. /\ p \in Process /\ c \in Code /\ process[p] \in ProcessType /\ ~process[p].closed
      /\ process[p].stage = "waiting" /\ Holds(p) /\ Recoverable(c)
  <2>1. p \in Process /\ c \in Code /\ ~process[p].closed /\ process[p].data.phase = "converted"
        /\ process[p].data.code = c /\ process[p] \in ProcessType
    BY <1>1, <1>2 DEF HandlerInv, AppTypes
  <2>2. process[p].stage = "waiting" /\ Holds(p) /\ checkpoint = process[p].data
    BY <1>2, <2>1, OpenSession
  <2> QED
    BY <2>1, <2>2 DEF Recoverable
<1>4. CASE /\ keyFile \in {NoCode, c} /\ keyFile' = c
           /\ handler' = [handler EXCEPT ![h].stage = "replying"] /\ UNCHANGED process
  <2>1. /\ OnlyHandler(h) /\ handler'[h].stage = "replying" /\ handler'[h].process = p
        /\ handler'[h].code = c
    BY <1>1, <1>4 DEF OnlyHandler, AppTypes, ReceiverType
  <2>2. Used' = Used
    BY <1>4, UsedKept
  <2>3. ProcessInv' /\ NumberInv' /\ Stays /\ OnlyProcess(p)
    BY <1>1, <1>2, <1>4, <2>2 DEF ProcessInv, NumberInv, Stays, Spent, Recoverable, OnlyProcess, Holds, AppTypes
  <2>4. HandlersInv'
    BY <1>2, <1>3, <1>4, <2>1, <2>3, HandlerMoves
  <2>5. \A g \in Receiver : handler'[g].stage = "posting" => handler'[g] = handler[g]
    BY <2>1 DEF OnlyHandler
  <2>6. CodeInv' /\ ShownInv'
    BY <1>2, <2>3, <2>5, CodesKept
  <2> QED
    BY <1>1, <1>2, <1>3, <1>4, <2>1, <2>3, <2>4, <2>6 DEF AppInv, AppTypes, OnlyHandler
<1>5. CASE /\ process' = Ended(p) /\ handler' = [handler EXCEPT ![h] = Waiting] /\ UNCHANGED keyFile
  <2>1. OnlyHandler(h) /\ handler'[h].stage = "idle"
    BY <1>1, <1>5 DEF OnlyHandler, AppTypes, Waiting
  <2>2. /\ OnlyProcess(p) /\ process'[p].data = process[p].data /\ process'[p].stage = "ending"
        /\ process'[p].closed = TRUE
    BY <1>1, <1>3, <1>5, SessionEnds DEF OnlyProcess
  <2>3. Used' = Used
    <3>1. \A q \in Process : process'[q].data.setup = process[q].data.setup
      BY <2>2 DEF OnlyProcess
    <3> QED
      BY <3>1, UsedKept
  <2>4. ProcessInv' /\ NumberInv' /\ Stays
    <3>1. ProcessInv'
      BY <1>1, <1>2, <1>3, <2>2 DEF ProcessInv, Holds, OnlyProcess
    <3> QED
      BY <1>1, <1>2, <1>5, <2>3, <3>1 DEF NumberInv, Stays, Spent, Recoverable
  <2>5. \A g \in Receiver \ {h} : handler[g].process = p => handler[g].stage # "keying"
    BY <1>1, <1>2 DEF HandlersInv, OneAtATime
  <2>6. HandlersInv'
    BY <1>2, <1>3, <2>1, <2>2, <2>4, <2>5, HandlerMoves
  <2>7. \A g \in Receiver : handler'[g].stage = "posting" => handler'[g] = handler[g]
    BY <2>1 DEF OnlyHandler
  <2>8. CodeInv' /\ ShownInv'
    BY <1>2, <2>4, <2>7, CodesKept
  <2> QED
    BY <1>1, <1>2, <1>5, <2>1, <2>2, <2>4, <2>6, <2>8 DEF AppInv, AppTypes, OnlyHandler, OnlyProcess
<1> QED
  BY <1>2, <1>4, <1>5

LEMMA ReplyKeeps ==
    ASSUME AppInv, NEW h \in Receiver, Reply(h)
    PROVE  AppInv'
<1> DEFINE c == handler[h].code
           p == handler[h].process
<1>1. AppTypes /\ ProcessInv /\ NumberInv /\ HandlersInv /\ HandlerInv(h) /\ Waiting \in ReceiverType
  BY DEF AppInv, HandlersInv, Waiting, ReceiverType
<1>2. /\ handler[h].stage = "replying" /\ shown' \in {shown, shown \cup {c}}
      /\ handler' = [handler EXCEPT ![h] = Waiting] /\ UNCHANGED <<checkpoint, keyFile, posts>>
      /\ \/ /\ process[p].stage = "waiting" /\ ~Locked(p)
            /\ process' = [process EXCEPT ![p].stage = "installing", ![p].closed = TRUE]
         \/ process' = process
  BY DEF Reply, Released
<1>3. /\ p \in Process /\ c \in Code /\ process[p] \in ProcessType /\ keyFile = c /\ Recoverable(c)
  BY <1>1, <1>2 DEF HandlerInv, AppTypes
<1>4. OnlyHandler(h) /\ handler'[h].stage = "idle"
  BY <1>1, <1>2 DEF OnlyHandler, AppTypes, Waiting
<1>5. /\ OnlyProcess(p) /\ process'[p].data = process[p].data
      /\ process' = process
         \/ (/\ process[p].stage = "waiting" /\ ~Locked(p)
             /\ process'[p].stage = "installing" /\ process'[p].closed = TRUE)
  <2>1. CASE process' = process
    BY <1>1, <2>1 DEF OnlyProcess, AppTypes
  <2>2. CASE process' # process
    BY <1>1, <1>2, <1>3, <2>2 DEF OnlyProcess, AppTypes, ProcessType
  <2> QED
    BY <2>1, <2>2
<1>6. Used' = Used
  <2>1. \A q \in Process : process'[q].data.setup = process[q].data.setup
    BY <1>5 DEF OnlyProcess
  <2> QED
    BY <2>1, UsedKept
<1>7. ProcessInv' /\ NumberInv' /\ Stays
  <2>1. ProcessInv'
    BY <1>1, <1>2, <1>3, <1>5 DEF ProcessInv, Holds, OnlyProcess
  <2> QED
    BY <1>1, <1>2, <1>6, <2>1 DEF NumberInv, Stays, Spent, Recoverable
<1>8. HandlersInv'
  <2>1. process' = process \/ Leaves(p)
    BY <1>5 DEF Leaves
  <2> QED
    BY <1>2, <1>3, <1>4, <1>5, <1>7, <2>1, HandlerMoves
<1>9. \A g \in Receiver : handler'[g].stage = "posting" => handler'[g] = handler[g]
  BY <1>4 DEF OnlyHandler
<1>10. \A b \in shown' : b \in shown \/ (b \in Code /\ keyFile = b /\ Recoverable(b))
  BY <1>2, <1>3
<1>11. CodeInv' /\ ShownInv'
  BY <1>2, <1>7, <1>9, <1>10, CodesKept
<1> QED
  BY <1>1, <1>2, <1>3, <1>4, <1>5, <1>7, <1>8, <1>11 DEF AppInv, AppTypes, OnlyHandler, OnlyProcess

(* The invariant holds. *)
LEMMA AppInvariant == SetupSpec => []AppInv
<1>1. SetupInit => AppInv
  <2> SUFFICES ASSUME SetupInit PROVE AppInv
    OBVIOUS
  <2>1. /\ checkpoint = NoCheckpoint /\ keyFile = NoCode /\ shown = {}
        /\ process = [p \in Process |-> NoProcess] /\ handler = [h \in Receiver |-> Waiting]
        /\ posts = [c \in Code |-> 0]
    BY DEF SetupInit
  <2>2. NoProcess \in ProcessType /\ Waiting \in ReceiverType
    BY SetupMarks DEF NoProcess, Waiting, ProcessType, ReceiverType
  <2>3. AppTypes
    BY <2>1, <2>2, SetupMarks DEF AppTypes
  <2>4. Used = {}
    BY <2>1, SetupMarks DEF Used, NoProcess
  <2>5. ProcessInv /\ NumberInv
    <3>1. 0 \in 0 .. MaxSetup /\ 1 .. 0 = {}
      BY SetupAssumption
    <3>2. NumberInv
      BY <2>1, <2>4, <3>1, SetupMarks DEF NumberInv
    <3> QED
      BY <2>1, <3>2 DEF ProcessInv, Holds, NoProcess
  <2>6. HandlersInv /\ CodeInv /\ ShownInv
    BY <2>1 DEF HandlersInv, HandlerInv, OneAtATime, CodeInv, ShownInv, Waiting, Asking
  <2> QED
    BY <2>3, <2>5, <2>6 DEF AppInv
<1>2. AppInv /\ [SetupNext]_setupVars => AppInv'
  <2> SUFFICES ASSUME AppInv, [SetupNext]_setupVars PROVE AppInv'
    OBVIOUS
  <2>1. CASE UNCHANGED setupVars
    BY <2>1 DEF setupVars, AppInv, AppTypes, ProcessInv, NumberInv, HandlersInv, CodeInv, ShownInv,
                HandlerInv, OneAtATime, Used, Spent, Recoverable, Holds
  <2>2. CASE SetupNext
    BY <2>2, MainKeeps, ExchangeKeeps, RepeatKeeps, PostKeeps, SaveKeeps, WriteKeyKeeps, ReplyKeeps
       DEF SetupNext
  <2> QED
    BY <2>1, <2>2
<1> QED
  BY <1>1, <1>2, PTL DEF SetupSpec

(* A code is spent in at most one request, however often its tab is refreshed and    *)
(* the script killed and resumed; and an App the browser was told of keeps its key     *)
(* and its checkpoint (create-github-app.py).                                       *)
THEOREM AppsAreKept == SetupSpec => []AppIsKept
<1>1. AppInv => AppIsKept
  BY DEF AppInv, CodeInv, ShownInv, Recoverable, AppIsKept
<1> QED
  BY <1>1, AppInvariant, PTL

-----------------------------------------------------------------------------
(* The webhook endpoint.  A body's row is what keeps its deliveries apart, and it   *)
(* is dropped only when no delivery of the body can be fresh any more, or by one     *)
(* that handed nothing off; a build has the repository's claim for as long as it     *)
(* runs.                                                                      *)

DeliveryType == [event : Event, phase : {"none", "fresh", "recorded", "forgetting", "accepted",
                                         "ignored", "failed"}]
JobType == [event : Event,
            phase : {"queued", "woken", "waiting", "session", "branched", "pushed", "opened",
                     "done", "dead"},
            session : {"none", "unsent", "asked", "clear", "refusing", "building", "built", "lost"},
            said : {"nothing", "started", "not_started", "maybe", "result"}]

EventTypes ==
    /\ now \in Nat /\ row \in [Event -> Int]
    /\ delivery \in [Delivery -> DeliveryType] /\ job \in Seq(JobType) /\ claim \in Nat

InFlight == {"recorded", "forgetting"}
Dropped(e) == row[e] = NoRow
PastWindow == now > Window
HeldRow(e) == ~Dropped(e) \/ PastWindow

(* A body that was handed off, or is about to be, has its row or comes too late; of  *)
(* its deliveries and jobs there is one.                                       *)
RowInv == /\ \A d \in Delivery : delivery[d].phase = "fresh" => ~PastWindow
          /\ \A e \in Event : row[e] = NoRow \/ row[e] \in Nat
JobInv == \A j \in Job : job[j].event \notin lost =>
            /\ HeldRow(job[j].event)
            /\ \A k \in Job : job[k].event = job[j].event => k = j
            /\ \A d \in Delivery : delivery[d].event = job[j].event => delivery[d].phase \notin InFlight
FlightInv == \A d \in Delivery : delivery[d].phase \in InFlight /\ delivery[d].event \notin lost =>
               /\ HeldRow(delivery[d].event)
               /\ \A c \in Delivery : delivery[c].phase \in InFlight
                                      /\ delivery[c].event = delivery[d].event => c = d
OnceInv == RowInv /\ JobInv /\ FlightInv

(* What was said last is said of a session that cannot make it false.            *)
AnswerInv(r) ==
    /\ r.phase \in {"queued", "woken"} => r.session = "none" /\ r.said = "nothing"
    /\ r.said = "not_started" => r.session \in {"none", "unsent", "refusing"} /\ r.phase = "done"
    /\ r.said = "started" => r.session \in {"building", "built", "lost"}
AnswersInv == \A j \in Job : AnswerInv(job[j])
ClaimInv == \A j \in Job : job[j].session = "building" => claim = j

EventInv == EventTypes /\ OnceInv /\ AnswersInv /\ ClaimInv

LEMMA EventMarks == NoRow \in Int /\ NoRow < 0 /\ Window = 1 /\ RowLife = 2
BY DEF NoRow, Window, RowLife

\* The endpoint's own steps: a job is appended, or two, or none.
LEMMA JobsAppended ==
    ASSUME EventTypes, NEW e \in Event, job' = Append(job, Queued(e))
    PROVE  /\ job' \in Seq(JobType) /\ Len(job') = Len(job) + 1 /\ Len(job) \in Nat
           /\ \A j \in Job : job'[j] = job[j]
           /\ job'[Len(job) + 1] = Queued(e) /\ Job' = Job \cup {Len(job) + 1}
<1>1. Queued(e) \in JobType /\ job \in Seq(JobType)
  BY DEF Queued, JobType, EventTypes
<1> QED
  BY <1>1 DEF Job

LEMMA TwoAppended ==
    ASSUME EventTypes, NEW e \in Event, job' = job \o <<Queued(e), Queued(e)>>
    PROVE  /\ job' \in Seq(JobType) /\ Len(job') = Len(job) + 2 /\ Len(job) \in Nat
           /\ \A j \in Job : job'[j] = job[j]
           /\ job'[Len(job) + 1] = Queued(e) /\ job'[Len(job) + 2] = Queued(e)
           /\ Job' = Job \cup {Len(job) + 1, Len(job) + 2}
<1>1. Queued(e) \in JobType /\ job \in Seq(JobType)
  BY DEF Queued, JobType, EventTypes
<1>2. <<Queued(e), Queued(e)>> \in Seq(JobType) /\ Len(<<Queued(e), Queued(e)>>) = 2
  BY <1>1
<1> QED
  BY <1>1, <1>2 DEF Job

\* A copy or a session goes on with its own record.
LEMMA JobChanged ==
    ASSUME EventTypes, NEW j \in Job, NEW r \in JobType, job' = [job EXCEPT ![j] = r]
    PROVE  /\ job' \in Seq(JobType) /\ Len(job') = Len(job) /\ Job' = Job /\ job'[j] = r
           /\ \A k \in Job \ {j} : job'[k] = job[k]
<1>1. job \in Seq(JobType)
  BY DEF EventTypes
<1> QED
  BY <1>1 DEF Job

\* What becomes of an event's row and jobs when neither its job list nor its deliveries grow.
LEMMA OnceKept ==
    ASSUME EventInv, now' \in Nat, now' >= now, row' \in [Event -> Int],
           Job' = Job, \A j \in Job : job'[j].event = job[j].event, lost' = lost,
           \A d \in Delivery : /\ delivery'[d].event = delivery[d].event
                               /\ delivery'[d].phase \in InFlight => delivery[d].phase \in InFlight
                               /\ delivery'[d].phase = "fresh" => now' <= Window,
           \A e \in Event : \/ row'[e] = row[e]
                            \/ row'[e] = now /\ Dropped(e)
                            \/ /\ row'[e] = NoRow
                               /\ \/ now' > Window
                                  \/ /\ \A j \in Job : job[j].event = e => e \in lost
                                     /\ \A d \in Delivery : delivery[d].event = e /\ e \notin lost
                                                            => delivery'[d].phase \notin InFlight
    PROVE  OnceInv'
<1>1. /\ OnceInv /\ now \in Nat /\ job \in Seq(JobType) /\ delivery \in [Delivery -> DeliveryType]
      /\ \A j \in Job : job[j].event \in Event
      /\ \A d \in Delivery : delivery[d].event \in Event
  <2>1. EventTypes /\ OnceInv
    BY DEF EventInv
  <2>2. \A j \in Job : job[j] \in JobType
    BY <2>1 DEF EventTypes, Job
  <2>3. \A j \in Job : job[j].event \in Event
    BY <2>2 DEF JobType
  <2>4. \A d \in Delivery : delivery[d].event \in Event
    BY <2>1 DEF EventTypes, DeliveryType
  <2> QED
    BY <2>1, <2>3, <2>4 DEF EventTypes
<1>2. RowInv'
  BY <1>1, EventMarks DEF OnceInv, RowInv, PastWindow
<1>3. ASSUME NEW e \in Event, e \notin lost, HeldRow(e),
             \/ \E j \in Job : job[j].event = e
             \/ \E d \in Delivery : delivery[d].event = e /\ delivery'[d].phase \in InFlight
      PROVE  HeldRow(e)'
  BY <1>1, <1>3, EventMarks DEF HeldRow, Dropped, PastWindow
<1>4. JobInv'
  <2>1. SUFFICES ASSUME NEW j \in Job, job[j].event \notin lost
                 PROVE  /\ HeldRow(job[j].event)'
                        /\ \A k \in Job : job[k].event = job[j].event => k = j
                        /\ \A d \in Delivery : delivery[d].event = job[j].event
                                               => delivery'[d].phase \notin InFlight
    <3>1. \A j \in Job : job[j].event \notin lost => HeldRow(job[j].event)'
      BY <2>1
    <3> QED
      BY <1>1, <2>1, <3>1 DEF JobInv, HeldRow, Dropped
  <2> QED
    BY <1>1, <1>3, <2>1 DEF OnceInv, JobInv
<1>5. FlightInv'
  <2>1. SUFFICES ASSUME NEW d \in Delivery, delivery'[d].phase \in InFlight, delivery[d].event \notin lost
                 PROVE  /\ HeldRow(delivery[d].event)'
                        /\ \A c \in Delivery : delivery'[c].phase \in InFlight
                             /\ delivery[c].event = delivery[d].event => c = d
    BY <1>1 DEF FlightInv, HeldRow, Dropped
  <2> QED
    BY <1>1, <1>3, <2>1 DEF OnceInv, FlightInv
<1> QED
  BY <1>2, <1>4, <1>5 DEF OnceInv

\* A delivery's own step.
LEMMA DeliveryMoves ==
    ASSUME EventTypes, NEW d \in Delivery, DeliveryGoes(d, "fresh") \/ DeliveryGoes(d, "recorded")
             \/ DeliveryGoes(d, "forgetting") \/ DeliveryGoes(d, "accepted")
             \/ DeliveryGoes(d, "ignored") \/ DeliveryGoes(d, "failed")
    PROVE  /\ delivery' \in [Delivery -> DeliveryType] /\ delivery'[d].event = delivery[d].event
           /\ \A phase : DeliveryGoes(d, phase) => delivery'[d].phase = phase
           /\ \A c \in Delivery \ {d} : delivery'[c] = delivery[c]
<1>1. delivery \in [Delivery -> DeliveryType] /\ delivery[d] \in DeliveryType
  BY DEF EventTypes
<1> QED
  BY <1>1 DEF DeliveryGoes, DeliveryType

LEMMA HandOffStep ==
    ASSUME EventInv, NEW d \in Delivery, HandOff(d)
    PROVE  EventTypes' /\ OnceInv' /\ AnswersInv' /\ ClaimInv'
<1> DEFINE e == delivery[d].event
           n == Len(job)
<1>1. /\ EventTypes /\ OnceInv /\ AnswersInv /\ ClaimInv /\ delivery[d] \in DeliveryType /\ e \in Event
      /\ n \in Nat /\ \A c \in Delivery : delivery[c].event \in Event
  BY DEF EventInv, EventTypes, DeliveryType
<1>2. /\ delivery[d].phase = "recorded" /\ UNCHANGED <<now, mode, row, claim>>
      /\ \/ job' = Append(job, Queued(e)) /\ DeliveryGoes(d, "accepted") /\ UNCHANGED lost
         \/ UNCHANGED <<job, lost>> /\ DeliveryGoes(d, "forgetting")
         \/ job' = Append(job, Queued(e)) /\ DeliveryGoes(d, "forgetting") /\ lost' = lost \cup {e}
         \/ job' = job \o <<Queued(e), Queued(e)>> /\ DeliveryGoes(d, "accepted")
            /\ lost' = lost \cup {e}
  BY DEF HandOff
<1>3. /\ delivery' \in [Delivery -> DeliveryType] /\ delivery'[d].event = e
      /\ delivery'[d].phase \in {"accepted", "forgetting"}
      /\ \A c \in Delivery \ {d} : delivery'[c] = delivery[c]
      /\ (DeliveryGoes(d, "accepted") => delivery'[d].phase = "accepted")
  BY <1>1, <1>2, DeliveryMoves
<1>4. \A c \in Delivery : delivery'[c].event = delivery[c].event
                          /\ (delivery'[c].phase \in InFlight => delivery[c].phase \in InFlight)
  BY <1>2, <1>3 DEF InFlight
<1>5. RowInv' /\ \A f \in Event : HeldRow(f)' = HeldRow(f)
  BY <1>1, <1>2, <1>3 DEF OnceInv, RowInv, HeldRow, Dropped, PastWindow
<1>6. lost \subseteq lost'
  BY <1>2
<1>7. FlightInv'
  <2>1. SUFFICES ASSUME NEW b \in Delivery, delivery'[b].phase \in InFlight, delivery[b].event \notin lost'
                 PROVE  /\ HeldRow(delivery[b].event)
                        /\ \A c \in Delivery : delivery'[c].phase \in InFlight
                             /\ delivery[c].event = delivery[b].event => c = b
    BY <1>1, <1>2, <1>4 DEF FlightInv, HeldRow, Dropped, PastWindow
  <2> QED
    BY <1>1, <1>4, <1>6, <2>1 DEF OnceInv, FlightInv
<1>8. CASE job' = job
  <2>1. JobInv'
    <3>1. SUFFICES ASSUME NEW j \in Job, job[j].event \notin lost'
                   PROVE  /\ HeldRow(job[j].event)
                          /\ \A k \in Job : job[k].event = job[j].event => k = j
                          /\ \A c \in Delivery : delivery[c].event = job[j].event
                                                 => delivery'[c].phase \notin InFlight
      BY <1>2, <1>4, <1>8 DEF JobInv, HeldRow, Dropped, PastWindow, Job
    <3> QED
      BY <1>1, <1>4, <1>6, <3>1 DEF OnceInv, JobInv
  <2> QED
    BY <1>1, <1>2, <1>3, <1>5, <1>7, <1>8, <2>1
       DEF EventTypes, OnceInv, AnswersInv, ClaimInv, Job
<1>9. CASE job' # job
  <2>1. PICK X : /\ Job' = Job \cup X /\ \A k \in X : k \notin Job /\ job'[k] = Queued(e)
                 /\ job' \in Seq(JobType) /\ \A j \in Job : job'[j] = job[j]
                 /\ e \in lost' \/ (X = {n + 1} /\ delivery'[d].phase = "accepted" /\ lost' = lost)
    <3>1. CASE job' = Append(job, Queued(e))
      <4>1. n + 1 \notin Job
        BY <1>1 DEF Job
      <4>2. e \in lost' \/ (delivery'[d].phase = "accepted" /\ lost' = lost)
        BY <1>2, <1>3, <1>9
      <4>3. /\ Job' = Job \cup {n + 1} /\ job'[n + 1] = Queued(e)
            /\ job' \in Seq(JobType) /\ \A j \in Job : job'[j] = job[j]
        BY <1>1, <3>1, JobsAppended
      <4> WITNESS {n + 1}
      <4> QED
        BY <4>1, <4>2, <4>3
    <3>2. CASE job' = job \o <<Queued(e), Queued(e)>> /\ lost' = lost \cup {e}
      <4>1. n + 1 \notin Job /\ n + 2 \notin Job
        BY <1>1 DEF Job
      <4>2. /\ Job' = Job \cup {n + 1, n + 2} /\ job'[n + 1] = Queued(e) /\ job'[n + 2] = Queued(e)
            /\ job' \in Seq(JobType) /\ \A j \in Job : job'[j] = job[j]
        BY <1>1, <3>2, TwoAppended
      <4> WITNESS {n + 1, n + 2}
      <4> QED
        BY <3>2, <4>1, <4>2
    <3> QED
      BY <1>2, <1>9, <3>1, <3>2
  <2>2. \A k \in X : job'[k].event = e /\ AnswerInv(job'[k]) /\ job'[k].session # "building"
    BY <2>1 DEF Queued, AnswerInv
  <2>3. JobInv'
    <3>1. SUFFICES ASSUME NEW j \in Job \cup X, job'[j].event \notin lost'
                   PROVE  /\ HeldRow(job'[j].event)
                          /\ \A k \in Job \cup X : job'[k].event = job'[j].event => k = j
                          /\ \A c \in Delivery : delivery[c].event = job'[j].event
                                                 => delivery'[c].phase \notin InFlight
      BY <1>2, <1>4, <2>1 DEF JobInv, HeldRow, Dropped, PastWindow
    <3>2. delivery[d].phase \in InFlight
      BY <1>2 DEF InFlight
    <3>3. CASE job'[j].event = e
      <4>1. X = {n + 1} /\ delivery'[d].phase = "accepted" /\ lost' = lost /\ e \notin lost
        BY <2>1, <3>1, <3>3
      <4>2. HeldRow(e) /\ \A k \in Job : job[k].event # e
        BY <1>1, <3>2, <4>1 DEF OnceInv, FlightInv, JobInv
      <4>3. \A c \in Delivery : delivery[c].event = e => delivery'[c].phase \notin InFlight
        <5>1. \A c \in Delivery \ {d} : delivery[c].event = e => delivery[c].phase \notin InFlight
          BY <1>1, <3>2, <4>1 DEF OnceInv, FlightInv
        <5> QED
          BY <1>4, <4>1, <5>1 DEF InFlight
      <4> QED
        BY <2>1, <3>1, <3>3, <4>1, <4>2, <4>3
    <3>4. CASE job'[j].event # e
      <4>1. j \in Job /\ job'[j] = job[j] /\ job[j].event \notin lost
        BY <1>6, <2>1, <2>2, <3>1, <3>4
      <4>2. \A k \in Job \cup X : job'[k].event = job'[j].event => k \in Job /\ job'[k] = job[k]
        BY <2>1, <2>2, <3>4
      <4> QED
        BY <1>1, <1>4, <4>1, <4>2 DEF OnceInv, JobInv
    <3> QED
      BY <3>3, <3>4
  <2>4. AnswersInv' /\ ClaimInv'
    BY <1>1, <1>2, <2>1, <2>2 DEF AnswersInv, ClaimInv, AnswerInv
  <2> QED
    BY <1>1, <1>2, <1>3, <1>5, <1>7, <2>1, <2>3, <2>4 DEF EventTypes, OnceInv
<1> QED
  BY <1>8, <1>9

LEMMA EndpointStep ==
    ASSUME EventInv,
           \/ Tick \/ \E e \in Event : Expire(e)
           \/ \E d \in Delivery : Deliver(d) \/ RecordDigest(d) \/ Forget(d) \/ EndpointDies(d)
    PROVE  EventTypes' /\ OnceInv' /\ AnswersInv' /\ ClaimInv'
<1>1. /\ EventTypes /\ OnceInv /\ AnswersInv /\ ClaimInv /\ now \in Nat /\ NoRow \in Int
      /\ \A d \in Delivery : delivery[d] \in DeliveryType /\ delivery[d].event \in Event
  BY EventMarks DEF EventInv, EventTypes, DeliveryType
<1>2. UNCHANGED <<job, lost, claim>>
  BY DEF Tick, Expire, Deliver, RecordDigest, Forget, EndpointDies
<1>3. Job' = Job /\ (\A j \in Job : job'[j].event = job[j].event) /\ AnswersInv' /\ ClaimInv'
  BY <1>1, <1>2 DEF Job, AnswersInv, AnswerInv, ClaimInv
<1> DEFINE Goal == /\ now' \in Nat /\ now' >= now /\ row' \in [Event -> Int]
                   /\ delivery' \in [Delivery -> DeliveryType]
                   /\ \A d \in Delivery :
                        /\ delivery'[d].event = delivery[d].event
                        /\ delivery'[d].phase \in InFlight => delivery[d].phase \in InFlight
                        /\ delivery'[d].phase = "fresh" => now' <= Window
                   /\ \A e \in Event :
                        \/ row'[e] = row[e]
                        \/ row'[e] = now /\ Dropped(e)
                        \/ /\ row'[e] = NoRow
                           /\ \/ now' > Window
                              \/ /\ \A j \in Job : job[j].event = e => e \in lost
                                 /\ \A d \in Delivery : delivery[d].event = e /\ e \notin lost
                                                        => delivery'[d].phase \notin InFlight
<1>4. CASE Tick
  <2>1. Goal
    BY <1>1, <1>4 DEF Tick, OnceInv, EventTypes
  <2> QED
    BY <1>1, <1>2, <1>3, <2>1, OnceKept DEF EventTypes
<1>5. ASSUME NEW e \in Event, Expire(e) PROVE EventTypes' /\ OnceInv'
  <2>1. row' = [row EXCEPT ![e] = NoRow] /\ now >= row[e] + RowLife /\ row[e] # NoRow
        /\ UNCHANGED <<now, delivery>>
    BY <1>5 DEF Expire
  <2>2. now > Window
    <3>1. row[e] \in Nat
      BY <1>1, <2>1 DEF OnceInv, RowInv
    <3> QED
      BY <1>1, <2>1, <3>1, EventMarks
  <2>3. row' \in [Event -> Int] /\ row'[e] = NoRow /\ \A f \in Event \ {e} : row'[f] = row[f]
    BY <1>1, <2>1 DEF EventTypes
  <2>4. \A d \in Delivery : delivery[d].phase = "fresh" => now <= Window
    BY <1>1, EventMarks DEF OnceInv, RowInv, PastWindow
  <2>5. Goal
    BY <1>1, <2>1, <2>2, <2>3, <2>4 DEF EventTypes
  <2> QED
    BY <1>1, <1>2, <1>3, <2>5, OnceKept DEF EventTypes
<1>6. ASSUME NEW d \in Delivery, Deliver(d) \/ EndpointDies(d) PROVE EventTypes' /\ OnceInv'
  <2>1. /\ UNCHANGED <<now, row>>
        /\ \/ DeliveryGoes(d, "fresh") /\ now <= Window
           \/ DeliveryGoes(d, "ignored") \/ DeliveryGoes(d, "failed")
    BY <1>6 DEF Deliver, EndpointDies
  <2>2. /\ delivery' \in [Delivery -> DeliveryType] /\ delivery'[d].event = delivery[d].event
        /\ delivery'[d].phase \notin InFlight /\ (delivery'[d].phase = "fresh" => now <= Window)
        /\ \A c \in Delivery \ {d} : delivery'[c] = delivery[c]
    BY <1>1, <2>1, DeliveryMoves DEF InFlight
  <2>3. \A c \in Delivery : delivery[c].phase = "fresh" => now <= Window
    BY <1>1, EventMarks DEF OnceInv, RowInv, PastWindow
  <2>4. Goal
    BY <1>1, <2>1, <2>2, <2>3 DEF EventTypes
  <2> QED
    BY <1>1, <1>2, <1>3, <2>4, OnceKept DEF EventTypes
<1>7. ASSUME NEW d \in Delivery, Forget(d) PROVE EventTypes' /\ OnceInv'
  <2> DEFINE e == delivery[d].event
  <2>1. /\ delivery[d].phase = "forgetting" /\ UNCHANGED now /\ DeliveryGoes(d, "failed")
        /\ row' \in {row, [row EXCEPT ![e] = NoRow]}
    BY <1>7 DEF Forget
  <2>2. /\ delivery' \in [Delivery -> DeliveryType] /\ delivery'[d].event = delivery[d].event
        /\ delivery'[d].phase = "failed"
        /\ \A c \in Delivery \ {d} : delivery'[c] = delivery[c]
    BY <1>1, <2>1, DeliveryMoves
  <2>3. \A c \in Delivery : delivery[c].phase = "fresh" => now <= Window
    BY <1>1, EventMarks DEF OnceInv, RowInv, PastWindow
  <2>4. /\ row' \in [Event -> Int] /\ row'[e] \in {row[e], NoRow}
        /\ \A f \in Event \ {e} : row'[f] = row[f]
    BY <1>1, <2>1 DEF EventTypes
  <2>5. delivery[d].phase \in InFlight
    BY <2>1 DEF InFlight
  <2>6. e \notin lost => /\ \A j \in Job : job[j].event # e
                         /\ \A c \in Delivery : delivery[c].event = e => delivery'[c].phase \notin InFlight
    BY <1>1, <2>2, <2>5 DEF OnceInv, JobInv, FlightInv, InFlight
  <2>7. Goal
    <3>1. \A c \in Delivery : /\ delivery'[c].event = delivery[c].event
                              /\ delivery'[c].phase \in InFlight => delivery[c].phase \in InFlight
                              /\ delivery'[c].phase = "fresh" => now' <= Window
      BY <2>1, <2>2, <2>3, <2>5
    <3> QED
      BY <1>1, <2>1, <2>2, <2>4, <2>6, <3>1
  <2> QED
    BY <1>1, <1>2, <1>3, <2>7, OnceKept DEF EventTypes
<1>8. ASSUME NEW d \in Delivery, RecordDigest(d) PROVE EventTypes' /\ OnceInv'
  <2> DEFINE e == delivery[d].event
  <2>1. /\ delivery[d].phase = "fresh" /\ UNCHANGED now
        /\ row' \in {row, [row EXCEPT ![e] = IF @ = NoRow THEN now ELSE @]}
        /\ \/ row[e] = NoRow /\ row' = [row EXCEPT ![e] = IF @ = NoRow THEN now ELSE @]
              /\ DeliveryGoes(d, "recorded")
           \/ DeliveryGoes(d, "ignored") \/ DeliveryGoes(d, "failed")
    BY <1>8 DEF RecordDigest
  <2>2. /\ row' \in [Event -> Int] /\ \A f \in Event \ {e} : row'[f] = row[f]
        /\ row'[e] = row[e] \/ (row[e] = NoRow /\ row'[e] = now)
        /\ (row[e] = NoRow /\ row' = [row EXCEPT ![e] = IF @ = NoRow THEN now ELSE @] => row'[e] = now)
    BY <1>1, <2>1 DEF EventTypes
  <2>3. /\ delivery' \in [Delivery -> DeliveryType] /\ delivery'[d].event = delivery[d].event
        /\ \A c \in Delivery \ {d} : delivery'[c] = delivery[c]
        /\ \/ delivery'[d].phase \in {"ignored", "failed"}
           \/ delivery'[d].phase = "recorded" /\ row[e] = NoRow /\ row'[e] = now
    BY <1>1, <2>1, <2>2, DeliveryMoves
  <2>4. \A c \in Delivery : delivery[c].phase = "fresh" => now <= Window
    BY <1>1, EventMarks DEF OnceInv, RowInv, PastWindow
  <2>5. CASE delivery'[d].phase # "recorded"
    <3>1. delivery'[d].phase \notin InFlight /\ delivery'[d].phase # "fresh"
      BY <2>3, <2>5 DEF InFlight
    <3>2. Goal
      BY <1>1, <2>1, <2>2, <2>3, <2>4, <3>1 DEF Dropped
    <3> QED
      BY <1>1, <1>2, <1>3, <2>3, <3>2, OnceKept DEF EventTypes
  <2>6. CASE delivery'[d].phase = "recorded"
    <3>1. row[e] = NoRow /\ row'[e] = now /\ ~HeldRow(e) /\ now # NoRow
      BY <1>1, <2>1, <2>3, <2>4, <2>6, EventMarks DEF HeldRow, Dropped, PastWindow
    <3>2. RowInv'
      BY <1>1, <2>1, <2>2, <2>3, <2>4, <2>6, <3>1, EventMarks DEF OnceInv, RowInv, PastWindow
    <3>3. \A f \in Event : HeldRow(f) => HeldRow(f)'
      BY <2>1, <2>2, <3>1 DEF HeldRow, Dropped, PastWindow
    <3>4. e \notin lost => /\ \A j \in Job : job[j].event # e
                           /\ \A c \in Delivery : delivery[c].event = e => delivery[c].phase \notin InFlight
      BY <1>1, <3>1 DEF OnceInv, JobInv, FlightInv
    <3>5. JobInv'
      <4>1. SUFFICES ASSUME NEW j \in Job, job[j].event \notin lost
                     PROVE  /\ row'[job[j].event] # NoRow \/ now' > Window
                            /\ \A k \in Job : job[k].event = job[j].event => k = j
                            /\ \A c \in Delivery : delivery[c].event = job[j].event
                                                   => delivery'[c].phase \notin InFlight
        BY <1>2, <1>3, <2>3 DEF JobInv, HeldRow, Dropped, PastWindow
      <4>2. HeldRow(job[j].event) /\ job[j].event # e
        BY <1>1, <3>4, <4>1 DEF OnceInv, JobInv
      <4>3. job[j].event \in Event
        <5>1. job[j] \in JobType
          BY <1>1, <4>1 DEF EventTypes, Job
        <5> QED
          BY <5>1 DEF JobType
      <4>4. row'[job[j].event] # NoRow \/ now' > Window
        BY <2>1, <2>2, <4>2, <4>3 DEF HeldRow, Dropped, PastWindow
      <4>5. \A c \in Delivery : delivery[c].event = job[j].event => delivery'[c].phase \notin InFlight
        BY <1>1, <2>3, <4>1, <4>2 DEF OnceInv, JobInv
      <4> QED
        BY <1>1, <4>1, <4>4, <4>5 DEF OnceInv, JobInv
    <3>6. FlightInv'
      <4>1. SUFFICES ASSUME NEW b \in Delivery, delivery'[b].phase \in InFlight, delivery[b].event \notin lost
                     PROVE  /\ row'[delivery[b].event] # NoRow \/ now' > Window
                            /\ \A c \in Delivery : delivery'[c].phase \in InFlight
                                 /\ delivery[c].event = delivery[b].event => c = b
        BY <1>2, <2>3 DEF FlightInv, HeldRow, Dropped, PastWindow
      <4>2. CASE delivery[b].event = e
        BY <2>3, <3>1, <3>4, <4>1, <4>2
      <4>3. CASE delivery[b].event # e
        <5>1. b # d /\ delivery[b].phase \in InFlight
          BY <2>3, <4>1, <4>3
        <5> QED
          BY <1>1, <2>1, <2>2, <2>3, <4>1, <4>3, <5>1 DEF OnceInv, FlightInv, HeldRow, Dropped, PastWindow
      <4> QED
        BY <4>2, <4>3
    <3> QED
      BY <1>1, <1>2, <2>1, <2>2, <2>3, <3>2, <3>5, <3>6 DEF EventTypes, OnceInv
  <2> QED
    BY <2>5, <2>6
<1> QED
  BY <1>3, <1>4, <1>5, <1>6, <1>7, <1>8

\* A step of a copy or of its session: its record, and the claim.
LEMMA RecordStep ==
    ASSUME EventInv, NEW j \in Job, NEW r \in JobType, job' = [job EXCEPT ![j] = r],
           r.event = job[j].event, AnswerInv(r), UNCHANGED <<now, row, delivery, lost>>,
           claim' \in Nat,
           r.session = "building" => claim' = j,
           claim' = claim \/ \A k \in Job \ {j} : job[k].session # "building"
    PROVE  EventInv'
<1>1. /\ EventTypes /\ OnceInv /\ AnswersInv /\ ClaimInv /\ now \in Nat
      /\ \A d \in Delivery : delivery[d] \in DeliveryType
  BY DEF EventInv, EventTypes
<1>2. /\ job' \in Seq(JobType) /\ Job' = Job /\ job'[j] = r
      /\ \A k \in Job \ {j} : job'[k] = job[k]
  BY <1>1, JobChanged
<1>3. OnceInv'
  <2>1. \A k \in Job : job'[k].event = job[k].event
    BY <1>2
  <2>2. \A d \in Delivery : delivery[d].phase = "fresh" => now <= Window
    BY <1>1, EventMarks DEF OnceInv, RowInv, PastWindow
  <2>3. now' \in Nat /\ now' >= now /\ row' \in [Event -> Int]
    BY <1>1 DEF EventTypes
  <2> QED
    BY <1>2, <2>1, <2>2, <2>3, OnceKept
<1>4. AnswersInv' /\ ClaimInv'
  BY <1>1, <1>2 DEF AnswersInv, ClaimInv, AnswerInv
<1> QED
  BY <1>1, <1>2, <1>3, <1>4 DEF EventInv, EventTypes

LEMMA CopyStep ==
    ASSUME EventInv, NEW j \in Job,
           \/ Wake(j) \/ RunSession(j) \/ PostReview(j) \/ CopyDies(j)
           \/ RefuseFix(j) \/ NoFix(j) \/ OpenFix(j)
           \/ RefuseDevelop(j) \/ AskTeam(j) \/ TeamAnswers(j)
    PROVE  EventInv'
<1> DEFINE s == job[j]
<1>1. EventTypes /\ ClaimInv /\ AnswerInv(s) /\ s \in JobType
  BY DEF EventInv, EventTypes, AnswersInv, Job
<1>2. CASE AskTeam(j)
  <2>1. /\ s.phase = "woken" /\ UNCHANGED <<now, row, delivery, lost, claim>>
        /\ \/ job' = [job EXCEPT ![j].phase = "waiting", ![j].session = "asked"]
           \/ job' = [job EXCEPT ![j].phase = "waiting", ![j].session = "unsent"]
    BY <1>2 DEF AskTeam, CopyDoes
  <2>2. PICK r \in JobType : /\ job' = [job EXCEPT ![j] = r] /\ r.event = s.event
                             /\ r.phase = "waiting" /\ r.said = s.said
                             /\ r.session \in {"asked", "unsent"}
    <3>1. CASE job' = [job EXCEPT ![j].phase = "waiting", ![j].session = "asked"]
      <4> DEFINE r == [s EXCEPT !.phase = "waiting", !.session = "asked"]
      <4>1. /\ r \in JobType /\ r.event = s.event /\ r.phase = "waiting" /\ r.said = s.said
            /\ r.session = "asked"
        BY <1>1 DEF JobType
      <4>2. job' = [job EXCEPT ![j] = r]
        BY <3>1
      <4> HIDE DEF r
      <4> QED
        BY <4>1, <4>2
    <3>2. CASE job' = [job EXCEPT ![j].phase = "waiting", ![j].session = "unsent"]
      <4> DEFINE r == [s EXCEPT !.phase = "waiting", !.session = "unsent"]
      <4>1. /\ r \in JobType /\ r.event = s.event /\ r.phase = "waiting" /\ r.said = s.said
            /\ r.session = "unsent"
        BY <1>1 DEF JobType
      <4>2. job' = [job EXCEPT ![j] = r]
        BY <3>2
      <4> HIDE DEF r
      <4> QED
        BY <4>1, <4>2
    <3> QED
      BY <2>1, <3>1, <3>2
  <2>3. AnswerInv(r)
    BY <1>1, <2>1, <2>2 DEF AnswerInv
  <2> QED
    BY <1>1, <2>1, <2>2, <2>3, RecordStep DEF EventTypes
<1>3. CASE ~AskTeam(j)
  <2> DEFINE says(p, w) == /\ job' = [job EXCEPT ![j].phase = p, ![j].said = w]
                           /\ UNCHANGED <<now, mode, row, delivery, lost, claim>>
  <2>1. \/ s.phase = "queued" /\ says("woken", "nothing")
        \/ \E p \in {"session", "branched", "pushed", "opened", "dead"} : says(p, "nothing")
        \/ says("done", "result")
        \/ s.phase = "queued" /\ says("done", "not_started")
        \/ s.phase = "waiting" /\ s.session \in {"building", "built", "lost"} /\ says("done", "started")
        \/ s.phase = "waiting" /\ s.session \in {"refusing", "unsent"} /\ says("done", "not_started")
        \/ says("done", "maybe")
    BY <1>3 DEF Wake, RunSession, PostReview, CopyDies, RefuseFix, NoFix, OpenFix, RefuseDevelop,
                TeamAnswers, CopyDoes, CopyBecomes
  <2>2. ASSUME NEW p \in {"woken", "session", "branched", "pushed", "opened", "done", "dead"},
               NEW w \in {"nothing", "started", "not_started", "maybe", "result"},
               says(p, w), p = "woken" => s.session = "none" /\ w = "nothing",
               w = "not_started" => s.session \in {"none", "unsent", "refusing"} /\ p = "done",
               w = "started" => s.session \in {"building", "built", "lost"}
        PROVE  EventInv'
    <3> DEFINE r == [s EXCEPT !.phase = p, !.said = w]
    <3>1. /\ r \in JobType /\ r.event = s.event /\ r.phase = p /\ r.said = w
          /\ r.session = s.session
      BY <1>1, <2>2 DEF JobType
    <3>2. job' = [job EXCEPT ![j] = r]
      BY <2>2
    <3> HIDE DEF r
    <3>3. AnswerInv(r)
      BY <2>2, <3>1 DEF AnswerInv
    <3>4. r.session = "building" => claim' = j
      BY <1>1, <2>2, <3>1 DEF ClaimInv
    <3> QED
      BY <1>1, <2>2, <3>1, <3>2, <3>3, <3>4, RecordStep DEF EventTypes
  <2>3. s.phase = "queued" => s.session = "none"
    BY <1>1 DEF AnswerInv
  <2> HIDE DEF says
  <2> QED
    BY <2>1, <2>2, <2>3
<1> QED
  BY <1>2, <1>3

LEMMA SessionStep ==
    ASSUME EventInv, NEW j \in Job,
           CheckRunning(j) \/ Submit(j) \/ BuildOver(j) \/ SessionLost(j) \/ OperatorReleases(j)
    PROVE  EventInv'
<1> DEFINE s == job[j]
           goes(x) == job' = [job EXCEPT ![j].session = x]
<1>1. EventTypes /\ ClaimInv /\ AnswerInv(s) /\ s \in JobType /\ j \in Nat \ {0} /\ claim \in Nat
  BY DEF EventInv, EventTypes, AnswersInv, Job
<1>2. UNCHANGED <<now, row, delivery, lost>>
  BY DEF CheckRunning, Submit, BuildOver, SessionLost, OperatorReleases, SessionGoes
<1>3. \/ s.session = "asked" /\ claim' = claim /\ (goes("clear") \/ goes("refusing"))
      \/ s.session = "clear" /\ claim = 0 /\ claim' = j /\ (goes("building") \/ goes("refusing"))
      \/ s.session = "clear" /\ claim' = claim /\ goes("refusing")
      \/ s.session = "building" /\ claim' = (IF claim = j THEN 0 ELSE claim) /\ goes("built")
      \/ s.session = "building" /\ claim' = claim /\ goes("lost")
      \/ s.session \in {"lost", "refusing"} /\ claim = j /\ claim' = 0 /\ goes(s.session)
  BY DEF CheckRunning, Submit, BuildOver, SessionLost, OperatorReleases, SessionGoes
<1>4. \A k \in Job : s.session = "building" \/ claim = 0 \/ claim = j =>
        k = j \/ job[k].session # "building"
  BY <1>1 DEF ClaimInv, Job
<1>5. ASSUME NEW x \in {"clear", "refusing", "building", "built", "lost"}, goes(x), claim' \in Nat,
             s.session \in {"asked", "clear", "refusing", "building", "lost"},
             s.session = "refusing" => x = "refusing",
             s.session \in {"building", "lost"} => x \in {"built", "lost"},
             x = "building" => claim' = j,
             claim' = claim \/ \A k \in Job \ {j} : job[k].session # "building"
      PROVE  EventInv'
  <2> DEFINE r == [s EXCEPT !.session = x]
  <2>1. /\ r \in JobType /\ r.event = s.event /\ r.phase = s.phase /\ r.said = s.said
        /\ r.session = x
    BY <1>1, <1>5 DEF JobType
  <2>2. job' = [job EXCEPT ![j] = r]
    BY <1>5
  <2> HIDE DEF r
  <2>3. AnswerInv(r)
    BY <1>1, <1>5, <2>1 DEF AnswerInv
  <2> QED
    BY <1>2, <1>5, <2>1, <2>2, <2>3, RecordStep
<1>6. claim' \in Nat
  BY <1>1, <1>3
<1> HIDE DEF goes
<1> QED
  BY <1>3, <1>4, <1>5, <1>6

LEMMA AtMostOne ==
    ASSUME NEW S, \A x, y \in S : x = y
    PROVE  Cardinality(S) <= 1
<1>1. CASE S = {}
  <2>1. Cardinality(S) = 0
    BY <1>1, FS_EmptySet
  <2> QED
    BY <2>1
<1>2. CASE S # {}
  <2>1. PICK x \in S : S = {x}
    BY <1>2
  <2>2. Cardinality(S) = 1
    BY <2>1, FS_Singleton
  <2> QED
    BY <2>2
<1> QED
  BY <1>1, <1>2

(* The invariant holds. *)
LEMMA EventInvariant == EventSpec => []EventInv
<1>1. EventInit => EventInv
  <2> SUFFICES ASSUME EventInit PROVE EventInv
    OBVIOUS
  <2>1. /\ now = 0 /\ row = [e \in Event |-> NoRow] /\ job = <<>> /\ claim = 0 /\ Job = {}
        /\ delivery \in [Delivery -> [event : Event, phase : {"none"}]]
    BY DEF EventInit, Job
  <2>2. /\ delivery \in [Delivery -> DeliveryType]
        /\ \A d \in Delivery : delivery[d].phase = "none"
    BY <2>1 DEF DeliveryType
  <2>3. EventTypes
    BY <2>1, <2>2, EventMarks DEF EventTypes
  <2>4. OnceInv
    BY <2>1, <2>2 DEF OnceInv, RowInv, JobInv, FlightInv, InFlight
  <2> QED
    BY <2>1, <2>3, <2>4 DEF EventInv, AnswersInv, ClaimInv
<1>2. EventInv /\ [EventNext]_eventVars => EventInv'
  <2> SUFFICES ASSUME EventInv, [EventNext]_eventVars PROVE EventInv'
    OBVIOUS
  <2>1. CASE UNCHANGED eventVars
    BY <2>1 DEF eventVars, EventInv, EventTypes, OnceInv, RowInv, JobInv, FlightInv, AnswersInv,
                AnswerInv, ClaimInv, HeldRow, Dropped, PastWindow, Job
  <2>2. CASE EventNext
    BY <2>2, EndpointStep, HandOffStep, CopyStep, SessionStep DEF EventNext, EventInv
  <2> QED
    BY <2>1, <2>2
<1> QED
  BY <1>1, <1>2, PTL DEF EventSpec

(* However often a body is delivered it is acted on once, of two comments whose       *)
(* sessions both saw an idle repository one starts a build, and what the issue is told  *)
(* of its build is true and stays true (pr_review/handler.py, chat.start_event_build). *)
THEOREM DeliveriesAreHonest == EventSpec => []DeliveryIsHonest
<1>1. EventInv => DeliveryIsHonest
  <2> SUFFICES ASSUME EventInv PROVE DeliveryIsHonest
    OBVIOUS
  <2>1. Job \in SUBSET Nat /\ job \in Seq(JobType)
    BY DEF EventInv, EventTypes, Job
  <2>2. ASSUME NEW e \in Event \ lost PROVE Cardinality({j \in Job : job[j].event = e}) <= 1
    <3> DEFINE J == {j \in Job : job[j].event = e}
    <3>1. \A j, k \in J : j = k
      BY <2>2 DEF EventInv, OnceInv, JobInv
    <3> HIDE DEF J
    <3>2. Cardinality(J) <= 1
      BY <3>1, AtMostOne
    <3> QED
      BY <3>2 DEF J
  <2>3. Cardinality(Building) <= 1
    <3>1. \A j, k \in Building : j = k
      BY DEF EventInv, ClaimInv, Building
    <3> QED
      BY <3>1, AtMostOne
  <2>4. AnswerIsTrue
    BY DEF EventInv, AnswersInv, AnswerInv, AnswerIsTrue
  <2> QED
    BY <2>2, <2>3, <2>4 DEF DeliveryIsHonest, ActedOnOnce, OneBuildAtATime
<1> QED
  BY <1>1, EventInvariant, PTL

-----------------------------------------------------------------------------
(* The conversation.  One turn streams at a time, and a call submits only while its    *)
(* turn does; so what a turn was shown of the ledger is still unbuilt when it builds,    *)
(* and what the ledger gathers meanwhile is settled with it.                       *)

TurnType == [stage : {"unborn", "streaming", "refused", "over"}, kind : TurnKind,
             prior : Seq(Turn), runs : Nat, started : SUBSET Nat, closed : BOOLEAN,
             committed : BOOLEAN]
BuildType == [turn : Turn, words : SUBSET Turn, preset : BOOLEAN, revises : Nat, repeats : Nat,
              state : {"active", "empty", "over"}]
CallType == [turn : Nat, words : SUBSET Turn, preset : BOOLEAN, revises : Nat, repeats : Nat]

LedgerTypes ==
    /\ turn \in [Turn -> TurnType] /\ next \in Nat \ {0} /\ pending \in Seq(Turn)
    /\ build \in Seq(BuildType) /\ call \in [Call -> CallType] /\ resubmitted \subseteq Nat

BuiltWords == UNION {build[r].words : r \in Run}

(* Turns are born in order, and one that was turned away or is over came before the    *)
(* one that streams; a stream is over when its turn is settled.                      *)
TurnInv(t) ==
    /\ t >= next => turn[t] = Unborn
    /\ turn[t].stage = "unborn" => t >= next
    /\ turn[t].committed => turn[t].closed
    /\ turn[t].started # {} => turn[t].stage \in {"streaming", "over"}
    /\ turn[t].stage = "over" /\ turn[t].closed => turn[t].committed
    /\ \A x, y \in turn[t].started : x = y
    /\ turn[t].runs <= Len(build)
OrderInv(u, t) == turn[u].stage = "streaming" /\ turn[t].stage \in {"streaming", "over"} => t <= u
TurnsInv == (\A t \in Turn : TurnInv(t)) /\ \A u, t \in Turn : OrderInv(u, t)

(* What waits in the ledger was said in turns that are settled and, but while a build's  *)
(* own turn is being settled, not built; so is what a turn that may build was shown.  *)
Settling(t) == turn[t].stage = "streaming" /\ turn[t].started # {} /\ ~turn[t].committed
WordInv ==
    /\ \A t \in BuiltWords : turn[t].committed \/ turn[t].started # {}
    /\ \A t \in Elements(pending) : turn[t].committed
    /\ (\A t \in Turn : ~Settling(t)) => Elements(pending) \cap BuiltWords = {}
    /\ \A t \in Turn : turn[t].stage = "streaming" =>
         /\ \A u \in Elements(turn[t].prior) : turn[u].committed
         /\ turn[t].started = {} => Elements(turn[t].prior) \cap BuiltWords = {}

\* A call that may still submit: its turn streams, and it asks for what it was shown.
CallInv(c) ==
    LET a == call[c]
        t == a.turn
    IN a # NoCall =>
         /\ t \in Turn
         /\ ~turn[t].closed => turn[t].stage = "streaming"
         /\ a.words \subseteq BuiltWords \cup Elements(turn[t].prior) \cup {t}
         /\ a.repeats = 0 /\ a.revises = 0 => a.words \subseteq Elements(turn[t].prior) \cup {t}
         /\ a.repeats # 0 =>
              /\ a.repeats \in Run /\ build[a.repeats].repeats = 0
              /\ ~turn[t].closed /\ turn[t].started = {} => a.repeats \notin resubmitted
CallsInv == \A c \in Call : CallInv(c)

BuildInv ==
    /\ WordsBuiltOnce
    /\ \A r \in Run : build[r].repeats # 0 => build[r].repeats \in resubmitted

LedgerInv == LedgerTypes /\ TurnsInv /\ WordInv /\ CallsInv /\ BuildInv /\ WordsAreKept

LEMMA UnbornFacts ==
    /\ Unborn \in TurnType /\ Unborn.stage = "unborn" /\ Unborn.started = {}
    /\ ~Unborn.closed /\ ~Unborn.committed
    /\ NoCall \in CallType
BY DEF Unborn, TurnType, NoCall, CallType, TurnKind, NoRun

LEMMA TurnsCounted == MaxTurn \in Nat /\ Turn \subseteq Nat \ {0}
BY ConversationAssumption DEF Turn

LEMMA ElementsAppended ==
    ASSUME NEW s \in Seq(Turn), NEW t \in Turn
    PROVE  Append(s, t) \in Seq(Turn) /\ Elements(Append(s, t)) = Elements(s) \cup {t}
<1> DEFINE a == Append(s, t)
<1>1. /\ a \in Seq(Turn) /\ Len(s) \in Nat /\ DOMAIN s = 1 .. Len(s)
      /\ DOMAIN a = 1 .. (Len(s) + 1) /\ a[Len(s) + 1] = t
      /\ \A i \in 1 .. Len(s) : a[i] = s[i]
  OBVIOUS
<1> HIDE DEF a
<1>2. Elements(a) \subseteq Elements(s) \cup {t}
  <2>1. ASSUME NEW i \in DOMAIN a PROVE a[i] \in Elements(s) \cup {t}
    <3>1. i \in 1 .. Len(s) \/ i = Len(s) + 1
      BY <1>1, <2>1
    <3> QED
      BY <1>1, <3>1 DEF Elements
  <2> QED
    BY <2>1 DEF Elements
<1>3. Elements(s) \cup {t} \subseteq Elements(a)
  <2>1. \A i \in 1 .. Len(s) : i \in DOMAIN a
    BY <1>1
  <2>2. Len(s) + 1 \in DOMAIN a
    BY <1>1
  <2> QED
    BY <1>1, <2>1, <2>2 DEF Elements
<1> QED
  BY <1>1, <1>2, <1>3 DEF a

LEMMA ElementsKept ==
    ASSUME NEW s \in Seq(Turn)
    PROVE  Kept(s) \in Seq(Turn) /\ Elements(Kept(s)) \subseteq Elements(s)
           /\ Elements(s) \subseteq Turn
<1>1. CASE Len(s) > MaxLedger
  <2>1. s # <<>> /\ Tail(s) \in Seq(Turn)
    BY <1>1, ConversationAssumption
  <2>2. \A i \in DOMAIN Tail(s) : i + 1 \in DOMAIN s /\ Tail(s)[i] = s[i + 1]
    BY <2>1
  <2> QED
    BY <1>1, <2>1, <2>2 DEF Kept, Elements
<1>2. CASE ~(Len(s) > MaxLedger)
  BY <1>2 DEF Kept, Elements
<1> QED
  BY <1>1, <1>2

\* One turn's record changes.
LEMMA TurnChanged ==
    ASSUME LedgerTypes, NEW t \in Turn, NEW r \in TurnType, turn' = [turn EXCEPT ![t] = r]
    PROVE  /\ turn' \in [Turn -> TurnType] /\ turn'[t] = r
           /\ \A u \in Turn \ {t} : turn'[u] = turn[u]
BY DEF LedgerTypes

LEMMA BuiltAreTurns == LedgerTypes => BuiltWords \subseteq Turn /\ \A r \in Run : build[r] \in BuildType
<1> SUFFICES ASSUME LedgerTypes PROVE BuiltWords \subseteq Turn /\ \A r \in Run : build[r] \in BuildType
  OBVIOUS
<1>1. \A r \in Run : build[r] \in BuildType
  BY DEF LedgerTypes, Run
<1>2. \A r \in Run : build[r].words \subseteq Turn
  BY <1>1 DEF BuildType
<1> QED
  BY <1>1, <1>2 DEF BuiltWords

\* A new message is born, streaming or turned away.
LEMMA BeginKeeps ==
    ASSUME LedgerInv, NEW k \in TurnKind, BeginTurn(k)
    PROVE  LedgerInv'
<1>1. /\ LedgerTypes /\ TurnsInv /\ WordInv /\ CallsInv /\ BuildInv /\ WordsAreKept
      /\ next \in Nat \ {0} /\ turn \in [Turn -> TurnType] /\ pending \in Seq(Turn)
      /\ build \in Seq(BuildType) /\ Len(build) \in Nat
  BY DEF LedgerInv, LedgerTypes
<1>2. PICK n \in Turn : /\ n = next /\ turn[n] = Unborn /\ next' = n + 1
                        /\ UNCHANGED <<pending, omitted, resubmitted, build, call>>
  BY <1>1, ConversationAssumption DEF BeginTurn, Turn, TurnsInv, TurnInv
<1> DEFINE born == turn'[n]
<1>3. PICK stage \in {"streaming", "refused", "over"} :
        /\ turn' = [turn EXCEPT ![n] = Opened(k, stage)]
        /\ stage # "refused" => Streaming = {}
  BY <1>2 DEF BeginTurn
<1>4. /\ Opened(k, stage) \in TurnType /\ Opened(k, stage).stage = stage
      /\ Opened(k, stage).prior = pending /\ Opened(k, stage).started = {}
      /\ Opened(k, stage).closed = FALSE /\ Opened(k, stage).committed = FALSE
      /\ Opened(k, stage).runs = Len(build)
  BY <1>1, UnbornFacts DEF Opened, TurnType
<1>5. /\ turn' \in [Turn -> TurnType] /\ born.stage = stage /\ born.prior = pending
      /\ born.started = {} /\ ~born.closed /\ ~born.committed /\ born.runs = Len(build)
      /\ \A t \in Turn \ {n} : turn'[t] = turn[t]
  BY <1>1, <1>2, <1>3, <1>4, TurnChanged
<1>6. turn[n].stage = "unborn" /\ turn[n].started = {} /\ ~turn[n].closed /\ ~turn[n].committed
  BY <1>2, UnbornFacts
<1>7. stage # "refused" => \A t \in Turn : turn[t].stage # "streaming"
  BY <1>3 DEF Streaming
<1>8. TurnsInv'
  <2>1. \A t \in Turn : TurnInv(t)'
    <3>1. TurnInv(n)'
      BY <1>1, <1>2, <1>3, <1>5 DEF TurnInv
    <3>2. ASSUME NEW t \in Turn \ {n} PROVE TurnInv(t)'
      <4>1. TurnInv(t) /\ turn'[t] = turn[t] /\ t \in Nat
        BY <1>1, <1>5, TurnsCounted DEF TurnsInv
      <4>2. t >= next' <=> (t >= next /\ t # n)
        BY <1>1, <1>2, <4>1
      <4> QED
        BY <1>2, <3>2, <4>1, <4>2 DEF TurnInv
    <3> QED
      BY <3>1, <3>2
  <2>2. ASSUME NEW u \in Turn, NEW t \in Turn, turn'[u].stage = "streaming",
               turn'[t].stage \in {"streaming", "over"}
        PROVE  t <= u
    <3>1. CASE u = n
      <4>1. t \in Nat /\ n \in Nat
        BY TurnsCounted
      <4>2. t # n => turn[t].stage # "unborn"
        BY <1>5, <2>2
      <4>3. t # n => ~(t >= n)
        BY <1>1, <1>2, <4>2, UnbornFacts DEF TurnsInv, TurnInv
      <4> QED
        BY <3>1, <4>1, <4>3
    <3>2. CASE u # n
      <4>1. turn[u].stage = "streaming" /\ stage = "refused"
        BY <1>5, <1>7, <2>2, <3>2
      <4>2. t # n /\ turn'[t] = turn[t]
        BY <1>5, <2>2, <4>1
      <4> QED
        BY <1>1, <2>2, <4>1, <4>2 DEF TurnsInv, OrderInv
    <3> QED
      BY <3>1, <3>2
  <2> QED
    BY <2>1, <2>2 DEF TurnsInv, OrderInv
<1>9. BuiltWords' = BuiltWords /\ Run' = Run
  BY <1>2 DEF BuiltWords, Run
<1>10. WordInv'
  <2>1. \A t \in Turn : /\ (turn[t].committed => turn'[t].committed)
                        /\ (turn[t].started # {} => turn'[t].started # {})
                        /\ (~Settling(t))' => ~Settling(t)
    BY <1>5, <1>6 DEF Settling
  <2>2. BuiltWords \subseteq Turn /\ Elements(pending) \subseteq Turn
    BY <1>1, ElementsKept, BuiltAreTurns
  <2>3. ASSUME stage = "streaming" PROVE Elements(pending) \cap BuiltWords = {}
    <3>1. \A t \in Turn : ~Settling(t)
      BY <1>7, <2>3 DEF Settling
    <3> QED
      BY <1>1, <3>1 DEF WordInv
  <2>4. ASSUME NEW t \in Turn, turn'[t].stage = "streaming"
        PROVE  /\ \A u \in Elements(turn'[t].prior) : turn'[u].committed
               /\ turn'[t].started = {} => Elements(turn'[t].prior) \cap BuiltWords = {}
    <3>1. CASE t = n
      BY <1>1, <1>5, <2>1, <2>2, <2>3, <2>4, <3>1 DEF WordInv
    <3>2. CASE t # n
      <4>1. turn'[t] = turn[t] /\ Elements(turn[t].prior) \subseteq Turn
        BY <1>1, <1>5, <3>2, ElementsKept DEF TurnType
      <4> QED
        BY <1>1, <2>1, <2>4, <4>1 DEF WordInv
    <3> QED
      BY <3>1, <3>2
  <2> QED
    BY <1>1, <1>2, <1>9, <2>1, <2>2, <2>4 DEF WordInv
<1>11. CallsInv'
  <2>1. ASSUME NEW c \in Call, call[c] # NoCall PROVE CallInv(c)'
    <3>1. CallInv(c) /\ call[c].turn \in Turn
      BY <1>1, <2>1 DEF CallsInv, CallInv
    <3>2. turn[call[c].turn].stage # "unborn"
      BY <1>6, <2>1, <3>1 , UnbornFacts, <1>1 DEF CallInv, TurnsInv, TurnInv
    <3>3. turn'[call[c].turn] = turn[call[c].turn]
      BY <1>5, <1>6, <3>1, <3>2
    <3> QED
      BY <1>2, <1>9, <3>1, <3>3 DEF CallInv
  <2> QED
    BY <1>2, <2>1 DEF CallsInv, CallInv
<1>12. BuildInv' /\ WordsAreKept'
  <2>1. BuildInv'
    BY <1>1, <1>2, <1>9 DEF BuildInv, WordsBuiltOnce
  <2>2. WordsAreKept'
    <3>1. \A t \in Turn : turn'[t].committed => turn'[t] = turn[t]
      BY <1>5
    <3>2. \A u \in Turn : turn[u].started # {} => turn'[u].started # {}
      BY <1>5, <1>6
    <3>3. \A t \in Turn : t .. MaxTurn \subseteq Turn
      BY TurnsCounted DEF Turn
    <3> QED
      BY <1>1, <1>2, <3>1, <3>2, <3>3 DEF WordsAreKept
  <2> QED
    BY <2>1, <2>2
<1> QED
  BY <1>1, <1>2, <1>5, <1>8, <1>10, <1>11, <1>12 DEF LedgerInv, LedgerTypes

\* A turn's stage in settling it; what it said and what it started stay.
LEMMA SettleStep ==
    ASSUME LedgerInv, NEW t \in Turn, NEW r \in TurnType, turn' = [turn EXCEPT ![t] = r],
           r.prior = turn[t].prior, r.started = turn[t].started, r.runs = turn[t].runs,
           turn[t].stage \in {"streaming", "refused"},
           \/ r.stage = turn[t].stage
           \/ r.stage = "over" /\ turn[t].stage = "streaming" /\ r.committed,
           r.closed = TRUE, turn[t].committed => r.committed,
           UNCHANGED <<next, resubmitted, build, call>>
    PROVE  /\ TurnsInv' /\ CallsInv' /\ BuildInv' /\ turn' \in [Turn -> TurnType]
           /\ BuiltWords' = BuiltWords /\ turn'[t] = r
           /\ \A u \in Turn \ {t} : turn'[u] = turn[u]
<1>1. /\ LedgerTypes /\ TurnsInv /\ WordInv /\ CallsInv /\ BuildInv
  BY DEF LedgerInv
<1>2. /\ turn' \in [Turn -> TurnType] /\ turn'[t] = r /\ \A u \in Turn \ {t} : turn'[u] = turn[u]
  BY <1>1, TurnChanged
<1>3. BuiltWords' = BuiltWords /\ Run' = Run
  BY DEF BuiltWords, Run
<1>4. TurnsInv'
  <2>1. TurnInv(t)'
    <3>1. TurnInv(t)
      BY <1>1 DEF TurnsInv
    <3>2. ~(t >= next)
      BY <3>1, UnbornFacts DEF TurnInv
    <3> QED
      BY <1>2, <3>1, <3>2 DEF TurnInv
  <2>2. \A u \in Turn \ {t} : TurnInv(u)'
    BY <1>1, <1>2 DEF TurnsInv, TurnInv
  <2>3. \A u, v \in Turn : OrderInv(u, v)'
    BY <1>1, <1>2 DEF TurnsInv, OrderInv
  <2> QED
    BY <2>1, <2>2, <2>3 DEF TurnsInv
<1>5. CallsInv'
  <2>1. ASSUME NEW c \in Call, call[c] # NoCall PROVE CallInv(c)'
    <3>1. CallInv(c) /\ call[c].turn \in Turn
      BY <1>1, <2>1 DEF CallsInv, CallInv
    <3> DEFINE u == call[c].turn
    <3>2. /\ turn'[u].prior = turn[u].prior /\ turn'[u].started = turn[u].started
          /\ (~turn'[u].closed => ~turn[u].closed /\ turn'[u].stage = turn[u].stage)
      BY <1>2, <3>1
    <3> QED
      BY <1>3, <2>1, <3>1, <3>2 DEF CallInv
  <2> QED
    BY <2>1 DEF CallsInv, CallInv
<1>6. BuildInv'
  BY <1>1, <1>3 DEF BuildInv, WordsBuiltOnce
<1> QED
  BY <1>2, <1>3, <1>4, <1>5, <1>6

LEMMA CloseAndEndKeep ==
    ASSUME LedgerInv, NEW t \in Turn, CloseTurn(t) \/ End(t)
    PROVE  LedgerInv'
<1>1. /\ LedgerTypes /\ TurnsInv /\ WordInv /\ WordsAreKept /\ TurnInv(t) /\ turn[t] \in TurnType
  BY DEF LedgerInv, LedgerTypes, TurnsInv
<1>2. UNCHANGED <<next, pending, omitted, resubmitted, build, call>>
  BY DEF CloseTurn, End
<1>3. PICK r \in TurnType :
        /\ turn' = [turn EXCEPT ![t] = r] /\ r.prior = turn[t].prior /\ r.started = turn[t].started
        /\ r.runs = turn[t].runs
        /\ turn[t].stage \in {"streaming", "refused"}
        /\ \/ r.stage = turn[t].stage
           \/ r.stage = "over" /\ turn[t].stage = "streaming" /\ r.committed
        /\ r.closed = TRUE /\ r.committed = turn[t].committed
  <2>1. CASE CloseTurn(t)
    <3> DEFINE r == [turn[t] EXCEPT !.closed = TRUE]
    <3>1. /\ r \in TurnType /\ r.prior = turn[t].prior /\ r.started = turn[t].started
          /\ r.stage = turn[t].stage /\ r.closed = TRUE /\ r.committed = turn[t].committed
          /\ r.runs = turn[t].runs
      BY <1>1 DEF TurnType
    <3>2. turn' = [turn EXCEPT ![t] = r] /\ turn[t].stage \in {"streaming", "refused"}
      BY <2>1 DEF CloseTurn
    <3> HIDE DEF r
    <3> QED
      BY <3>1, <3>2
  <2>2. CASE End(t)
    <3> DEFINE r == [turn[t] EXCEPT !.stage = "over"]
    <3>1. /\ r \in TurnType /\ r.prior = turn[t].prior /\ r.started = turn[t].started
          /\ r.stage = "over" /\ r.closed = turn[t].closed /\ r.committed = turn[t].committed
          /\ r.runs = turn[t].runs
      BY <1>1 DEF TurnType
    <3>2. turn' = [turn EXCEPT ![t] = r] /\ turn[t].stage = "streaming" /\ turn[t].committed
      BY <2>2 DEF End
    <3>3. r.closed = TRUE
      <4>1. turn[t].closed /\ turn[t].closed \in BOOLEAN
        BY <1>1, <3>2 DEF TurnInv, TurnType
      <4> QED
        BY <3>1, <4>1
    <3> HIDE DEF r
    <3> QED
      BY <3>1, <3>2, <3>3
  <2> QED
    BY <2>1, <2>2
<1>4. /\ TurnsInv' /\ CallsInv' /\ BuildInv' /\ turn' \in [Turn -> TurnType]
      /\ BuiltWords' = BuiltWords /\ turn'[t] = r
      /\ \A u \in Turn \ {t} : turn'[u] = turn[u]
  BY <1>2, <1>3, SettleStep
<1>5. BuiltWords \subseteq Turn /\ Elements(pending) \subseteq Turn
  BY <1>1, BuiltAreTurns, ElementsKept DEF LedgerTypes
<1>6. WordInv'
  <2>1. \A u \in Turn : /\ turn'[u].committed = turn[u].committed
                        /\ turn'[u].started = turn[u].started /\ turn'[u].prior = turn[u].prior
                        /\ (turn'[u].stage = "streaming" => turn[u].stage = "streaming")
                        /\ (~Settling(u))' => ~Settling(u)
    BY <1>3, <1>4 DEF Settling
  <2>2. \A u \in Turn : Elements(turn[u].prior) \subseteq Turn
    BY <1>1, ElementsKept DEF LedgerTypes, TurnType
  <2> QED
    BY <1>1, <1>2, <1>4, <1>5, <2>1, <2>2 DEF WordInv
<1>7. WordsAreKept'
  <2>1. \A u \in Turn : /\ turn'[u].committed = turn[u].committed
                        /\ turn'[u].started = turn[u].started
                        /\ (turn[u].stage = "refused" => turn'[u].stage = "refused")
    BY <1>3, <1>4
  <2>2. \A u \in Turn : u .. MaxTurn \subseteq Turn
    BY TurnsCounted DEF Turn
  <2> QED
    BY <1>1, <1>2, <2>1, <2>2 DEF WordsAreKept
<1> QED
  BY <1>1, <1>2, <1>4, <1>6, <1>7 DEF LedgerInv, LedgerTypes

LEMMA CommitKeeps ==
    ASSUME LedgerInv, NEW t \in Turn, Commit(t)
    PROVE  LedgerInv'
<1> DEFINE all == Append(pending, t)
           r == [turn[t] EXCEPT !.committed = TRUE]
<1>1. /\ LedgerTypes /\ TurnsInv /\ WordInv /\ WordsAreKept /\ TurnInv(t) /\ turn[t] \in TurnType
      /\ pending \in Seq(Turn)
  BY DEF LedgerInv, LedgerTypes, TurnsInv
<1>2. /\ turn[t].closed /\ ~turn[t].committed /\ turn' = [turn EXCEPT ![t] = r]
      /\ UNCHANGED <<next, resubmitted, build, call>>
      /\ \/ turn[t].started # {} /\ pending' = <<>> /\ omitted' = {}
         \/ /\ turn[t].started = {} /\ pending' = Kept(all)
            /\ omitted' = omitted \cup (Elements(all) \ Elements(Kept(all)))
  BY DEF Commit
<1>3. /\ r \in TurnType /\ r.prior = turn[t].prior /\ r.started = turn[t].started
      /\ r.stage = turn[t].stage /\ r.closed = turn[t].closed /\ r.committed = TRUE
      /\ r.runs = turn[t].runs
  BY <1>1 DEF TurnType
<1> HIDE DEF r
<1>4. turn[t].stage \in {"streaming", "refused"} /\ r.closed = TRUE
  <2>1. turn[t].stage \notin {"unborn", "over"}
    BY <1>1, <1>2, UnbornFacts DEF TurnInv
  <2>2. turn[t].closed = TRUE /\ turn[t].stage \in {"unborn", "streaming", "refused", "over"}
    BY <1>1, <1>2 DEF TurnType
  <2> QED
    BY <1>3, <2>1, <2>2
<1>5. /\ TurnsInv' /\ CallsInv' /\ BuildInv' /\ turn' \in [Turn -> TurnType]
      /\ BuiltWords' = BuiltWords /\ turn'[t] = r
      /\ \A u \in Turn \ {t} : turn'[u] = turn[u]
  BY <1>2, <1>3, <1>4, SettleStep
<1>6. /\ BuiltWords \subseteq Turn /\ Elements(pending) \subseteq Turn
      /\ all \in Seq(Turn) /\ Elements(all) = Elements(pending) \cup {t}
      /\ Kept(all) \in Seq(Turn) /\ Elements(Kept(all)) \subseteq Elements(all)
      /\ Elements(<<>>) = {}
  <2>1. all \in Seq(Turn) /\ Elements(all) = Elements(pending) \cup {t}
    BY <1>1, ElementsAppended
  <2>2. Elements(<<>>) = {}
    BY DEF Elements
  <2>3. BuiltWords \subseteq Turn
    BY <1>1, BuiltAreTurns
  <2> HIDE DEF all
  <2> QED
    BY <1>1, <2>1, <2>2, <2>3, ElementsKept
<1> HIDE DEF all
<1>7. \A u \in Turn : /\ (turn[u].committed => turn'[u].committed)
                      /\ turn'[u].started = turn[u].started /\ turn'[u].prior = turn[u].prior
                      /\ turn'[u].stage = turn[u].stage
  BY <1>3, <1>5
<1>8. pending' \in Seq(Turn)
      /\ (turn[t].started # {} => Elements(pending') = {})
      /\ (turn[t].started = {} => Elements(pending') \subseteq Elements(pending) \cup {t})
  <2>1. CASE turn[t].started # {}
    <3>1. pending' = <<>>
      BY <1>2, <2>1
    <3>2. Elements(pending') = {}
      BY <3>1 DEF Elements
    <3> QED
      BY <2>1, <3>1, <3>2
  <2>2. CASE turn[t].started = {}
    <3>1. pending' = Kept(all)
      BY <1>2, <2>2
    <3> QED
      BY <1>6, <2>2, <3>1
  <2> QED
    BY <2>1, <2>2
<1>9. WordInv'
  <2>1. \A u \in Turn : Elements(turn[u].prior) \subseteq Turn
    BY <1>1, ElementsKept DEF LedgerTypes, TurnType
  <2>2. ASSUME \A u \in Turn : ~Settling(u)' PROVE Elements(pending') \cap BuiltWords = {}
    <3>1. CASE turn[t].started # {}
      BY <1>8, <3>1
    <3>2. CASE turn[t].started = {}
      <4>1. \A u \in Turn : ~Settling(u)
        BY <1>3, <1>5, <1>7, <2>2, <3>2 DEF Settling
      <4>2. Elements(pending) \cap BuiltWords = {} /\ t \notin BuiltWords
        BY <1>1, <1>2, <3>2, <4>1 DEF WordInv
      <4> QED
        BY <1>8, <3>2, <4>2
    <3> QED
      BY <3>1, <3>2
  <2>3. \A u \in Elements(pending') : turn'[u].committed
    <3>1. turn'[t].committed
      BY <1>3, <1>5
    <3> QED
      BY <1>1, <1>6, <1>7, <1>8, <3>1 DEF WordInv
  <2>4. \A u \in BuiltWords : turn'[u].committed \/ turn'[u].started # {}
    BY <1>1, <1>6, <1>7 DEF WordInv
  <2>5. \A v \in Turn : turn'[v].stage = "streaming" =>
          /\ \A u \in Elements(turn'[v].prior) : turn'[u].committed
          /\ turn'[v].started = {} => Elements(turn'[v].prior) \cap BuiltWords = {}
    BY <1>1, <1>7, <2>1 DEF WordInv
  <2> QED
    BY <1>5, <2>2, <2>3, <2>4, <2>5 DEF WordInv
<1>10. WordsAreKept'
  <2>1. SUFFICES ASSUME NEW v \in Turn, turn'[v].committed, turn[v].stage # "refused"
                 PROVE  \/ v \in Elements(pending') \cup omitted'
                        \/ \E u \in v .. MaxTurn : turn[u].started # {}
    <3>1. \A v \in Turn : v .. MaxTurn \subseteq Turn
      BY TurnsCounted DEF Turn
    <3> QED
      BY <1>7, <2>1, <3>1 DEF WordsAreKept
  <2>2. v = t \/ v \in Elements(pending) \cup omitted \/ \E u \in v .. MaxTurn : turn[u].started # {}
    <3>1. v # t => turn[v].committed
      BY <1>5, <2>1
    <3> QED
      BY <1>1, <2>1, <3>1 DEF WordsAreKept
  <2>3. CASE turn[t].started = {}
    BY <1>2, <1>6, <2>2, <2>3
  <2>4. CASE turn[t].started # {}
    <3>1. turn[t].stage = "streaming"
      BY <1>1, <1>2, <1>4, <2>4 DEF TurnInv
    <3>2. turn[v].stage \in {"streaming", "over"}
      <4>1. turn[v].stage # "unborn"
        <5>1. v # t => turn[v].committed /\ TurnInv(v)
          BY <1>1, <1>5, <2>1 DEF TurnsInv
        <5> QED
          BY <3>1, <5>1, UnbornFacts DEF TurnInv
      <4>2. turn[v] \in TurnType
        BY <1>1 DEF LedgerTypes
      <4> QED
        BY <2>1, <4>1, <4>2 DEF TurnType
    <3>3. v <= t
      BY <1>1, <3>1, <3>2 DEF TurnsInv, OrderInv
    <3>4. t \in v .. MaxTurn
      BY <3>3, TurnsCounted DEF Turn
    <3> QED
      BY <2>4, <3>4
  <2> QED
    BY <2>3, <2>4
<1> QED
  BY <1>1, <1>2, <1>5, <1>8, <1>9, <1>10 DEF LedgerInv, LedgerTypes

\* A call is made with what its turn was shown, or is dropped.
LEMMA CallStep ==
    ASSUME LedgerInv, NEW c \in Call, NEW a \in CallType, call' = [call EXCEPT ![c] = a],
           UNCHANGED <<turn, next, pending, omitted, resubmitted, build>>,
           a # NoCall => LET t == a.turn IN
             /\ t \in Turn /\ turn[t].stage = "streaming"
             /\ a.words \subseteq BuiltWords \cup Elements(turn[t].prior) \cup {t}
             /\ a.repeats = 0 /\ a.revises = 0 => a.words \subseteq Elements(turn[t].prior) \cup {t}
             /\ a.repeats # 0 => /\ a.repeats \in Run /\ build[a.repeats].repeats = 0
                                 /\ a.repeats \notin resubmitted
    PROVE  LedgerInv'
<1>1. LedgerTypes /\ TurnsInv /\ WordInv /\ CallsInv /\ BuildInv /\ WordsAreKept
  BY DEF LedgerInv
<1>2. /\ call' \in [Call -> CallType] /\ call'[c] = a /\ \A d \in Call \ {c} : call'[d] = call[d]
  BY <1>1 DEF LedgerTypes
<1>3. BuiltWords' = BuiltWords /\ Run' = Run
  BY DEF BuiltWords, Run
<1>4. CallsInv'
  <2>1. CallInv(c)'
    BY <1>2, <1>3 DEF CallInv
  <2>2. \A d \in Call \ {c} : CallInv(d)'
    BY <1>1, <1>2, <1>3 DEF CallsInv, CallInv
  <2> QED
    BY <2>1, <2>2 DEF CallsInv
<1>5. TurnsInv' /\ WordInv' /\ BuildInv' /\ WordsAreKept'
  BY <1>1, <1>3 DEF TurnsInv, TurnInv, OrderInv, WordInv, Settling, BuildInv, WordsBuiltOnce, WordsAreKept
<1> QED
  BY <1>1, <1>2, <1>4, <1>5 DEF LedgerInv, LedgerTypes

LEMMA AskKeeps ==
    ASSUME LedgerInv, NEW c \in Call, NEW t \in Turn, NEW focused \in BOOLEAN, Ask(c, t, focused)
    PROVE  LedgerInv'
<1>1. /\ LedgerTypes /\ TurnsInv /\ WordInv /\ TurnInv(t) /\ turn[t] \in TurnType
      /\ Len(build) \in Nat /\ t \in Nat
  BY TurnsCounted DEF LedgerInv, LedgerTypes, TurnsInv
<1>2. PICK named \in SUBSET Elements(turn[t].prior), revised \in 0 .. turn[t].runs,
           standalone \in BOOLEAN, asked \in IF focused THEN {FALSE} ELSE BOOLEAN :
        LET said == named \cup {t}
            preset == IF revised # NoRun THEN build[revised].preset ELSE asked
            carried == IF revised = NoRun THEN {} ELSE build[revised].words
        IN /\ RequestOpen(t) /\ call[c] = NoCall
           /\ revised # NoRun => ~(Approves(t) /\ named = {})
           /\ revised = NoRun /\ named = {} =>
                /\ ~Approves(t)
                /\ \/ \A u \in Elements(turn[t].prior) : Approves(u)
                   \/ standalone
                   \/ turn[t].kind = "selector"
           /\ ~preset /\ revised = NoRun => ~Selects(said)
           /\ preset /\ revised = NoRun => Selects(said)
           /\ call' = [call EXCEPT ![c] =
                [turn |-> t, preset |-> preset /\ ~focused, revises |-> revised,
                 repeats |-> NoRun,
                 words |-> carried \cup (IF Approves(t) THEN named ELSE said)]]
           /\ UNCHANGED <<console, turn, next, pending, omitted, resubmitted, build>>
  BY DEF Ask
<1> DEFINE preset == IF revised # NoRun THEN build[revised].preset ELSE asked
           carried == IF revised = NoRun THEN {} ELSE build[revised].words
           words == carried \cup (IF Approves(t) THEN named ELSE named \cup {t})
           choice == preset /\ ~focused
           a == [turn |-> t, preset |-> choice, revises |-> revised, repeats |-> NoRun, words |-> words]
<1>3. /\ call' = [call EXCEPT ![c] = a] /\ turn[t].stage = "streaming"
      /\ UNCHANGED <<turn, next, pending, omitted, resubmitted, build>>
  BY <1>2 DEF RequestOpen
<1>4. revised \in Nat /\ revised <= turn[t].runs /\ NoRun = 0
  BY <1>1, <1>2 DEF TurnType, NoRun
<1>5. ASSUME revised # 0
      PROVE  build[revised].words \subseteq BuiltWords /\ build[revised] \in BuildType
  <2>1. revised \in Run
    BY <1>1, <1>4, <1>5 DEF TurnInv, TurnType, Run
  <2> QED
    BY <1>1, <2>1, BuiltAreTurns DEF BuiltWords
<1>6. Elements(turn[t].prior) \subseteq Turn /\ BuiltWords \subseteq Turn
  BY <1>1, ElementsKept, BuiltAreTurns DEF TurnType
<1>7. carried \subseteq BuiltWords /\ (revised = 0 => carried = {})
  BY <1>4, <1>5
<1>8. choice \in BOOLEAN
  OBVIOUS
<1>9. /\ words \subseteq Turn /\ words \subseteq BuiltWords \cup Elements(turn[t].prior) \cup {t}
      /\ (revised = 0 => words \subseteq Elements(turn[t].prior) \cup {t})
  <2>1. words \subseteq carried \cup named \cup {t}
    OBVIOUS
  <2> HIDE DEF words, carried
  <2> QED
    BY <1>2, <1>6, <1>7, <2>1
<1> HIDE DEF words, choice
<1>10. a \in CallType /\ a.turn = t /\ a.words = words /\ a.repeats = 0 /\ a.revises = revised
  BY <1>1, <1>4, <1>8, <1>9 DEF CallType
<1> HIDE DEF a
<1> QED
  BY <1>3, <1>9, <1>10, CallStep

LEMMA AskAgainKeeps ==
    ASSUME LedgerInv, NEW c \in Call, NEW t \in Turn, ResubmitRun(c, t)
    PROVE  LedgerInv'
<1>1. LedgerTypes /\ t \in Nat
  BY TurnsCounted DEF LedgerInv
<1>2. PICK r \in Run : AskAgain(c, t, r)
  BY DEF ResubmitRun
<1>3. build[r] \in BuildType /\ build[r].words \subseteq BuiltWords /\ r \in Nat \ {0}
  BY <1>1, BuiltAreTurns DEF BuiltWords, Run
<1> DEFINE a == [turn |-> t, words |-> build[r].words, preset |-> build[r].preset,
                 revises |-> build[r].revises, repeats |-> r]
<1>4. /\ turn[t].stage = "streaming" /\ build[r].repeats = 0 /\ r \notin resubmitted
      /\ call' = [call EXCEPT ![c] = a]
      /\ UNCHANGED <<turn, next, pending, omitted, resubmitted, build>>
  BY <1>2 DEF AskAgain, RequestOpen, NoRun
<1>5. a \in CallType /\ a.turn = t /\ a.words = build[r].words /\ a.repeats = r
  BY <1>1, <1>3 DEF CallType, BuildType
<1> HIDE DEF a
<1> QED
  BY <1>3, <1>4, <1>5, CallStep

LEMMA RefusedKeeps ==
    ASSUME LedgerInv, NEW c \in Call, KickRefused(c)
    PROVE  LedgerInv'
BY UnbornFacts, CallStep DEF KickRefused

LEMMA EndedKeeps ==
    ASSUME LedgerInv, NEW r \in Run, BuildEnds(r)
    PROVE  LedgerInv'
<1>1. LedgerTypes /\ TurnsInv /\ WordInv /\ CallsInv /\ BuildInv /\ WordsAreKept
      /\ build[r] \in BuildType /\ build \in Seq(BuildType)
  BY BuiltAreTurns DEF LedgerInv, LedgerTypes
<1>2. UNCHANGED <<turn, next, pending, omitted, resubmitted, call>>
  BY DEF BuildEnds
<1>3. PICK end \in {"empty", "over"} : build' = [build EXCEPT ![r].state = end]
  BY DEF BuildEnds
<1>4. /\ build' \in Seq(BuildType) /\ Run' = Run /\ Len(build') = Len(build)
      /\ \A s \in Run : /\ build'[s].words = build[s].words /\ build'[s].revises = build[s].revises
                       /\ build'[s].repeats = build[s].repeats
  <2> DEFINE b == [build[r] EXCEPT !.state = end]
  <2>1. /\ b \in BuildType /\ b.words = build[r].words /\ b.revises = build[r].revises
        /\ b.repeats = build[r].repeats
    BY <1>1 DEF BuildType
  <2>2. build' = [build EXCEPT ![r] = b]
    BY <1>3
  <2> HIDE DEF b
  <2>3. /\ build' \in Seq(BuildType) /\ Len(build') = Len(build) /\ build'[r] = b
        /\ \A s \in Run \ {r} : build'[s] = build[s]
    BY <1>1, <2>1, <2>2 DEF Run
  <2> QED
    BY <2>1, <2>3 DEF Run
<1>5. BuiltWords' = BuiltWords
  BY <1>4 DEF BuiltWords
<1>6. TurnsInv' /\ WordInv' /\ WordsAreKept'
  BY <1>1, <1>2, <1>4, <1>5 DEF TurnsInv, TurnInv, OrderInv, WordInv, Settling, WordsAreKept
<1>7. CallsInv'
  BY <1>1, <1>2, <1>4, <1>5 DEF CallsInv, CallInv
<1>8. BuildInv'
  BY <1>1, <1>2, <1>4 DEF BuildInv, WordsBuiltOnce
<1> QED
  BY <1>1, <1>2, <1>4, <1>6, <1>7, <1>8 DEF LedgerInv, LedgerTypes

\* The build that a streaming turn starts: the first it does, of words nobody built.
LEMMA KickKeeps ==
    ASSUME LedgerInv, NEW c \in Call, Kick(c)
    PROVE  LedgerInv'
<1> DEFINE a == call[c]
<1>1. /\ LedgerTypes /\ TurnsInv /\ WordInv /\ CallsInv /\ BuildInv /\ WordsAreKept
      /\ build \in Seq(BuildType) /\ Len(build) \in Nat /\ CallInv(c) /\ a \in CallType
  BY DEF LedgerInv, LedgerTypes, CallsInv
<1>2. /\ a # NoCall /\ UNCHANGED <<console, next, pending, omitted>>
      /\ build' = Append(build, [turn |-> a.turn, words |-> a.words, preset |-> a.preset,
                                 revises |-> a.revises, repeats |-> a.repeats, state |-> "active"])
      /\ turn' = [turn EXCEPT ![a.turn].started = @ \cup {Len(build) + 1}]
      /\ resubmitted' = resubmitted \cup ({a.repeats} \ {NoRun})
      /\ call' = [call EXCEPT ![c] = NoCall]
      /\ ~turn[a.turn].closed /\ turn[a.turn].started = {}
  BY DEF Kick, Admitted
<1>3. PICK u \in Turn : u = a.turn
  BY <1>1, <1>2 DEF CallInv
<1>4. PICK n \in Nat \ {0} : n = Len(build) + 1
  BY <1>1
<1>5. /\ turn[u].stage = "streaming" /\ ~turn[u].closed /\ turn[u].started = {}
      /\ ~turn[u].committed /\ turn[u] \in TurnType
  BY <1>1, <1>2, <1>3 DEF CallInv, TurnsInv, TurnInv, LedgerTypes
<1>6. \A t \in Turn : turn[t].stage = "streaming" => t = u
  BY <1>1, <1>5, TurnsCounted DEF TurnsInv, OrderInv
<1> DEFINE new == [turn |-> a.turn, words |-> a.words, preset |-> a.preset,
                   revises |-> a.revises, repeats |-> a.repeats, state |-> "active"]
           r == [turn[u] EXCEPT !.started = {n}]
<1>7. /\ new \in BuildType /\ new.words = a.words /\ new.revises = a.revises
      /\ new.repeats = a.repeats
  BY <1>1, <1>3 DEF BuildType, CallType
<1>8. /\ r \in TurnType /\ r.stage = "streaming" /\ r.prior = turn[u].prior /\ r.started = {n}
      /\ r.runs = turn[u].runs /\ ~r.closed /\ ~r.committed
  BY <1>4, <1>5 DEF TurnType
<1>9. turn' = [turn EXCEPT ![u] = r] /\ build' = Append(build, new)
  BY <1>2, <1>3, <1>4, <1>5
<1> HIDE DEF new, r
<1>10. /\ turn' \in [Turn -> TurnType] /\ turn'[u] = r
       /\ \A t \in Turn \ {u} : turn'[t] = turn[t]
  BY <1>1, <1>8, <1>9, TurnChanged
<1>11. /\ build' \in Seq(BuildType) /\ Len(build') = n /\ build'[n] = new
       /\ \A s \in Run : build'[s] = build[s]
       /\ Run' = Run \cup {n} /\ n \notin Run /\ \A s \in Run : s < n /\ s # 0 /\ s \in Nat
  BY <1>1, <1>4, <1>7, <1>9 DEF Run
<1>12. BuiltWords' = BuiltWords \cup a.words
  <2>1. /\ \A s \in Run : build'[s].words = build[s].words
        /\ build'[n].words = a.words /\ Run' = Run \cup {n}
    BY <1>7, <1>11
  <2> QED
    BY <2>1 DEF BuiltWords
<1>13. /\ BuiltWords \subseteq Turn /\ \A t \in Turn : Elements(turn[t].prior) \subseteq Turn
       /\ Elements(pending) \subseteq Turn
  BY <1>1, BuiltAreTurns, ElementsKept DEF LedgerTypes, TurnType
<1>14. /\ a.words \subseteq BuiltWords \cup Elements(turn[u].prior) \cup {u}
       /\ (a.repeats = 0 /\ a.revises = 0 => a.words \subseteq Elements(turn[u].prior) \cup {u})
       /\ (a.repeats # 0 => /\ a.repeats \in Run /\ build[a.repeats].repeats = 0
                            /\ a.repeats \notin resubmitted)
  BY <1>1, <1>2, <1>3, <1>5 DEF CallInv
<1>15. Elements(turn[u].prior) \cap BuiltWords = {} /\ u \notin BuiltWords
       /\ \A t \in Elements(turn[u].prior) : turn[t].committed
  BY <1>1, <1>5 DEF WordInv
<1>16. TurnsInv'
  <2>1. TurnInv(u)'
    <3>1. TurnInv(u)
      BY <1>1 DEF TurnsInv
    <3>2. ~(u >= next)
      BY <1>5, <3>1, UnbornFacts DEF TurnInv
    <3>3. r.runs <= Len(build')
      <4>1. turn[u].runs \in Nat /\ turn[u].runs <= Len(build)
        BY <1>5, <3>1 DEF TurnInv, TurnType
      <4> QED
        BY <1>1, <1>4, <1>8, <1>11, <4>1
    <3> QED
      BY <1>2, <1>8, <1>10, <3>2, <3>3 DEF TurnInv
  <2>2. ASSUME NEW t \in Turn \ {u} PROVE TurnInv(t)'
    <3>1. TurnInv(t) /\ turn'[t] = turn[t] /\ turn[t].runs \in Nat
      BY <1>1, <1>10 DEF TurnsInv, LedgerTypes, TurnType
    <3>2. turn[t].runs <= Len(build')
      BY <1>1, <1>4, <1>11, <3>1 DEF TurnInv
    <3>3. next' = next
      BY <1>2
    <3> QED
      BY <3>1, <3>2, <3>3 DEF TurnInv
  <2>3. \A v, t \in Turn : OrderInv(v, t)'
    BY <1>1, <1>5, <1>8, <1>10 DEF TurnsInv, OrderInv
  <2> QED
    BY <2>1, <2>2, <2>3 DEF TurnsInv
<1>17. WordInv'
  <2>1. \A t \in Turn : /\ (turn[t].committed => turn'[t].committed)
                        /\ (turn[t].started # {} => turn'[t].started # {})
                        /\ turn'[t].stage = turn[t].stage /\ turn'[t].prior = turn[t].prior
    BY <1>5, <1>8, <1>10
  <2>2. Settling(u)' /\ turn'[u].started # {}
    BY <1>8, <1>10 DEF Settling
  <2>3. \A t \in BuiltWords' : turn'[t].committed \/ turn'[t].started # {}
    BY <1>1, <1>12, <1>13, <1>14, <1>15, <2>1, <2>2 DEF WordInv
  <2>4. \A t \in Elements(pending) : turn'[t].committed
    BY <1>1, <1>13, <2>1 DEF WordInv
  <2>5. \A t \in Turn : turn'[t].stage = "streaming" =>
          /\ \A v \in Elements(turn'[t].prior) : turn'[v].committed
          /\ turn'[t].started = {} => Elements(turn'[t].prior) \cap BuiltWords' = {}
    BY <1>6, <1>13, <1>15, <2>1, <2>2
  <2> QED
    BY <1>2, <2>2, <2>3, <2>4, <2>5 DEF WordInv
<1>18. CallsInv'
  <2>1. call'[c] = NoCall /\ \A d \in Call \ {c} : call'[d] = call[d]
    BY <1>1, <1>2 DEF LedgerTypes
  <2>2. ASSUME NEW d \in Call \ {c}, call[d] # NoCall PROVE CallInv(d)'
    <3> DEFINE b == call[d]
               t == b.turn
    <3>1. CallInv(d) /\ t \in Turn /\ call'[d] = call[d]
      BY <1>1, <2>1, <2>2 DEF CallsInv, CallInv
    <3>2. turn'[t].stage = turn[t].stage /\ turn'[t].prior = turn[t].prior
          /\ (~turn'[t].closed => ~turn[t].closed)
      BY <1>5, <1>8, <1>10, <3>1
    <3>3. ~turn'[t].closed => t = u /\ turn'[t].started # {}
      BY <1>6, <1>8, <1>10, <2>2, <3>1, <3>2 DEF CallInv
    <3>4. b.repeats # 0 => b.repeats \in Run' /\ build'[b.repeats].repeats = 0
      BY <1>11, <2>2, <3>1 DEF CallInv
    <3>5. b.words \subseteq BuiltWords' \cup Elements(turn'[t].prior) \cup {t}
      BY <1>12, <2>2, <3>1, <3>2 DEF CallInv
    <3> QED
      BY <2>2, <3>1, <3>2, <3>3, <3>4, <3>5 DEF CallInv
  <2> QED
    BY <2>1, <2>2 DEF CallsInv, CallInv
<1>19. BuildInv'
  <2>1. \A s \in Run' : build'[s].repeats # 0 => build'[s].repeats \in resubmitted'
    BY <1>1, <1>2, <1>7, <1>11 DEF BuildInv, NoRun
  <2>2. ASSUME NEW q \in Run', NEW s \in Run', q < s
        PROVE  /\ build'[q].words \cap build'[s].words # {} =>
                    build'[s].revises # 0 \/ build'[s].repeats # 0
               /\ build'[s].repeats = q => build'[q].repeats = 0
               /\ build'[q].repeats # 0 => build'[s].repeats # build'[q].repeats
    <3>1. q \in Run /\ build'[q] = build[q]
      BY <1>4, <1>11, <2>2
    <3>2. CASE s = n
      <4>1. build[q].words \subseteq BuiltWords
        BY <3>1 DEF BuiltWords
      <4>2. build'[s].words = a.words /\ build'[s].revises = a.revises /\ build'[s].repeats = a.repeats
        BY <1>7, <1>11, <3>2
      <4>3. build[q].repeats # 0 => build[q].repeats \in resubmitted
        BY <1>1, <3>1 DEF BuildInv, NoRun
      <4>4. q # 0
        BY <1>11, <3>1
      <4>5. a.repeats = 0 /\ a.revises = 0 => build[q].words \cap a.words = {}
        BY <1>14, <1>15, <4>1
      <4> QED
        BY <1>14, <3>1, <4>2, <4>3, <4>4, <4>5
    <3>3. CASE s # n
      <4>1. s \in Run /\ build'[s] = build[s]
        BY <1>11, <3>3
      <4> QED
        BY <1>1, <2>2, <3>1, <4>1 DEF BuildInv, WordsBuiltOnce, NoRun
    <3> QED
      BY <3>2, <3>3
  <2> QED
    BY <2>1, <2>2 DEF BuildInv, WordsBuiltOnce, NoRun
<1>20. WordsAreKept'
  <2>1. \A t \in Turn : /\ turn'[t].committed = turn[t].committed /\ turn'[t].stage = turn[t].stage
                        /\ (turn[t].started # {} => turn'[t].started # {})
    <3>1. r.committed = turn[u].committed
      <4>1. r.committed \in BOOLEAN /\ turn[u].committed \in BOOLEAN
        BY <1>5, <1>8 DEF TurnType
      <4> QED
        BY <1>5, <1>8, <4>1
    <3> QED
      BY <1>5, <1>8, <1>10, <3>1
  <2>2. \A t \in Turn : t .. MaxTurn \subseteq Turn
    BY TurnsCounted DEF Turn
  <2> QED
    BY <1>1, <1>2, <2>1, <2>2 DEF WordsAreKept
<1>21. LedgerTypes'
  <2>1. resubmitted' \subseteq Nat
    BY <1>1, <1>2 DEF LedgerTypes, CallType
  <2>2. call' \in [Call -> CallType]
    BY <1>1, <1>2, UnbornFacts DEF LedgerTypes
  <2> QED
    BY <1>1, <1>2, <1>10, <1>11, <2>1, <2>2 DEF LedgerTypes
<1> QED
  BY <1>16, <1>17, <1>18, <1>19, <1>20, <1>21 DEF LedgerInv

LEMMA ConversationStep == LedgerInv /\ [ConversationNext]_conversationVars => LedgerInv'
<1> SUFFICES ASSUME LedgerInv, [ConversationNext]_conversationVars PROVE LedgerInv'
  OBVIOUS
<1>1. CASE UNCHANGED conversationVars
  <2>1. UNCHANGED <<turn, next, pending, omitted, resubmitted, build, call>>
    BY <1>1 DEF conversationVars
  <2>2. BuiltWords' = BuiltWords /\ Run' = Run
    BY <2>1 DEF BuiltWords, Run
  <2>3. TurnsInv' /\ WordInv' /\ WordsAreKept'
    BY <2>1, <2>2 DEF LedgerInv, TurnsInv, TurnInv, OrderInv, WordInv, Settling, WordsAreKept
  <2>4. CallsInv' /\ BuildInv'
    BY <2>1, <2>2 DEF LedgerInv, CallsInv, CallInv, BuildInv, WordsBuiltOnce
  <2> QED
    BY <2>1, <2>3, <2>4 DEF LedgerInv, LedgerTypes
<1>2. CASE ConversationNext
  BY <1>2, BeginKeeps, CloseAndEndKeep, CommitKeeps, AskKeeps, AskAgainKeeps, KickKeeps, RefusedKeeps,
     EndedKeeps DEF ConversationNext, RunBuild, DispatchAgent
<1> QED
  BY <1>1, <1>2

LEMMA ConversationStart == ConversationInit => LedgerInv
<1> SUFFICES ASSUME ConversationInit PROVE LedgerInv
  OBVIOUS
<1>1. /\ turn = [t \in Turn |-> Unborn] /\ next = 1 /\ pending = <<>> /\ omitted = {}
      /\ resubmitted = {} /\ build = <<>> /\ call = [c \in Call |-> NoCall]
  BY DEF ConversationInit
<1>2. Run = {} /\ BuiltWords = {} /\ Elements(pending) = {} /\ Len(build) = 0
  BY <1>1 DEF Run, BuiltWords, Elements
<1>3. LedgerTypes
  BY <1>1, UnbornFacts DEF LedgerTypes
<1>4. Unborn.runs = 0
  BY DEF Unborn
<1>5. TurnsInv
  BY <1>1, <1>2, <1>4, UnbornFacts, TurnsCounted DEF TurnsInv, TurnInv, OrderInv
<1>6. WordInv /\ CallsInv /\ BuildInv /\ WordsAreKept
  BY <1>1, <1>2, UnbornFacts DEF WordInv, CallsInv, CallInv, BuildInv, WordsBuiltOnce, WordsAreKept
<1> QED
  BY <1>3, <1>5, <1>6 DEF LedgerInv

(* Words wait in the ledger until they are built, a turn starts one build, and words are  *)
(* built once unless they are revised or resubmitted, however late the routing of a       *)
(* tool call is answered and whichever host streams the turn (chat_request.py, chat.py).  *)
THEOREM LedgersAreHonest == ConversationSpec => []LedgerIsHonest
<1>1. LedgerInv => LedgerIsHonest
  <2> SUFFICES ASSUME LedgerInv PROVE LedgerIsHonest
    OBVIOUS
  <2>1. ASSUME NEW t \in Turn PROVE Cardinality(turn[t].started) <= 1
    <3>1. \A x, y \in turn[t].started : x = y
      BY <2>1 DEF LedgerInv, TurnsInv, TurnInv
    <3> QED
      BY <3>1, AtMostOne
  <2> QED
    BY <2>1 DEF LedgerIsHonest, OneBuildPerTurn, LedgerInv, BuildInv
<1> QED
  BY <1>1, ConversationStart, ConversationStep, PTL DEF ConversationSpec

(* A turn that was stopped or lost its connection starts nothing any more, not even a     *)
(* call that was admitted before (UserRequest.close, chat._kick).                       *)
THEOREM StoppedTurnsStartNothing == ConversationSpec => NoBuildAfterStop
<1> DEFINE Untouched == \A t \in Turn : turn[t].closed => turn'[t].started = turn[t].started
<1>1. LedgerInv /\ [ConversationNext]_conversationVars => [Untouched]_conversationVars
  <2> SUFFICES ASSUME LedgerInv, ConversationNext, NEW t \in Turn, turn[t].closed
               PROVE  turn'[t].started = turn[t].started
    BY DEF Untouched
  <2>1. /\ TurnInv(t) /\ turn \in [Turn -> TurnType] /\ turn[t] \in TurnType
    BY DEF LedgerInv, LedgerTypes, TurnsInv
  <2>2. CASE turn' = turn
    BY <2>2
  <2>3. ASSUME NEW k \in TurnKind, BeginTurn(k) PROVE turn'[t].started = turn[t].started
    <3>1. t # next
      <4>1. next \in Nat
        BY DEF LedgerInv, LedgerTypes
      <4> QED
        BY <2>1, <4>1, UnbornFacts DEF TurnInv
    <3> QED
      BY <2>1, <2>3, <3>1 DEF BeginTurn
  <2>4. ASSUME NEW u \in Turn, CloseTurn(u) \/ Commit(u) \/ End(u)
        PROVE  turn'[t].started = turn[t].started
    <3>1. \/ turn' = [turn EXCEPT ![u].closed = TRUE] \/ turn' = [turn EXCEPT ![u].committed = TRUE]
          \/ turn' = [turn EXCEPT ![u].stage = "over"]
      BY <2>4 DEF CloseTurn, Commit, End
    <3>2. CASE u # t
      BY <2>1, <3>1, <3>2
    <3>3. CASE u = t
      <4>1. turn' \in {[turn EXCEPT ![t].closed = TRUE], [turn EXCEPT ![t].committed = TRUE],
                      [turn EXCEPT ![t].stage = "over"]}
        BY <3>1, <3>3
      <4>2. /\ [turn[t] EXCEPT !.closed = TRUE].started = turn[t].started
            /\ [turn[t] EXCEPT !.committed = TRUE].started = turn[t].started
            /\ [turn[t] EXCEPT !.stage = "over"].started = turn[t].started
        BY <2>1 DEF TurnType
      <4> QED
        BY <2>1, <4>1, <4>2
    <3> QED
      BY <3>2, <3>3
  <2>5. ASSUME NEW c \in Call, Kick(c) PROVE turn'[t].started = turn[t].started
    <3>1. call[c].turn # t
      BY <2>5 DEF Kick
    <3> QED
      BY <2>1, <2>5, <3>1 DEF Kick, Admitted
  <2>6. ASSUME NEW c \in Call, NEW u \in Turn, RunBuild(c, u) \/ DispatchAgent(c, u) \/ ResubmitRun(c, u)
        PROVE  turn' = turn
    BY <2>6 DEF RunBuild, DispatchAgent, ResubmitRun, Ask, AskAgain
  <2>7. ASSUME NEW c \in Call, KickRefused(c) PROVE turn' = turn
    BY <2>7 DEF KickRefused
  <2>8. ASSUME NEW r \in Run, BuildEnds(r) PROVE turn' = turn
    BY <2>8 DEF BuildEnds
  <2> QED
    BY <2>2, <2>3, <2>4, <2>5, <2>6, <2>7, <2>8 DEF ConversationNext
<1> QED
  BY <1>1, ConversationStart, ConversationStep, PTL DEF ConversationSpec, NoBuildAfterStop

-----------------------------------------------------------------------------
(* Types.  The invariants above hold most of what a type invariant says; what is    *)
(* left are the variables they do not speak of and the models' own bounds.         *)

LEMMA ActivityTyped == ActivitySpec => []ActivityTypeOK
<1>1. ActivityInit => ActivityTypeOK
  <2> SUFFICES ASSUME ActivityInit PROVE ActivityTypeOK
    OBVIOUS
  <2>1. /\ work \in 0 .. MaxWork /\ seen \in {NotReading} \cup 0 .. MaxWork + 1
        /\ window = NoWindow /\ idle \in 0 .. IdleLimit /\ ~task
    BY ActivityAssumption DEF ActivityInit
  <2>2. {task, exhausted, observed, alive} \subseteq BOOLEAN
    BY Zenon DEF ActivityInit
  <2> QED
    BY <2>1, <2>2 DEF ActivityInit, ActivityTypeOK
<1>2. ActivityTypeOK /\ ActivityInv /\ ActivityInv' /\ [ActivityNext]_activityVars => ActivityTypeOK'
  <2> SUFFICES ASSUME ActivityTypeOK, ActivityInv, ActivityInv', [ActivityNext]_activityVars
               PROVE  ActivityTypeOK'
    OBVIOUS
  <2>1. work \in 0 .. MaxWork /\ MaxWork \in Nat /\ IdleLimit \in Nat
    BY ActivityAssumption DEF ActivityTypeOK
  <2>2. seen' \in {NotReading} \cup 0 .. MaxWork + 1
    BY <2>1 DEF ActivityTypeOK, ActivityNext, OpenRequest, Dispatch, BuildDone, CloseRequest, Read,
                Act, ActivityTick, Reclaim, Failures, activityVars
  <2>3. idle' \in 0 .. IdleLimit
    BY <2>1 DEF ActivityTypeOK, ActivityNext, OpenRequest, Dispatch, BuildDone, CloseRequest, Read,
                Act, ActivityTick, Reclaim, activityVars
  <2> QED
    BY <2>2, <2>3 DEF ActivityTypeOK, ActivityInv, ActivityTypes, WindowInv
<1> QED
  BY <1>1, <1>2, ActivityInvariant, PTL DEF ActivitySpec

LEMMA SetupTyped == SetupSpec => []SetupTypeOK
<1>1. SetupInit => SetupTypeOK
  <2> SUFFICES ASSUME SetupInit PROVE SetupTypeOK
    OBVIOUS
  <2>1. NoProcess \in ProcessType /\ Waiting \in ReceiverType
    BY SetupMarks DEF NoProcess, Waiting, ProcessType, ReceiverType
  <2> QED
    BY <2>1, SetupMarks DEF SetupInit, SetupTypeOK, ProcessType, ReceiverType
<1>2. SetupTypeOK /\ AppInv' /\ [SetupNext]_setupVars => SetupTypeOK'
  <2> SUFFICES ASSUME SetupTypeOK, AppInv', [SetupNext]_setupVars
               PROVE  SetupTypeOK'
    OBVIOUS
  <2>1. env' = env \/ env' \in {"secret", "no_secret"}
    BY DEF SetupNext, Register, ExistingApp, Resume, ResumeConverted, StopWaiting, Installed,
           WriteEnv, Complete, Gone, Exchange, Repeat, Post, Save, WriteKey, Reply, setupVars
  <2>2. env' \in {"absent", "secret", "no_secret"}
    BY <2>1 DEF SetupTypeOK
  <2> QED
    BY <2>2 DEF SetupTypeOK, AppInv, AppTypes, ProcessType, ReceiverType
<1> QED
  BY <1>1, <1>2, AppInvariant, PTL DEF SetupSpec

LEMMA EventTyped == EventSpec => []EventTypeOK
<1>1. EventInit => EventTypeOK
  <2> SUFFICES ASSUME EventInit PROVE EventTypeOK
    OBVIOUS
  <2>1. now \in 0 .. MaxNow /\ Job = {} /\ claim \in 0 .. Len(job)
    BY DEF EventInit, Job, MaxNow
  <2>2. delivery \in [Delivery -> [event : Event, phase : {"none", "fresh", "recorded",
                                    "forgetting", "accepted", "ignored", "failed"}]]
    BY DEF EventInit
  <2> QED
    BY <2>1, <2>2 DEF EventInit, EventTypeOK
<1>2. EventTypeOK /\ EventInv /\ EventInv' /\ [EventNext]_eventVars => EventTypeOK'
  <2> SUFFICES ASSUME EventTypeOK, EventInv, EventInv', [EventNext]_eventVars
               PROVE  EventTypeOK'
    OBVIOUS
  <2>1. /\ now \in 0 .. 3 /\ MaxNow = 3 /\ row \in [Event -> {NoRow} \cup 0 .. 3] /\ lost \subseteq Event
        /\ mode \in [Event -> Mode] /\ claim \in 0 .. Len(job)
        /\ \A d \in Delivery : delivery[d].event \in Event
        /\ job \in Seq(JobType) /\ job' \in Seq(JobType) /\ delivery' \in [Delivery -> DeliveryType]
    BY DEF EventTypeOK, MaxNow, EventInv, EventTypes, DeliveryType
  <2>3. row' \in [Event -> {NoRow} \cup 0 .. 3]
    <3>1. ASSUME NEW e \in Event, NEW n \in {NoRow} \cup 0 .. 3
          PROVE  [row EXCEPT ![e] = n] \in [Event -> {NoRow} \cup 0 .. 3]
      BY <2>1
    <3>2. ASSUME NEW d \in Delivery, RecordDigest(d) \/ Forget(d)
          PROVE  row' \in [Event -> {NoRow} \cup 0 .. 3]
      BY <2>1, <3>1, <3>2 DEF RecordDigest, Forget
    <3>3. ASSUME NEW e \in Event, Expire(e)
          PROVE  row' \in [Event -> {NoRow} \cup 0 .. 3]
      BY <2>1, <3>1, <3>3 DEF Expire
    <3>4. ASSUME NEW d \in Delivery, Deliver(d) \/ HandOff(d) \/ EndpointDies(d) PROVE row' = row
      BY <3>4 DEF Deliver, HandOff, EndpointDies
    <3>5. ASSUME NEW j \in Job, \/ CheckRunning(j) \/ Submit(j) \/ BuildOver(j) \/ SessionLost(j)
                                \/ OperatorReleases(j)
          PROVE  row' = row
      BY <3>5 DEF CheckRunning, Submit, BuildOver, SessionLost, OperatorReleases, SessionGoes
    <3>6. ASSUME NEW j \in Job, \/ Wake(j) \/ RunSession(j) \/ PostReview(j) \/ CopyDies(j)
                                \/ RefuseFix(j) \/ NoFix(j) \/ OpenFix(j)
                                \/ RefuseDevelop(j) \/ AskTeam(j) \/ TeamAnswers(j)
          PROVE  row' = row
      BY <3>6 DEF Wake, RunSession, PostReview, CopyDies, RefuseFix, NoFix, OpenFix,
                  RefuseDevelop, AskTeam, TeamAnswers, CopyBecomes
    <3>7. ASSUME Tick \/ UNCHANGED eventVars PROVE row' = row
      BY <3>7 DEF Tick, eventVars
    <3> QED
      BY <2>1, <3>2, <3>3, <3>4, <3>5, <3>6, <3>7 DEF EventNext
  <2>4. now' \in 0 .. 3 /\ mode' = mode /\ lost' \subseteq Event
    <3>1. ASSUME NEW d \in Delivery, \/ Deliver(d) \/ RecordDigest(d) \/ Forget(d) \/ EndpointDies(d)
          PROVE  now' = now /\ mode' = mode /\ lost' = lost
      BY <3>1 DEF Deliver, RecordDigest, Forget, EndpointDies
    <3>2. ASSUME NEW d \in Delivery, HandOff(d)
          PROVE  now' = now /\ mode' = mode /\ (lost' = lost \/ lost' = lost \cup {delivery[d].event})
      BY <3>2 DEF HandOff
    <3>3. ASSUME NEW j \in Job, \/ CheckRunning(j) \/ Submit(j) \/ BuildOver(j) \/ SessionLost(j)
                                \/ OperatorReleases(j)
          PROVE  now' = now /\ mode' = mode /\ lost' = lost
      BY <3>3 DEF CheckRunning, Submit, BuildOver, SessionLost, OperatorReleases, SessionGoes
    <3>4. ASSUME NEW j \in Job, \/ Wake(j) \/ RunSession(j) \/ PostReview(j) \/ CopyDies(j)
                                \/ RefuseFix(j) \/ NoFix(j) \/ OpenFix(j)
                                \/ RefuseDevelop(j) \/ AskTeam(j) \/ TeamAnswers(j)
          PROVE  now' = now /\ mode' = mode /\ lost' = lost
      BY <3>4 DEF Wake, RunSession, PostReview, CopyDies, RefuseFix, NoFix, OpenFix,
                  RefuseDevelop, AskTeam, TeamAnswers, CopyBecomes
    <3>5. ASSUME UNCHANGED eventVars \/ \E e \in Event : Expire(e)
          PROVE  now' = now /\ mode' = mode /\ lost' = lost
      BY <3>5 DEF Expire, eventVars
    <3>6. ASSUME Tick PROVE now' \in 0 .. 3 /\ mode' = mode /\ lost' = lost
      BY <2>1, <3>6 DEF Tick, MaxNow
    <3> QED
      BY <2>1, <3>1, <3>2, <3>3, <3>4, <3>5, <3>6 DEF EventNext
  <2>5. claim' \in 0 .. Len(job')
    <3>1. ASSUME NEW d \in Delivery, HandOff(d) PROVE Len(job') >= Len(job) /\ claim' = claim
      <4>1. Queued(delivery[d].event) \in JobType
        BY <2>1 DEF Queued, JobType
      <4> QED
        BY <2>1, <3>1, <4>1 DEF HandOff
    <3>2. ASSUME NEW j \in Job, \/ CheckRunning(j) \/ Submit(j) \/ BuildOver(j) \/ SessionLost(j)
                                \/ OperatorReleases(j)
          PROVE  Len(job') = Len(job) /\ claim' \in {0, j, claim}
      BY <2>1, <3>2 DEF CheckRunning, Submit, BuildOver, SessionLost, OperatorReleases, SessionGoes
    <3>3. ASSUME NEW j \in Job, \/ Wake(j) \/ RunSession(j) \/ PostReview(j) \/ CopyDies(j)
                                \/ RefuseFix(j) \/ NoFix(j) \/ OpenFix(j)
                                \/ RefuseDevelop(j) \/ AskTeam(j) \/ TeamAnswers(j)
          PROVE  Len(job') = Len(job) /\ claim' = claim
      BY <2>1, <3>3 DEF Wake, RunSession, PostReview, CopyDies, RefuseFix, NoFix, OpenFix,
                        RefuseDevelop, AskTeam, TeamAnswers, CopyBecomes
    <3>4. ASSUME \/ Tick \/ UNCHANGED eventVars \/ \E e \in Event : Expire(e)
                 \/ \E d \in Delivery : \/ Deliver(d) \/ RecordDigest(d) \/ Forget(d) \/ EndpointDies(d)
          PROVE  job' = job /\ claim' = claim
      BY <3>4 DEF Tick, Expire, Deliver, RecordDigest, Forget, EndpointDies, eventVars
    <3>5. Len(job) \in Nat /\ Len(job') \in Nat /\ Job = 1 .. Len(job)
      BY <2>1 DEF Job
    <3>6. Len(job') >= Len(job) /\ (claim' = claim \/ claim' \in 0 .. Len(job))
      <4>1. CASE \E d \in Delivery : HandOff(d)
        BY <3>1, <4>1
      <4>2. CASE \E j \in Job : \/ CheckRunning(j) \/ Submit(j) \/ BuildOver(j) \/ SessionLost(j)
                                \/ OperatorReleases(j)
        <5>1. PICK j \in Job : Len(job') = Len(job) /\ claim' \in {0, j, claim}
          BY <3>2, <4>2
        <5> QED
          BY <5>1, <3>5
      <4>3. CASE \E j \in Job : \/ Wake(j) \/ RunSession(j) \/ PostReview(j) \/ CopyDies(j)
                                \/ RefuseFix(j) \/ NoFix(j) \/ OpenFix(j)
                                \/ RefuseDevelop(j) \/ AskTeam(j) \/ TeamAnswers(j)
        BY <3>3, <3>5, <4>3
      <4> QED
        BY <3>4, <3>5, <4>1, <4>2, <4>3 DEF EventNext
    <3> QED
      BY <2>1, <3>5, <3>6
  <2>6. \A j \in Job' : job'[j] \in JobType
    BY <2>1 DEF Job
  <2> QED
    BY <2>1, <2>3, <2>4, <2>5, <2>6 DEF EventTypeOK, MaxNow, JobType, DeliveryType
<1> QED
  BY <1>1, <1>2, EventInvariant, PTL DEF EventSpec

LEMMA TerminalTyped == TerminalSpec => []TerminalTypeOK
<1>1. TerminalInit => TerminalTypeOK
  <2> SUFFICES ASSUME TerminalInit PROVE TerminalTypeOK
    OBVIOUS
  <2>1. /\ MaxAttempt \in Nat \ {0} /\ MaxOutput \in Nat /\ MaxSize \in Nat
        /\ 1 \in 1 .. MaxAttempt /\ 0 \in 0 .. MaxSize /\ 0 \in 0 .. MaxOutput + 1
    BY TerminalAssumption
  <2>2. {listed, live, shell} \subseteq BOOLEAN
    BY Zenon DEF TerminalInit
  <2>3. watcher \in [Watcher -> [phase : {"none", "open", "closed"},
                                shown : 0 .. MaxOutput + 1, queue : 0 .. MaxOutput + 1]]
    BY <2>1 DEF TerminalInit
  <2> QED
    BY <2>1, <2>2, <2>3, TerminalMarks DEF TerminalInit, TerminalTypeOK, ThreadStage
<1>2. TerminalTypeOK /\ TerminalInv /\ TerminalInv' /\ [TerminalNext]_terminalVars => TerminalTypeOK'
  <2> SUFFICES ASSUME TerminalTypeOK, TerminalInv, TerminalInv', [TerminalNext]_terminalVars
               PROVE  TerminalTypeOK'
    OBVIOUS
  <2>1. /\ MaxAttempt \in Nat \ {0} /\ MaxOutput \in Nat /\ MaxSize \in Nat
        /\ attempt \in 1 .. MaxAttempt /\ measured \in 0 .. MaxSize /\ size \in 0 .. MaxSize
        /\ resizing \in {Absent} \cup 1 .. MaxSize /\ scheduled \in Seq(1 .. MaxSize)
        /\ width \in {Absent} \cup 0 .. MaxSize
        /\ output \in 0 .. MaxOutput + 1 /\ final \in 0 .. MaxOutput + 1
        /\ Absent \in Int /\ Absent \notin Nat /\ Guess = 0
    BY TerminalAssumption, TerminalMarks DEF TerminalTypeOK
  <2> DEFINE Attempts == attempt' \in 1 .. MaxAttempt
             Sizes == /\ measured' \in 0 .. MaxSize /\ resizing' \in {Absent} \cup 1 .. MaxSize
                      /\ scheduled' \in Seq(1 .. MaxSize) /\ width' \in {Absent} \cup 0 .. MaxSize
             Pieces == output' <= MaxOutput + 1
  <2>2. /\ attempt' = attempt => Attempts
        /\ UNCHANGED <<measured, resizing, scheduled, width>> => Sizes
        /\ output' = output => Pieces
        /\ Emit => Pieces
    BY <2>1 DEF Emit
  <2>3. ASSUME \/ OpenTerminal \/ LoopRuns \/ Launch \/ ConnectionFails \/ ShellOpens
               \/ (\E w \in Watcher : Watch(w) \/ Show(w) \/ StreamEnds(w)) \/ UNCHANGED terminalVars
        PROVE  Attempts /\ Sizes /\ Pieces
    <3>1. /\ UNCHANGED <<attempt, measured, resizing, scheduled, width>> /\ output' = output
      BY <2>3 DEF OpenTerminal, LoopRuns, Launch, ConnectionFails, ShellOpens, Watch, Show, StreamEnds,
                  terminalVars, screen, stream
    <3> QED
      BY <2>2, <3>1
  <2>4. ASSUME Output \/ Farewell \/ ShellEnds \/ Complain \/ CloseTerminal
        PROVE  Attempts /\ Sizes /\ Pieces
    <3>1. UNCHANGED <<attempt, measured, resizing, scheduled, width>> /\ (output' = output \/ Emit)
      BY <2>4 DEF Output, Farewell, ShellEnds, Complain, CloseTerminal, screen, stream
    <3> QED
      BY <2>2, <3>1
  <2>5. ASSUME OpenTimesOut PROVE Attempts /\ Sizes /\ Pieces
    <3>1. UNCHANGED <<measured, resizing, scheduled, width>> /\ (output' = output \/ Emit)
      BY <2>5 DEF OpenTimesOut, screen, stream
    <3>2. Attempts
      BY <2>1, <2>5 DEF OpenTimesOut
    <3> QED
      BY <2>2, <3>1, <3>2
  <2>6. ASSUME PassGate \/ Resize \/ ResizeGoesOn \/ ResizeArrives
        PROVE  Attempts /\ Sizes /\ Pieces
    <3>1. attempt' = attempt /\ output' = output
      BY <2>6 DEF PassGate, Resize, ResizeGoesOn, ResizeArrives, stream
    <3>2. ASSUME PassGate PROVE Sizes
      BY <2>1, <3>2 DEF PassGate
    <3>3. ASSUME Resize PROVE Sizes
      BY <2>1, <3>3 DEF Resize
    <3>4. ASSUME ResizeGoesOn PROVE Sizes
      <4>1. resizing \in 1 .. MaxSize /\ (scheduled' = Append(scheduled, resizing) \/ scheduled' = scheduled)
        BY <2>1, <3>4 DEF ResizeGoesOn
      <4>2. Append(scheduled, resizing) \in Seq(1 .. MaxSize)
        BY <2>1, <4>1
      <4>3. scheduled' \in Seq(1 .. MaxSize)
        BY <2>1, <4>1, <4>2
      <4> QED
        BY <2>1, <3>4, <4>3 DEF ResizeGoesOn
    <3>5. ASSUME ResizeArrives PROVE Sizes
      <4>1. Head(scheduled) \in 1 .. MaxSize /\ Tail(scheduled) \in Seq(1 .. MaxSize)
        BY <2>1, <3>5 DEF ResizeArrives
      <4> QED
        BY <2>1, <3>5, <4>1 DEF ResizeArrives
    <3> QED
      BY <2>2, <2>6, <3>1, <3>2, <3>3, <3>4, <3>5
  <2> HIDE DEF Attempts, Sizes, Pieces
  <2>11. Attempts /\ Sizes /\ Pieces
    BY <2>3, <2>4, <2>5, <2>6 DEF TerminalNext
  <2>7. /\ output' \in 0 .. MaxOutput + 1 /\ final' \in 0 .. MaxOutput + 1
        /\ size' = measured' /\ watcher' \in [Watcher -> WatcherType] /\ thread' \in ThreadStage
    BY <2>1, <2>11 DEF Pieces, TerminalInv, TerminalTypes, StreamInv
  <2>8. {listed', live', shell'} \subseteq BOOLEAN
    <3>1. listed' \in BOOLEAN /\ live' \in BOOLEAN /\ shell' \in BOOLEAN
      BY DEF TerminalInv, TerminalTypes
    <3> QED
      BY <3>1
  <2>9. ASSUME NEW w \in Watcher
        PROVE  watcher'[w].shown <= MaxOutput + 1 /\ watcher'[w].queue <= MaxOutput + 1
    <3> DEFINE Before == watcher[w]
               After == watcher'[w]
    <3>1. /\ After.shown \in Nat /\ After.queue \in Nat
          /\ Before.shown \in 0 .. MaxOutput + 1 /\ Before.queue \in 0 .. MaxOutput + 1
      BY <2>7 DEF WatcherType, TerminalTypeOK
    <3>2. CASE After.phase = "open"
      <4>1. After.shown + After.queue = output'
        BY <3>2 DEF TerminalInv, StreamInv
      <4> QED
        BY <2>1, <2>7, <3>1, <4>1
    <3>3. CASE After.phase # "open"
      <4> DEFINE Untouched == After.shown = Before.shown /\ After.queue = Before.queue
      <4>1. watcher' = watcher => Untouched
        OBVIOUS
      <4>2. Emit => Untouched
        BY <3>3 DEF Emit, TerminalTypeOK
      <4>3. ASSUME NEW v \in Watcher, Watch(v) \/ Show(v) \/ StreamEnds(v) PROVE Untouched
        <5>1. watcher \in [Watcher -> [phase : {"none", "open", "closed"},
                                shown : 0 .. MaxOutput + 1, queue : 0 .. MaxOutput + 1]]
          BY DEF TerminalTypeOK
        <5>2. CASE v # w
          BY <4>3, <5>1, <5>2 DEF Watch, Show, StreamEnds
        <5>3. CASE v = w
          BY <3>3, <4>3, <5>1, <5>3 DEF Watch, Show, StreamEnds
        <5> QED
          BY <5>2, <5>3
      <4>4. Untouched
        BY <4>1, <4>2, <4>3 DEF TerminalNext, OpenTerminal, LoopRuns, OpenTimesOut, ShellOpens,
           PassGate, Launch, Output, ShellEnds, Farewell, ConnectionFails, Complain, CloseTerminal,
           Resize, ResizeGoesOn, ResizeArrives, terminalVars, stream
      <4> QED
        BY <3>1, <4>4
    <3> QED
      BY <3>2, <3>3
  <2>10. watcher' \in [Watcher -> [phase : {"none", "open", "closed"},
                                  shown : 0 .. MaxOutput + 1, queue : 0 .. MaxOutput + 1]]
    BY <2>1, <2>7, <2>9 DEF WatcherType
  <2> QED
    BY <2>7, <2>8, <2>10, <2>11 DEF Attempts, Sizes, TerminalTypeOK
<1> QED
  BY <1>1, <1>2, TerminalInvariant, PTL DEF TerminalSpec

(* The conversation's numbers: messages and pending turns stay within their bounds, and     *)
(* whatever names a build names one that was there before.                               *)
CallBounds(a) == a.turn <= MaxTurn /\ a.revises <= Len(build) /\ a.repeats <= Len(build)
LedgerBounds ==
    /\ console \in BOOLEAN
    /\ next <= MaxTurn + 1 /\ Len(pending) <= MaxLedger
    /\ omitted \subseteq Turn /\ resubmitted \subseteq Run
    /\ \A t \in Turn : turn[t].started \subseteq Run
    /\ \A r \in Run : build[r].revises < r /\ build[r].repeats < r
    /\ \A c \in Call : CallBounds(call[c])

LEMMA AskBounded ==
    ASSUME LedgerInv, LedgerBounds, NEW c \in Call, NEW a \in CallType, CallBounds(a),
           call' = [call EXCEPT ![c] = a],
           UNCHANGED <<console, turn, next, pending, omitted, resubmitted, build>>
    PROVE  LedgerBounds'
<1>1. \A d \in Call : call'[d] = a \/ call'[d] = call[d]
  BY DEF LedgerInv, LedgerTypes
<1>2. \A d \in Call : CallBounds(call'[d])
  BY <1>1 DEF LedgerBounds
<1> QED
  BY <1>2 DEF LedgerBounds, CallBounds, Run

LEMMA KickBounded ==
    ASSUME LedgerInv, LedgerBounds, NEW c \in Call, Kick(c)
    PROVE  LedgerBounds'
<1> DEFINE a == call[c]
           new == [turn |-> a.turn, words |-> a.words, preset |-> a.preset,
                   revises |-> a.revises, repeats |-> a.repeats, state |-> "active"]
<1>1. /\ build \in Seq(BuildType) /\ Len(build) \in Nat /\ CallInv(c) /\ a \in CallType
      /\ turn \in [Turn -> TurnType] /\ call \in [Call -> CallType] /\ CallBounds(a)
      /\ \A r \in Run : build[r] \in BuildType
  BY BuiltAreTurns DEF LedgerInv, LedgerTypes, CallsInv, LedgerBounds
<1>2. /\ a # NoCall /\ UNCHANGED <<console, next, pending, omitted>> /\ build' = Append(build, new)
      /\ turn' = [turn EXCEPT ![a.turn].started = @ \cup {Len(build) + 1}]
      /\ resubmitted' = resubmitted \cup ({a.repeats} \ {NoRun})
      /\ call' = [call EXCEPT ![c] = NoCall]
  BY DEF Kick, Admitted
<1>3. a.turn \in Turn
  BY <1>1, <1>2 DEF CallInv
<1>4. /\ new \in BuildType /\ new.revises = a.revises /\ new.repeats = a.repeats
      /\ a.revises \in Nat /\ a.repeats \in Nat /\ a.revises <= Len(build) /\ a.repeats <= Len(build)
  BY <1>1, <1>3 DEF BuildType, CallType, CallBounds
<1> HIDE DEF new
<1>5. /\ Run' = 1 .. Len(build) + 1 /\ Run = 1 .. Len(build) /\ Len(build') = Len(build) + 1
      /\ build'[Len(build) + 1] = new /\ \A r \in Run : build'[r] = build[r]
  BY <1>1, <1>2, <1>4 DEF Run
<1>6. Run \subseteq Run' /\ Len(build) + 1 \in Run'
  BY <1>1, <1>5
<1>7. resubmitted' \subseteq Run'
  BY <1>1, <1>2, <1>4, <1>5, <1>6 DEF LedgerBounds, NoRun
<1>8. ASSUME NEW t \in Turn PROVE turn'[t].started \subseteq Run'
  <2>1. turn[t].started \subseteq Run /\ turn[t] \in TurnType
    BY <1>1 DEF LedgerBounds
  <2>2. CASE t # a.turn
    BY <1>1, <1>2, <1>6, <2>1, <2>2
  <2>3. CASE t = a.turn
    <3>1. turn'[t].started = turn[t].started \cup {Len(build) + 1}
      BY <1>1, <1>2, <2>1, <2>3 DEF TurnType
    <3> QED
      BY <1>6, <2>1, <3>1
  <2> QED
    BY <2>2, <2>3
<1>9. ASSUME NEW r \in Run' PROVE build'[r].revises < r /\ build'[r].repeats < r
  <2>1. r \in Run \/ r = Len(build) + 1
    BY <1>1, <1>5
  <2>2. CASE r \in Run
    BY <1>5, <2>2 DEF LedgerBounds
  <2>3. CASE r = Len(build) + 1
    BY <1>1, <1>4, <1>5, <2>3
  <2> QED
    BY <2>1, <2>2, <2>3
<1>10. ASSUME NEW d \in Call PROVE CallBounds(call[d])'
  <2>1. CallBounds(call[d]) /\ call[d] \in CallType
    BY <1>1 DEF LedgerBounds
  <2>2. \A x \in CallType : CallBounds(x) =>
          x.turn <= MaxTurn /\ x.revises <= Len(build') /\ x.repeats <= Len(build')
    BY <1>1, <1>5 DEF CallBounds, CallType
  <2>3. NoCall.turn = 0 /\ NoCall.revises = 0 /\ NoCall.repeats = 0
    BY DEF NoCall, NoRun
  <2>4. CallBounds(NoCall) /\ NoCall \in CallType
    BY <1>1, <2>3, TurnsCounted, UnbornFacts DEF CallBounds
  <2>5. call'[d] = NoCall \/ call'[d] = call[d]
    BY <1>1, <1>2
  <2> DEFINE x == call'[d]
  <2>6. x \in CallType /\ CallBounds(x)
    BY <2>1, <2>4, <2>5
  <2>7. x.turn <= MaxTurn /\ x.revises <= Len(build') /\ x.repeats <= Len(build')
    BY <2>2, <2>6
  <2> QED
    BY <2>7 DEF CallBounds
<1> QED
  BY <1>2, <1>7, <1>8, <1>9, <1>10 DEF LedgerBounds

LEMMA TurnsBounded ==
    ASSUME LedgerInv, LedgerBounds, NEW t \in Turn, CloseTurn(t) \/ Commit(t) \/ End(t)
    PROVE  LedgerBounds'
<1>1. /\ turn \in [Turn -> TurnType] /\ pending \in Seq(Turn) /\ Len(pending) \in Nat
      /\ MaxLedger \in Nat \ {0} /\ Len(pending) <= MaxLedger
  BY ConversationAssumption DEF LedgerInv, LedgerTypes, LedgerBounds
<1>2. UNCHANGED <<console, next, resubmitted, build, call>> /\ Run' = Run
  BY DEF CloseTurn, Commit, End, Run
<1>3. \A u \in Turn : turn'[u].started = turn[u].started
  <2>1. /\ [turn[t] EXCEPT !.closed = TRUE].started = turn[t].started
        /\ [turn[t] EXCEPT !.committed = TRUE].started = turn[t].started
        /\ [turn[t] EXCEPT !.stage = "over"].started = turn[t].started
    BY <1>1 DEF TurnType
  <2>2. turn' \in {[turn EXCEPT ![t].closed = TRUE], [turn EXCEPT ![t].committed = TRUE],
                  [turn EXCEPT ![t].stage = "over"]}
    BY DEF CloseTurn, Commit, End
  <2> QED
    BY <1>1, <2>1, <2>2
<1>4. Len(pending') <= MaxLedger /\ omitted' \subseteq Turn
  <2>1. CASE pending' = pending /\ omitted' = omitted
    BY <1>1, <2>1 DEF LedgerBounds
  <2>2. CASE pending' = <<>> /\ omitted' = {}
    BY <1>1, <2>2
  <2>3. CASE /\ pending' = Kept(Append(pending, t))
             /\ omitted' = omitted \cup (Elements(Append(pending, t)) \ Elements(Kept(Append(pending, t))))
    <3> DEFINE all == Append(pending, t)
    <3>1. all \in Seq(Turn) /\ Len(all) = Len(pending) + 1 /\ Elements(all) \subseteq Turn
      BY <1>1, ElementsAppended, ElementsKept
    <3> HIDE DEF all
    <3>2. Len(Kept(all)) <= MaxLedger
      <4>1. CASE Len(all) > MaxLedger
        <5>1. all # <<>> /\ Len(Tail(all)) = Len(all) - 1
          BY <1>1, <3>1, <4>1
        <5> QED
          BY <1>1, <3>1, <4>1, <5>1 DEF Kept
      <4>2. CASE ~(Len(all) > MaxLedger)
        BY <1>1, <3>1, <4>2 DEF Kept
      <4> QED
        BY <4>1, <4>2
    <3> QED
      BY <2>3, <3>1, <3>2 DEF LedgerBounds, all
  <2> QED
    BY <2>1, <2>2, <2>3 DEF CloseTurn, Commit, End
<1> QED
  BY <1>2, <1>3, <1>4 DEF LedgerBounds, CallBounds

LEMMA ConversationTyped == ConversationSpec => []ConversationTypeOK
<1>1. ConversationInit => LedgerBounds
  <2> SUFFICES ASSUME ConversationInit PROVE LedgerBounds
    OBVIOUS
  <2>1. /\ next = 1 /\ pending = <<>> /\ build = <<>> /\ console \in BOOLEAN /\ omitted = {}
        /\ resubmitted = {} /\ turn = [t \in Turn |-> Unborn] /\ call = [c \in Call |-> NoCall]
    BY DEF ConversationInit
  <2>2. NoCall.turn = 0 /\ NoCall.revises = 0 /\ NoCall.repeats = 0 /\ Len(build) = 0 /\ Run = {}
    BY <2>1 DEF NoCall, NoRun, Run
  <2>3. \A c \in Call : CallBounds(call[c])
    BY <2>1, <2>2, TurnsCounted DEF CallBounds
  <2> QED
    BY <2>1, <2>2, <2>3, UnbornFacts, ConversationAssumption DEF LedgerBounds
<1>2. LedgerInv /\ LedgerBounds /\ [ConversationNext]_conversationVars => LedgerBounds'
  <2> SUFFICES ASSUME LedgerInv, LedgerBounds, [ConversationNext]_conversationVars PROVE LedgerBounds'
    OBVIOUS
  <2>1. CASE UNCHANGED conversationVars
    BY <2>1 DEF conversationVars, LedgerBounds, CallBounds, Run
  <2>2. ASSUME NEW k \in TurnKind, BeginTurn(k) PROVE LedgerBounds'
    <3>1. /\ turn \in [Turn -> TurnType] /\ next \in Nat \ {0} /\ next <= MaxTurn /\ MaxTurn \in Nat
          /\ next' = next + 1 /\ UNCHANGED <<console, pending, omitted, resubmitted, build, call>>
      BY <2>2, ConversationAssumption DEF BeginTurn, LedgerInv, LedgerTypes
    <3>2. PICK stage \in {"streaming", "refused", "over"} :
            turn' = [turn EXCEPT ![next] = Opened(k, stage)]
      BY <2>2 DEF BeginTurn
    <3>3. Opened(k, stage).started = {}
      BY DEF Opened, Unborn
    <3>4. \A t \in Turn : turn'[t].started = {} \/ turn'[t] = turn[t]
      BY <3>1, <3>2, <3>3
    <3> QED
      BY <3>1, <3>4 DEF LedgerBounds, CallBounds, Run
  <2>3. ASSUME NEW t \in Turn, CloseTurn(t) \/ Commit(t) \/ End(t) PROVE LedgerBounds'
    BY <2>3, TurnsBounded
  <2>4. ASSUME NEW c \in Call, NEW t \in Turn, NEW focused \in BOOLEAN, Ask(c, t, focused)
        PROVE  LedgerBounds'
    <3>0. PICK revised \in 0 .. turn[t].runs : \E preset, words :
            /\ call' = [call EXCEPT ![c] = [turn |-> t, preset |-> preset, revises |-> revised,
                                            repeats |-> NoRun, words |-> words]]
            /\ UNCHANGED <<console, turn, next, pending, omitted, resubmitted, build>>
      BY <2>4 DEF Ask
    <3>1. PICK preset, words :
            /\ call' = [call EXCEPT ![c] = [turn |-> t, preset |-> preset, revises |-> revised,
                                            repeats |-> NoRun, words |-> words]]
            /\ UNCHANGED <<console, turn, next, pending, omitted, resubmitted, build>>
      BY <3>0
    <3> DEFINE a == [turn |-> t, preset |-> preset, revises |-> revised, repeats |-> NoRun,
                     words |-> words]
    <3>2. /\ TurnInv(t) /\ turn[t] \in TurnType /\ Len(build) \in Nat /\ t <= MaxTurn
          /\ call \in [Call -> CallType] /\ call' \in [Call -> CallType]
      BY <2>4, AskKeeps, TurnsCounted DEF LedgerInv, LedgerTypes, TurnsInv, Turn
    <3>3. revised <= Len(build)
      BY <3>2 DEF TurnInv, TurnType
    <3>4. a.turn = t /\ a.revises = revised /\ a.repeats = 0
      BY DEF NoRun
    <3>5. call' = [call EXCEPT ![c] = a]
      BY <3>1
    <3> HIDE DEF a
    <3>6. a \in CallType
      BY <3>2, <3>5
    <3>7. CallBounds(a)
      BY <3>2, <3>3, <3>4 DEF CallBounds
    <3> QED
      BY <3>1, <3>5, <3>6, <3>7, AskBounded
  <2>5. ASSUME NEW c \in Call, NEW t \in Turn, ResubmitRun(c, t) PROVE LedgerBounds'
    <3>1. PICK r \in Run : AskAgain(c, t, r)
      BY <2>5 DEF ResubmitRun
    <3> DEFINE a == [turn |-> t, words |-> build[r].words, preset |-> build[r].preset,
                     revises |-> build[r].revises, repeats |-> r]
    <3>2. /\ call' = [call EXCEPT ![c] = a]
          /\ UNCHANGED <<console, turn, next, pending, omitted, resubmitted, build>>
      BY <3>1 DEF AskAgain
    <3>3. a.turn = t /\ a.revises = build[r].revises /\ a.repeats = r
      OBVIOUS
    <3> HIDE DEF a
    <3>4. /\ Len(build) \in Nat /\ t <= MaxTurn /\ build[r] \in BuildType /\ r <= Len(build) /\ r \in Nat
          /\ build[r].revises < r /\ call \in [Call -> CallType] /\ call' \in [Call -> CallType]
      BY <2>5, AskAgainKeeps, BuiltAreTurns, TurnsCounted
      DEF LedgerInv, LedgerTypes, LedgerBounds, Turn, Run
    <3>5. a \in CallType
      BY <3>2, <3>4
    <3>6. CallBounds(a)
      BY <3>3, <3>4 DEF CallBounds, BuildType
    <3> QED
      BY <3>2, <3>5, <3>6, AskBounded
  <2>6. ASSUME NEW c \in Call, Kick(c) PROVE LedgerBounds'
    BY <2>6, KickBounded
  <2>7. ASSUME NEW c \in Call, KickRefused(c) PROVE LedgerBounds'
    <3>1. Len(build) \in Nat /\ NoCall.turn = 0 /\ NoCall.revises = 0 /\ NoCall.repeats = 0
      BY DEF LedgerInv, LedgerTypes, NoCall, NoRun
    <3>2. NoCall \in CallType /\ CallBounds(NoCall)
      BY <3>1, TurnsCounted, UnbornFacts DEF CallBounds
    <3>3. /\ call' = [call EXCEPT ![c] = NoCall]
          /\ UNCHANGED <<console, turn, next, pending, omitted, resubmitted, build>>
      BY <2>7 DEF KickRefused
    <3> QED
      BY <3>2, <3>3, AskBounded
  <2>8. ASSUME NEW r \in Run, BuildEnds(r) PROVE LedgerBounds'
    <3>1. UNCHANGED <<console, turn, next, pending, omitted, resubmitted, call>>
      BY <2>8 DEF BuildEnds
    <3>2. PICK end \in {"empty", "over"} : build' = [build EXCEPT ![r].state = end]
      BY <2>8 DEF BuildEnds
    <3>3. build \in Seq(BuildType) /\ Len(build) \in Nat /\ build[r] \in BuildType
      BY BuiltAreTurns DEF LedgerInv, LedgerTypes
    <3>4. /\ Run' = Run /\ Len(build') = Len(build)
          /\ \A s \in Run : build'[s].revises = build[s].revises /\ build'[s].repeats = build[s].repeats
      <4>1. /\ [build[r] EXCEPT !.state = end].revises = build[r].revises
            /\ [build[r] EXCEPT !.state = end].repeats = build[r].repeats
        BY <3>3 DEF BuildType
      <4>2. /\ Len(build') = Len(build)
            /\ \A s \in Run : build'[s] = IF s = r THEN [build[r] EXCEPT !.state = end] ELSE build[s]
        BY <3>2, <3>3 DEF Run
      <4> QED
        BY <4>1, <4>2 DEF Run
    <3> QED
      BY <3>1, <3>4 DEF LedgerBounds, CallBounds
  <2> QED
    BY <2>1, <2>2, <2>3, <2>4, <2>5, <2>6, <2>7, <2>8
    DEF ConversationNext, RunBuild, DispatchAgent
<1>3. LedgerInv /\ LedgerBounds => ConversationTypeOK
  <2> SUFFICES ASSUME LedgerInv, LedgerBounds PROVE ConversationTypeOK
    OBVIOUS
  <2>1. /\ turn \in [Turn -> TurnType] /\ next \in Nat \ {0} /\ pending \in Seq(Turn)
        /\ call \in [Call -> CallType] /\ Len(build) \in Nat /\ \A r \in Run : build[r] \in BuildType
    BY BuiltAreTurns DEF LedgerInv, LedgerTypes
  <2>2. turn \in [Turn -> [stage : {"unborn", "streaming", "refused", "over"},
                           kind : TurnKind, prior : Seq(Turn), runs : Nat,
                           started : SUBSET Run, closed : BOOLEAN, committed : BOOLEAN]]
    BY <2>1 DEF TurnType, LedgerBounds
  <2>3. \A r \in Run : build[r] \in [turn : Turn, words : SUBSET Turn, preset : BOOLEAN,
                                     revises : 0 .. r - 1, repeats : 0 .. r - 1,
                                     state : {"active", "empty", "over"}]
    BY <2>1 DEF BuildType, LedgerBounds, Run
  <2>4. call \in [Call -> [turn : 0 .. MaxTurn, words : SUBSET Turn, preset : BOOLEAN,
                           revises : 0 .. Len(build), repeats : 0 .. Len(build)]]
    BY <2>1, ConversationAssumption DEF CallType, LedgerBounds, CallBounds
  <2>5. next \in 1 .. MaxTurn + 1
    BY <2>1, ConversationAssumption DEF LedgerBounds
  <2> QED
    BY <2>1, <2>2, <2>3, <2>4, <2>5 DEF LedgerBounds, ConversationTypeOK
<1> QED
  BY <1>1, <1>2, <1>3, ConversationStart, ConversationStep, PTL DEF ConversationSpec
==============================================================================
