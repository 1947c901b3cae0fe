-------------------------- MODULE WorkspaceSession --------------------------
(***************************************************************************)
(* Stage 1's interactive sessions (interactive-api/interactive_api.py): a      *)
(* session owns a workspace directory and at most one bash on a               *)
(* pseudo-terminal, whose output a reader thread copies into a bounded        *)
(* buffer and a browser stream follows by absolute offset.  Requests are      *)
(* serialised by _LOCK; readers, streams and the terminal's own processes are    *)
(* not.  Descriptor numbers are modelled because the reader thread reads a    *)
(* number and not a file: a job that outlives bash keeps the old reader        *)
(* alive while its number may already belong to the next terminal.            *)
(***************************************************************************)
EXTENDS Integers, Sequences, Functions, FiniteSets

CONSTANTS SessionId,
          MaxShell,     \* bound: terminals opened
          MaxPiece,     \* bound: pieces of output the shells print, together
          Retained,         \* the buffer's 200000 bytes, in pieces
          Descriptor,   \* descriptor numbers
          MaxDirs       \* _MAX_STAGE1_DIRS

ASSUME SessionAssumption ==
    /\ MaxShell \in Nat \ {0} /\ MaxPiece \in Nat /\ Retained \in Nat \ {0} /\ MaxDirs \in Nat
    /\ Descriptor # {}

Shell == 1 .. MaxShell
Nobody == 0             \* no shell
Closed == 0             \* the session of no shell, the shell of a closed descriptor

VARIABLES session,      \* per session: status, Development or role, open folder, _pty
          workspace,    \* sessions whose directory under .runs/stage1 exists
          terminal,     \* per shell: the pseudo-terminal and what runs on it
          reading,      \* per terminal's reader thread: the terminal its read waits on
          descriptor,   \* the terminal each descriptor number stands for
          tab           \* one browser stream

sessionVars == <<session, workspace, terminal, reading, descriptor, tab>>

Piece == Shell \X (1 .. MaxPiece)
Printed == {p \in Piece : p[2] <= terminal[p[1]].printed}

SessionTypeOK ==
    /\ session \in [SessionId -> [status : {"none", "open", "closed"}, dev : BOOLEAN,
                                folder : BOOLEAN, pty : {Nobody} \cup Shell]]
    /\ workspace \subseteq SessionId
    /\ terminal \in [Shell -> [opened : BOOLEAN, number : Descriptor, bash : BOOLEAN,
                            job : BOOLEAN, printed : 0 .. MaxPiece,
                            unread : Seq(1 .. MaxPiece), buf : Seq(Piece),
                            total : 0 .. MaxShell * MaxPiece]]
    /\ reading \in [Shell -> {Nobody} \cup Shell]
    /\ descriptor \in [Descriptor -> {Closed} \cup Shell]
    /\ tab.phase \in {"none", "open", "ended"} /\ tab.session \in SessionId
    /\ tab.since \in {Nobody} \cup Shell /\ tab.shown \subseteq Piece
    /\ tab.sent \in 0 .. MaxShell * MaxPiece

SessionInit ==
    /\ session \in [SessionId -> {[status |-> "none", dev |-> d, folder |-> TRUE,
                                 pty |-> Nobody] : d \in BOOLEAN}]
    /\ workspace = {}
    /\ terminal = [n \in Shell |->
         [opened |-> FALSE, number |-> CHOOSE d \in Descriptor : TRUE, bash |-> FALSE,
          job |-> FALSE, printed |-> 0, unread |-> <<>>, buf |-> <<>>, total |-> 0]]
    /\ reading = [n \in Shell |-> Nobody]
    /\ descriptor = [d \in Descriptor |-> Closed]
    /\ \E s \in SessionId : tab = [phase |-> "none", session |-> s, since |-> Nobody,
                                 sent |-> 0, shown |-> {}]

----------------------------------------------------------------------------
(* Requests, each under _LOCK.                                              *)

(* _new_session: the oldest directories beyond the cap go first, whichever    *)
(* sessions they belong to; a role session then gets its own.               *)
NewSession(s) ==
    /\ session[s].status = "none"
    /\ session' = [session EXCEPT ![s].status = "open"]
    /\ \E kept \in SUBSET workspace :
         /\ IF Cardinality(workspace) <= MaxDirs THEN kept = workspace
            ELSE Cardinality(kept) = MaxDirs
         /\ workspace' = IF session[s].dev THEN kept ELSE kept \cup {s}
    /\ UNCHANGED <<terminal, reading, descriptor, tab>>

(* _pty_close: bash's process group is killed and waited for, then the         *)
(* descriptor is closed.  A job of its own process group lives on.            *)
ShellsClosed(s) ==
    IF session[s].pty = Nobody THEN terminal
    ELSE [terminal EXCEPT ![session[s].pty].bash = FALSE]
DescriptorsClosed(s) ==
    IF session[s].pty = Nobody THEN descriptor
    ELSE [descriptor EXCEPT ![terminal[session[s].pty].number] = Closed]

\* Slip: the next terminal replaces the one before without closing it.
PtyOpenOver(s) ==
    /\ session[s].status = "open" /\ session[s].folder
    /\ \E n \in Shell, d \in Descriptor :
         /\ ~terminal[n].opened /\ \A m \in 1 .. n - 1 : terminal[m].opened
         /\ descriptor[d] = Closed
         /\ terminal' = [terminal EXCEPT ![n].opened = TRUE, ![n].number = d, ![n].bash = TRUE]
         /\ descriptor' = [descriptor EXCEPT ![d] = n]
         /\ reading' = [reading EXCEPT ![n] = n]
         /\ session' = [session EXCEPT ![s].pty = n]
    /\ UNCHANGED <<workspace, tab>>

(* _pty_open: whatever ran is closed, then a bash gets a terminal on any free  *)
(* descriptor number and a reader thread.                                    *)
PtyOpen(s) ==
    /\ session[s].status = "open" /\ session[s].folder
    /\ \E n \in Shell, d \in Descriptor :
         /\ ~terminal[n].opened /\ \A m \in 1 .. n - 1 : terminal[m].opened
         /\ DescriptorsClosed(s)[d] = Closed
         /\ terminal' = [ShellsClosed(s) EXCEPT ![n].opened = TRUE, ![n].number = d,
                                             ![n].bash = TRUE]
         /\ descriptor' = [DescriptorsClosed(s) EXCEPT ![d] = n]
         /\ reading' = [reading EXCEPT ![n] = n]
         /\ session' = [session EXCEPT ![s].pty = n]
    /\ UNCHANGED <<workspace, tab>>

(* _open_folder: the shell is closed, to start again in the new directory; no  *)
(* path closes the folder.                                                  *)
OpenFolder(s) ==
    /\ session[s].status = "open" /\ session[s].dev
    /\ \E f \in BOOLEAN : session' = [session EXCEPT ![s].folder = f, ![s].pty = Nobody]
    /\ terminal' = ShellsClosed(s) /\ descriptor' = DescriptorsClosed(s)
    /\ UNCHANGED <<workspace, reading, tab>>

\* Slip: closing the session leaves its shell.
CloseSessionOnly(s) ==
    /\ session[s].status # "none"
    /\ session' = [session EXCEPT ![s].status = "closed"]
    /\ UNCHANGED <<workspace, terminal, descriptor, reading, tab>>

(* DELETE: the record stays, closed.                                        *)
CloseSession(s) ==
    /\ session[s].status # "none"
    /\ session' = [session EXCEPT ![s].status = "closed", ![s].pty = Nobody]
    /\ terminal' = ShellsClosed(s) /\ descriptor' = DescriptorsClosed(s)
    /\ UNCHANGED <<workspace, reading, tab>>

----------------------------------------------------------------------------
(* What runs on a terminal.                                                 *)

Runs(n) == terminal[n].bash \/ terminal[n].job

Prints(n) ==
    /\ Runs(n) /\ Cardinality(Printed) < MaxPiece
    /\ terminal' = [terminal EXCEPT ![n].printed = @ + 1,
                              ![n].unread = Append(@, terminal[n].printed + 1)]
    /\ UNCHANGED <<session, workspace, reading, descriptor, tab>>

StartJob(n) ==
    /\ terminal[n].bash /\ ~terminal[n].job
    /\ terminal' = [terminal EXCEPT ![n].job = TRUE]
    /\ UNCHANGED <<session, workspace, reading, descriptor, tab>>

EndJob(n) ==
    /\ terminal[n].job
    /\ terminal' = [terminal EXCEPT ![n].job = FALSE]
    /\ UNCHANGED <<session, workspace, reading, descriptor, tab>>

ExitBash(n) ==
    /\ terminal[n].bash
    /\ terminal' = [terminal EXCEPT ![n].bash = FALSE]
    /\ UNCHANGED <<session, workspace, reading, descriptor, tab>>

----------------------------------------------------------------------------
(* The reader thread of shell n: the read under way keeps its terminal; the    *)
(* next one goes to whatever the number stands for by then.                  *)

From(pieces, start) == SubSeq(pieces, start + 1, Len(pieces))
Retain(pieces) == IF Len(pieces) > Retained THEN From(pieces, Len(pieces) - Retained) ELSE pieces

\* Slip: the offset is the buffer's length, which stops growing.
ReadMoreCapped(n) ==
    LET k == reading[n]
    IN /\ k # Nobody /\ terminal[k].unread # <<>>
       /\ LET buf == Retain(Append(terminal[n].buf, <<k, Head(terminal[k].unread)>>))
          IN terminal' = [terminal EXCEPT ![k].unread = Tail(@), ![n].buf = buf,
                                    ![n].total = Len(buf)]
       /\ reading' = [reading EXCEPT ![n] = descriptor[terminal[n].number]]
       /\ UNCHANGED <<session, workspace, descriptor, tab>>

ReadMore(n) ==
    LET k == reading[n]
    IN /\ k # Nobody /\ terminal[k].unread # <<>>
       /\ terminal' = [terminal EXCEPT
                      ![k].unread = Tail(@),
                      ![n].buf = Retain(Append(@, <<k, Head(terminal[k].unread)>>)),
                      ![n].total = @ + 1]
       /\ reading' = [reading EXCEPT ![n] = descriptor[terminal[n].number]]
       /\ UNCHANGED <<session, workspace, descriptor, tab>>

ReadEnds(n) ==
    /\ reading[n] # Nobody /\ terminal[reading[n]].unread = <<>> /\ ~Runs(reading[n])
    /\ reading' = [reading EXCEPT ![n] = Nobody]
    /\ UNCHANGED <<session, workspace, terminal, descriptor, tab>>

----------------------------------------------------------------------------
(* pty_stream_async, one tick at a time and without _LOCK.                    *)

Follow ==
    /\ tab.phase = "none" /\ session[tab.session].status # "none"
    /\ tab' = [tab EXCEPT !.phase = "open", !.since = session[tab.session].pty]
    /\ UNCHANGED <<session, workspace, terminal, reading, descriptor>>

StreamTick ==
    LET n == session[tab.session].pty
        start == IF tab.sent > terminal[n].total - Len(terminal[n].buf)
                 THEN tab.sent - (terminal[n].total - Len(terminal[n].buf)) ELSE 0
    IN /\ tab.phase = "open"
       /\ IF n = Nobody THEN tab' = [tab EXCEPT !.phase = "ended"]
          ELSE tab' = [tab EXCEPT
                 !.shown = IF terminal[n].total > tab.sent
                           THEN @ \cup Range(From(terminal[n].buf, start)) ELSE @,
                 !.sent = IF terminal[n].total > @ THEN terminal[n].total ELSE @,
                 !.phase = IF terminal[n].bash THEN @ ELSE "ended"]
       /\ UNCHANGED <<session, workspace, terminal, reading, descriptor>>

SessionNext ==
    \/ \E s \in SessionId : NewSession(s) \/ PtyOpen(s) \/ OpenFolder(s) \/ CloseSession(s)
    \/ \E n \in Shell : Prints(n) \/ StartJob(n) \/ EndJob(n) \/ ExitBash(n)
                        \/ ReadMore(n) \/ ReadEnds(n)
    \/ Follow \/ StreamTick

SessionSpec == SessionInit /\ [][SessionNext]_sessionVars

----------------------------------------------------------------------------
(* Properties.                                                              *)

(* No shell outlives its place: a bash that runs is the terminal of an open    *)
(* session, and every descriptor stands for such a terminal.                  *)
ShellsHaveSessions ==
    /\ \A n \in Shell : terminal[n].bash =>
         \E s \in SessionId : session[s].status = "open" /\ session[s].pty = n
    /\ \A d \in Descriptor : descriptor[d] # Closed =>
         \E s \in SessionId : session[s].status = "open" /\ session[s].pty = descriptor[d]

(* A stream that follows one shell has shown everything the buffer holds up to *)
(* the offset it reached, and nothing another shell printed, also when a job    *)
(* that outlived its bash keeps an older reader thread alive.                  *)
FollowerMissesNothing ==
    LET n == session[tab.session].pty
    IN tab.phase # "none" /\ n # Nobody /\ tab.since = n
       => /\ tab.sent = terminal[n].total => Range(terminal[n].buf) \subseteq tab.shown
          /\ tab.shown \subseteq {p \in Piece : p[1] = n}

(* A shell, its session and the browser that follows it stay together.        *)
ShellsAreFollowed == ShellsHaveSessions /\ FollowerMissesNothing
==============================================================================
