------------------------------ MODULE RunRecords ------------------------------
(***************************************************************************)
(* The saved records of runs (run_store.py): the process that has a run saves   *)
(* it again and again, to its own disk and, in a coordinator's microVM, to a     *)
(* mirror in S3, and others read what they find: a status, a history, a watcher, *)
(* and the strict reader that a GitHub event asks whether a build is active.    *)
(*                                                                           *)
(* A run still active has a heartbeat that saves beside its worker, once in a    *)
(* unit of time at most; a record older than StaleAfter units is stale.  What a saved       *)
(* result says beyond its status is left out, and so are the saves a worker     *)
(* repeats after its verdict (RunLifecycle has them).                         *)
(***************************************************************************)
EXTENDS Integers, FiniteSets

CONSTANTS MaxRun,      \* runs 1..MaxRun, in the order a listing of the mirror has them
          MaxTime,     \* when the clock stops
          StaleAfter, Slack,   \* ACTIVE_STALE_AFTER_S, _ACTIVE_SKEW_SLACK_S
          Skew,        \* how far S3's clock is behind
          Keep,        \* _MAX_STATE_FILES
          MaxFault     \* local and mirror writes that fail

ASSUME RecordAssumption ==
    /\ MaxRun \in Nat \ {0} /\ MaxTime \in Nat /\ StaleAfter \in Nat
    /\ Skew \in Nat /\ Slack \in Nat /\ Skew <= Slack
    /\ Keep \in Nat \ {0} /\ MaxFault \in Nat

VARIABLES
    instant,
    place,     \* where each run executes
    worker,    \* how far each run is
    registry,     \* each process's registry (ENGINE)
    saver,     \* the two threads that save each run
    disk,      \* each host's state directory
    mirror,    \* the S3 copy
    pulse,     \* when the last save of each run that nothing spoiled was begun
    fault,     \* how many writes failed
    reader     \* a read under way

recordVars == <<instant, place, worker, registry, saver, disk, mirror, pulse, fault, reader>>

SavedRun == 1..MaxRun
Time == 0..MaxTime
Coordinator == {"session", "sibling"}     \* microVMs
Host == Coordinator \cup {"box"}          \* and the console's box
SaverThread == {"worker", "heartbeat"}

SavedResult == [over : BOOLEAN, saved : Time, modified : -Skew..MaxTime]
NotSaved == [over |-> FALSE, saved |-> 0, modified |-> -Skew - 1]
Never == -StaleAfter - 1
Resting == [pc |-> "idle", over |-> FALSE, saved |-> 0, whole |-> TRUE]
NoCandidate == [at |-> "none", modified |-> 0, record |-> NotSaved]
NoReader == [kind |-> "none", host |-> "box", mirrored |-> FALSE, run |-> 1, pc |-> "idle",
             stamp |-> 0, since |-> 0, pulse |-> [r \in SavedRun |-> Never], page |-> 1,
             found |-> [r \in SavedRun |-> NoCandidate], read |-> [r \in SavedRun |-> NotSaved],
             whole |-> TRUE]

Kind == {"load", "list", "active"}

RecordTypeOK ==
    /\ instant \in Time /\ fault \in 0..MaxFault
    /\ place \in [SavedRun -> Host]
    /\ worker \in [SavedRun -> {"unborn", "running", "settled", "killed"}]
    /\ registry \in [Host -> SUBSET SavedRun]
    /\ saver \in [SavedRun -> [SaverThread -> [pc : {"idle", "built", "written"}, over : BOOLEAN,
                                          saved : Time, whole : BOOLEAN]]]
    /\ disk \in [Host -> [SavedRun -> SavedResult \cup {NotSaved}]]
    /\ mirror \in [SavedRun -> SavedResult \cup {NotSaved}]
    /\ pulse \in [SavedRun -> Time \cup {Never}]
    /\ reader.kind \in Kind \cup {"none"}
    /\ reader.pc \in {"idle", "local", "mirror", "page", "fetch"}
    /\ reader.found \in [SavedRun -> [at : {"none", "disk", "mirror"}, modified : -Skew..MaxTime,
                                 record : SavedResult \cup {NotSaved}]]

RecordInit ==
    /\ instant = 0 /\ fault = 0
    /\ place \in [SavedRun -> Host]
    /\ worker = [r \in SavedRun |-> "unborn"] /\ registry = [h \in Host |-> {}]
    /\ saver = [r \in SavedRun |-> [t \in SaverThread |-> Resting]]
    /\ disk = [h \in Host |-> [r \in SavedRun |-> NotSaved]]
    /\ mirror = [r \in SavedRun |-> NotSaved]
    /\ pulse = [r \in SavedRun |-> Never]
    /\ reader = NoReader

-----------------------------------------------------------------------------
(* The process that has the run.                                             *)

Running(r) == worker[r] = "running"
Build(r, t, over) ==
    saver' = [saver EXCEPT ![r][t] = [Resting EXCEPT !.pc = "built", !.over = over]]
(* A heartbeat waits a unit; a worker saves where it has something to say.      *)
Paused(r, t, at) == [Resting EXCEPT !.saved = IF t = "heartbeat" THEN at ELSE 0]

(* The first save is made before the worker starts.                           *)
SubmitRun(r) ==
    /\ worker[r] = "unborn"
    /\ worker' = [worker EXCEPT ![r] = "running"]
    /\ registry' = [registry EXCEPT ![place[r]] = @ \cup {r}]
    /\ Build(r, "worker", FALSE)
    /\ UNCHANGED <<instant, place, disk, mirror, pulse, fault, reader>>

Beat(r) ==
    /\ Running(r)
    /\ saver[r]["heartbeat"].pc = "idle" /\ saver[r]["heartbeat"].saved < instant
    /\ Build(r, "heartbeat", FALSE)
    /\ UNCHANGED <<instant, place, worker, registry, disk, mirror, pulse, fault, reader>>

SettleRun(r) ==
    /\ Running(r) /\ saver[r]["worker"].pc = "idle"
    /\ worker' = [worker EXCEPT ![r] = "settled"]
    /\ Build(r, "worker", TRUE)
    /\ UNCHANGED <<instant, place, registry, disk, mirror, pulse, fault, reader>>

Saving(h) == \E r \in SavedRun, t \in SaverThread : place[r] = h /\ saver[r][t].pc = "written"
Faulty(bad) == /\ bad => fault < MaxFault
               /\ fault' = IF bad THEN fault + 1 ELSE fault

(* All but the newest files are deleted.                                      *)
Newer(files, r) ==
    {q \in SavedRun : /\ files[q] # NotSaved
                      /\ \/ files[q].modified > files[r].modified
                         \/ files[q].modified = files[r].modified /\ q > r}
Prune(files) ==
    [r \in SavedRun |-> IF Cardinality(Newer(files, r)) < Keep THEN files[r] ELSE NotSaved]

(* The local copy, written under the engine's lock (_persist_lock) in one       *)
(* replacement, unless the disk refuses.                                      *)
WriteLocally(r, t, bad) ==
    LET h == place[r]
        row == [over |-> saver[r][t].over, saved |-> instant, modified |-> instant]
    IN  /\ saver[r][t].pc = "built" /\ ~Saving(h)
        /\ Faulty(bad)
        /\ disk' = IF bad THEN disk ELSE [disk EXCEPT ![h] = Prune([@ EXCEPT ![r] = row])]
        /\ saver' = [saver EXCEPT ![r][t] = IF h \in Coordinator
              THEN [@ EXCEPT !.pc = "written", !.saved = instant, !.whole = ~bad]
              ELSE Paused(r, t, instant)]
        /\ pulse' = IF h \in Coordinator \/ bad THEN pulse ELSE [pulse EXCEPT ![r] = instant]
        /\ UNCHANGED <<instant, place, worker, registry, mirror, reader>>

(* The mirror's copy: S3 stamps it with a clock of its own.  A put that fails   *)
(* is given up.                                                              *)
Mirror(r, t, bad) ==
    LET s == saver[r][t]
        row == [over |-> s.over, saved |-> s.saved, modified |-> instant - Skew]
    IN  /\ s.pc = "written"
        /\ Faulty(bad)
        /\ mirror' = IF bad THEN mirror ELSE [mirror EXCEPT ![r] = row]
        /\ pulse' = IF s.whole /\ ~bad THEN [pulse EXCEPT ![r] = s.saved] ELSE pulse
        /\ saver' = [saver EXCEPT ![r][t] = Paused(r, t, instant)]
        /\ UNCHANGED <<instant, place, worker, registry, disk, reader>>

(* The process stops.  A microVM's disk goes with it; the box keeps its own.    *)
Recycle(h) ==
    /\ registry[h] # {}
    /\ registry' = [registry EXCEPT ![h] = {}]
    /\ worker' = [r \in SavedRun |-> IF r \in registry[h] /\ Running(r) THEN "killed"
                                     ELSE worker[r]]
    /\ saver' = [r \in SavedRun |-> IF r \in registry[h] THEN [t \in SaverThread |-> Resting]
                                    ELSE saver[r]]
    /\ disk' = IF h \in Coordinator THEN [disk EXCEPT ![h] = [r \in SavedRun |-> NotSaved]]
               ELSE disk
    /\ reader' = IF reader.host = h THEN NoReader ELSE reader
    /\ UNCHANGED <<instant, place, mirror, pulse, fault>>

(* A read lasts no longer than a unit.                                        *)
UnitPasses ==
    /\ instant < MaxTime
    /\ reader.pc # "idle" => reader.stamp = instant
    /\ instant' = instant + 1
    /\ UNCHANGED <<place, worker, registry, saver, disk, mirror, pulse, fault, reader>>

-----------------------------------------------------------------------------
(* Reads of one run's record.                                                *)

IsStale(record, now) == ~record.over /\ now - record.saved > StaleAfter

(* An active record that stopped receiving heartbeats is an interruption.       *)
AsRead(record, now) == IF record.over THEN "over"
                       ELSE IF IsStale(record, now) THEN "interrupted" ELSE "active"

Opens(kind, h, mirrored, r, pc) ==
    /\ reader.pc = "idle"
    /\ reader' = [NoReader EXCEPT !.kind = kind, !.host = h, !.mirrored = mirrored, !.run = r,
                                  !.pc = pc, !.stamp = instant, !.pulse[r] = pulse[r]]
    /\ UNCHANGED <<instant, place, worker, registry, saver, disk, mirror, pulse, fault>>

(* A process answers for the runs it has itself, and looks for others where it   *)
(* can; a tool on the box reads the mirror too if it can tell where it is.      *)
RunStatus(h, r) == r \notin registry[h] /\ Opens("load", h, h \in Coordinator, r, "local")
MayResubmit(h, r) == r \notin registry[h] /\ Opens("load", h, h \in Coordinator, r, "local")
HistoryResponse(r) == r \notin registry["box"] /\ Opens("load", "box", FALSE, r, "local")
OneRun(r, mirrored) == Opens("load", "box", mirrored, r, "local")
WatchFrame(r, mirrored) == Opens("load", "box", mirrored, r, "local")

LocalCopy == disk[reader.host][reader.run]
AtHand == IF reader.pc = "local" THEN LocalCopy ELSE mirror[reader.run]

(* Local first, then the mirror.                                             *)
LoadAnswers ==
    /\ reader.pc \in {"local", "mirror"} /\ AtHand # NotSaved
    /\ reader' = NoReader
    /\ UNCHANGED <<instant, place, worker, registry, saver, disk, mirror, pulse, fault>>

LoadMisses ==
    /\ (reader.pc = "local" /\ LocalCopy = NotSaved) \/ reader.pc = "mirror"
    /\ reader' = IF reader.pc = "local" /\ reader.mirrored THEN [reader EXCEPT !.pc = "mirror"]
                 ELSE NoReader
    /\ UNCHANGED <<instant, place, worker, registry, saver, disk, mirror, pulse, fault>>

-----------------------------------------------------------------------------
(* Reads of them all: recent, which skips what it cannot read, and active_runs, *)
(* which is for a decision and raises instead.                                *)

(* Slip: the two clocks are one.                                             *)
TightHorizon == instant - StaleAfter

Horizon == instant - StaleAfter - Slack

LocalFiles(h, since) ==
    [r \in SavedRun |-> IF disk[h][r] # NotSaved /\ disk[h][r].modified >= since
                   THEN [at |-> "disk", modified |-> disk[h][r].modified, record |-> disk[h][r]]
                   ELSE NoCandidate]

OpensAll(kind, h, mirrored, since) ==
    /\ reader.pc = "idle"
    /\ reader' = [NoReader EXCEPT !.kind = kind, !.host = h, !.mirrored = mirrored,
                                  !.pc = IF mirrored THEN "page" ELSE "fetch", !.since = since,
                                  !.stamp = instant, !.pulse = pulse, !.found = LocalFiles(h, since)]
    /\ UNCHANGED <<instant, place, worker, registry, saver, disk, mirror, pulse, fault>>

(* The strict reader is for a process that has no active run itself, and that    *)
(* has a mirror.                                                             *)
ActiveRuns(h) == /\ h \in Coordinator /\ \A r \in registry[h] : ~Running(r)
                 /\ OpensAll("active", h, TRUE, Horizon)
RecentRuns(h, mirrored) == OpensAll("list", h, mirrored, -Skew)
ListRuns(h) == RecentRuns(h, h \in Coordinator)
ActiveDuplicate(h) == (\A r \in registry[h] : ~Running(r)) /\ RecentRuns(h, h \in Coordinator)
LastRuns(mirrored) == RecentRuns("box", mirrored)

(* A page of the listing: what it shows is taken if it is newer than the copy    *)
(* here.                                                                     *)
Page ==
    LET r == reader.page
        shown == mirror[r]
        better == /\ shown # NotSaved /\ shown.modified >= reader.since
                  /\ reader.found[r].at = "none" \/ shown.modified > reader.found[r].modified
    IN  /\ reader.pc = "page"
        /\ reader' = [reader EXCEPT
              !.found[r] = IF better THEN [at |-> "mirror", modified |-> shown.modified,
                                           record |-> NotSaved]
                           ELSE @,
              !.page = IF r < MaxRun THEN r + 1 ELSE r,
              !.pc = IF r < MaxRun THEN "page" ELSE "fetch"]
        /\ UNCHANGED <<instant, place, worker, registry, saver, disk, mirror, pulse, fault>>

PageFails ==
    /\ reader.pc = "page"
    /\ reader' = IF reader.kind = "active" THEN NoReader
                 ELSE [reader EXCEPT !.pc = "fetch", !.whole = FALSE]
    /\ UNCHANGED <<instant, place, worker, registry, saver, disk, mirror, pulse, fault>>

(* The newest first; recent read the local ones as it listed them.               *)
Newest ==
    {r \in SavedRun : /\ reader.found[r].at # "none"
                      /\ \A q \in SavedRun : \/ reader.found[q].at = "none"
                                             \/ reader.found[q].modified <= reader.found[r].modified}
Body(r) == IF reader.found[r].at = "mirror" THEN mirror[r]
           ELSE IF reader.kind = "active" THEN disk[reader.host][r]
           ELSE reader.found[r].record

FetchRecord(r) ==
    /\ reader.pc = "fetch" /\ r \in Newest
    /\ reader' = [reader EXCEPT !.found[r] = NoCandidate, !.read[r] = Body(r)]
    /\ UNCHANGED <<instant, place, worker, registry, saver, disk, mirror, pulse, fault>>

FetchRecordFails(r) ==
    /\ reader.pc = "fetch" /\ r \in Newest /\ reader.found[r].at = "mirror"
    /\ reader' = IF reader.kind = "active" THEN NoReader
                 ELSE [reader EXCEPT !.found[r] = NoCandidate, !.whole = FALSE]
    /\ UNCHANGED <<instant, place, worker, registry, saver, disk, mirror, pulse, fault>>

(* All is read: the answer is told (Answer, below).                            *)
AnswerAll ==
    /\ reader.pc = "fetch" /\ Newest = {}
    /\ reader' = NoReader
    /\ UNCHANGED <<instant, place, worker, registry, saver, disk, mirror, pulse, fault>>

RecordNext ==
    \/ \E r \in SavedRun : SubmitRun(r) \/ Beat(r) \/ SettleRun(r) \/ HistoryResponse(r)
                            \/ FetchRecord(r) \/ FetchRecordFails(r)
    \/ \E r \in SavedRun, t \in SaverThread, bad \in BOOLEAN :
          WriteLocally(r, t, bad) \/ Mirror(r, t, bad)
    \/ \E h \in Host : Recycle(h) \/ ActiveRuns(h) \/ ListRuns(h) \/ ActiveDuplicate(h)
    \/ \E h \in Host, r \in SavedRun : RunStatus(h, r) \/ MayResubmit(h, r)
    \/ \E r \in SavedRun, m \in BOOLEAN : OneRun(r, m) \/ WatchFrame(r, m) \/ LastRuns(m)
    \/ LoadAnswers \/ LoadMisses \/ Page \/ PageFails \/ AnswerAll \/ UnitPasses

-----------------------------------------------------------------------------
(* What a read that has all it needs would answer of a run now.  A list shows    *)
(* the runs it has read as they are now, active_runs as they were when it began.  *)
CanAnswer == \/ reader.pc \in {"local", "mirror"} /\ AtHand # NotSaved
             \/ reader.pc = "fetch" /\ Newest = {}
Answer(r) ==
    LET now == IF reader.kind = "active" THEN reader.stamp ELSE instant
        record == IF reader.pc = "fetch" THEN reader.read[r]
                  ELSE IF reader.run = r THEN AtHand ELSE NotSaved
    IN  IF record = NotSaved THEN "none" ELSE AsRead(record, now)

(* A watcher stops at what the record itself says, and otherwise looks again.   *)
StopsWatching == AtHand.over

(* Whether a run was saved, everywhere it is saved and before the read began,    *)
(* recently enough at t, and is still running.                                *)
Healthy(r, t) == Running(r) /\ t - reader.pulse[r] <= StaleAfter

(* As many others as are kept were saved since, on the same disk.               *)
Crowded(r) ==
    LET since == {q \in SavedRun \ {r} : place[q] = "box" /\ reader.pulse[q] >= reader.pulse[r]}
    IN  place[r] = "box" /\ Keep <= Cardinality(since)

(* Who may see a run: whoever shares its disk or its mirror.                   *)
Reachable(r) == place[r] = reader.host \/ (place[r] \in Coordinator /\ reader.mirrored)

(* Of a run that is running and whose heartbeats arrive nobody says that it was  *)
(* interrupted (a participant told so submits it again), whatever copy is read;  *)
(* a read of them all that nothing failed shows it, and the strict one never      *)
(* answers without it, however pages, saves and clocks fall; and a watcher stops *)
(* only once the run has its verdict.                                         *)
ReadsAreHonest ==
    /\ CanAnswer => \A r \in SavedRun :
          /\ Healthy(r, instant) => reader.kind = "active" \/ Answer(r) # "interrupted"
          /\ reader.kind = "list" /\ reader.whole /\ Healthy(r, instant) /\ Reachable(r) =>
                Answer(r) = "active" \/ Crowded(r)
          /\ reader.kind = "active" /\ Healthy(r, reader.stamp) /\ place[r] \in Coordinator =>
                Answer(r) = "active"
    /\ CanAnswer /\ reader.kind = "load" /\ StopsWatching => worker[reader.run] = "settled"

RecordSpec == RecordInit /\ [][RecordNext]_recordVars

==============================================================================
