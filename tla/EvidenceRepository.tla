------------------------ MODULE EvidenceRepository ------------------------
(***************************************************************************)
(* The scratch repository that holds one evidence commit of each run          *)
(* (Engine._compose_commit): threads of one process take a lease, which the     *)
(* next takes from a holder that seems stuck, and processes a lock on a file.   *)
(* Each git command is a step; any of them may fail, and a process may stop.   *)
(*                                                                           *)
(* A run's deliverable is two files: one that every run has, with contents of   *)
(* its own, and one that only it has.                                         *)
(***************************************************************************)
EXTENDS FiniteSets

CONSTANTS Composer,  \* the runs that record their evidence
          Local,     \* those of one process; the others are another's
          NoComposer

ASSUME EvidenceAssumption == Local \subseteq Composer /\ NoComposer \notin Composer

VARIABLES
    lease,     \* each process's _COMPOSE_LEASE: its owner
    lock,      \* compose.lock: who holds it
    scratch,   \* the repository: branch checked out, files in the tree and in the index,
               \* and whether a killed command left the index locked
    branches,  \* the files of each run's branch
    composer   \* where each run is, and the files of the commit it recorded

evidenceVars == <<lease, lock, scratch, branches, composer>>

ComposerProcess == {"local", "other"}
ProcessOf(r) == IF r \in Local THEN "local" ELSE "other"
Working == {"reset", "clean", "checkout", "sweep", "copy1", "copy2", "add", "commit", "record"}
ComposerPhase == Working \cup {"idle", "leased", "unlock", "done", "unlock_failed", "failed",
                              "stopped"}

(* A file: whose it is, and whether every run has one of its name.            *)
File == [of : Composer, shared : BOOLEAN]
Deliverable(r) == [of : {r}, shared : BOOLEAN]
NoEvidence == {[of |-> NoComposer, shared |-> FALSE]}   \* no commit recorded
SameName(f, g) == f.shared = g.shared /\ (f.shared \/ f.of = g.of)

EvidenceTypeOK ==
    /\ lease \in [ComposerProcess -> Composer \cup {NoComposer}]
    /\ lock \in Composer \cup {NoComposer}
    /\ scratch.head \in Composer \cup {NoComposer}
    /\ scratch.tree \subseteq File /\ scratch.index \subseteq File
    /\ scratch.locked \in BOOLEAN
    /\ branches \in [Composer -> SUBSET File]
    /\ composer \in [Composer -> [pc : ComposerPhase, recorded : (SUBSET File) \cup {NoEvidence}]]

EvidenceInit ==
    /\ lease = [p \in ComposerProcess |-> NoComposer]
    /\ lock = NoComposer
    /\ scratch = [head |-> NoComposer, tree |-> {}, index |-> {}, locked |-> FALSE]
    /\ branches = [r \in Composer |-> {}]
    /\ composer = [r \in Composer |-> [pc |-> "idle", recorded |-> NoEvidence]]

-----------------------------------------------------------------------------
At(r, pc) == composer[r].pc = pc
Then(r, pc) == composer' = [composer EXCEPT ![r].pc = pc]
Named(f, files) == {g \in files : SameName(f, g)}
Untracked == {f \in scratch.tree : Named(f, scratch.index) = {}}
HeadFiles == IF scratch.head = NoComposer THEN {} ELSE branches[scratch.head]

(* The lease is free, or its holder has had it for too long.                  *)
TakeLease(r) ==
    /\ At(r, "idle")
    /\ lease' = [lease EXCEPT ![ProcessOf(r)] = r]
    /\ Then(r, "leased")
    /\ UNCHANGED <<lock, scratch, branches>>

ReleasedLease(r) == [lease EXCEPT ![ProcessOf(r)] = IF @ = r THEN NoComposer ELSE @]

(* Slip: the lease alone is trusted.                                         *)
LeaseSuffices(r) ==
    /\ At(r, "leased")
    /\ lock' = r
    /\ Then(r, "reset")
    /\ UNCHANGED <<lease, scratch, branches>>

TakeLock(r) ==
    /\ At(r, "leased") /\ lock = NoComposer
    /\ lock' = r
    /\ Then(r, "reset")
    /\ UNCHANGED <<lease, scratch, branches>>

LockTimesOut(r) ==
    /\ At(r, "leased") /\ lock # NoComposer
    /\ lease' = ReleasedLease(r)
    /\ Then(r, "failed")
    /\ UNCHANGED <<lock, scratch, branches>>

(* Slip: the tree is left as the last composer left it.                       *)
NoReset(r) ==
    /\ At(r, "reset")
    /\ Then(r, "clean")
    /\ UNCHANGED <<lease, lock, scratch, branches>>

(* reset --hard: what is tracked becomes what is committed.  That it cannot is *)
(* not looked at.                                                            *)
Reset(r) ==
    /\ At(r, "reset")
    /\ scratch' = IF scratch.locked THEN scratch
                  ELSE [scratch EXCEPT !.tree = HeadFiles \cup Untracked, !.index = HeadFiles]
    /\ Then(r, "clean")
    /\ UNCHANGED <<lease, lock, branches>>

Clean(r) ==
    /\ \/ At(r, "clean") /\ Then(r, "checkout")
       \/ At(r, "sweep") /\ Then(r, "copy1")
    /\ scratch' = [scratch EXCEPT !.tree = @ \ Untracked]
    /\ UNCHANGED <<lease, lock, branches>>

(* checkout -B: the run's branch starts at the empty root.  It is refused      *)
(* where a file it would remove was changed; what is staged is carried over.   *)
MayRemove(f) == /\ Named(f, scratch.index) \subseteq {f}
                /\ f \in scratch.index => Named(f, scratch.tree) \subseteq {f}
Checkout(r) ==
    /\ At(r, "checkout")
    /\ IF ~scratch.locked /\ \A f \in HeadFiles : MayRemove(f)
       THEN /\ scratch' = [scratch EXCEPT !.head = r, !.tree = @ \ HeadFiles,
                                          !.index = @ \ HeadFiles]
            /\ branches' = [branches EXCEPT ![r] = {}]
            /\ Then(r, "sweep")
       ELSE Then(r, "unlock_failed") /\ UNCHANGED <<scratch, branches>>
    /\ UNCHANGED <<lease, lock>>

Copy(r) ==
    \E shared \in BOOLEAN :
        LET f == [of |-> r, shared |-> shared] IN
        /\ IF shared THEN At(r, "copy1") /\ Then(r, "copy2") ELSE At(r, "copy2") /\ Then(r, "add")
        /\ scratch' = [scratch EXCEPT !.tree = {g \in @ : ~SameName(f, g)} \cup {f}]
        /\ UNCHANGED <<lease, lock, branches>>

Add(r) ==
    /\ At(r, "add")
    /\ IF scratch.locked THEN Then(r, "unlock_failed") /\ UNCHANGED scratch
       ELSE Then(r, "commit") /\ scratch' = [scratch EXCEPT !.index = scratch.tree]
    /\ UNCHANGED <<lease, lock, branches>>

CommitEvidence(r) ==
    /\ At(r, "commit")
    /\ IF scratch.locked THEN Then(r, "unlock_failed") /\ UNCHANGED branches
       ELSE Then(r, "record") /\ branches' = [branches EXCEPT ![scratch.head] = scratch.index]
    /\ UNCHANGED <<lease, lock, scratch>>

(* rev-parse HEAD, whatever branch that is on.                               *)
Record(r) ==
    /\ At(r, "record")
    /\ composer' = [composer EXCEPT ![r] = [pc |-> "unlock", recorded |-> HeadFiles]]
    /\ UNCHANGED <<lease, lock, scratch, branches>>

(* A command that fails or is killed at its timeout ends the attempt where it  *)
(* is, the killed one leaving the index locked.                              *)
GitFails(r) ==
    /\ composer[r].pc \in Working
    /\ \/ /\ composer[r].pc \in {"reset", "checkout", "add", "commit"}
          /\ scratch' = [scratch EXCEPT !.locked = TRUE]
       \/ UNCHANGED scratch
    /\ Then(r, "unlock_failed")
    /\ UNCHANGED <<lease, lock, branches>>

ReleaseBoth(r) ==
    /\ lock' = IF lock = r THEN NoComposer ELSE lock
    /\ lease' = ReleasedLease(r)
    /\ \/ At(r, "unlock") /\ Then(r, "done")
       \/ At(r, "unlock_failed") /\ Then(r, "failed")
    /\ UNCHANGED <<scratch, branches>>

(* A process stops, with its git command: the file lock goes with it, and the  *)
(* lease is the next process's own.                                          *)
UnderWay(r) == composer[r].pc \notin {"idle", "done", "failed", "stopped"}
ProcessStops(p) ==
    /\ \E r \in Composer : ProcessOf(r) = p /\ UnderWay(r)
    /\ lease' = [lease EXCEPT ![p] = NoComposer]
    /\ lock' = IF lock # NoComposer /\ ProcessOf(lock) = p THEN NoComposer ELSE lock
    /\ composer' = [r \in Composer |->
          IF ProcessOf(r) = p /\ UnderWay(r) THEN [composer[r] EXCEPT !.pc = "stopped"]
          ELSE composer[r]]
    /\ \/ /\ lock # NoComposer /\ ProcessOf(lock) = p /\ composer[lock].pc \in Working
          /\ scratch' = [scratch EXCEPT !.locked = TRUE]
       \/ UNCHANGED scratch
    /\ UNCHANGED branches

EvidenceNext ==
    \/ \E r \in Composer :
          \/ TakeLease(r) \/ TakeLock(r) \/ LockTimesOut(r)
          \/ Reset(r) \/ Clean(r) \/ Checkout(r) \/ Copy(r) \/ Add(r)
          \/ CommitEvidence(r) \/ Record(r) \/ GitFails(r) \/ ReleaseBoth(r)
    \/ \E p \in ComposerProcess : ProcessStops(p)

EvidenceSpec == EvidenceInit /\ [][EvidenceNext]_evidenceVars

-----------------------------------------------------------------------------
(* The commit a run records holds its own deliverable and nothing else, though  *)
(* a lease was taken from a holder that was only slow, a git command failed,    *)
(* or a process stopped between the copies and the commit (_compose_commit,     *)
(* _Lease).                                                                  *)
EvidenceIsOwn ==
    \A r \in Composer : composer[r].recorded # NoEvidence => composer[r].recorded = Deliverable(r)
=============================================================================
