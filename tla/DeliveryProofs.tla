--------------------------- MODULE DeliveryProofs ---------------------------
(***************************************************************************)
(* Theorems of the components that make, judge, publish and record the       *)
(* builders' work.  They share no state with one another: each section is of  *)
(* one component, under that component's own specification; the last one is of *)
(* the types of them all.                                                   *)
(***************************************************************************)
EXTENDS MCDelivery, RepositoryWriterProofs, FiniteSetTheorems, SequenceTheorems,
        WellFoundedInduction, TLAPS

-----------------------------------------------------------------------------
(* The evidence repository.  The file lock is held from its taking to the end   *)
(* of the attempt, so the scratch repository is one composer's own; and a       *)
(* checkout that was not refused begins from an index with nothing in it.       *)

ScratchType == [head : Composer \cup {NoComposer}, tree : SUBSET File, index : SUBSET File,
                locked : BOOLEAN]
Composing == [pc : ComposerPhase, recorded : (SUBSET File) \cup {NoEvidence}]

EvidenceTypes ==
    /\ lease \in [ComposerProcess -> Composer \cup {NoComposer}]
    /\ lock \in Composer \cup {NoComposer}
    /\ scratch \in ScratchType
    /\ branches \in [Composer -> SUBSET File]
    /\ composer \in [Composer -> Composing]

HoldsLock(r) == composer[r].pc \in Working \cup {"unlock", "unlock_failed"} => lock = r

(* What the repository holds at each command of the one that holds the lock.    *)
Stands(r) ==
    /\ At(r, "clean") \/ At(r, "checkout") => scratch.locked \/ scratch.index = HeadFiles
    /\ composer[r].pc \in {"sweep", "copy1", "copy2", "add", "commit", "record"} => scratch.head = r
    /\ At(r, "sweep") => scratch.index = {}
    /\ At(r, "copy1") => scratch.tree = {}
    /\ At(r, "copy2") => scratch.tree = {[of |-> r, shared |-> TRUE]}
    /\ At(r, "add") => scratch.tree = Deliverable(r)
    /\ At(r, "commit") => scratch.index = Deliverable(r)
    /\ At(r, "record") => branches[r] = Deliverable(r)

Recorded(r) == composer[r].recorded # NoEvidence => composer[r].recorded = Deliverable(r)

EvidenceInv == EvidenceTypes /\ \A r \in Composer : HoldsLock(r) /\ Stands(r) /\ Recorded(r)

LEMMA EvidencePhases ==
  /\ Working \subseteq ComposerPhase
  /\ {"idle", "leased", "unlock", "done", "unlock_failed", "failed", "stopped"} \subseteq ComposerPhase
  /\ {"idle", "leased", "done", "failed", "stopped"} \cap (Working \cup {"unlock", "unlock_failed"}) = {}
BY DEF Working, ComposerPhase

(* A step of one composer's place leaves the others' as they are.               *)
LEMMA ComposerMoves ==
  ASSUME EvidenceTypes, NEW r \in Composer, NEW s \in ComposerPhase, Then(r, s)
  PROVE  /\ composer' \in [Composer -> Composing]
         /\ composer'[r].pc = s /\ composer'[r].recorded = composer[r].recorded
         /\ \A q \in Composer : q # r => composer'[q] = composer[q]
<1>1. composer \in [Composer -> Composing] /\ composer[r] \in Composing
  BY DEF EvidenceTypes
<1>2. [composer[r] EXCEPT !.pc = s] \in Composing
      /\ [composer[r] EXCEPT !.pc = s].pc = s
      /\ [composer[r] EXCEPT !.pc = s].recorded = composer[r].recorded
  BY <1>1 DEF Composing
<1>3. composer' = [composer EXCEPT ![r] = [composer[r] EXCEPT !.pc = s]]
  BY DEF Then
<1> QED
  BY <1>1, <1>2, <1>3

LEMMA HeadFilesType ==
  ASSUME EvidenceTypes
  PROVE  /\ HeadFiles \in SUBSET File
         /\ scratch.head \in Composer \cup {NoComposer} /\ scratch.tree \in SUBSET File
         /\ scratch.index \in SUBSET File /\ scratch.locked \in BOOLEAN
<1>1. /\ scratch.head \in Composer \cup {NoComposer} /\ scratch.tree \in SUBSET File
      /\ scratch.index \in SUBSET File /\ scratch.locked \in BOOLEAN
  BY DEF EvidenceTypes, ScratchType
<1> QED
  BY <1>1 DEF EvidenceTypes, HeadFiles

(* The repository's own fields, as a step writes them.                          *)
LEMMA TreeWrites ==
  ASSUME EvidenceTypes, NEW t \in SUBSET File
  PROVE  LET n == [scratch EXCEPT !.tree = t]
         IN  n \in ScratchType /\ n.tree = t /\ n.head = scratch.head
             /\ n.index = scratch.index /\ n.locked = scratch.locked
BY DEF EvidenceTypes, ScratchType

LEMMA IndexWrites ==
  ASSUME EvidenceTypes, NEW x \in SUBSET File
  PROVE  LET n == [scratch EXCEPT !.index = x]
         IN  n \in ScratchType /\ n.index = x /\ n.head = scratch.head
BY DEF EvidenceTypes, ScratchType

LEMMA BothWrites ==
  ASSUME EvidenceTypes, NEW t \in SUBSET File, NEW x \in SUBSET File
  PROVE  LET n == [scratch EXCEPT !.tree = t, !.index = x]
         IN  n \in ScratchType /\ n.index = x /\ n.head = scratch.head
BY DEF EvidenceTypes, ScratchType

LEMMA HeadWrites ==
  ASSUME EvidenceTypes, NEW r \in Composer, NEW t \in SUBSET File, NEW x \in SUBSET File
  PROVE  LET n == [scratch EXCEPT !.head = r, !.tree = t, !.index = x]
         IN  n \in ScratchType /\ n.index = x /\ n.head = r
BY DEF EvidenceTypes, ScratchType

LEMMA LockWrites ==
  ASSUME EvidenceTypes
  PROVE  [scratch EXCEPT !.locked = TRUE] \in ScratchType
BY DEF EvidenceTypes, ScratchType

(* What is left to show of a step of the composer that holds the lock: the       *)
(* others have nothing to do with the repository.                               *)
LEMMA HolderStep ==
  ASSUME EvidenceInv, EvidenceTypes', NEW r \in Composer, lock = r,
         lock' = r \/ composer'[r].pc \notin Working \cup {"unlock", "unlock_failed"},
         \A q \in Composer : q # r => composer'[q] = composer[q],
         Stands(r)', Recorded(r)'
  PROVE  EvidenceInv'
<1>1. ASSUME NEW q \in Composer, q # r PROVE HoldsLock(q)' /\ Stands(q)' /\ Recorded(q)'
  <2>1. composer[q].pc \notin Working \cup {"unlock", "unlock_failed"} /\ composer'[q] = composer[q]
    BY <1>1 DEF EvidenceInv, HoldsLock
  <2>2. HoldsLock(q)' /\ Stands(q)'
    BY <2>1 DEF HoldsLock, Stands, At, Working
  <2>3. Recorded(q)'
    BY <2>1 DEF EvidenceInv, Recorded, Deliverable
  <2> QED
    BY <2>2, <2>3
<1>2. HoldsLock(r)'
  BY DEF HoldsLock
<1> QED
  BY <1>1, <1>2 DEF EvidenceInv

(* A step that leaves the repository alone keeps what stands there.             *)
LEMMA BesideStep ==
  ASSUME EvidenceInv, EvidenceTypes', UNCHANGED <<scratch, branches>>,
         NEW r \in Composer, \A q \in Composer : q # r => composer'[q] = composer[q],
         composer'[r].recorded = composer[r].recorded,
         composer'[r].pc \in {"leased", "failed"},
         lock' = lock
  PROVE  EvidenceInv'
<1>1. ASSUME NEW q \in Composer, q # r PROVE HoldsLock(q)' /\ Stands(q)' /\ Recorded(q)'
  BY <1>1 DEF EvidenceInv, HoldsLock, Stands, Recorded, At, HeadFiles, Deliverable
<1>2. HoldsLock(r)' /\ Stands(r)' /\ Recorded(r)'
  BY DEF EvidenceInv, HoldsLock, Stands, Recorded, At, Working, Deliverable
<1> QED
  BY <1>1, <1>2 DEF EvidenceInv

LEMMA EvidenceStep ==
  ASSUME EvidenceInv, [EvidenceNext]_evidenceVars
  PROVE  EvidenceInv'
<1>1. EvidenceTypes
  BY DEF EvidenceInv
<1>2. \A r \in Composer : ReleasedLease(r) \in [ComposerProcess -> Composer \cup {NoComposer}]
                          /\ ProcessOf(r) \in ComposerProcess
  BY <1>1 DEF EvidenceTypes, ReleasedLease, ProcessOf, ComposerProcess
<1>3. ASSUME NEW r \in Composer, TakeLease(r) PROVE EvidenceInv'
  <2>1. "leased" \in ComposerPhase /\ Then(r, "leased") /\ UNCHANGED <<lock, scratch, branches>>
    BY <1>3, EvidencePhases DEF TakeLease
  <2>2. EvidenceTypes'
    BY <1>1, <1>2, <1>3, <2>1, ComposerMoves DEF TakeLease, EvidenceTypes
  <2> QED
    BY <1>1, <2>1, <2>2, ComposerMoves, BesideStep
<1>4. ASSUME NEW r \in Composer, LockTimesOut(r) PROVE EvidenceInv'
  <2>1. "failed" \in ComposerPhase /\ Then(r, "failed") /\ UNCHANGED <<lock, scratch, branches>>
    BY <1>4, EvidencePhases DEF LockTimesOut
  <2>2. EvidenceTypes'
    BY <1>1, <1>2, <1>4, <2>1, ComposerMoves DEF LockTimesOut, EvidenceTypes
  <2> QED
    BY <1>1, <2>1, <2>2, ComposerMoves, BesideStep
<1>5. ASSUME NEW r \in Composer, TakeLock(r) PROVE EvidenceInv'
  <2>1. /\ "reset" \in ComposerPhase /\ Then(r, "reset") /\ UNCHANGED <<lease, scratch, branches>>
        /\ lock = NoComposer /\ lock' = r
    BY <1>5, EvidencePhases DEF TakeLock, Working
  <2>2. EvidenceTypes'
    BY <1>1, <2>1, ComposerMoves DEF EvidenceTypes
  <2>3. ASSUME NEW q \in Composer, q # r PROVE HoldsLock(q)' /\ Stands(q)' /\ Recorded(q)'
    <3>1. composer'[q] = composer[q] /\ composer[q].pc \notin Working \cup {"unlock", "unlock_failed"}
      BY <1>1, <2>1, <2>3, ComposerMoves, EvidenceAssumption DEF EvidenceInv, HoldsLock
    <3>2. Recorded(q)'
      BY <3>1 DEF EvidenceInv, Recorded, Deliverable
    <3> QED
      BY <3>1, <3>2 DEF HoldsLock, Stands, At, Working
  <2>4. HoldsLock(r)' /\ Stands(r)' /\ Recorded(r)'
    <3>1. composer'[r].pc = "reset" /\ composer'[r].recorded = composer[r].recorded
      BY <1>1, <2>1, ComposerMoves
    <3> QED
      BY <2>1, <3>1 DEF EvidenceInv, HoldsLock, Stands, Recorded, At, Deliverable
  <2> QED
    BY <2>2, <2>3, <2>4 DEF EvidenceInv
<1>6. ASSUME NEW r \in Composer, composer[r].pc \in Working \cup {"unlock", "unlock_failed"}
      PROVE  lock = r
  BY <1>6 DEF EvidenceInv, HoldsLock
<1>7. ASSUME NEW r \in Composer, NEW s \in ComposerPhase, Then(r, s), lock = r, lock' = lock, lease' = lease,
             scratch' \in ScratchType, branches' \in [Composer -> SUBSET File], Stands(r)'
      PROVE  EvidenceInv'
  <2>1. EvidenceTypes'
    BY <1>1, <1>7, ComposerMoves DEF EvidenceTypes
  <2>2. Recorded(r)'
    BY <1>1, <1>7, ComposerMoves DEF EvidenceInv, Recorded, Deliverable
  <2> QED
    BY <1>1, <1>7, <2>1, <2>2, ComposerMoves, HolderStep
<1>8. scratch \in ScratchType /\ branches \in [Composer -> SUBSET File] /\ HeadFiles \in SUBSET File
  BY <1>1, HeadFilesType DEF EvidenceTypes
<1>9. ASSUME NEW r \in Composer, Reset(r) PROVE EvidenceInv'
  <2>1. lock = r /\ "clean" \in ComposerPhase /\ Then(r, "clean")
    BY <1>6, <1>9, EvidencePhases DEF Reset, At, Working
  <2>2. HeadFiles \cup Untracked \in SUBSET File
    BY <1>1, HeadFilesType DEF Untracked
  <2>3. /\ scratch' \in ScratchType /\ branches' = branches
        /\ scratch.locked \/ (scratch'.index = HeadFiles /\ scratch'.head = scratch.head)
        /\ scratch.locked => scratch' = scratch
    <3>1. CASE scratch.locked
      BY <1>8, <1>9, <3>1 DEF Reset
    <3>2. CASE ~scratch.locked
      <4>1. /\ scratch' = [scratch EXCEPT !.tree = HeadFiles \cup Untracked, !.index = HeadFiles]
            /\ branches' = branches
        BY <1>9, <3>2 DEF Reset
      <4> QED
        BY <1>1, <1>8, <2>2, <3>2, <4>1, BothWrites
    <3> QED
      BY <3>1, <3>2
  <2>4. Stands(r)'
    <3>1. composer'[r].pc = "clean"
      BY <1>1, <2>1, ComposerMoves
    <3> QED
      BY <2>3, <3>1 DEF Stands, At, HeadFiles
  <2> QED
    BY <1>7, <1>8, <1>9, <2>1, <2>3, <2>4 DEF Reset
<1>10. ASSUME NEW r \in Composer, Clean(r) PROVE EvidenceInv'
  <2>1. /\ lock = r /\ {"checkout", "copy1"} \subseteq ComposerPhase
        /\ \/ At(r, "clean") /\ Then(r, "checkout")
           \/ At(r, "sweep") /\ Then(r, "copy1")
    BY <1>6, <1>10, EvidencePhases DEF Clean, At, Working
  <2>2. scratch.tree \ Untracked \in SUBSET File
    BY <1>1, HeadFilesType
  <2>3. /\ scratch' \in ScratchType /\ branches' = branches
        /\ scratch'.tree = scratch.tree \ Untracked
        /\ UNCHANGED <<scratch.head, scratch.index, scratch.locked>>
    BY <1>1, <1>10, <2>2, TreeWrites DEF Clean
  <2>4. Stands(r)
    BY DEF EvidenceInv
  <2>5. CASE At(r, "clean") /\ Then(r, "checkout")
    <3>1. composer'[r].pc = "checkout"
      BY <1>1, <2>1, <2>5, ComposerMoves
    <3>2. Stands(r)'
      BY <2>3, <2>4, <2>5, <3>1 DEF Stands, At, HeadFiles
    <3> QED
      BY <1>7, <1>8, <1>10, <2>1, <2>3, <2>5, <3>2 DEF Clean
  <2>6. CASE At(r, "sweep") /\ Then(r, "copy1")
    <3>1. composer'[r].pc = "copy1"
      BY <1>1, <2>1, <2>6, ComposerMoves
    <3>2. scratch.index = {} /\ scratch.head = r
      BY <2>4, <2>6 DEF Stands, At
    <3>3. scratch'.tree = {}
      BY <2>3, <3>2 DEF Untracked, Named
    <3>4. Stands(r)'
      BY <2>3, <3>1, <3>2, <3>3 DEF Stands, At
    <3> QED
      BY <1>7, <1>8, <1>10, <2>1, <2>3, <2>6, <3>4 DEF Clean
  <2> QED
    BY <2>1, <2>5, <2>6
<1>11. ASSUME NEW r \in Composer, NEW s \in {"unlock_failed"}, Then(r, s), lock = r, UNCHANGED <<lease, lock>>,
              scratch' \in ScratchType, branches' = branches
       PROVE  EvidenceInv'
  <2>1. s \in ComposerPhase
    BY EvidencePhases
  <2>2. Stands(r)'
    BY <1>1, <1>11, <2>1, ComposerMoves DEF Stands, At
  <2> QED
    BY <1>7, <1>8, <1>11, <2>1, <2>2
<1>12. ASSUME NEW r \in Composer, Checkout(r) PROVE EvidenceInv'
  <2>1. lock = r /\ "sweep" \in ComposerPhase
    BY <1>6, <1>12, EvidencePhases DEF Checkout, At, Working
  <2>2. CASE ~scratch.locked /\ \A f \in HeadFiles : MayRemove(f)
    <3>1. scratch.index = HeadFiles
      BY <1>12, <2>2 DEF EvidenceInv, Stands, Checkout
    <3>2. /\ scratch.tree \ HeadFiles \in SUBSET File /\ scratch.index \ HeadFiles \in SUBSET File
          /\ scratch' = [scratch EXCEPT !.head = r, !.tree = scratch.tree \ HeadFiles,
                                        !.index = scratch.index \ HeadFiles]
          /\ branches' = [branches EXCEPT ![r] = {}] /\ Then(r, "sweep")
          /\ UNCHANGED <<lease, lock>>
      BY <1>1, <1>12, <2>2, HeadFilesType DEF Checkout
    <3>3. scratch' \in ScratchType /\ scratch'.head = r /\ scratch'.index = {}
      <4> DEFINE t == scratch.tree \ HeadFiles
                 x == scratch.index \ HeadFiles
                 n == [scratch EXCEPT !.head = r, !.tree = t, !.index = x]
      <4>1. x = {}
        BY <3>1
      <4>2. scratch' = n /\ t \in SUBSET File /\ x \in SUBSET File
        BY <3>2
      <4>3. n \in ScratchType /\ n.index = x /\ n.head = r
        <5>1. EvidenceTypes /\ r \in Composer /\ t \in SUBSET File /\ x \in SUBSET File
          BY <1>1, <4>2
        <5> HIDE DEF t, x
        <5> QED
          BY <5>1, HeadWrites
      <4> HIDE DEF n, x, t
      <4> QED
        BY <4>1, <4>2, <4>3
    <3>4. branches' \in [Composer -> SUBSET File]
      BY <1>8, <3>2
    <3>5. Stands(r)'
      BY <1>1, <2>1, <3>2, <3>3, ComposerMoves DEF Stands, At
    <3> QED
      BY <1>7, <2>1, <3>2, <3>3, <3>4, <3>5
  <2>3. CASE ~(~scratch.locked /\ \A f \in HeadFiles : MayRemove(f))
    BY <1>8, <1>11, <1>12, <2>1, <2>3 DEF Checkout
  <2> QED
    BY <2>2, <2>3
<1>13. ASSUME NEW r \in Composer, Copy(r) PROVE EvidenceInv'
  <2>1. PICK shared \in BOOLEAN :
          /\ IF shared THEN At(r, "copy1") /\ Then(r, "copy2") ELSE At(r, "copy2") /\ Then(r, "add")
          /\ scratch' = [scratch EXCEPT !.tree = {g \in scratch.tree : ~SameName([of |-> r, shared |-> shared], g)}
                                                   \cup {[of |-> r, shared |-> shared]}]
          /\ UNCHANGED <<lease, lock, branches>>
    BY <1>13 DEF Copy
  <2>2. lock = r /\ {"copy2", "add"} \subseteq ComposerPhase
    BY <1>6, <2>1, EvidencePhases DEF At, Working
  <2> DEFINE f == [of |-> r, shared |-> shared]
             new == {g \in scratch.tree : ~SameName(f, g)} \cup {f}
  <2>3. new \in SUBSET File
    BY <1>1, HeadFilesType DEF File
  <2>4. scratch' \in ScratchType /\ scratch'.tree = new /\ scratch'.head = scratch.head
    BY <1>1, <2>1, <2>3, TreeWrites
  <2>5. Stands(r)
    BY DEF EvidenceInv
  <2>6. CASE shared
    <3>1. At(r, "copy1") /\ Then(r, "copy2") /\ shared = TRUE
      BY <2>1, <2>6
    <3>2. scratch.tree = {} /\ scratch.head = r
      BY <2>5, <3>1 DEF Stands, At
    <3>3. scratch'.tree = {[of |-> r, shared |-> TRUE]}
      BY <2>4, <3>1, <3>2
    <3>4. Stands(r)'
      BY <1>1, <2>2, <2>4, <3>1, <3>2, <3>3, ComposerMoves DEF Stands, At
    <3> QED
      BY <1>7, <1>8, <2>1, <2>2, <2>4, <3>1, <3>4
  <2>7. CASE ~shared
    <3>1. At(r, "copy2") /\ Then(r, "add") /\ shared = FALSE
      BY <2>1, <2>7
    <3>2. scratch.tree = {[of |-> r, shared |-> TRUE]} /\ scratch.head = r
      BY <2>5, <3>1 DEF Stands, At
    <3>3. scratch'.tree = {[of |-> r, shared |-> TRUE], [of |-> r, shared |-> FALSE]}
      <4>1. f = [of |-> r, shared |-> FALSE] /\ new = {g \in {[of |-> r, shared |-> TRUE]} : ~SameName(f, g)} \cup {f}
        BY <3>1, <3>2
      <4>2. ~SameName([of |-> r, shared |-> FALSE], [of |-> r, shared |-> TRUE])
        BY DEF SameName
      <4>3. new = {[of |-> r, shared |-> TRUE], [of |-> r, shared |-> FALSE]}
        BY <4>1, <4>2
      <4> QED
        BY <2>4, <4>3
    <3>4. scratch'.tree = Deliverable(r)
      <4>1. ASSUME NEW x \in Deliverable(r)
            PROVE  x \in {[of |-> r, shared |-> TRUE], [of |-> r, shared |-> FALSE]}
        <5>1. x = [of |-> x.of, shared |-> x.shared] /\ x.of = r /\ x.shared \in BOOLEAN
          BY DEF Deliverable
        <5> QED
          BY <5>1
      <4>2. [of |-> r, shared |-> TRUE] \in Deliverable(r) /\ [of |-> r, shared |-> FALSE] \in Deliverable(r)
        BY DEF Deliverable
      <4> QED
        BY <3>3, <4>1, <4>2
    <3>5. Stands(r)'
      BY <1>1, <2>2, <2>4, <3>1, <3>2, <3>4, ComposerMoves DEF Stands, At, Deliverable
    <3> QED
      BY <1>7, <1>8, <2>1, <2>2, <2>4, <3>1, <3>5
  <2> QED
    BY <2>6, <2>7
<1>14. ASSUME NEW r \in Composer, Add(r) PROVE EvidenceInv'
  <2>1. lock = r /\ "commit" \in ComposerPhase
    BY <1>6, <1>14, EvidencePhases DEF Add, At, Working
  <2>2. CASE scratch.locked
    BY <1>8, <1>11, <1>14, <2>1, <2>2 DEF Add
  <2>3. CASE ~scratch.locked
    <3>1. Then(r, "commit") /\ scratch' = [scratch EXCEPT !.index = scratch.tree]
          /\ UNCHANGED <<lease, lock, branches>>
      BY <1>14, <2>3 DEF Add
    <3>2. scratch.tree = Deliverable(r) /\ scratch.head = r
      BY <1>14 DEF EvidenceInv, Stands, Add, At
    <3>3. scratch' \in ScratchType /\ scratch'.index = Deliverable(r) /\ scratch'.head = r
      BY <1>1, <3>1, <3>2, IndexWrites, HeadFilesType
    <3>4. Stands(r)'
      BY <1>1, <2>1, <3>1, <3>3, ComposerMoves DEF Stands, At, Deliverable
    <3> QED
      BY <1>7, <1>8, <2>1, <3>1, <3>3, <3>4
  <2> QED
    BY <2>2, <2>3
<1>15. ASSUME NEW r \in Composer, CommitEvidence(r) PROVE EvidenceInv'
  <2>1. lock = r /\ "record" \in ComposerPhase
    BY <1>6, <1>15, EvidencePhases DEF CommitEvidence, At, Working
  <2>2. CASE scratch.locked
    BY <1>8, <1>11, <1>15, <2>1, <2>2 DEF CommitEvidence
  <2>3. CASE ~scratch.locked
    <3>1. /\ Then(r, "record") /\ branches' = [branches EXCEPT ![scratch.head] = scratch.index]
          /\ UNCHANGED <<lease, lock, scratch>>
      BY <1>15, <2>3 DEF CommitEvidence
    <3>2. scratch.index = Deliverable(r) /\ scratch.head = r
      BY <1>15 DEF EvidenceInv, Stands, CommitEvidence, At
    <3>3. branches' \in [Composer -> SUBSET File] /\ branches'[r] = Deliverable(r)
      <4>1. branches' = [branches EXCEPT ![r] = Deliverable(r)] /\ Deliverable(r) \in SUBSET File
        BY <1>1, <3>1, <3>2, HeadFilesType
      <4> QED
        BY <1>8, <4>1
    <3>4. Stands(r)'
      <4>1. composer'[r].pc = "record" /\ scratch'.head = r
        BY <1>1, <2>1, <3>1, <3>2, ComposerMoves
      <4> QED
        BY <3>3, <4>1 DEF Stands, At, Deliverable
    <3> QED
      BY <1>7, <1>8, <2>1, <3>1, <3>3, <3>4
  <2> QED
    BY <2>2, <2>3
<1>16. ASSUME NEW r \in Composer, Record(r) PROVE EvidenceInv'
  <2>1. lock = r /\ "unlock" \in ComposerPhase /\ UNCHANGED <<lease, lock, scratch, branches>>
    BY <1>6, <1>16, EvidencePhases DEF Record, At, Working
  <2>2. HeadFiles = Deliverable(r)
    BY <1>16, EvidenceAssumption DEF EvidenceInv, Stands, Record, At, HeadFiles
  <2>3. /\ composer' \in [Composer -> Composing]
        /\ composer'[r].pc = "unlock" /\ composer'[r].recorded = HeadFiles
        /\ \A q \in Composer : q # r => composer'[q] = composer[q]
    <3>1. composer \in [Composer -> Composing] /\ [pc |-> "unlock", recorded |-> HeadFiles] \in Composing
      BY <1>1, <1>8, <2>1 DEF EvidenceTypes, Composing
    <3> QED
      BY <1>16, <3>1 DEF Record
  <2>4. EvidenceTypes'
    BY <1>1, <2>1, <2>3 DEF EvidenceTypes
  <2>5. Stands(r)' /\ Recorded(r)'
    BY <2>2, <2>3 DEF Stands, Recorded, At, Deliverable
  <2> QED
    BY <2>1, <2>3, <2>4, <2>5, HolderStep
<1>17. ASSUME NEW r \in Composer, GitFails(r) PROVE EvidenceInv'
  <2>1. scratch' \in ScratchType
    BY <1>1, <1>8, <1>17, LockWrites DEF GitFails
  <2> QED
    BY <1>6, <1>11, <1>17, <2>1 DEF GitFails
<1>18. ASSUME NEW r \in Composer, ReleaseBoth(r) PROVE EvidenceInv'
  <2>1. lock = r
    BY <1>6, <1>18 DEF ReleaseBoth, At
  <2>2. PICK s \in {"done", "failed"} : Then(r, s)
    BY <1>18 DEF ReleaseBoth
  <2>3. s \in ComposerPhase /\ s \notin Working \cup {"unlock", "unlock_failed"}
    BY EvidencePhases
  <2>4. EvidenceTypes'
    BY <1>1, <1>2, <1>18, <2>1, <2>2, <2>3, ComposerMoves DEF ReleaseBoth, EvidenceTypes
  <2>5. /\ composer'[r].pc = s /\ composer'[r].recorded = composer[r].recorded
        /\ \A q \in Composer : q # r => composer'[q] = composer[q]
    BY <1>1, <2>2, <2>3, ComposerMoves
  <2>6. Stands(r)' /\ Recorded(r)'
    BY <2>2, <2>5 DEF EvidenceInv, Stands, Recorded, At, Deliverable
  <2> QED
    BY <2>1, <2>3, <2>4, <2>5, <2>6, HolderStep
<1>19. ASSUME NEW p \in ComposerProcess, ProcessStops(p) PROVE EvidenceInv'
  <2>1. \A r \in Composer : composer'[r] = IF ProcessOf(r) = p /\ UnderWay(r)
                                           THEN [composer[r] EXCEPT !.pc = "stopped"] ELSE composer[r]
    BY <1>19 DEF ProcessStops
  <2>2. \A r \in Composer : /\ composer[r] \in Composing
                            /\ [composer[r] EXCEPT !.pc = "stopped"] \in Composing
                            /\ [composer[r] EXCEPT !.pc = "stopped"].pc = "stopped"
                            /\ [composer[r] EXCEPT !.pc = "stopped"].recorded = composer[r].recorded
    BY <1>1, EvidencePhases DEF EvidenceTypes, Composing
  <2>3. composer' \in [Composer -> Composing]
    BY <1>19, <2>1, <2>2 DEF ProcessStops
  <2>4. scratch' \in ScratchType /\ branches' = branches
    BY <1>1, <1>8, <1>19, LockWrites DEF ProcessStops
  <2>5. EvidenceTypes'
    BY <1>1, <1>19, <2>3, <2>4 DEF ProcessStops, EvidenceTypes
  <2>6. ASSUME NEW r \in Composer PROVE HoldsLock(r)' /\ Stands(r)' /\ Recorded(r)'
    <3>1. HoldsLock(r) /\ Stands(r) /\ Recorded(r)
      BY DEF EvidenceInv
    <3>2. CASE composer'[r].pc = "stopped"
      BY <2>1, <2>2, <3>1, <3>2 DEF HoldsLock, Stands, Recorded, At, Working, Deliverable
    <3>3. CASE composer'[r] = composer[r] /\ composer[r].pc \notin Working \cup {"unlock", "unlock_failed"}
      BY <3>1, <3>3 DEF HoldsLock, Stands, Recorded, At, Working, Deliverable
    <3>4. CASE /\ composer'[r] = composer[r] /\ composer[r].pc \in Working \cup {"unlock", "unlock_failed"}
               /\ composer[r].pc # "stopped"
      <4>1. lock = r
        BY <3>4 DEF EvidenceInv, HoldsLock
      <4>2. ProcessOf(r) # p
        BY <2>1, <2>2, <3>4, EvidencePhases DEF UnderWay
      <4>3. lock' = lock /\ scratch' = scratch
        BY <1>19, <4>1, <4>2 DEF ProcessStops
      <4> QED
        BY <2>4, <3>1, <3>4, <4>1, <4>3 DEF HoldsLock, Stands, Recorded, At, HeadFiles, Deliverable
    <3> QED
      BY <2>1, <2>2, <3>2, <3>3, <3>4
  <2> QED
    BY <2>5, <2>6 DEF EvidenceInv
<1>20. ASSUME UNCHANGED evidenceVars PROVE EvidenceInv'
  BY <1>20 DEF evidenceVars, EvidenceInv, EvidenceTypes, HoldsLock, Stands, Recorded, At, HeadFiles,
     Deliverable, ScratchType, Composing, File
<1> QED
  BY <1>3, <1>4, <1>5, <1>9, <1>10, <1>12, <1>13, <1>14, <1>15, <1>16, <1>17, <1>18, <1>19, <1>20
  DEF EvidenceNext

LEMMA EvidenceInvariant == EvidenceSpec => []EvidenceInv
<1>1. EvidenceInit => EvidenceInv
  <2> SUFFICES ASSUME EvidenceInit PROVE EvidenceInv
    OBVIOUS
  <2>1. scratch \in ScratchType /\ {} \in SUBSET File
    <3>1. {} \in SUBSET File /\ FALSE \in BOOLEAN /\ NoComposer \in Composer \cup {NoComposer}
      OBVIOUS
    <3> QED
      BY <3>1 DEF EvidenceInit, ScratchType
  <2>2. EvidenceTypes
    BY <2>1, EvidencePhases DEF EvidenceInit, EvidenceTypes, Composing
  <2>3. ASSUME NEW r \in Composer PROVE HoldsLock(r) /\ Stands(r) /\ Recorded(r)
    BY EvidencePhases DEF EvidenceInit, HoldsLock, Stands, Recorded, At
  <2> QED
    BY <2>2, <2>3 DEF EvidenceInv
<1> QED
  BY <1>1, EvidenceStep, PTL DEF EvidenceSpec

(* The commit a run records holds its own deliverable and nothing else, though  *)
(* a lease was taken from a holder that was only slow, a git command failed, or *)
(* a process stopped between any two commands (_compose_commit, _Lease).        *)
THEOREM EvidenceOfItsOwn == EvidenceSpec => []EvidenceIsOwn
<1>1. EvidenceInv => EvidenceIsOwn
  BY DEF EvidenceInv, Recorded, EvidenceIsOwn
<1> QED
  BY <1>1, EvidenceInvariant, PTL

-----------------------------------------------------------------------------
(* The fan-out driver.  A tile's receipt is of its own session, since a session *)
(* whose agent did no work has none and is the only one that is replaced.       *)

TileSteps == {"idle", "session", "ended", "fetch", "add", "over"}
TileStates == {"queued", "starting", "working", "collecting", "done", "failed"}
TileType ==
    [step : TileSteps, state : TileStates,
     session : 0 .. MaxSession, retry : 0 .. Retries, up : BOOLEAN, errors : BOOLEAN,
     cloneFailed : BOOLEAN, pushed : 0 .. MaxSession, fetched : 0 .. MaxSession,
     collected : BOOLEAN, keptEdits : BOOLEAN, agentDone : BOOLEAN]

(* The branch takes at most one push of each session.                           *)
PushedSessions == {s \in Sessions : agentSession[s] = "pushed"}
BranchInv ==
    /\ agentSession \in [Sessions -> AgentStage]
    /\ branch \in [Sessions -> 0 .. MaxSession]
    /\ pushes \in Nat /\ pushes = Cardinality(PushedSessions)

TileInv ==
    /\ tile \in TileType
    /\ tile.step # "over" => ~tile.collected
    /\ tile.step \in {"session", "ended", "fetch", "add"} => tile.session # 0
    /\ tile.step \in {"idle", "session"} => tile.pushed = NoSession /\ ~tile.cloneFailed
    /\ tile.step = "ended" =>
          /\ tile.pushed # NoSession => tile.pushed = tile.session /\ tile.up /\ ~tile.cloneFailed
          /\ tile.state = "done" => tile.pushed # NoSession
    /\ tile.step \in {"fetch", "add"} => tile.pushed = tile.session
    /\ tile.step = "over" /\ tile.state = "done" => tile.collected /\ tile.pushed = tile.session

CheckoutInv ==
    /\ checkout \in [holds : 0 .. MaxSession, edited : BOOLEAN]
    /\ tile.collected /\ ~tile.keptEdits => checkout.holds = tile.session

UnstartedInv == \A s \in Sessions : s > tile.session => agentSession[s] = "none"

FanoutInv == BranchInv /\ TileInv /\ CheckoutInv /\ UnstartedInv

LEMMA PushedCounted ==
  ASSUME BranchInv
  PROVE  IsFiniteSet(PushedSessions) /\ pushes <= MaxSession
<1>1. IsFiniteSet(Sessions) /\ Cardinality(Sessions) = MaxSession
  BY FS_Interval, FanoutAssumption DEF Sessions
<1> QED
  BY <1>1, FS_Subset, FanoutAssumption DEF BranchInv, PushedSessions

LEMMA BranchStep ==
  ASSUME FanoutInv, [FanoutNext]_fanoutVars
  PROVE  BranchInv'
<1>1. /\ BranchInv /\ MaxSession \in Nat \ {0}
      /\ tile.session \in 0 .. MaxSession
      /\ tile.step = "session" => tile.session \in Sessions
  BY FanoutAssumption DEF FanoutInv, TileInv, TileType, Sessions
<1>2. ASSUME NEW s \in Sessions, NEW stage \in AgentStage \ {"pushed"}, SessionBecomes(s, stage),
             UNCHANGED <<branch, pushes>>, agentSession[s] # "pushed"
      PROVE  BranchInv'
  <2>1. PushedSessions' = PushedSessions
    BY <1>1, <1>2 DEF PushedSessions, SessionBecomes, BranchInv
  <2> QED
    BY <1>1, <1>2, <2>1 DEF BranchInv, SessionBecomes
<1>3. {"booted", "clone_failed", "working", "push_failed", "killed"} \subseteq AgentStage \ {"pushed"}
      /\ "pushed" \in AgentStage
  BY DEF AgentStage
<1>4. ASSUME UNCHANGED <<agentSession, branch, pushes>> PROVE BranchInv'
  BY <1>1, <1>4 DEF BranchInv, PushedSessions
<1>5. ASSUME NEW s \in Sessions, Clones(s) PROVE BranchInv'
  BY <1>2, <1>3, <1>5 DEF Clones
<1>6. ASSUME NEW s \in Sessions, Pushes(s) PROVE BranchInv'
  <2>1. CASE SessionBecomes(s, "push_failed") /\ UNCHANGED <<branch, pushes>>
    BY <1>2, <1>3, <1>6, <2>1 DEF Pushes
  <2>2. CASE SessionBecomes(s, "pushed") /\ branch' = [branch EXCEPT ![pushes + 1] = s]
             /\ pushes' = pushes + 1
    <3>1. PushedSessions' = PushedSessions \cup {s} /\ s \notin PushedSessions
      BY <1>1, <1>6, <2>2 DEF PushedSessions, SessionBecomes, BranchInv, Pushes
    <3>2. Cardinality(PushedSessions') = Cardinality(PushedSessions) + 1
      BY <1>1, <3>1, PushedCounted, FS_AddElement
    <3>3. branch' \in [Sessions -> 0 .. MaxSession] /\ agentSession' \in [Sessions -> AgentStage]
      <4>1. agentSession' \in [Sessions -> AgentStage]
        BY <1>1, <1>3, <2>2 DEF BranchInv, SessionBecomes
      <4>2. branch \in [Sessions -> 0 .. MaxSession] /\ s \in 0 .. MaxSession
        BY <1>1 DEF BranchInv, Sessions
      <4>3. branch' \in [Sessions -> 0 .. MaxSession]
        BY <2>2, <4>2
      <4> QED
        BY <4>1, <4>3
    <3> QED
      BY <1>1, <2>2, <3>2, <3>3 DEF BranchInv
  <2> QED
    BY <1>6, <2>1, <2>2 DEF Pushes
<1>7. ASSUME InvokeAgent PROVE BranchInv'
  <2>1. tile.session + 1 \in Sessions
    BY <1>1, <1>7 DEF InvokeAgent, Sessions
  <2>2. UNCHANGED agentSession \/ SessionBecomes(tile.session + 1, "booted")
    BY <1>7 DEF InvokeAgent
  <2>3. agentSession[tile.session + 1] = "none"
    BY <1>1, <2>1 DEF FanoutInv, UnstartedInv
  <2> QED
    BY <1>2, <1>3, <1>4, <1>7, <2>1, <2>2, <2>3 DEF InvokeAgent
<1>8. ASSUME StreamBreaks PROVE BranchInv'
  BY <1>1, <1>2, <1>3, <1>4, <1>8 DEF StreamBreaks, CurrentStage, RunningStages
<1> QED
  BY <1>4, <1>5, <1>6, <1>7, <1>8
  DEF FanoutNext, ReadUp, StreamDone, AfterSession, Fetch, AddWorktree, Edit, RunAgain, fanoutVars

LEMMA TileStep ==
  ASSUME FanoutInv, [FanoutNext]_fanoutVars
  PROVE  TileInv' /\ CheckoutInv' /\ UnstartedInv'
<1> DEFINE Kept == TileInv' /\ CheckoutInv' /\ UnstartedInv'
<1>1. /\ TileInv /\ CheckoutInv /\ UnstartedInv /\ MaxSession \in Nat \ {0} /\ Retries \in Nat
      /\ agentSession \in [Sessions -> AgentStage] /\ branch \in [Sessions -> 0 .. MaxSession]
      /\ \A n \in 1 .. pushes : branch[n] \in 0 .. MaxSession
  BY PushedCounted, FanoutAssumption DEF FanoutInv, BranchInv, Sessions
<1>2. /\ tile \in TileType /\ tile.session \in 0 .. MaxSession /\ tile.retry \in 0 .. Retries
      /\ tile.errors \in BOOLEAN /\ tile.state \in TileStates /\ tile.pushed \in 0 .. MaxSession
      /\ TileSteps = {"idle", "session", "ended", "fetch", "add", "over"}
      /\ TileStates = {"queued", "starting", "working", "collecting", "done", "failed"}
      /\ checkout.edited \in BOOLEAN /\ checkout.holds \in 0 .. MaxSession
  BY <1>1 DEF TileInv, TileType, CheckoutInv, TileSteps, TileStates
<1>0. tile \in TileType
  BY <1>2
(* A step that writes the tile is known by the fields the invariant reads. *)
<1>3. ASSUME NEW s \in Sessions, Clones(s) \/ Pushes(s) PROVE Kept
  <2>1. UNCHANGED <<tile, checkout>> /\ agentSession[s] # "none"
        /\ \A t \in Sessions : t # s => agentSession'[t] = agentSession[t]
    BY <1>1, <1>3 DEF Clones, Pushes, SessionBecomes
  <2> QED
    BY <1>1, <2>1 DEF TileInv, CheckoutInv, UnstartedInv
<1>4. ASSUME InvokeAgent PROVE Kept
  <2>1. /\ tile.step = "idle" /\ tile.session + 1 \in 0 .. MaxSession /\ tile.session + 1 # 0
        /\ \/ tile' = [tile EXCEPT !.step = "session", !.state = "starting", !.session = tile.session + 1]
           \/ tile' = [tile EXCEPT !.step = "ended", !.state = "failed", !.session = tile.session + 1,
                                   !.errors = TRUE]
        /\ agentSession' = agentSession \/ SessionBecomes(tile.session + 1, "booted")
        /\ UNCHANGED checkout
    BY <1>1, <1>2, <1>4 DEF InvokeAgent
  <2>2. /\ tile' \in TileType /\ tile'.session = tile.session + 1 /\ tile'.pushed = tile.pushed
        /\ tile'.cloneFailed = tile.cloneFailed /\ tile'.collected = tile.collected
        /\ \/ tile'.step = "session"
           \/ tile'.step = "ended" /\ tile'.state = "failed"
    <3>1. CASE tile' = [tile EXCEPT !.step = "session", !.state = "starting", !.session = tile.session + 1]
      <4>1. tile \in TileType /\ tile.session + 1 \in 0 .. MaxSession
        BY <1>2, <2>1
      <4> QED
        BY <3>1, <4>1 DEF TileType, TileSteps, TileStates
    <3>2. CASE tile' = [tile EXCEPT !.step = "ended", !.state = "failed", !.session = tile.session + 1,
                                    !.errors = TRUE]
      <4>1. tile \in TileType /\ tile.session + 1 \in 0 .. MaxSession
        BY <1>2, <2>1
      <4> QED
        BY <3>2, <4>1 DEF TileType, TileSteps, TileStates
    <3> QED
      BY <2>1, <3>1, <3>2
  <2>3. TileInv' /\ CheckoutInv'
    BY <1>1, <2>1, <2>2 DEF TileInv, CheckoutInv
  <2>4. UnstartedInv'
    BY <1>1, <1>2, <2>1, <2>2 DEF SessionBecomes, UnstartedInv, Sessions
  <2> QED
    BY <2>3, <2>4
<1>5. ASSUME ReadUp PROVE Kept
  BY <1>1, <1>5 DEF ReadUp, TileInv, TileType, TileSteps, TileStates, CheckoutInv, UnstartedInv, NoSession
<1>6. ASSUME StreamDone PROVE Kept
  <2>1. PICK zero \in BOOLEAN :
          tile' = [tile EXCEPT
           !.step = "ended",
           !.pushed = IF CurrentStage = "pushed" THEN tile.session ELSE NoSession,
           !.cloneFailed = CurrentStage = "clone_failed",
           !.errors = tile.errors \/ CurrentStage \in {"clone_failed", "push_failed"},
           !.state = IF zero /\ CurrentStage = "pushed" THEN "done" ELSE "failed"]
    BY <1>6 DEF StreamDone
  <2>2. /\ tile.step = "session" /\ tile.up /\ tile.session # 0 /\ ~tile.collected
        /\ UNCHANGED <<agentSession, checkout>>
    BY <1>1, <1>6 DEF StreamDone, TileInv
  <2>3. /\ tile' \in TileType /\ tile'.step = "ended" /\ tile'.session = tile.session
        /\ tile'.pushed = IF CurrentStage = "pushed" THEN tile.session ELSE NoSession
        /\ tile'.cloneFailed = (CurrentStage = "clone_failed") /\ tile'.up = tile.up
        /\ tile'.state = IF zero /\ CurrentStage = "pushed" THEN "done" ELSE "failed"
        /\ tile'.collected = tile.collected
    <3> DEFINE q == IF CurrentStage = "pushed" THEN tile.session ELSE NoSession
               c == CurrentStage = "clone_failed"
               e == tile.errors \/ CurrentStage \in {"clone_failed", "push_failed"}
               b == IF zero /\ CurrentStage = "pushed" THEN "done" ELSE "failed"
    <3>1. q \in 0 .. MaxSession /\ c \in BOOLEAN /\ e \in BOOLEAN /\ b \in TileStates
          /\ "ended" \in TileSteps
      BY <1>1, <1>2 DEF NoSession
    <3>2. tile' = [tile EXCEPT !.step = "ended", !.pushed = q, !.cloneFailed = c, !.errors = e, !.state = b]
      BY <2>1
    <3> HIDE DEF q, c, e, b
    <3>3. /\ tile' \in TileType /\ tile'.step = "ended" /\ tile'.session = tile.session
          /\ tile'.pushed = q /\ tile'.cloneFailed = c /\ tile'.state = b
          /\ tile'.up = tile.up /\ tile'.collected = tile.collected
      BY <1>0, <3>1, <3>2 DEF TileType, TileSteps, TileStates
    <3> QED
      BY <3>3 DEF q, c, b
  <2>4. TileInv' /\ CheckoutInv'
    BY <1>1, <2>2, <2>3 DEF TileInv, CheckoutInv, NoSession
  <2> QED
    BY <1>1, <2>2, <2>3, <2>4 DEF UnstartedInv
<1>7. ASSUME StreamBreaks PROVE Kept
  <2>1. PICK receipt \in {NoSession, tile.session} :
          /\ receipt # NoSession => tile.up
          /\ tile' = [tile EXCEPT !.step = "ended", !.state = "failed", !.errors = TRUE,
                                  !.pushed = receipt]
    BY <1>7 DEF StreamBreaks
  <2>2. /\ tile.step = "session" /\ tile.session # 0 /\ ~tile.collected /\ ~tile.cloneFailed
        /\ UNCHANGED checkout /\ receipt \in 0 .. MaxSession
    BY <1>1, <1>2, <1>7 DEF StreamBreaks, TileInv, NoSession
  <2>3. /\ tile' \in TileType /\ tile'.step = "ended" /\ tile'.session = tile.session
        /\ tile'.pushed = receipt /\ tile'.state = "failed" /\ tile'.cloneFailed = tile.cloneFailed
        /\ tile'.up = tile.up /\ tile'.collected = tile.collected
    <3>1. tile \in TileType /\ receipt \in 0 .. MaxSession
          /\ tile' = [tile EXCEPT !.step = "ended", !.state = "failed", !.errors = TRUE, !.pushed = receipt]
      BY <1>2, <2>1, <2>2
    <3> QED
      BY <3>1 DEF TileType, TileSteps, TileStates
  <2>4. \A t \in Sessions : agentSession[t] = "none" => agentSession'[t] = "none"
    BY <1>1, <1>7 DEF StreamBreaks, SessionBecomes, CurrentStage, RunningStages
  <2>5. TileInv' /\ CheckoutInv'
    BY <1>1, <2>1, <2>2, <2>3 DEF TileInv, CheckoutInv
  <2> QED
    BY <1>1, <2>3, <2>4, <2>5 DEF UnstartedInv
<1>8. ASSUME AfterSession PROVE Kept
  <2>1. tile.step = "ended" /\ UNCHANGED <<agentSession, checkout>>
    BY <1>8 DEF AfterSession
  <2>2. /\ tile' \in TileType /\ tile'.session = tile.session /\ tile'.collected = tile.collected
        /\ tile'.pushed = tile.pushed
        /\ \/ tile'.step = "idle" /\ ~tile'.cloneFailed /\ (~tile.up \/ tile.cloneFailed)
           \/ tile'.step = "over" /\ tile'.state = tile.state /\ tile.pushed = NoSession
           \/ tile'.step = "fetch" /\ tile.pushed # NoSession
    <3>1. CASE tile.state = "failed" /\ NoWork /\ tile.errors /\ tile.retry < Retries
      <4>1. /\ tile' = [tile EXCEPT !.step = "idle", !.retry = tile.retry + 1, !.state = "starting",
                                     !.up = FALSE, !.cloneFailed = FALSE]
            /\ tile.retry + 1 \in 0 .. Retries
        BY <1>1, <1>2, <1>8, <3>1 DEF AfterSession
      <4>2. /\ tile' \in TileType /\ tile'.session = tile.session /\ tile'.collected = tile.collected
            /\ tile'.pushed = tile.pushed /\ tile'.step = "idle" /\ ~tile'.cloneFailed
        BY <1>0, <4>1 DEF TileType, TileSteps, TileStates
      <4> QED
        BY <3>1, <4>2 DEF NoWork
    <3>2. CASE ~(tile.state = "failed" /\ NoWork /\ tile.errors /\ tile.retry < Retries)
               /\ tile.pushed = NoSession
      <4>1. tile' = [tile EXCEPT !.step = "over"]
        BY <1>8, <3>2 DEF AfterSession
      <4>2. /\ tile' \in TileType /\ tile'.session = tile.session /\ tile'.collected = tile.collected
            /\ tile'.pushed = tile.pushed /\ tile'.step = "over" /\ tile'.state = tile.state
        BY <1>0, <4>1 DEF TileType, TileSteps, TileStates
      <4> QED
        BY <3>2, <4>2
    <3>3. CASE ~(tile.state = "failed" /\ NoWork /\ tile.errors /\ tile.retry < Retries)
               /\ tile.pushed # NoSession
      <4> DEFINE d == tile.state = "done"
                 b == IF tile.state = "done" THEN "collecting" ELSE tile.state
      <4>1. tile' = [tile EXCEPT !.step = "fetch", !.agentDone = d, !.state = b]
        BY <1>8, <3>3 DEF AfterSession
      <4>2. d \in BOOLEAN /\ b \in TileStates /\ "fetch" \in TileSteps
        BY <1>2
      <4> HIDE DEF d, b
      <4>3. /\ tile' \in TileType /\ tile'.session = tile.session /\ tile'.collected = tile.collected
            /\ tile'.pushed = tile.pushed /\ tile'.step = "fetch"
        BY <1>0, <4>1, <4>2 DEF TileType, TileSteps, TileStates
      <4> QED
        BY <3>3, <4>3
    <3> QED
      BY <3>1, <3>2, <3>3
  <2>3. TileInv'
    BY <1>1, <2>1, <2>2 DEF TileInv
  <2> QED
    BY <1>1, <2>1, <2>2, <2>3 DEF TileInv, CheckoutInv, UnstartedInv
<1>9. ASSUME Fetch PROVE Kept
  <2>1. /\ tile.step = "fetch" /\ UNCHANGED <<agentSession, checkout>>
        /\ \/ \E f \in 0 .. MaxSession : tile' = [tile EXCEPT !.step = "add", !.fetched = f]
           \/ tile' = [tile EXCEPT !.step = "over", !.state = "failed"]
    BY <1>1, <1>9 DEF Fetch, NotCollected
  <2>2. /\ tile' \in TileType /\ tile'.session = tile.session /\ tile'.collected = tile.collected
        /\ tile'.pushed = tile.pushed
        /\ tile'.step = "add" \/ (tile'.step = "over" /\ tile'.state = "failed")
    <3>1. CASE \E f \in 0 .. MaxSession : tile' = [tile EXCEPT !.step = "add", !.fetched = f]
      <4>1. PICK f \in 0 .. MaxSession : tile' = [tile EXCEPT !.step = "add", !.fetched = f]
        BY <3>1
      <4> QED
        BY <1>0, <4>1 DEF TileType, TileSteps, TileStates
    <3>2. CASE tile' = [tile EXCEPT !.step = "over", !.state = "failed"]
      BY <1>0, <3>2 DEF TileType, TileSteps, TileStates
    <3> QED
      BY <2>1, <3>1, <3>2
  <2>3. TileInv'
    BY <1>1, <2>1, <2>2 DEF TileInv
  <2> QED
    BY <1>1, <2>1, <2>2, <2>3 DEF TileInv, CheckoutInv, UnstartedInv
<1>10. ASSUME AddWorktree PROVE Kept
  <2> DEFINE b == IF tile.agentDone THEN "done" ELSE "failed"
             collected == [tile EXCEPT !.step = "over", !.collected = TRUE,
                                       !.keptEdits = checkout.edited, !.state = b]
  <2>1. tile.step = "add" /\ tile.pushed = tile.session /\ tile.session # 0 /\ ~tile.collected
        /\ UNCHANGED agentSession
    BY <1>1, <1>10 DEF AddWorktree, TileInv
  <2>2. CASE NotCollected
    <3>1. /\ tile' \in TileType /\ tile'.session = tile.session /\ tile'.collected = tile.collected
          /\ tile'.step = "over" /\ tile'.state = "failed"
      BY <1>0, <2>2 DEF NotCollected, TileType, TileSteps, TileStates
    <3>2. TileInv'
      BY <1>1, <2>1, <3>1 DEF TileInv
    <3>3. checkout' \in [holds : 0 .. MaxSession, edited : BOOLEAN]
      <4>1. PlacesCheckout \/ UNCHANGED checkout
        BY <1>10 DEF AddWorktree
      <4>2. tile.fetched \in 0 .. MaxSession
        BY <1>0 DEF TileType
      <4> QED
        BY <1>1, <4>1, <4>2 DEF PlacesCheckout, CheckoutInv
    <3> QED
      BY <1>1, <2>1, <3>1, <3>2, <3>3 DEF UnstartedInv, CheckoutInv
  <2>3. CASE ~Moved /\ PlacesCheckout /\ tile' = collected
    <3>1. b \in TileStates
      BY <1>2
    <3> HIDE DEF b
    <3>2. /\ tile' \in TileType /\ tile'.session = tile.session /\ tile'.collected
          /\ tile'.pushed = tile.pushed /\ tile'.step = "over" /\ tile'.keptEdits = checkout.edited
      <4>1. checkout.edited \in BOOLEAN
        BY <1>2
      <4> QED
        BY <1>0, <2>3, <3>1, <4>1 DEF TileType, TileSteps, TileStates
    <3>3. TileInv'
      BY <2>1, <3>2 DEF TileInv
    <3>4. tile.fetched = tile.session
      BY <2>1, <2>3 DEF Moved
    <3>5. CheckoutInv'
      BY <1>1, <1>2, <2>3, <3>2, <3>4 DEF CheckoutInv, PlacesCheckout
    <3> QED
      BY <1>1, <2>1, <3>2, <3>3, <3>5 DEF UnstartedInv
  <2> QED
    BY <1>10, <2>2, <2>3 DEF AddWorktree
<1>11. ASSUME Edit PROVE Kept
  BY <1>1, <1>11 DEF Edit, TileInv, CheckoutInv, UnstartedInv
<1>12. ASSUME RunAgain PROVE Kept
  <2>1. /\ tile' = NewTile(tile.session) /\ UNCHANGED <<agentSession, checkout>>
        /\ tile'.step = "idle" /\ tile'.session = tile.session /\ ~tile'.collected
        /\ tile'.pushed = NoSession /\ ~tile'.cloneFailed
    BY <1>12 DEF RunAgain, NewTile
  <2>2. NewTile(tile.session) \in TileType
    BY <1>1, <1>2 DEF NewTile, TileType, NoSession
  <2> QED
    BY <1>1, <2>1, <2>2 DEF TileInv, CheckoutInv, UnstartedInv
<1>13. ASSUME UNCHANGED fanoutVars PROVE Kept
  BY <1>1, <1>13 DEF fanoutVars, TileInv, CheckoutInv, UnstartedInv
<1> QED
  BY <1>3, <1>4, <1>5, <1>6, <1>7, <1>8, <1>9, <1>10, <1>11, <1>12, <1>13 DEF FanoutNext

LEMMA FanoutInvariant == FanoutSpec => []FanoutInv
<1>1. FanoutInit => FanoutInv
  <2> SUFFICES ASSUME FanoutInit PROVE FanoutInv
    OBVIOUS
  <2>1. MaxSession \in Nat \ {0} /\ Retries \in Nat
    BY FanoutAssumption
  <2>2. PushedSessions = {}
    BY DEF FanoutInit, PushedSessions
  <2>3. BranchInv
    BY <2>1, <2>2, FS_EmptySet DEF FanoutInit, BranchInv, AgentStage, NoSession
  <2>4. TileInv /\ CheckoutInv /\ UnstartedInv
    BY <2>1 DEF FanoutInit, NewTile, TileInv, TileType, TileSteps, TileStates,
       CheckoutInv, UnstartedInv, NoSession
  <2> QED
    BY <2>3, <2>4 DEF FanoutInv
<1>2. FanoutInv /\ [FanoutNext]_fanoutVars => FanoutInv'
  BY BranchStep, TileStep DEF FanoutInv
<1> QED
  BY <1>1, <1>2, PTL DEF FanoutSpec

(* What the board calls collected is what this run's own session pushed, though *)
(* an earlier session of the same agent may push the branch later; and an agent *)
(* reported done has its worktree (fanout.py collect, run_tile_with_one_retry). *)
THEOREM CollectedIsOwnPush == FanoutSpec => []CollectedIsPushed
<1>1. FanoutInv => CollectedIsPushed
  BY DEF FanoutInv, TileInv, CheckoutInv, CollectedIsPushed
<1> QED
  BY <1>1, FanoutInvariant, PTL

-----------------------------------------------------------------------------
(* The review.  The gate's code is the check's own or none of the check's, and  *)
(* a reviewer is asked only once every file was read or rightly left out.       *)

(* How the gate's wait ended, given the code it goes by.                        *)
EndedWith(code) ==
    \/ check.exit # NoExit /\ code = check.exit /\ theCheck \notin group
    \/ /\ code = TimedOut /\ clock = Budget
       /\ check.exit = NoExit \/ check.at = Budget

(* While the gate works its code says how its wait ended: with the check, or     *)
(* with the budget, before which the check cannot have ended then.              *)
GateInv ==
    /\ gate \in [pc : {"start", "wait", "term", "kill", "over"},
                 code : {NoExit, 0, 1, NoCheck, CannotRun, TimedOut}]
    /\ check \in [exit : {NoExit, 0, 1}, at : 0 .. Budget]
    /\ clock \in 0 .. Budget
    /\ theCheck \in group => check.exit = NoExit
    /\ gate.pc = "start" => group = {} /\ check.exit = NoExit
    /\ gate.pc = "wait" => theCheck \in group \/ check.exit # NoExit
    /\ gate.pc \in {"term", "kill"} => EndedWith(gate.code)
    /\ gate.pc = "over" =>
          /\ group = {}
          /\ \/ EndedWith(gate.code)
             \/ gate.code \in {NoCheck, CannotRun} /\ check.exit = NoExit

(* A file is accounted for when it was, or is still to be, shown, or has a       *)
(* reason of its own to be left out.                                           *)
Accounted(f, c, t) ==
    LET kept == c.shown \cup c.todo IN
    \/ f \in kept
    \/ t[f].kind \in {"binary", "late"} /\ f \in c.listed
    \/ /\ t[f].kind = "declared" /\ t[f].claims = 1 /\ f # entry
       /\ entry \in kept /\ t[entry].kind = "text"
    \/ t[f].kind = "hidden" /\ f \notin Changed
AllAccounted(c, t) ==
    theCheck \in c.shown \cup c.todo /\ \A f \in Artifact : Accounted(f, c, t)

ContextType == [shown : SUBSET (Artifact \cup {theCheck}), listed : SUBSET Artifact,
                todo : SUBSET (Artifact \cup {theCheck}), left : 0 .. MaxChars]

ContextInv ==
    /\ tree \in [Artifact -> Artifacts] /\ context \in ContextType
    /\ ask \in [attempt : 0 .. 2, reply : ReviewReply]
    /\ context.todo # {} \/ ask.attempt > 0 => Passed /\ AllAccounted(context, tree)
    /\ ask.attempt > 0 => context.todo = {}

VerdictInv ==
    /\ verdict \in {"none", "approved", "changes_requested", "unavailable"}
    /\ verdict # "none" => gate.pc = "over"
    /\ verdict = "approved" =>
          /\ ask.attempt > 0
          /\ ask.reply = [form |-> "valid", approve |-> TRUE, reasons |-> FALSE,
                          evidence |-> TRUE, lenses |-> TRUE]
    /\ verdict = "changes_requested" =>
          \/ gate.code # 0
          \/ ask.reply.form = "valid" /\ (~ask.reply.approve \/ ask.reply.reasons
                                           \/ ~ask.reply.evidence)

ReviewInv == GateInv /\ ContextInv /\ VerdictInv

LEMMA GateStep ==
  ASSUME GateInv, [ReviewNext]_reviewVars
  PROVE  /\ GateInv'
         /\ gate.pc = "over" => gate' = gate
<1> DEFINE Codes == {NoExit, 0, 1, NoCheck, CannotRun, TimedOut}
           Places == {"start", "wait", "term", "kill", "over"}
           Goal == GateInv' /\ (gate.pc = "over" => gate' = gate)
<1>1. /\ gate \in [pc : Places, code : Codes] /\ check \in [exit : {NoExit, 0, 1}, at : 0 .. Budget]
      /\ gate.pc \in Places /\ gate.code \in Codes
      /\ check.exit \in {NoExit, 0, 1} /\ check.at \in 0 .. Budget
      /\ clock \in 0 .. Budget /\ Budget \in Nat
  BY ReviewAssumption DEF GateInv
<1>2. ASSUME UNCHANGED <<gate, check, group, clock>> PROVE Goal
  BY <1>1, <1>2 DEF GateInv, EndedWith
<1>3. ASSUME GateIsRed PROVE Goal
  <2>1. PICK c \in {NoCheck, CannotRun} : gate' = [pc |-> "over", code |-> c]
    BY <1>3 DEF GateIsRed, Over
  <2>2. gate.pc = "start" /\ group = {} /\ check.exit = NoExit /\ UNCHANGED <<check, group, clock>>
    BY <1>3 DEF GateIsRed, GateInv
  <2>3. gate' \in [pc : Places, code : Codes] /\ gate'.pc = "over" /\ gate'.code = c
    BY <2>1
  <2> QED
    BY <1>1, <2>2, <2>3 DEF GateInv
<1>4. ASSUME CheckStarts PROVE Goal
  <2>1. /\ gate.pc = "start" /\ gate' = [gate EXCEPT !.pc = "wait"] /\ group' = {theCheck}
        /\ check.exit = NoExit /\ UNCHANGED <<check, clock>>
    BY <1>4 DEF CheckStarts, GateInv
  <2>2. gate' \in [pc : Places, code : Codes] /\ gate'.pc = "wait"
    BY <1>1, <2>1
  <2> QED
    BY <1>1, <2>1, <2>2 DEF GateInv
<1>5. ASSUME ServiceStarts PROVE Goal
  <2>1. /\ theCheck \in group /\ theCheck \in group' /\ UNCHANGED <<gate, check, clock>>
        /\ check.exit = NoExit /\ gate.pc # "start" /\ gate.pc # "over"
    BY <1>5 DEF ServiceStarts, GateInv
  <2> QED
    BY <1>1, <2>1 DEF GateInv, EndedWith, NoExit
<1>6. ASSUME CheckExits PROVE Goal
  <2>1. PICK c \in {0, 1} : check' = [exit |-> c, at |-> clock]
    BY <1>6 DEF CheckExits
  <2>2. /\ theCheck \in group /\ theCheck \notin group' /\ UNCHANGED <<gate, clock>>
        /\ check.exit = NoExit /\ gate.pc # "start" /\ gate.pc # "over"
    BY <1>6 DEF CheckExits, GateInv
  <2>3. check' \in [exit : {NoExit, 0, 1}, at : 0 .. Budget] /\ check'.exit = c /\ check'.at = clock
    BY <1>1, <2>1
  <2> QED
    BY <1>1, <2>2, <2>3 DEF GateInv, EndedWith, NoExit
<1>7. ASSUME TimePasses PROVE Goal
  <2>1. /\ gate.pc = "wait" /\ clock' \in 0 .. Budget /\ UNCHANGED <<gate, check, group>>
    BY <1>1, <1>7 DEF TimePasses
  <2> QED
    BY <1>1, <2>1 DEF GateInv
<1>8. ASSUME WaitEnds PROVE Goal
  <2>1. /\ gate.pc = "wait" /\ UNCHANGED <<check, group, clock>>
        /\ CheckIsOver \/ clock = Budget
        /\ gate' = [pc |-> "term", code |-> IF CheckIsOver THEN check.exit ELSE TimedOut]
        /\ theCheck \in group \/ check.exit # NoExit
        /\ theCheck \in group => check.exit = NoExit
    BY <1>8 DEF WaitEnds, GateInv
  <2>2. /\ gate' \in [pc : Places, code : Codes] /\ gate'.pc = "term"
        /\ gate'.code = IF CheckIsOver THEN check.exit ELSE TimedOut
    BY <1>1, <2>1
  <2> QED
    BY <1>1, <2>1, <2>2 DEF GateInv, EndedWith, CheckIsOver
<1>9. ASSUME GroupIsTerminated \/ GroupIsKilled PROVE Goal
  <2>1. /\ gate.pc \in {"term", "kill"} /\ UNCHANGED <<check, clock>> /\ group' \subseteq group
        /\ EndedWith(gate.code)
        /\ theCheck \in group => check.exit = NoExit
    BY <1>9 DEF GroupIsTerminated, GroupIsKilled, GateInv
  <2>2. /\ gate' \in [pc : Places, code : Codes] /\ gate'.pc \in {"kill", "over"}
        /\ gate'.code = gate.code /\ (gate'.pc = "over" => group' = {})
    BY <1>1, <1>9 DEF GroupIsTerminated, GroupIsKilled, Over
  <2>3. EndedWith(gate.code)'
    BY <2>1, <2>2 DEF EndedWith
  <2> QED
    BY <1>1, <2>1, <2>2, <2>3 DEF GateInv
<1> QED
  BY <1>2, <1>3, <1>4, <1>5, <1>6, <1>7, <1>8, <1>9
  DEF ReviewNext, Stays, RedIsRejected, ListArtifacts, NoReviewer, ReadArtifact, InvocationFails,
      ReplyArrives, reviewVars

(* The list of files accounts for every file of the tree it was made of.         *)
LEMMA ListAccounts ==
  ASSUME NEW t \in [Artifact -> Artifacts], NEW c,
         c.listed = Omitted(t),
         c.todo = {f \in Artifact \ Omitted(t) : t[f].kind # "hidden" \/ f \in Changed}
                  \cup {theCheck}
  PROVE  AllAccounted(c, t)
<1>1. entry \in Artifact
  BY ReviewAssumption
<1>2. ASSUME NEW f \in Artifact PROVE Accounted(f, c, t)
  <2>1. CASE f \notin Omitted(t)
    BY <2>1 DEF Accounted
  <2>2. CASE t[f].kind = "binary"
    BY <2>2 DEF Accounted, Omitted
  <2>3. CASE Reviewable(t) /\ f \in DeclaredOutputs(t)
    <3>1. /\ t[f].kind = "declared" /\ t[f].claims = 1 /\ f # entry
          /\ t[entry].kind = "text" /\ t[entry].kind # "hidden"
      BY <2>3 DEF DeclaredOutputs, Reviewable
    <3>2. entry \notin Omitted(t)
      BY <3>1 DEF Omitted, DeclaredOutputs
    <3> QED
      BY <1>1, <3>1, <3>2 DEF Accounted
  <2> QED
    BY <2>1, <2>2, <2>3 DEF Omitted
<1> QED
  BY <1>2 DEF AllAccounted

(* Reading a file keeps every file accounted for: it is shown, or it is listed   *)
(* and is not text.                                                            *)
LEMMA ReadAccounts ==
  ASSUME NEW c, NEW d, AllAccounted(c, tree), NEW f \in c.todo, f \in Artifact \cup {theCheck},
         d.todo = c.todo \ {f},
         IF IsText(f) THEN d.shown = c.shown \cup {f} /\ d.listed = c.listed
         ELSE d.shown = c.shown /\ d.listed = c.listed \cup {f}
  PROVE  AllAccounted(d, tree)
<1>1. CASE IsText(f)
  <2>1. d.shown \cup d.todo = c.shown \cup c.todo /\ d.listed = c.listed
    BY <1>1
  <2> QED
    BY <2>1 DEF AllAccounted, Accounted
<1>2. CASE ~IsText(f)
  <2>1. /\ c.shown \cup c.todo \subseteq d.shown \cup d.todo \cup {f}
        /\ c.listed \subseteq d.listed /\ f \in d.listed /\ f # theCheck /\ tree[f].kind = "late"
    BY <1>2 DEF IsText
  <2>2. ASSUME NEW g \in Artifact PROVE Accounted(g, d, tree)
    <3>1. Accounted(g, c, tree)
      BY DEF AllAccounted
    <3>2. CASE g = f
      BY <2>1, <3>2 DEF Accounted
    <3>3. CASE g # f /\ g \in c.shown \cup c.todo
      BY <2>1, <3>3 DEF Accounted
    <3>4. CASE tree[g].kind \in {"binary", "late"} /\ g \in c.listed
      BY <2>1, <3>4 DEF Accounted
    <3>5. CASE /\ tree[g].kind = "declared" /\ tree[g].claims = 1 /\ g # entry
               /\ entry \in c.shown \cup c.todo /\ tree[entry].kind = "text"
      <4>1. entry # f
        BY <2>1, <3>5
      <4> QED
        BY <2>1, <3>5, <4>1 DEF Accounted
    <3> QED
      BY <3>1, <3>2, <3>3, <3>4, <3>5 DEF Accounted
  <2> QED
    BY <2>1, <2>2 DEF AllAccounted
<1> QED
  BY <1>1, <1>2

(* What a reply decides is what it says.                                        *)
LEMMA ReplyDecides ==
  ASSUME NEW r \in ReviewReply
  PROVE  /\ Reading(r) \in {"invalid", "unproven", "approved", "changes_requested"}
         /\ Reading(r) = "approved" =>
               r = [form |-> "valid", approve |-> TRUE, reasons |-> FALSE,
                    evidence |-> TRUE, lenses |-> TRUE]
         /\ Reading(r) \in {"unproven", "changes_requested"} =>
               r.form = "valid" /\ (~r.approve \/ r.reasons \/ ~r.evidence)
<1>1. /\ r.form \in {"valid", "broken"} /\ r.approve \in BOOLEAN /\ r.reasons \in BOOLEAN
      /\ r.evidence \in BOOLEAN /\ r.lenses \in BOOLEAN
      /\ r = [form |-> r.form, approve |-> r.approve, reasons |-> r.reasons,
              evidence |-> r.evidence, lenses |-> r.lenses]
  BY DEF ReviewReply
<1>2. /\ Reading(r) = "approved" => r.form = "valid" /\ r.approve /\ ~r.reasons /\ r.evidence /\ r.lenses
      /\ Reading(r) \in {"unproven", "changes_requested"} =>
               r.form = "valid" /\ (~r.approve \/ r.reasons \/ ~r.evidence)
      /\ Reading(r) \in {"invalid", "unproven", "approved", "changes_requested"}
  BY <1>1 DEF Reading, ApprovesWith
<1>3. ASSUME Reading(r) = "approved"
      PROVE  r = [form |-> "valid", approve |-> TRUE, reasons |-> FALSE,
                  evidence |-> TRUE, lenses |-> TRUE]
  <2>1. r.form = "valid" /\ r.approve = TRUE /\ r.reasons = FALSE /\ r.evidence = TRUE /\ r.lenses = TRUE
    BY <1>1, <1>2, <1>3
  <2> QED
    BY <1>1, <2>1
<1> QED
  BY <1>2, <1>3

LEMMA ReadStep ==
  ASSUME ContextInv, Undecided, context.todo # {}, ReadsWhole, UNCHANGED <<gate, tree>>
  PROVE  ContextInv' /\ verdict' \in {"none", "unavailable"}
<1>1. /\ tree \in [Artifact -> Artifacts] /\ context \in ContextType
      /\ ask \in [attempt : 0 .. 2, reply : ReviewReply] /\ ask.attempt = 0
      /\ Passed /\ AllAccounted(context, tree) /\ verdict = "none"
      /\ context.todo \subseteq Artifact \cup {theCheck} /\ context.left \in 0 .. MaxChars
      /\ MaxChars \in Nat /\ Sizes \subseteq Nat
  <2>1. ask.attempt \in 0 .. 2
    BY DEF ContextInv
  <2> QED
    BY <2>1, ReviewAssumption DEF ContextInv, ContextType, Undecided
<1>2. Passed'
  BY <1>1 DEF Passed
<1>3. PICK f \in Soonest(context.todo) :
        IF SizeOf(f) > 4 * (context.left + 1) \/ (IsText(f) /\ SizeOf(f) > context.left)
        THEN verdict' = "unavailable" /\ UNCHANGED <<context, ask>>
        ELSE /\ context' = IF IsText(f)
                           THEN [context EXCEPT !.todo = @ \ {f}, !.shown = @ \cup {f},
                                                !.left = @ - SizeOf(f)]
                           ELSE [context EXCEPT !.todo = @ \ {f}, !.listed = @ \cup {f}]
             /\ ask' = IF context.todo = {f} THEN [ask EXCEPT !.attempt = 1] ELSE ask
             /\ UNCHANGED verdict
  BY DEF ReadsWhole
<1>4. f \in context.todo /\ f \in Artifact \cup {theCheck}
  BY <1>1 DEF Soonest
<1>5. SizeOf(f) \in Nat
  <2>1. f = theCheck \/ tree[f] \in Artifacts
    BY <1>1, <1>4
  <2>2. f = theCheck \/ tree[f].size \in Nat
    <3>1. ASSUME NEW a \in Artifacts PROVE a.size \in Sizes
      <4>1. \/ a \in [kind : {"text", "late"}, size : Sizes, claims : {0}]
            \/ a \in [kind : {"binary", "hidden"}, size : {1}, claims : {0}]
            \/ a \in [kind : {"declared"}, size : {1}, claims : {1, 2}]
        BY DEF Artifacts
      <4>2. a.size \in Sizes \/ a.size \in {1}
        BY <4>1
      <4> QED
        BY <4>2, ReviewAssumption
    <3> QED
      BY <1>1, <2>1, <3>1
  <2>3. CASE f = theCheck
    <3>1. SizeOf(f) = 1
      BY <2>3 DEF SizeOf
    <3> QED
      BY <3>1
  <2>4. CASE f # theCheck
    <3>1. SizeOf(f) = tree[f].size
      BY <2>4 DEF SizeOf
    <3> QED
      BY <2>2, <2>4, <3>1
  <2> QED
    BY <2>3, <2>4
<1>6. CASE verdict' = "unavailable" /\ UNCHANGED <<context, ask>>
  BY <1>1, <1>2, <1>6 DEF ContextInv, AllAccounted, Accounted
<1>7. CASE /\ IsText(f) => SizeOf(f) <= context.left
           /\ context' = IF IsText(f)
                         THEN [context EXCEPT !.todo = @ \ {f}, !.shown = @ \cup {f},
                                              !.left = @ - SizeOf(f)]
                         ELSE [context EXCEPT !.todo = @ \ {f}, !.listed = @ \cup {f}]
           /\ ask' = IF context.todo = {f} THEN [ask EXCEPT !.attempt = 1] ELSE ask
           /\ UNCHANGED verdict
  <2>1. /\ context' \in ContextType /\ context'.todo = context.todo \ {f}
        /\ IF IsText(f) THEN context'.shown = context.shown \cup {f} /\ context'.listed = context.listed
           ELSE context'.shown = context.shown /\ context'.listed = context.listed \cup {f}
    <3>1. CASE IsText(f)
      <4> DEFINE m == context.left - SizeOf(f)
      <4>1. m \in 0 .. MaxChars
        BY <1>1, <1>7, <1>5, <3>1
      <4>2. context' = [context EXCEPT !.todo = context.todo \ {f}, !.shown = context.shown \cup {f},
                                       !.left = m]
        BY <1>7, <3>1
      <4> HIDE DEF m
      <4> QED
        BY <1>1, <1>4, <3>1, <4>1, <4>2 DEF ContextType
    <3>2. CASE ~IsText(f)
      <4>1. f \in Artifact
        BY <1>4, <3>2 DEF IsText
      <4>2. context' = [context EXCEPT !.todo = context.todo \ {f}, !.listed = context.listed \cup {f}]
        BY <1>7, <3>2
      <4> QED
        BY <1>1, <1>4, <3>2, <4>1, <4>2 DEF ContextType
    <3> QED
      BY <3>1, <3>2
  <2>2. AllAccounted(context', tree)
    BY <1>1, <1>4, <2>1, ReadAccounts
  <2>3. AllAccounted(context, tree)'
    BY <2>2 DEF AllAccounted, Accounted
  <2>4. /\ ask' \in [attempt : 0 .. 2, reply : ReviewReply]
        /\ ask'.attempt > 0 => context'.todo = {}
    <3>1. CASE context.todo = {f}
      <4>1. ask' = [ask EXCEPT !.attempt = 1]
        BY <1>7, <3>1
      <4> QED
        BY <1>1, <2>1, <3>1, <4>1
    <3>2. CASE context.todo # {f}
      BY <1>1, <1>7, <3>2
    <3> QED
      BY <3>1, <3>2
  <2> QED
    BY <1>1, <1>2, <1>7, <2>1, <2>3, <2>4 DEF ContextInv
<1> QED
  BY <1>1, <1>3, <1>6, <1>7, <1>5

LEMMA ListStep ==
  ASSUME ContextInv, GateInv, ListArtifacts
  PROVE  ContextInv' /\ verdict' \in {"none", "unavailable"}
<1>1. /\ context \in ContextType /\ ask \in [attempt : 0 .. 2, reply : ReviewReply]
      /\ ask.attempt = 0 /\ Passed /\ context.todo = {} /\ context.shown = {} /\ verdict = "none"
      /\ tree' \in [Artifact -> Artifacts] /\ UNCHANGED <<gate, ask>>
  BY DEF ContextInv, ListArtifacts, Undecided, Stays
<1>2. Passed' /\ ask' \in [attempt : 0 .. 2, reply : ReviewReply] /\ ask'.attempt = 0
  BY <1>1 DEF Passed
<1>3. CASE UNCHANGED context /\ verdict' = "unavailable"
  BY <1>1, <1>2, <1>3 DEF ContextInv
<1>4. CASE ~(UNCHANGED context /\ verdict' = "unavailable")
  <2> DEFINE files == {f \in Artifact \ Omitted(tree') : tree'[f].kind # "hidden" \/ f \in Changed}
             seen == files \cup {theCheck}
             listed == Omitted(tree')
  <2>1. context' = [context EXCEPT !.todo = seen, !.listed = listed] /\ verdict' = verdict
    BY <1>4 DEF ListArtifacts
  <2>2. seen \subseteq Artifact \cup {theCheck} /\ listed \subseteq Artifact
    BY DEF Omitted, DeclaredOutputs
  <2>3. context' \in ContextType /\ context'.todo = seen /\ context'.listed = listed
    <3> HIDE DEF seen, listed
    <3> QED
      BY <1>1, <2>1, <2>2 DEF ContextType
  <2>4. AllAccounted(context', tree')
    BY <1>1, <2>3, ListAccounts
  <2>5. AllAccounted(context, tree)'
    BY <2>4 DEF AllAccounted, Accounted
  <2> QED
    BY <1>1, <1>2, <2>1, <2>3, <2>5 DEF ContextInv
<1> QED
  BY <1>3, <1>4

LEMMA ReviewStep ==
  ASSUME ReviewInv, [ReviewNext]_reviewVars
  PROVE  ReviewInv'
<1> DEFINE Goal == ContextInv' /\ VerdictInv'
<1>1. /\ GateInv /\ ContextInv /\ VerdictInv /\ GateInv'
      /\ gate.pc = "over" => gate' = gate
      /\ ask \in [attempt : 0 .. 2, reply : ReviewReply] /\ ask.attempt \in 0 .. 2
  BY GateStep DEF ReviewInv, ContextInv
<1>2. ASSUME UNCHANGED <<tree, context, ask, verdict>> PROVE Goal
  <2>1. Passed => Passed'
    BY <1>1 DEF Passed
  <2>2. ContextInv'
    BY <1>1, <1>2, <2>1 DEF ContextInv, AllAccounted, Accounted
  <2>3. verdict # "none" => gate' = gate /\ gate.pc = "over"
    BY <1>1 DEF VerdictInv
  <2> QED
    BY <1>1, <1>2, <2>2, <2>3 DEF VerdictInv
<1>3. ASSUME RedIsRejected \/ NoReviewer PROVE Goal
  <2>1. /\ UNCHANGED <<gate, tree, context, ask>> /\ gate.pc = "over"
        /\ \/ verdict' = "changes_requested" /\ gate.code # 0
           \/ verdict' = "unavailable"
    BY <1>3 DEF RedIsRejected, NoReviewer, Stays, Passed
  <2>2. ContextInv'
    BY <1>1, <2>1 DEF ContextInv, AllAccounted, Accounted, Passed
  <2> QED
    BY <2>1, <2>2 DEF VerdictInv
<1>4. ASSUME ReadArtifact \/ ListArtifacts PROVE Goal
  <2>1. ContextInv' /\ verdict' \in {"none", "unavailable"}
    BY <1>1, <1>4, ReadStep, ListStep DEF ReadArtifact, Stays
  <2>2. gate' = gate /\ gate.pc = "over"
    BY <1>1, <1>4 DEF ReadArtifact, ListArtifacts, Stays, ContextInv, Passed
  <2> QED
    BY <2>1, <2>2 DEF VerdictInv
<1>5. ASSUME InvocationFails PROVE Goal
  <2>1. /\ UNCHANGED <<gate, tree, context>> /\ ask.attempt > 0 /\ verdict = "none"
        /\ \/ ask' = [ask EXCEPT !.attempt = 2] /\ verdict' = verdict
           \/ ask' = ask /\ verdict' = "unavailable"
    BY <1>5 DEF InvocationFails, SecondAttempt, Stays, Undecided
  <2>2. ask' \in [attempt : 0 .. 2, reply : ReviewReply] /\ ask'.attempt > 0
    BY <1>1, <2>1
  <2>3. ContextInv' /\ gate.pc = "over"
    BY <1>1, <2>1, <2>2 DEF ContextInv, AllAccounted, Accounted, Passed
  <2> QED
    BY <1>1, <2>1, <2>3 DEF VerdictInv
<1>6. ASSUME ReplyArrives PROVE Goal
  <2>1. /\ UNCHANGED <<gate, tree, context>> /\ ask.attempt > 0 /\ verdict = "none"
    BY <1>6 DEF ReplyArrives, Stays, Undecided
  <2>2. PICK r \in ReviewReply :
          IF Reading(r) \in {"invalid", "unproven"} /\ ask.attempt = 1
          THEN ask' = [attempt |-> 2, reply |-> r] /\ UNCHANGED verdict
          ELSE /\ ask' = [ask EXCEPT !.reply = r]
               /\ verdict' = CASE Reading(r) = "invalid" -> "unavailable"
                               [] Reading(r) = "unproven" -> "changes_requested"
                               [] OTHER -> Reading(r)
    BY <1>6 DEF ReplyArrives
  <2>3. /\ ask' \in [attempt : 0 .. 2, reply : ReviewReply] /\ ask'.attempt > 0 /\ ask'.reply = r
    <3>1. CASE ask' = [attempt |-> 2, reply |-> r]
      BY <3>1
    <3>2. CASE ask' = [ask EXCEPT !.reply = r]
      BY <1>1, <2>1, <3>2
    <3> QED
      BY <2>2, <3>1, <3>2
  <2>4. ContextInv' /\ gate.pc = "over"
    BY <1>1, <2>1, <2>3 DEF ContextInv, AllAccounted, Accounted, Passed
  <2>5. /\ Reading(r) \in {"invalid", "unproven", "approved", "changes_requested"}
        /\ \/ verdict' \in {"none", "unavailable"}
           \/ verdict' = "changes_requested" /\ Reading(r) \in {"unproven", "changes_requested"}
           \/ verdict' = "approved" /\ Reading(r) = "approved"
    BY <2>1, <2>2, ReplyDecides
  <2> QED
    BY <2>1, <2>3, <2>4, <2>5, ReplyDecides DEF VerdictInv
<1> QED
  BY <1>1, <1>2, <1>3, <1>4, <1>5, <1>6
  DEF ReviewInv, ReviewNext, GateIsRed, CheckStarts, ServiceStarts, CheckExits, TimePasses, WaitEnds,
      GroupIsTerminated, GroupIsKilled, reviewVars

LEMMA ReviewInvariant == ReviewSpec => []ReviewInv
<1>1. ReviewInit => ReviewInv
  <2> SUFFICES ASSUME ReviewInit PROVE ReviewInv
    OBVIOUS
  <2>1. Budget \in Nat /\ MaxChars \in Nat
    BY ReviewAssumption
  <2>2. GateInv
    BY <2>1 DEF ReviewInit, GateInv
  <2>3. context \in ContextType /\ context.todo = {}
    BY <2>1 DEF ReviewInit, ContextType, NoContext
  <2>4. ask \in [attempt : 0 .. 2, reply : ReviewReply] /\ ask.attempt = 0
    BY DEF ReviewInit, ReviewReply, NoReply
  <2>5. tree \in [Artifact -> Artifacts]
    <3>1. [kind |-> "text", size |-> 1, claims |-> 0] \in Artifacts
      BY ReviewAssumption DEF Artifacts
    <3> QED
      BY <3>1 DEF ReviewInit
  <2> QED
    BY <2>2, <2>3, <2>4, <2>5 DEF ReviewInit, ReviewInv, ContextInv, VerdictInv
<1>2. ReviewInv /\ [ReviewNext]_reviewVars => ReviewInv'
  BY ReviewStep
<1> QED
  BY <1>1, <1>2, PTL DEF ReviewSpec

(* The gate's result is the check's own, and what the check started does not      *)
(* outlive it (run_gate, _kill_process_group); an approval stands on a passed     *)
(* check, a whole reply that lists no defect and every file shown whole, and a    *)
(* change is asked for only for a red gate or for what a reply says (assess).     *)
THEOREM ReviewsAreFounded == ReviewSpec => []ReviewIsFounded
<1>1. ReviewInv => GateIsHonest
  BY ReviewAssumption DEF ReviewInv, GateInv, EndedWith, GateIsHonest, NoExit, NoCheck, CannotRun, TimedOut
<1>2. ReviewInv => VerdictIsFounded
  <2> SUFFICES ASSUME ReviewInv PROVE VerdictIsFounded
    OBVIOUS
  <2>1. verdict = "approved" =>
          /\ Passed /\ context.todo = {} /\ AllAccounted(context, tree)
    BY DEF ReviewInv, ContextInv, VerdictInv
  <2> QED
    BY <2>1 DEF ReviewInv, VerdictInv, VerdictIsFounded, AllAccounted, Accounted
<1> QED
  BY <1>1, <1>2, ReviewInvariant, PTL DEF ReviewIsFounded

-----------------------------------------------------------------------------
(* Deploying a runtime.  A state of the history says which operation it is of,  *)
(* and every state of one operation has its image: so a READY state at the      *)
(* revision a deployer's own submission was accepted as shows that submission,  *)
(* however stale the read.                                                     *)

Invoked == [kind : {"deploy", "promote"}, phase : Phase, current : Nat, expected : Operation,
            since : Operation, operation : Operation, blames : Nat]

DeployTypes ==
    /\ history \in Seq(RuntimeState) /\ accepted \in Operation
    /\ roleUsable \in BOOLEAN /\ known \in BOOLEAN
    /\ stack \in [operation : Operation, complete : BOOLEAN]
    /\ deployer \in [Deployer -> Invoked]

(* Only a failed update returns to the revision before it.                     *)
HistoryInv ==
    \A i \in 1 .. Len(history) :
        /\ history[i].at <= accepted
        /\ history[i].status \in BusyStatus \cup {"READY"} => history[i].revision = history[i].at

Reads(p) ==
    /\ deployer[p].current <= Len(history)
    /\ deployer[p].phase \in {"have", "earlier", "check", "update", "verify", "done"} =>
         deployer[p].current # 0

(* What a deployer that waits for its own submission waits for.                *)
Owns(p) ==
    Is(p, "deploy", "waiting") =>
        /\ deployer[p].expected = deployer[p].since /\ deployer[p].since <= accepted
        /\ \A i \in 1 .. Len(history) :
             history[i].at = deployer[p].since => history[i].image = <<"role", p>>

Verified(p) ==
    /\ Is(p, "promote", "have") => Visible(p, Now(p))
    /\ Is(p, "promote", "verify") \/ Is(p, "promote", "done") =>
         Visible(p, Now(p)) /\ Now(p).status = "READY" /\ Now(p).platform = Selected
    /\ ~Is(p, "deploy", "verify")

Deployed(p) ==
    Is(p, "deploy", "done") =>
        Now(p).status = "READY" /\ Now(p).platform = Selected /\ Now(p).image = <<"role", p>>

Blames(p) ==
    deployer[p].blames # 0 =>
        /\ deployer[p].phase = "failed" /\ deployer[p].blames <= Len(history)
        /\ history[deployer[p].blames].at >= deployer[p].since

KnowsItsOwn(p) == Reads(p) /\ Owns(p) /\ Verified(p) /\ Deployed(p) /\ Blames(p)

DeployInv == DeployTypes /\ HistoryInv /\ \A p \in Deployer : KnowsItsOwn(p)

(* The history only grows, by a state of an operation it knows or of a new one. *)
Grows ==
    /\ history' \in Seq(RuntimeState) /\ accepted' \in Operation /\ accepted <= accepted'
    /\ Len(history) <= Len(history')
    /\ \A i \in 1 .. Len(history) : history'[i] = history[i]
    /\ \A i \in 1 .. Len(history') :
         \/ history'[i].at > accepted
         \/ \E j \in 1 .. Len(history) :
              history'[i].at = history[j].at /\ history'[i].image = history[j].image

(* A history that did not change grew by nothing.                              *)
LEMMA SameHistory ==
    ASSUME DeployTypes, UNCHANGED <<history, accepted>>
    PROVE  Grows
<1>1. accepted \in Int /\ Len(history) \in Nat
    BY DeploymentAssumption DEF DeployTypes, Operation
<1> QED BY <1>1 DEF DeployTypes, Grows

(* The service's next state is added at the end of the history.                *)
LEMMA StateAdded ==
    ASSUME DeployTypes, HistoryInv, NEW e \in RuntimeState, history' = Append(history, e),
           accepted' \in Operation, accepted <= accepted', e.at <= accepted',
           e.status \in BusyStatus \cup {"READY"} => e.revision = e.at,
           \/ e.at > accepted
           \/ \E j \in 1 .. Len(history) : e.at = history[j].at /\ e.image = history[j].image
    PROVE  Grows /\ HistoryInv'
<1>1. history \in Seq(RuntimeState) /\ accepted \in Operation /\ Len(history) \in Nat
    BY DEF DeployTypes
<1>2. /\ history' \in Seq(RuntimeState) /\ Len(history') = Len(history) + 1
      /\ \A i \in 1 .. Len(history) : history'[i] = history[i]
      /\ history'[Len(history) + 1] = e
    BY <1>1
<1>3. \A i \in 1 .. Len(history') : i \in 1 .. Len(history) \/ i = Len(history) + 1
    BY <1>1, <1>2
<1>4. HistoryInv'
  <2> SUFFICES ASSUME NEW i \in 1 .. Len(history')
               PROVE  /\ history'[i].at <= accepted'
                      /\ history'[i].status \in BusyStatus \cup {"READY"} =>
                           history'[i].revision = history'[i].at
      BY DEF HistoryInv
  <2>1. ASSUME i = Len(history) + 1
        PROVE  /\ history'[i].at <= accepted'
               /\ history'[i].status \in BusyStatus \cup {"READY"} =>
                    history'[i].revision = history'[i].at
      BY <2>1, <1>2
  <2>2. ASSUME i \in 1 .. Len(history)
        PROVE  /\ history'[i].at <= accepted'
               /\ history'[i].status \in BusyStatus \cup {"READY"} =>
                    history'[i].revision = history'[i].at
    <3>1. /\ history'[i] = history[i] /\ history[i].at <= accepted
          /\ history[i].status \in BusyStatus \cup {"READY"} => history[i].revision = history[i].at
        BY <2>2, <1>2 DEF HistoryInv
    <3>2. history[i] \in RuntimeState
        BY <2>2, <1>1
    <3>3. history[i].at \in Int /\ accepted \in Int /\ accepted' \in Int
        BY <3>2, <1>1, DeploymentAssumption DEF RuntimeState, Operation
    <3> QED BY <3>1, <3>3
  <2> QED BY <2>1, <2>2, <1>3
<1>5. \A i \in 1 .. Len(history') :
         \/ history'[i].at > accepted
         \/ \E j \in 1 .. Len(history) :
              history'[i].at = history[j].at /\ history'[i].image = history[j].image
    BY <1>2, <1>3
<1> QED BY <1>1, <1>2, <1>4, <1>5 DEF Grows

(* Whatever the history gains, a deployer that did not move still knows what it *)
(* knew.                                                                       *)
LEMMA DeployerRests ==
    ASSUME DeployTypes, Grows, NEW q \in Deployer, KnowsItsOwn(q), deployer'[q] = deployer[q]
    PROVE  KnowsItsOwn(q)'
<1> DEFINE d == deployer[q]
<1>0. d \in Invoked
    BY DEF DeployTypes
<1>1. /\ Len(history) \in Nat /\ Len(history') \in Nat /\ Len(history) <= Len(history')
      /\ accepted \in Int /\ accepted' \in Int /\ accepted <= accepted'
      /\ \A i \in 1 .. Len(history) : history'[i] = history[i]
      /\ \A i \in 1 .. Len(history') : history'[i] \in RuntimeState
    BY DeploymentAssumption DEF DeployTypes, Grows, Operation
<1>2. d.current \in Nat /\ d.blames \in Nat /\ d.since \in Int /\ d.kind \in {"deploy", "promote"}
      /\ d.expected \in Int
    BY <1>0, DeploymentAssumption DEF Invoked, Operation
<1>3. Reads(q)'
    BY <1>1, <1>2 DEF KnowsItsOwn, Reads
<1>4. ASSUME d.current # 0
      PROVE  Now(q)' = Now(q)
  <2>1. d.current \in 1 .. Len(history)
      BY <1>4, <1>2, <1>1 DEF KnowsItsOwn, Reads
  <2> QED BY <2>1, <1>1 DEF Now
<1>5. Verified(q)'
  <2>1. ASSUME d.phase \in {"have", "verify", "done"}
        PROVE  Now(q)' = Now(q)
      BY <2>1, <1>4 DEF KnowsItsOwn, Reads
  <2> QED BY <2>1 DEF KnowsItsOwn, Verified, Visible, Is
<1>6. Deployed(q)'
  <2>1. ASSUME d.phase = "done"
        PROVE  Now(q)' = Now(q)
      BY <2>1, <1>4 DEF KnowsItsOwn, Reads
  <2> QED BY <2>1 DEF KnowsItsOwn, Deployed, Is
<1>7. Blames(q)'
  <2> SUFFICES ASSUME d.blames # 0
               PROVE  /\ d.phase = "failed" /\ d.blames <= Len(history')
                      /\ history'[d.blames].at >= d.since
      BY DEF Blames
  <2>1. /\ d.phase = "failed" /\ d.blames <= Len(history)
        /\ history[d.blames].at >= d.since
      BY DEF KnowsItsOwn, Blames
  <2>2. d.blames \in 1 .. Len(history)
      BY <2>1, <1>1, <1>2
  <2> QED BY <2>1, <2>2, <1>1, <1>2
<1>8. Owns(q)'
  <2> SUFFICES ASSUME Is(q, "deploy", "waiting")
               PROVE  /\ d.expected = d.since /\ d.since <= accepted'
                      /\ \A i \in 1 .. Len(history') :
                           history'[i].at = d.since => history'[i].image = <<"role", q>>
      BY DEF Owns, Is
  <2>1. /\ d.expected = d.since /\ d.since <= accepted
        /\ \A i \in 1 .. Len(history) :
             history[i].at = d.since => history[i].image = <<"role", q>>
      BY DEF KnowsItsOwn, Owns
  <2>2. ASSUME NEW i \in 1 .. Len(history'), history'[i].at = d.since
        PROVE  history'[i].image = <<"role", q>>
    <3>1. \/ history'[i].at > accepted
          \/ \E j \in 1 .. Len(history) :
               history'[i].at = history[j].at /\ history'[i].image = history[j].image
        BY DEF Grows
    <3>2. ~(history'[i].at > accepted)
        BY <2>1, <2>2, <1>1, <1>2
    <3>3. PICK j \in 1 .. Len(history) :
               history'[i].at = history[j].at /\ history'[i].image = history[j].image
        BY <3>1, <3>2
    <3> QED BY <3>3, <2>1, <2>2
  <2> QED BY <2>1, <2>2, <1>1, <1>2
<1> QED BY <1>3, <1>5, <1>6, <1>7, <1>8 DEF KnowsItsOwn

(* What holds of every deployer holds after a step of one, when it holds of the *)
(* one that moved.                                                             *)
LEMMA DeployerMoves ==
    ASSUME DeployInv, Grows, HistoryInv', NEW p \in Deployer, NEW d \in Invoked,
           deployer' = [deployer EXCEPT ![p] = d],
           roleUsable' \in BOOLEAN, known' \in BOOLEAN,
           stack' \in [operation : Operation, complete : BOOLEAN],
           KnowsItsOwn(p)'
    PROVE  DeployInv'
<1>1. DeployTypes'
    BY DEF DeployInv, DeployTypes, Grows
<1>2. ASSUME NEW q \in Deployer, q # p
      PROVE  KnowsItsOwn(q)'
  <2>1. deployer'[q] = deployer[q]
      BY <1>2 DEF DeployInv, DeployTypes
  <2>2. DeployTypes /\ KnowsItsOwn(q)
      BY DEF DeployInv
  <2> QED BY <2>1, <2>2, DeployerRests
<1>3. \A q \in Deployer : KnowsItsOwn(q)'
    BY <1>2
<1> QED BY <1>1, <1>3 DEF DeployInv

(* A command that ended knows nothing.                                         *)
LEMMA FailingKeeps ==
    ASSUME DeployInv, Grows, HistoryInv', NEW p \in Deployer, Fails(p),
           roleUsable' \in BOOLEAN, known' \in BOOLEAN,
           stack' \in [operation : Operation, complete : BOOLEAN]
    PROVE  DeployInv'
<1> DEFINE d == [Invocation(deployer[p].kind) EXCEPT !.phase = "failed"]
<1>1. deployer \in [Deployer -> Invoked] /\ deployer[p] \in Invoked
    BY DEF DeployInv, DeployTypes
<1>2. deployer' = [deployer EXCEPT ![p] = d]
    BY DEF Fails
<1>3. d = [kind |-> deployer[p].kind, phase |-> "failed", current |-> 0, expected |-> 0,
           since |-> 0, operation |-> 0, blames |-> 0]
    BY DEF Invocation
<1>4. d \in Invoked
    BY <1>1, <1>3, DeploymentAssumption DEF Invoked, Phase, Operation
<1>5. deployer'[p] = d
    BY <1>1, <1>2
<1>6. d.phase = "failed" /\ d.current = 0 /\ d.blames = 0
    BY <1>3
<1> HIDE DEF d
<1>7. Len(history') \in Nat
    BY DEF Grows
<1>8. KnowsItsOwn(p)'
    BY <1>5, <1>6, <1>7 DEF KnowsItsOwn, Reads, Owns, Verified, Deployed, Blames, Is
<1> QED BY <1>2, <1>4, <1>8, DeployerMoves

(* The service and the stack move no deployer.                                 *)
LEMMA ServiceStep ==
    ASSUME DeployInv, Settle \/ RoleSpreads \/ StackDeploys \/ StackCompletes
    PROVE  DeployInv'
<1>1. DeployTypes /\ HistoryInv /\ \A q \in Deployer : KnowsItsOwn(q)
    BY DEF DeployInv
<1>2. /\ history \in Seq(RuntimeState) /\ accepted \in Operation /\ accepted \in Int
      /\ Operation = 0 .. MaxOperation /\ MaxOperation \in Nat
    BY <1>1, DeploymentAssumption DEF DeployTypes, Operation
<1>3. deployer' = deployer
    BY DEF Settle, RoleSpreads, StackDeploys, StackCompletes
<1>4. roleUsable' \in BOOLEAN /\ known' \in BOOLEAN
    BY <1>1 DEF Settle, RoleSpreads, StackDeploys, StackCompletes, DeployTypes
<1>5. stack' \in [operation : Operation, complete : BOOLEAN]
  <2>1. stack \in [operation : Operation, complete : BOOLEAN]
      BY <1>1 DEF DeployTypes
  <2>2. CASE StackDeploys
      BY <2>2, <1>2 DEF StackDeploys
  <2>3. CASE ~StackDeploys
      BY <2>1, <2>3 DEF Settle, RoleSpreads, StackCompletes
  <2> QED BY <2>2, <2>3
<1>6. Grows /\ HistoryInv'
  <2>1. CASE Settle
    <3>1. history # <<>> /\ Latest.status \in BusyStatus
        BY <2>1 DEF Settle
    <3>2. PICK s \in {"READY", "CREATE_FAILED", "UPDATE_FAILED"}, r \in Operation, v \in Platform :
            /\ s # "READY" => v = Latest.platform
            /\ s = "CREATE_FAILED" <=> Latest.status = "CREATING" /\ s # "READY"
            /\ r = Latest.revision \/ (s = "UPDATE_FAILED" /\ r = Latest.revision - 1)
            /\ history' = Append(history, [Latest EXCEPT !.status = s, !.revision = r,
                                                         !.platform = v])
        BY <2>1 DEF Settle
    <3> DEFINE e == [Latest EXCEPT !.status = s, !.revision = r, !.platform = v]
    <3>3. Len(history) \in 1 .. Len(history) /\ Latest \in RuntimeState
        BY <1>2, <3>1 DEF Latest
    <3>4. /\ e \in RuntimeState /\ e.at = Latest.at /\ e.image = Latest.image
          /\ e.status = s /\ e.revision = r
      <4>1. s \in BusyStatus \cup FailedStatus \cup {"READY"}
          BY DEF FailedStatus
      <4> QED BY <3>3, <4>1 DEF RuntimeState
    <3>5. Latest.at <= accepted /\ Latest.revision = Latest.at
        BY <1>1, <3>1, <3>3 DEF HistoryInv, Latest
    <3>6. e.status \in BusyStatus \cup {"READY"} => e.revision = e.at
        BY <3>2, <3>4, <3>5 DEF BusyStatus
    <3>7. history' = Append(history, e) /\ accepted' = accepted
        BY <3>2, <2>1 DEF Settle
    <3>8. \E j \in 1 .. Len(history) : e.at = history[j].at /\ e.image = history[j].image
        BY <3>3, <3>4 DEF Latest
    <3>9. accepted' \in Operation /\ accepted <= accepted' /\ e.at <= accepted'
        BY <3>4, <3>5, <3>7, <1>2
    <3> HIDE DEF e
    <3> QED BY <1>1, <3>4, <3>6, <3>7, <3>8, <3>9, StateAdded
  <2>2. CASE StackDeploys
    <3> DEFINE e == [revision |-> accepted + 1,
                     status |-> IF history = <<>> THEN "CREATING" ELSE "UPDATING",
                     platform |-> "V1", image |-> <<"stack", accepted + 1>>, at |-> accepted + 1]
    <3>1. accepted < MaxOperation /\ history' = Append(history, e) /\ accepted' = accepted + 1
        BY <2>2 DEF StackDeploys, Submitted
    <3>2. accepted + 1 \in Operation /\ accepted' \in Operation /\ accepted <= accepted'
        BY <3>1, <1>2
    <3>3. <<"stack", accepted + 1>> \in Image
        BY <3>2 DEF Image
    <3>4. e \in RuntimeState
        BY <3>2, <3>3 DEF RuntimeState, BusyStatus, Platform
    <3>5. e.at = accepted + 1 /\ e.revision = e.at /\ e.at <= accepted' /\ e.at > accepted
        BY <3>1, <1>2
    <3> HIDE DEF e
    <3> QED BY <1>1, <3>1, <3>2, <3>4, <3>5, StateAdded
  <2>3. CASE RoleSpreads \/ StackCompletes
    <3>1. UNCHANGED <<history, accepted>>
        BY <2>3 DEF RoleSpreads, StackCompletes
    <3>2. HistoryInv'
        BY <3>1, <1>1 DEF HistoryInv
    <3> QED BY <3>1, <3>2, <1>1, SameHistory
  <2> QED BY <2>1, <2>2, <2>3
<1>7. \A q \in Deployer : KnowsItsOwn(q)'
    BY <1>1, <1>3, <1>6, DeployerRests
<1>8. DeployTypes'
    BY <1>1, <1>3, <1>4, <1>5, <1>6 DEF DeployTypes, Grows
<1> QED BY <1>6, <1>7, <1>8 DEF DeployInv

(* What a step of one deployer changes, and what holds of it before.           *)
LEMMA DeployerFacts ==
    ASSUME DeployInv, NEW p \in Deployer
    PROVE  /\ history \in Seq(RuntimeState) /\ Len(history) \in Nat
           /\ accepted \in Operation /\ accepted \in Int
           /\ deployer \in [Deployer -> Invoked] /\ deployer[p] \in Invoked
           /\ deployer[p].kind \in {"deploy", "promote"} /\ deployer[p].phase \in Phase
           /\ deployer[p].current \in Nat /\ deployer[p].expected \in Operation
           /\ deployer[p].since \in Operation /\ deployer[p].operation \in Operation
           /\ deployer[p].blames \in Nat
           /\ roleUsable \in BOOLEAN /\ known \in BOOLEAN
           /\ stack \in [operation : Operation, complete : BOOLEAN] /\ stack.operation \in Operation
           /\ DeployTypes /\ HistoryInv /\ KnowsItsOwn(p) /\ 0 \in Operation
           /\ \A i \in 1 .. Len(history) : history[i] \in RuntimeState
<1>1. /\ DeployTypes /\ HistoryInv /\ KnowsItsOwn(p)
      /\ history \in Seq(RuntimeState) /\ accepted \in Operation
      /\ deployer \in [Deployer -> Invoked]
      /\ roleUsable \in BOOLEAN /\ known \in BOOLEAN
      /\ stack \in [operation : Operation, complete : BOOLEAN]
    BY DEF DeployInv, DeployTypes
<1>2. 0 \in Operation /\ accepted \in Int
    BY <1>1, DeploymentAssumption DEF Operation
<1>3. /\ Len(history) \in Nat /\ deployer[p] \in Invoked /\ stack.operation \in Operation
      /\ \A i \in 1 .. Len(history) : history[i] \in RuntimeState
    BY <1>1
<1>4. /\ deployer[p].kind \in {"deploy", "promote"} /\ deployer[p].phase \in Phase
      /\ deployer[p].current \in Nat /\ deployer[p].expected \in Operation
      /\ deployer[p].since \in Operation /\ deployer[p].operation \in Operation
      /\ deployer[p].blames \in Nat
    BY <1>3 DEF Invoked
<1> QED BY <1>1, <1>2, <1>3, <1>4

(* A phase that carries no promise beyond the operation it looked at.          *)
LEMMA PhaseKeeps ==
    ASSUME DeployInv, NEW p \in Deployer, NEW phase \in {"create", "check", "update"},
           PhaseGoes(p, phase), UNCHANGED <<history, accepted, roleUsable, known, stack>>,
           deployer[p].phase # "failed",
           phase # "create" => deployer[p].current # 0
    PROVE  DeployInv'
<1> DEFINE d == [deployer[p] EXCEPT !.phase = phase]
<1>1. /\ Len(history) \in Nat /\ deployer \in [Deployer -> Invoked] /\ deployer[p] \in Invoked
      /\ DeployTypes /\ HistoryInv /\ KnowsItsOwn(p)
      /\ roleUsable \in BOOLEAN /\ known \in BOOLEAN
      /\ stack \in [operation : Operation, complete : BOOLEAN]
    BY DeployerFacts
<1>2. phase \in Phase
    BY DEF Phase
<1>3. /\ d \in Invoked /\ d.phase = phase /\ d.current = deployer[p].current
      /\ d.blames = deployer[p].blames
    BY <1>1, <1>2 DEF Invoked
<1>4. deployer' = [deployer EXCEPT ![p] = d]
    BY <1>1 DEF PhaseGoes
<1>5. deployer'[p] = d
    BY <1>1, <1>4
<1> HIDE DEF d
<1>6. Grows /\ HistoryInv'
    BY <1>1, SameHistory DEF HistoryInv
<1>7. deployer[p].blames = 0
    BY <1>1 DEF KnowsItsOwn, Blames
<1>8. deployer[p].current <= Len(history)
    BY <1>1 DEF KnowsItsOwn, Reads
<1>9. KnowsItsOwn(p)'
    BY <1>3, <1>5, <1>7, <1>8 DEF KnowsItsOwn, Reads, Owns, Verified, Deployed, Blames, Is
<1> QED BY <1>1, <1>3, <1>4, <1>6, <1>9, DeployerMoves

(* Reading a state of the history that its own wrapper shows.                  *)
LEMMA ReadingKeeps ==
    ASSUME DeployInv, NEW p \in Deployer, NEW i \in 1 .. Len(history),
           deployer' = [deployer EXCEPT ![p].current = i, ![p].phase = "have"],
           UNCHANGED <<history, accepted, roleUsable, known, stack>>,
           deployer[p].phase # "failed", Visible(p, history[i])
    PROVE  DeployInv'
<1> DEFINE d == [deployer[p] EXCEPT !.current = i, !.phase = "have"]
<1>1. /\ Len(history) \in Nat /\ deployer \in [Deployer -> Invoked] /\ deployer[p] \in Invoked
      /\ DeployTypes /\ HistoryInv /\ KnowsItsOwn(p)
      /\ roleUsable \in BOOLEAN /\ known \in BOOLEAN
      /\ stack \in [operation : Operation, complete : BOOLEAN]
    BY DeployerFacts
<1>2. "have" \in Phase /\ i \in Nat /\ i # 0 /\ i <= Len(history)
    BY <1>1 DEF Phase
<1>3. /\ d \in Invoked /\ d.phase = "have" /\ d.current = i /\ d.kind = deployer[p].kind
      /\ d.blames = deployer[p].blames /\ d.operation = deployer[p].operation
    BY <1>1, <1>2 DEF Invoked
<1>4. deployer' = [deployer EXCEPT ![p] = d]
    BY <1>1
<1>5. deployer'[p] = d
    BY <1>1, <1>4
<1> HIDE DEF d
<1>6. Grows /\ HistoryInv'
    BY <1>1, SameHistory DEF HistoryInv
<1>7. deployer[p].blames = 0
    BY <1>1 DEF KnowsItsOwn, Blames
<1>8. Now(p)' = history[i]
    BY <1>3, <1>5 DEF Now
<1>9. Reads(p)' /\ Blames(p)' /\ Owns(p)' /\ Deployed(p)'
    BY <1>2, <1>3, <1>5, <1>7 DEF Reads, Blames, Owns, Deployed, Is
<1>10. Visible(p, history[i])'
    BY <1>3, <1>5 DEF Visible
<1>11. Verified(p)'
    BY <1>3, <1>5, <1>8, <1>10 DEF Verified, Is, Visible
<1>12. KnowsItsOwn(p)'
    BY <1>9, <1>11 DEF KnowsItsOwn
<1> QED BY <1>1, <1>3, <1>4, <1>6, <1>12, DeployerMoves

(* A submission of its own is what a deployer then waits for.                  *)
LEMMA SubmittingKeeps ==
    ASSUME DeployInv, NEW p \in Deployer, NEW image \in Image, accepted < MaxOperation,
           deployer[p].kind = "deploy" => image = <<"role", p>>,
           history' = Submitted(image, Selected), accepted' = accepted + 1,
           \/ deployer' = [deployer EXCEPT ![p].phase = "waiting",
                             ![p].expected = accepted + 1, ![p].since = accepted + 1]
           \/ Fails(p),
           UNCHANGED <<roleUsable, known, stack>>, deployer[p].phase # "failed"
    PROVE  DeployInv'
<1>1. /\ Len(history) \in Nat /\ deployer \in [Deployer -> Invoked] /\ deployer[p] \in Invoked
      /\ DeployTypes /\ HistoryInv /\ KnowsItsOwn(p) /\ accepted \in Operation
      /\ roleUsable \in BOOLEAN /\ known \in BOOLEAN
      /\ stack \in [operation : Operation, complete : BOOLEAN]
    BY DeployerFacts
<1>2. /\ accepted \in Int /\ Operation = 0 .. MaxOperation /\ MaxOperation \in Nat
      /\ history \in Seq(RuntimeState)
    BY <1>1, DeploymentAssumption DEF Operation, DeployTypes
<1> DEFINE e == [revision |-> accepted + 1,
                 status |-> IF history = <<>> THEN "CREATING" ELSE "UPDATING",
                 platform |-> Selected, image |-> image, at |-> accepted + 1]
<1>3. accepted + 1 \in Operation /\ accepted' \in Operation /\ accepted <= accepted'
    BY <1>1, <1>2
<1>4. e \in RuntimeState
  <2>1. image \in Image /\ Selected \in Platform
      BY DEF Platform, Selected
  <2> QED BY <1>3, <2>1 DEF RuntimeState, BusyStatus
<1>5. /\ e.at = accepted + 1 /\ e.revision = e.at /\ e.at <= accepted' /\ e.at > accepted
      /\ e.image = image
    BY <1>2
<1>6. history' = Append(history, e)
    BY DEF Submitted
<1> HIDE DEF e
<1>7. Grows /\ HistoryInv'
    BY <1>1, <1>3, <1>4, <1>5, <1>6, StateAdded
<1>8. CASE Fails(p)
    BY <1>1, <1>7, <1>8, FailingKeeps
<1>9. ASSUME deployer' = [deployer EXCEPT ![p].phase = "waiting",
                            ![p].expected = accepted + 1, ![p].since = accepted + 1]
      PROVE  DeployInv'
  <2> DEFINE d == [deployer[p] EXCEPT !.phase = "waiting", !.expected = accepted + 1,
                                      !.since = accepted + 1]
  <2>1. "waiting" \in Phase
      BY DEF Phase
  <2>2. /\ d \in Invoked /\ d.phase = "waiting" /\ d.current = deployer[p].current
        /\ d.kind = deployer[p].kind /\ d.blames = deployer[p].blames
        /\ d.expected = accepted + 1 /\ d.since = accepted + 1
      BY <1>1, <1>3, <2>1 DEF Invoked
  <2>3. deployer' = [deployer EXCEPT ![p] = d]
      BY <1>1, <1>9
  <2>4. deployer'[p] = d
      BY <1>1, <2>3
  <2> HIDE DEF d
  <2>5. deployer[p].blames = 0 /\ deployer[p].current <= Len(history)
      BY <1>1 DEF KnowsItsOwn, Blames, Reads
  <2>6. Len(history) <= Len(history') /\ Len(history') \in Nat /\ deployer[p].current \in Nat
      BY <1>1, <1>7 DEF Grows, Invoked
  <2>7. Reads(p)' /\ Blames(p)' /\ Verified(p)' /\ Deployed(p)'
      BY <1>1, <2>2, <2>4, <2>5, <2>6 DEF Reads, Blames, Verified, Deployed, Is
  <2>8. ASSUME NEW i \in 1 .. Len(history'), history'[i].at = accepted + 1,
               deployer[p].kind = "deploy"
        PROVE  history'[i].image = <<"role", p>>
    <3>1. i \in 1 .. Len(history) \/ i = Len(history) + 1
        BY <1>1, <1>2, <1>6, <1>4
    <3>2. ASSUME i \in 1 .. Len(history)
          PROVE  FALSE
      <4>1. history[i].at <= accepted /\ history[i] \in RuntimeState /\ history'[i] = history[i]
          BY <3>2, <1>1, <1>2, <1>7 DEF HistoryInv, Grows
      <4>2. history[i].at \in Int
          BY <4>1, <1>2 DEF RuntimeState
      <4> QED BY <4>1, <4>2, <2>8, <1>2
    <3>3. history'[Len(history) + 1] = e
        BY <1>2, <1>6, <1>4
    <3> QED BY <3>1, <3>2, <3>3, <1>5, <2>8
  <2>9. Owns(p)'
      BY <2>2, <2>4, <2>8, <1>2 DEF Owns, Is
  <2>10. KnowsItsOwn(p)'
      BY <2>7, <2>9 DEF KnowsItsOwn
  <2> QED BY <1>1, <1>7, <2>2, <2>3, <2>10, DeployerMoves
<1> QED BY <1>8, <1>9

(* An idle deployment reads the runtime it knows, or creates one.              *)
LEMMA BeginKeepsDeployment ==
    ASSUME DeployInv, NEW p \in Deployer,
           BeginDeploy(p) \/ CreateRefused(p) \/ Create(p) \/ BeginPromotion(p) \/ ReadRuntime(p)
    PROVE  DeployInv'
<1>1. /\ deployer \in [Deployer -> Invoked] /\ deployer[p] \in Invoked /\ KnowsItsOwn(p)
      /\ HistoryInv /\ DeployTypes /\ roleUsable \in BOOLEAN /\ known \in BOOLEAN
      /\ stack \in [operation : Operation, complete : BOOLEAN] /\ stack.operation \in Operation
      /\ deployer[p].blames \in Nat
    BY DeployerFacts
<1>2. ASSUME UNCHANGED <<history, accepted>>
      PROVE  Grows /\ HistoryInv'
    BY <1>1, <1>2, SameHistory DEF HistoryInv
<1>3. CASE BeginDeploy(p)
  <2>1. /\ deployer[p].kind = "deploy" /\ deployer[p].phase # "failed"
        /\ UNCHANGED <<history, accepted, roleUsable, known, stack>>
      BY <1>3 DEF BeginDeploy, Is
  <2>2. CASE known
    <3>1. PICK i \in 1 .. Len(history) :
              deployer' = [deployer EXCEPT ![p].current = i, ![p].phase = "have"]
        BY <1>3, <2>2 DEF BeginDeploy
    <3>2. Visible(p, history[i])
        BY <2>1 DEF Visible
    <3> QED BY <2>1, <3>1, <3>2, ReadingKeeps
  <2>3. CASE ~known
    <3>1. PhaseGoes(p, "create")
        BY <1>3, <2>3 DEF BeginDeploy
    <3> QED BY <2>1, <3>1, PhaseKeeps
  <2> QED BY <2>2, <2>3
<1>4. CASE CreateRefused(p)
  <2>1. /\ UNCHANGED <<history, accepted, roleUsable, known, stack>>
        /\ deployer[p].phase # "failed" /\ (PhaseGoes(p, "create") \/ Fails(p))
      BY <1>4 DEF CreateRefused, Is
  <2>2. CASE PhaseGoes(p, "create")
      BY <2>1, <2>2, PhaseKeeps
  <2>3. CASE Fails(p)
    <3>1. roleUsable' \in BOOLEAN /\ known' \in BOOLEAN
          /\ stack' \in [operation : Operation, complete : BOOLEAN]
        BY <1>1, <2>1
    <3> QED BY <1>2, <2>1, <2>3, <3>1, FailingKeeps
  <2> QED BY <2>1, <2>2, <2>3
<1>5. CASE Create(p)
  <2>1. /\ UNCHANGED <<roleUsable, known, stack>>
        /\ deployer[p].kind = "deploy" /\ deployer[p].phase # "failed"
      BY <1>5 DEF Create, Is
  <2>2. CASE history = <<>>
    <3>1. /\ accepted < MaxOperation
          /\ history' = Submitted(<<"role", p>>, Selected) /\ accepted' = accepted + 1
          /\ \/ deployer' = [deployer EXCEPT ![p].phase = "waiting",
                               ![p].expected = accepted + 1, ![p].since = accepted + 1]
             \/ Fails(p)
        BY <1>5, <2>2 DEF Create
    <3>2. <<"role", p>> \in Image
        BY DEF Image
    <3> QED BY <2>1, <3>1, <3>2, SubmittingKeeps
  <2>3. CASE history # <<>>
    <3>1. /\ \/ \E i \in 1 .. Len(history) :
                  deployer' = [deployer EXCEPT ![p].current = i, ![p].phase = "have"]
             \/ Fails(p)
          /\ UNCHANGED <<history, accepted>>
        BY <1>5, <2>3 DEF Create
    <3>2. ASSUME NEW i \in 1 .. Len(history),
                 deployer' = [deployer EXCEPT ![p].current = i, ![p].phase = "have"]
          PROVE  DeployInv'
      <4>1. Visible(p, history[i])
          BY <2>1 DEF Visible
      <4>2. UNCHANGED <<history, accepted, roleUsable, known, stack>>
          BY <2>1, <3>1
      <4> QED BY <2>1, <3>2, <4>1, <4>2, ReadingKeeps
    <3>3. CASE Fails(p)
      <4>1. roleUsable' \in BOOLEAN /\ known' \in BOOLEAN
            /\ stack' \in [operation : Operation, complete : BOOLEAN]
          BY <1>1, <2>1
      <4> QED BY <1>2, <3>1, <3>3, <4>1, FailingKeeps
    <3> QED BY <3>1, <3>2, <3>3
  <2> QED BY <2>2, <2>3
<1>6. CASE BeginPromotion(p)
  <2> DEFINE d == [deployer[p] EXCEPT !.phase = "read", !.operation = stack.operation]
  <2>1. /\ UNCHANGED <<history, accepted, roleUsable, known, stack>>
        /\ deployer[p].kind = "promote" /\ deployer[p].phase = "idle"
        /\ deployer' = [deployer EXCEPT ![p].phase = "read", ![p].operation = stack.operation]
      BY <1>6 DEF BeginPromotion, Is
  <2>2. "read" \in Phase
      BY DEF Phase
  <2>3. /\ d \in Invoked /\ d.phase = "read" /\ d.current = deployer[p].current
        /\ d.kind = "promote" /\ d.blames = deployer[p].blames
      BY <1>1, <2>1, <2>2 DEF Invoked
  <2>4. deployer' = [deployer EXCEPT ![p] = d]
      BY <1>1, <2>1
  <2>5. deployer'[p] = d
      BY <1>1, <2>4
  <2> HIDE DEF d
  <2>6. deployer[p].blames = 0 /\ deployer[p].current <= Len(history)
      BY <1>1, <2>1 DEF KnowsItsOwn, Blames, Reads
  <2>7. KnowsItsOwn(p)'
      BY <2>1, <2>3, <2>5, <2>6 DEF KnowsItsOwn, Reads, Owns, Verified, Deployed, Blames, Is
  <2>8. roleUsable' \in BOOLEAN /\ known' \in BOOLEAN
        /\ stack' \in [operation : Operation, complete : BOOLEAN]
      BY <1>1, <2>1
  <2> QED BY <1>2, <2>1, <2>3, <2>4, <2>7, <2>8, DeployerMoves
<1>7. CASE ReadRuntime(p)
  <2>1. /\ UNCHANGED <<history, accepted, roleUsable, known, stack>>
        /\ deployer[p].phase # "failed"
      BY <1>7 DEF ReadRuntime, Is
  <2>2. PICK i \in 1 .. Len(history) :
           /\ Visible(p, history[i])
           /\ deployer' = [deployer EXCEPT ![p].current = i, ![p].phase = "have"]
      BY <1>7 DEF ReadRuntime
  <2> QED BY <2>1, <2>2, ReadingKeeps
<1> QED BY <1>3, <1>4, <1>5, <1>6, <1>7

(* A phase that says the runtime it looked at is the promotion's own.           *)
LEMMA VerifiedKeeps ==
    ASSUME DeployInv, NEW p \in Deployer, NEW phase \in {"verify", "done"},
           PhaseGoes(p, phase), UNCHANGED <<history, accepted, roleUsable, known, stack>>,
           deployer[p].phase # "failed", deployer[p].current # 0, deployer[p].kind = "promote",
           Visible(p, Now(p)), Now(p).status = "READY", Now(p).platform = Selected
    PROVE  DeployInv'
<1> DEFINE d == [deployer[p] EXCEPT !.phase = phase]
<1>1. /\ Len(history) \in Nat /\ deployer \in [Deployer -> Invoked] /\ deployer[p] \in Invoked
      /\ DeployTypes /\ HistoryInv /\ KnowsItsOwn(p)
      /\ roleUsable \in BOOLEAN /\ known \in BOOLEAN
      /\ stack \in [operation : Operation, complete : BOOLEAN]
    BY DeployerFacts
<1>2. phase \in Phase
    BY DEF Phase
<1>3. /\ d \in Invoked /\ d.phase = phase /\ d.current = deployer[p].current
      /\ d.blames = deployer[p].blames /\ d.kind = "promote"
      /\ d.operation = deployer[p].operation
    BY <1>1, <1>2 DEF Invoked
<1>4. deployer' = [deployer EXCEPT ![p] = d]
    BY <1>1 DEF PhaseGoes
<1>5. deployer'[p] = d
    BY <1>1, <1>4
<1> HIDE DEF d
<1>6. Grows /\ HistoryInv'
    BY <1>1, SameHistory DEF HistoryInv
<1>7. deployer[p].blames = 0 /\ deployer[p].current <= Len(history)
    BY <1>1 DEF KnowsItsOwn, Blames, Reads
<1>8. Now(p)' = Now(p)
    BY <1>3, <1>5 DEF Now
<1>9. Verified(p)'
    BY <1>3, <1>5, <1>8 DEF Verified, Is, Visible
<1>10. KnowsItsOwn(p)'
    BY <1>3, <1>5, <1>7, <1>9 DEF KnowsItsOwn, Reads, Owns, Deployed, Blames, Is
<1> QED BY <1>1, <1>3, <1>4, <1>6, <1>10, DeployerMoves

(* The steps on the operation that was read, and on the stack it must match.   *)
LEMMA HavingKeeps ==
    ASSUME DeployInv, NEW p \in Deployer,
           Have(p) \/ Update(p) \/ CheckStack(p) \/ RecordPromotion(p)
    PROVE  DeployInv'
<1>1. /\ deployer \in [Deployer -> Invoked] /\ deployer[p] \in Invoked /\ KnowsItsOwn(p)
      /\ HistoryInv /\ DeployTypes /\ roleUsable \in BOOLEAN /\ known \in BOOLEAN
      /\ stack \in [operation : Operation, complete : BOOLEAN]
      /\ deployer[p].blames \in Nat /\ deployer[p].current \in Nat /\ Len(history) \in Nat
      /\ deployer[p].kind \in {"deploy", "promote"} /\ Len(history) \in Nat
      /\ \A i \in 1 .. Len(history) : history[i] \in RuntimeState
    BY DeployerFacts
<1>2. ASSUME UNCHANGED <<history, accepted>>
      PROVE  Grows /\ HistoryInv'
    BY <1>1, <1>2, SameHistory DEF HistoryInv
<1>3. ASSUME deployer[p].current # 0
      PROVE  deployer[p].current \in 1 .. Len(history) /\ Now(p) \in RuntimeState
    BY <1>1, <1>3 DEF KnowsItsOwn, Reads, Now
<1>4. ASSUME UNCHANGED <<history, accepted, roleUsable, known, stack>>, Fails(p)
      PROVE  DeployInv'
  <2>1. roleUsable' \in BOOLEAN /\ known' \in BOOLEAN
        /\ stack' \in [operation : Operation, complete : BOOLEAN]
      BY <1>1, <1>4
  <2> QED BY <1>2, <1>4, <2>1, FailingKeeps
<1>5. CASE Have(p)
  <2>1. /\ UNCHANGED <<history, accepted, roleUsable, known, stack>>
        /\ deployer[p].phase = "have"
      BY <1>5 DEF Have
  <2>2. deployer[p].current # 0
      BY <1>1, <2>1 DEF KnowsItsOwn, Reads
  <2>3. Now(p) \in RuntimeState /\ deployer[p].current \in 1 .. Len(history)
      BY <1>3, <2>2
  <2>4. CASE Now(p).status \in BusyStatus
    <3> DEFINE d == [deployer[p] EXCEPT !.phase = "earlier", !.expected = Now(p).revision,
                                        !.since = Now(p).at]
    <3>1. deployer' = [deployer EXCEPT ![p].phase = "earlier",
                         ![p].expected = Now(p).revision, ![p].since = Now(p).at]
        BY <1>5, <2>4 DEF Have
    <3>2. "earlier" \in Phase /\ Now(p).revision \in Operation /\ Now(p).at \in Operation
        BY <2>3 DEF Phase, RuntimeState
    <3>3. /\ d \in Invoked /\ d.phase = "earlier" /\ d.current = deployer[p].current
          /\ d.kind = deployer[p].kind /\ d.blames = deployer[p].blames
        BY <1>1, <3>2 DEF Invoked
    <3>4. deployer' = [deployer EXCEPT ![p] = d]
        BY <1>1, <3>1
    <3>5. deployer'[p] = d
        BY <1>1, <3>4
    <3> HIDE DEF d
    <3>6. deployer[p].blames = 0 /\ deployer[p].current <= Len(history)
        BY <1>1, <2>1 DEF KnowsItsOwn, Blames, Reads
    <3>7. KnowsItsOwn(p)'
        BY <2>1, <2>2, <3>3, <3>5, <3>6 DEF KnowsItsOwn, Reads, Owns, Verified, Deployed, Blames, Is
    <3>8. roleUsable' \in BOOLEAN /\ known' \in BOOLEAN
          /\ stack' \in [operation : Operation, complete : BOOLEAN]
        BY <1>1, <2>1
    <3> QED BY <1>2, <2>1, <3>3, <3>4, <3>7, <3>8, DeployerMoves
  <2>5. CASE /\ Now(p).status \notin BusyStatus
             /\ deployer[p].kind = "promote" /\ Now(p).status = "READY"
             /\ Now(p).platform = Selected
    <3>1. PhaseGoes(p, "verify")
        BY <1>5, <2>5 DEF Have
    <3>2. Visible(p, Now(p))
        BY <1>1, <2>1, <2>5 DEF KnowsItsOwn, Verified, Is
    <3> QED BY <2>1, <2>2, <2>5, <3>1, <3>2, VerifiedKeeps
  <2>6. CASE /\ Now(p).status \notin BusyStatus
             /\ ~(/\ deployer[p].kind = "promote" /\ Now(p).status = "READY"
                  /\ Now(p).platform = Selected)
    <3>1. PhaseGoes(p, IF deployer[p].kind = "promote" THEN "check" ELSE "update")
        BY <1>5, <2>6 DEF Have
    <3>2. PICK phase \in {"check", "update"} : PhaseGoes(p, phase)
        BY <3>1
    <3> QED BY <2>1, <2>2, <3>2, PhaseKeeps
  <2> QED BY <2>4, <2>5, <2>6
<1>6. CASE Update(p)
  <2>1. UNCHANGED <<roleUsable, known, stack>> /\ deployer[p].phase = "update"
      BY <1>6 DEF Update
  <2>2. CASE Free
    <3> DEFINE image == IF deployer[p].kind = "deploy" THEN <<"role", p>> ELSE Now(p).image
    <3>1. /\ accepted < MaxOperation /\ history' = Submitted(image, Selected)
          /\ accepted' = accepted + 1
          /\ \/ deployer' = [deployer EXCEPT ![p].phase = "waiting",
                               ![p].expected = accepted + 1, ![p].since = accepted + 1]
             \/ Fails(p)
        BY <1>6, <2>2 DEF Update
    <3>2. Now(p).image \in Image
      <4>1. deployer[p].current # 0
          BY <1>1, <2>1 DEF KnowsItsOwn, Reads
      <4>2. Now(p) \in RuntimeState
          BY <1>3, <4>1
      <4> QED BY <4>2 DEF RuntimeState
    <3>3. <<"role", p>> \in Image
        BY DEF Image
    <3>4. image \in Image /\ (deployer[p].kind = "deploy" => image = <<"role", p>>)
        BY <3>2, <3>3
    <3> HIDE DEF image
    <3> QED BY <2>1, <3>1, <3>4, SubmittingKeeps
  <2>3. CASE ~Free
    <3>1. Fails(p) /\ UNCHANGED <<history, accepted>>
        BY <1>6, <2>3 DEF Update
    <3> QED BY <1>4, <2>1, <3>1
  <2> QED BY <2>2, <2>3
<1>7. CASE CheckStack(p)
  <2>1. /\ UNCHANGED <<history, accepted, roleUsable, known, stack>>
        /\ deployer[p].phase = "check" /\ (PhaseGoes(p, "update") \/ Fails(p))
      BY <1>7 DEF CheckStack, Is
  <2>2. deployer[p].current # 0
      BY <1>1, <2>1 DEF KnowsItsOwn, Reads
  <2>3. CASE PhaseGoes(p, "update")
      BY <2>1, <2>2, <2>3, PhaseKeeps
  <2>4. CASE Fails(p)
      BY <1>4, <2>1, <2>4
  <2> QED BY <2>1, <2>3, <2>4
<1>8. CASE RecordPromotion(p)
  <2>1. /\ UNCHANGED <<history, accepted, roleUsable, known, stack>>
        /\ deployer[p].kind = "promote" /\ deployer[p].phase = "verify"
        /\ (PhaseGoes(p, "done") \/ Fails(p))
      BY <1>8 DEF RecordPromotion, Is
  <2>2. /\ deployer[p].current # 0 /\ Visible(p, Now(p)) /\ Now(p).status = "READY"
        /\ Now(p).platform = Selected
      BY <1>1, <2>1 DEF KnowsItsOwn, Reads, Verified, Is
  <2>3. CASE PhaseGoes(p, "done")
      BY <2>1, <2>2, <2>3, VerifiedKeeps
  <2>4. CASE Fails(p)
      BY <1>4, <2>1, <2>4
  <2> QED BY <2>1, <2>3, <2>4
<1> QED BY <1>5, <1>6, <1>7, <1>8

(* A poll ends the wait on the service's failure of an operation no earlier     *)
(* than the one waited for, or on the READY state of that very operation.      *)
LEMMA PollKeeps ==
    ASSUME DeployInv, NEW p \in Deployer, Poll(p)
    PROVE  DeployInv'
<1>1. /\ deployer \in [Deployer -> Invoked] /\ deployer[p] \in Invoked /\ KnowsItsOwn(p)
      /\ HistoryInv /\ DeployTypes /\ roleUsable \in BOOLEAN /\ known \in BOOLEAN
      /\ stack \in [operation : Operation, complete : BOOLEAN]
      /\ deployer[p].kind \in {"deploy", "promote"} /\ Len(history) \in Nat
      /\ \A j \in 1 .. Len(history) : history[j] \in RuntimeState
    BY DeployerFacts
<1>2. /\ UNCHANGED <<history, accepted, roleUsable, stack>>
      /\ deployer[p].phase \in {"earlier", "waiting"}
    BY DEF Poll
<1>3. Grows /\ HistoryInv'
    BY <1>1, <1>2, SameHistory DEF HistoryInv
<1>4. /\ roleUsable' \in BOOLEAN /\ known' \in BOOLEAN
      /\ stack' \in [operation : Operation, complete : BOOLEAN]
  <2>1. known' = (known \/ (Is(p, "deploy", "waiting") /\ deployer'[p].phase = "done"))
      BY DEF Poll
  <2> QED BY <1>1, <1>2, <2>1
<1>5. deployer[p].blames = 0
    BY <1>1, <1>2 DEF KnowsItsOwn, Blames
<1>6. PICK i \in 1 .. Len(history) :
        /\ Visible(p, history[i])
        /\ \/ /\ Fresh(p, history[i]) /\ history[i].status \in FailedStatus
              /\ deployer' = [deployer EXCEPT ![p].phase = "failed", ![p].blames = i]
           \/ /\ Completes(p, history[i])
              /\ deployer' = [deployer EXCEPT
                   ![p].current = i,
                   ![p].phase =
                     IF deployer[p].phase = "earlier"
                     THEN IF deployer[p].kind = "deploy" THEN "update"
                          ELSE IF history[i].platform = Selected THEN "verify" ELSE "check"
                     ELSE IF history[i].platform # Selected THEN "failed"
                     ELSE IF deployer[p].kind = "deploy" THEN "done" ELSE "verify"]
    BY DEF Poll
<1>7. history[i] \in RuntimeState /\ i \in Nat /\ i <= Len(history) /\ i # 0
    BY <1>1
<1>8. ASSUME Fresh(p, history[i]),
             deployer' = [deployer EXCEPT ![p].phase = "failed", ![p].blames = i]
      PROVE  DeployInv'
  <2> DEFINE d == [deployer[p] EXCEPT !.phase = "failed", !.blames = i]
  <2>1. "failed" \in Phase
      BY DEF Phase
  <2>2. /\ d \in Invoked /\ d.phase = "failed" /\ d.current = deployer[p].current
        /\ d.blames = i /\ d.since = deployer[p].since
      BY <1>1, <1>7, <2>1 DEF Invoked
  <2>3. deployer' = [deployer EXCEPT ![p] = d]
      BY <1>1, <1>8
  <2>4. deployer'[p] = d
      BY <1>1, <2>3
  <2> HIDE DEF d
  <2>5. deployer[p].current <= Len(history)
      BY <1>1 DEF KnowsItsOwn, Reads
  <2>6. Blames(p)'
      BY <1>2, <1>7, <1>8, <2>2, <2>4 DEF Blames, Fresh
  <2>7. KnowsItsOwn(p)'
      BY <1>2, <2>2, <2>4, <2>5, <2>6 DEF KnowsItsOwn, Reads, Owns, Verified, Deployed, Is
  <2> QED BY <1>1, <1>3, <1>4, <2>2, <2>3, <2>7, DeployerMoves
<1>9. ASSUME Completes(p, history[i]),
             NEW phase \in {"update", "verify", "check", "failed", "done"},
             phase = (IF deployer[p].phase = "earlier"
                      THEN IF deployer[p].kind = "deploy" THEN "update"
                           ELSE IF history[i].platform = Selected THEN "verify" ELSE "check"
                      ELSE IF history[i].platform # Selected THEN "failed"
                      ELSE IF deployer[p].kind = "deploy" THEN "done" ELSE "verify"),
             deployer' = [deployer EXCEPT ![p].current = i, ![p].phase = phase]
      PROVE  DeployInv'
  <2> DEFINE d == [deployer[p] EXCEPT !.current = i, !.phase = phase]
  <2>1. phase \in Phase
      BY DEF Phase
  <2>2. /\ d \in Invoked /\ d.phase = phase /\ d.current = i /\ d.kind = deployer[p].kind
        /\ d.blames = deployer[p].blames /\ d.operation = deployer[p].operation
      BY <1>1, <1>7, <2>1 DEF Invoked
  <2>3. deployer' = [deployer EXCEPT ![p] = d]
      BY <1>1, <1>9
  <2>4. deployer'[p] = d
      BY <1>1, <2>3
  <2> HIDE DEF d
  <2>5. Now(p)' = history[i] /\ history[i].status = "READY"
      BY <1>2, <1>9, <2>2, <2>4 DEF Now, Completes
  <2>6. Reads(p)' /\ Blames(p)' /\ Owns(p)'
      BY <1>2, <1>5, <1>7, <2>2, <2>4 DEF Reads, Blames, Owns, Is
  <2>7. Verified(p)'
    <3>1. phase = "verify" => deployer[p].kind = "promote" /\ history[i].platform = Selected
        BY <1>1, <1>9
    <3>2. phase = "done" => deployer[p].kind = "deploy"
        BY <1>1, <1>9
    <3>3. deployer[p].kind = "promote" => Visible(p, Now(p))'
        BY <1>6, <2>2, <2>4, <2>5 DEF Visible
    <3> QED BY <2>2, <2>4, <2>5, <3>1, <3>2, <3>3 DEF Verified, Is
  <2>8. Deployed(p)'
    <3> SUFFICES ASSUME deployer[p].kind = "deploy", phase = "done"
                 PROVE  history[i].platform = Selected /\ history[i].image = <<"role", p>>
        BY <2>2, <2>4, <2>5 DEF Deployed, Is
    <3>1. deployer[p].phase = "waiting" /\ history[i].platform = Selected
        BY <1>2, <1>9
    <3>2. /\ deployer[p].expected = deployer[p].since
          /\ history[i].at = deployer[p].since => history[i].image = <<"role", p>>
        BY <1>1, <3>1 DEF KnowsItsOwn, Owns, Is
    <3>3. history[i].revision = deployer[p].expected /\ history[i].revision = history[i].at
        BY <1>1, <1>9 DEF Completes, HistoryInv
    <3> QED BY <3>1, <3>2, <3>3
  <2>9. KnowsItsOwn(p)'
      BY <2>6, <2>7, <2>8 DEF KnowsItsOwn
  <2> QED BY <1>1, <1>3, <1>4, <2>2, <2>3, <2>9, DeployerMoves
<1> DEFINE next == IF deployer[p].phase = "earlier"
                   THEN IF deployer[p].kind = "deploy" THEN "update"
                        ELSE IF history[i].platform = Selected THEN "verify" ELSE "check"
                   ELSE IF history[i].platform # Selected THEN "failed"
                   ELSE IF deployer[p].kind = "deploy" THEN "done" ELSE "verify"
<1>10. next \in {"update", "verify", "check", "failed", "done"}
    OBVIOUS
<1>11. ASSUME Completes(p, history[i]),
              deployer' = [deployer EXCEPT ![p].current = i, ![p].phase = next]
       PROVE  DeployInv'
    BY <1>9, <1>10, <1>11
<1> QED BY <1>6, <1>8, <1>11

(* Giving up, and starting again, forget what was known.                       *)
LEMMA EndingKeeps ==
    ASSUME DeployInv, NEW p \in Deployer, GiveUp(p) \/ Again(p)
    PROVE  DeployInv'
<1>1. /\ deployer \in [Deployer -> Invoked] /\ deployer[p] \in Invoked
      /\ HistoryInv /\ DeployTypes /\ roleUsable \in BOOLEAN /\ known \in BOOLEAN
      /\ stack \in [operation : Operation, complete : BOOLEAN]
      /\ deployer[p].kind \in {"deploy", "promote"} /\ Len(history) \in Nat /\ 0 \in Operation
    BY DeployerFacts
<1>2. UNCHANGED <<history, accepted, roleUsable, known, stack>>
    BY DEF GiveUp, Again
<1>3. /\ Grows /\ HistoryInv' /\ roleUsable' \in BOOLEAN /\ known' \in BOOLEAN
      /\ stack' \in [operation : Operation, complete : BOOLEAN]
    BY <1>1, <1>2, SameHistory DEF HistoryInv
<1>4. CASE GiveUp(p)
  <2>1. Fails(p)
      BY <1>4 DEF GiveUp
  <2> QED BY <1>3, <2>1, FailingKeeps
<1>5. CASE Again(p)
  <2> DEFINE d == Invocation(deployer[p].kind)
  <2>1. deployer' = [deployer EXCEPT ![p] = d]
      BY <1>5 DEF Again
  <2>2. "idle" \in Phase
      BY DEF Phase
  <2>3. d \in Invoked /\ d.phase = "idle" /\ d.current = 0 /\ d.blames = 0
      BY <1>1, <2>2 DEF Invocation, Invoked
  <2>4. deployer'[p] = d
      BY <1>1, <2>1
  <2> HIDE DEF d
  <2>5. KnowsItsOwn(p)'
      BY <1>1, <1>2, <2>3, <2>4 DEF KnowsItsOwn, Reads, Owns, Verified, Deployed, Blames, Is
  <2> QED BY <1>3, <2>1, <2>3, <2>5, DeployerMoves
<1> QED BY <1>4, <1>5

LEMMA DeployStart ==
    ASSUME DeployInit
    PROVE  DeployInv
<1>1. /\ history = <<>> /\ accepted = 0 /\ roleUsable \in BOOLEAN /\ known = FALSE
      /\ stack = [operation |-> 0, complete |-> FALSE]
    BY DEF DeployInit
<1>2. PICK k \in {"deploy", "promote"} : deployer = [p \in Deployer |-> Invocation(k)]
    BY DEF DeployInit
<1>3. 0 \in Operation
    BY DeploymentAssumption DEF Operation
<1>4. Invocation(k) \in Invoked
    BY <1>3 DEF Invocation, Invoked, Phase
<1>5. DeployTypes
  <2>1. history \in Seq(RuntimeState)
      BY <1>1
  <2>2. deployer \in [Deployer -> Invoked]
      BY <1>2, <1>4
  <2> QED BY <1>1, <1>3, <2>1, <2>2 DEF DeployTypes
<1>6. Len(history) = 0
    BY <1>1
<1>7. HistoryInv
    BY <1>6 DEF HistoryInv
<1>8. ASSUME NEW p \in Deployer
      PROVE  KnowsItsOwn(p)
  <2>1. deployer[p].phase = "idle" /\ deployer[p].current = 0 /\ deployer[p].blames = 0
      BY <1>2 DEF Invocation
  <2> QED BY <1>6, <2>1 DEF KnowsItsOwn, Reads, Owns, Verified, Deployed, Blames, Is
<1> QED BY <1>5, <1>7, <1>8 DEF DeployInv

LEMMA DeployStep ==
    ASSUME DeployInv, [DeployNext]_deployVars
    PROVE  DeployInv'
<1>1. CASE Settle \/ RoleSpreads \/ StackDeploys \/ StackCompletes
    BY <1>1, ServiceStep
<1>2. ASSUME NEW p \in Deployer,
             BeginDeploy(p) \/ CreateRefused(p) \/ Create(p) \/ BeginPromotion(p) \/ ReadRuntime(p)
      PROVE  DeployInv'
    BY <1>2, BeginKeepsDeployment
<1>3. ASSUME NEW p \in Deployer,
             Have(p) \/ Update(p) \/ CheckStack(p) \/ RecordPromotion(p)
      PROVE  DeployInv'
    BY <1>3, HavingKeeps
<1>4. ASSUME NEW p \in Deployer, Poll(p)
      PROVE  DeployInv'
    BY <1>4, PollKeeps
<1>5. ASSUME NEW p \in Deployer, GiveUp(p) \/ Again(p)
      PROVE  DeployInv'
    BY <1>5, EndingKeeps
<1>6. CASE UNCHANGED deployVars
  <2>1. UNCHANGED <<history, accepted, roleUsable, known, stack, deployer>>
      BY <1>6 DEF deployVars
  <2>2. DeployTypes /\ HistoryInv /\ \A p \in Deployer : KnowsItsOwn(p)
      BY DEF DeployInv
  <2>3. DeployTypes'
      BY <2>1, <2>2 DEF DeployTypes
  <2>4. HistoryInv'
      BY <2>1, <2>2 DEF HistoryInv
  <2>5. Grows
      BY <2>1, <2>2, SameHistory
  <2>6. \A p \in Deployer : KnowsItsOwn(p)'
      BY <2>1, <2>2, <2>5, DeployerRests
  <2> QED BY <2>3, <2>4, <2>6 DEF DeployInv
<1> QED BY <1>1, <1>2, <1>3, <1>4, <1>5, <1>6 DEF DeployNext

LEMMA DeployInvariant == DeploySpec => []DeployInv
<1>1. DeployInit => DeployInv
    BY DeployStart
<1>2. DeployInv /\ [DeployNext]_deployVars => DeployInv'
    BY DeployStep
<1> QED BY <1>1, <1>2, PTL DEF DeploySpec

(* However stale the reads and whoever else deploys, a deployment that reports  *)
(* success saw its own submission READY on the selected platform, a promotion   *)
(* that does saw the stack's content, and a failure is blamed on no operation    *)
(* before the one waited for (runtime_deploy.wait_ready, promote_project).      *)
THEOREM OutcomesAreTheirOwn == DeploySpec => []OutcomesAreOwn
<1>1. DeployInv => OutcomesAreOwn
  <2> SUFFICES ASSUME DeployInv, NEW p \in Deployer
               PROVE  /\ deployer[p].phase = "done" =>
                           /\ Now(p).status = "READY" /\ Now(p).platform = Selected
                           /\ Now(p).image = IF deployer[p].kind = "deploy" THEN <<"role", p>>
                                             ELSE <<"stack", deployer[p].operation>>
                      /\ deployer[p].blames # 0 =>
                           history[deployer[p].blames].at >= deployer[p].since
      BY DEF OutcomesAreOwn
  <2>1. KnowsItsOwn(p) /\ deployer[p].kind \in {"deploy", "promote"}
      BY DeployerFacts
  <2> QED BY <2>1 DEF KnowsItsOwn, Verified, Deployed, Blames, Is, Visible
<1> QED BY <1>1, DeployInvariant, PTL

-----------------------------------------------------------------------------
(* The work items.  A reply that agrees names every builder once, so each depends on   *)
(* the one before it; every round of dependency_order then finds one builder.   *)

LEMMA RosterIsBuilders ==
    /\ Len(Roster) \in Nat /\ DOMAIN Roster = 1 .. Len(Roster)
    /\ Builder = {Roster[i] : i \in 1 .. Len(Roster)}
    /\ \A i \in 1 .. Len(Roster) : Roster[i] \in Builder
    /\ \A i, j \in 1 .. Len(Roster) : Roster[i] = Roster[j] => i = j
    /\ IsFiniteSet(Builder) /\ Cardinality(Builder) = Len(Roster)
<1>1. /\ Len(Roster) \in Nat /\ DOMAIN Roster = 1 .. Len(Roster)
      /\ Builder = {Roster[i] : i \in 1 .. Len(Roster)}
      /\ Roster \in [1 .. Len(Roster) -> Builder]
      /\ \A i, j \in 1 .. Len(Roster) : Roster[i] = Roster[j] => i = j
  BY RosterAssumption DEF Builder
<1>2. Roster \in Bijection(1 .. Len(Roster), Builder)
  BY <1>1 DEF Bijection, Injection, Surjection, IsInjective
<1>3. IsFiniteSet(1 .. Len(Roster)) /\ Cardinality(1 .. Len(Roster)) = Len(Roster)
  <2>1. Len(Roster) \in Int /\ (1 > Len(Roster) <=> Len(Roster) = 0)
    BY <1>1
  <2> QED
    BY <1>1, <2>1, FS_Interval
<1>4. IsFiniteSet(Builder) /\ Cardinality(Builder) = Len(Roster)
  BY <1>2, <1>3, FS_Bijection DEF ExistsBijection
<1> QED
  BY <1>1, <1>4

LEMMA AgreedOnce ==
    ASSUME NEW reply \in Seq(Builder), Agrees(reply)
    PROVE  /\ Len(reply) = Len(Roster) /\ DOMAIN reply = 1 .. Len(Roster)
           /\ \A b \in Builder : \E k \in 1 .. Len(Roster) : reply[k] = b
           /\ \A i, j \in 1 .. Len(Roster) : reply[i] = reply[j] => i = j
<1>1. /\ Len(reply) = Len(Roster) /\ Len(Roster) \in Nat /\ DOMAIN reply = 1 .. Len(Roster)
      /\ reply \in [1 .. Len(Roster) -> Builder]
      /\ {reply[i] : i \in 1 .. Len(Roster)} = Builder
  <2>1. /\ Len(reply) = Len(Roster) /\ DOMAIN reply = 1 .. Len(reply)
        /\ {reply[i] : i \in DOMAIN reply} = Builder
        /\ reply \in [1 .. Len(reply) -> Builder]
    BY DEF Agrees
  <2> QED
    BY <2>1, RosterIsBuilders
<1>2. reply \in Surjection(1 .. Len(Roster), Builder)
  BY <1>1 DEF Surjection
<1>3. IsFiniteSet(1 .. Len(Roster)) /\ Cardinality(1 .. Len(Roster)) = Len(Roster)
  <2>1. Len(Roster) \in Int /\ (1 > Len(Roster) <=> Len(Roster) = 0)
    BY <1>1
  <2> QED
    BY <1>1, <2>1, FS_Interval
<1>4. reply \in Injection(1 .. Len(Roster), Builder)
  BY <1>2, <1>3, RosterIsBuilders, FS_SurjSameCardinalityImpliesInj
<1> QED
  BY <1>1, <1>4 DEF Injection, IsInjective

LEMMA EachDependsOnTheLast ==
    ASSUME NEW reply \in Seq(Builder), Agrees(reply), NEW k \in 1 .. Len(Roster)
    PROVE  DependsOn(reply)[reply[k]] = IF k = 1 THEN {} ELSE {reply[k - 1]}
<1> DEFINE Last(i) == i \in DOMAIN reply /\ reply[i] = reply[k]
                       /\ \A j \in DOMAIN reply : reply[j] = reply[k] => j <= i
<1>1. reply[k] \in Builder /\ DOMAIN reply = 1 .. Len(Roster) /\ Len(Roster) \in Nat
  BY AgreedOnce, RosterIsBuilders
<1>2. Last(k) /\ \A i : Last(i) => i = k
  BY <1>1, AgreedOnce
<1>3. (CHOOSE i \in DOMAIN reply : /\ reply[i] = reply[k]
                                 /\ \A j \in DOMAIN reply : reply[j] = reply[k] => j <= i) = k
  <2> DEFINE c == CHOOSE i \in DOMAIN reply : /\ reply[i] = reply[k]
                                 /\ \A j \in DOMAIN reply : reply[j] = reply[k] => j <= i
  <2>1. Last(c)
    BY <1>2
  <2> QED
    BY <1>2, <2>1
<1> QED
  BY <1>1, <1>3 DEF DependsOn

LEMMA OneInOrder ==
    ASSUME NEW q \in DOMAIN Roster
    PROVE  InInputOrder({q}) = [i \in 1 .. 1 |-> Roster[q]]
<1> DEFINE Sorted(s) == \A i, j \in DOMAIN s : i < j => s[i] < s[j]
           s0 == [i \in 1 .. 1 |-> q]
           c == CHOOSE s \in [1 .. Cardinality({q}) -> {q}] : Sorted(s)
<1>1. Cardinality({q}) = 1
  BY FS_Singleton
<1>2. s0 \in [1 .. Cardinality({q}) -> {q}] /\ Sorted(s0)
  BY <1>1
<1>3. c \in [1 .. Cardinality({q}) -> {q}]
  <2> HIDE DEF Sorted, s0
  <2> QED
    BY <1>2
<1>4. InInputOrder({q}) = [i \in DOMAIN c |-> Roster[c[i]]]
  BY DEF InInputOrder
<1> HIDE DEF c
<1>5. c \in [1 .. 1 -> {q}]
  BY <1>1, <1>3
<1>6. DOMAIN c = 1 .. 1 /\ \A i \in 1 .. 1 : c[i] = q
  BY <1>5
<1> QED
  BY <1>4, <1>6

LEMMA NoneInOrder == InInputOrder({}) = <<>>
<1> DEFINE Sorted(s) == \A i, j \in DOMAIN s : i < j => s[i] < s[j]
           c == CHOOSE s \in [1 .. Cardinality({}) -> {}] : Sorted(s)
<1>1. Cardinality({}) = 0
  BY FS_EmptySet
<1>2. <<>> \in [1 .. Cardinality({}) -> {}] /\ Sorted(<<>>)
  BY <1>1
<1>3. c \in [1 .. Cardinality({}) -> {}]
  <2> HIDE DEF Sorted
  <2> QED
    BY <1>2
<1>4. InInputOrder({}) = [i \in DOMAIN c |-> Roster[c[i]]]
  BY DEF InInputOrder
<1> HIDE DEF c
<1>5. DOMAIN c = {}
  BY <1>1, <1>3
<1> QED
  BY <1>4, <1>5

Prefix(s, n) == [i \in 1 .. n |-> s[i]]

LEMMA NextReady ==
    ASSUME NEW reply \in Seq(Builder), Agrees(reply), NEW n \in 0 .. Len(Roster)
    PROVE  LET ready == Ready(DependsOn(reply), {Prefix(reply, n)[i] : i \in DOMAIN Prefix(reply, n)})
           IN  IF n = Len(Roster) THEN ready = {}
               ELSE \E q \in DOMAIN Roster : Roster[q] = reply[n + 1] /\ ready = {q}
<1> DEFINE done == {reply[i] : i \in 1 .. n}
           ready == Ready(DependsOn(reply), done)
<1>1. {Prefix(reply, n)[i] : i \in DOMAIN Prefix(reply, n)} = done
  BY DEF Prefix
<1>n. Len(Roster) \in Nat /\ n \in Nat /\ n <= Len(Roster)
  BY RosterIsBuilders
<1>2. /\ Len(Roster) \in Nat /\ n \in Nat /\ n <= Len(Roster) /\ DOMAIN Roster = 1 .. Len(Roster)
      /\ \A i \in 1 .. Len(Roster) : reply[i] \in Builder
      /\ \A i, j \in 1 .. Len(Roster) : reply[i] = reply[j] => i = j
      /\ \A b \in Builder : \E k \in 1 .. Len(Roster) : reply[k] = b
  <2>1. /\ DOMAIN Roster = 1 .. Len(Roster) /\ DOMAIN reply = 1 .. Len(Roster)
        /\ \A i, j \in 1 .. Len(Roster) : reply[i] = reply[j] => i = j
        /\ \A b \in Builder : \E k \in 1 .. Len(Roster) : reply[k] = b
    BY RosterIsBuilders, AgreedOnce
  <2>2. \A i \in 1 .. Len(Roster) : reply[i] \in Builder
    BY <2>1
  <2> QED
    BY <1>n, <2>1, <2>2
<1>3. ASSUME NEW q \in ready PROVE n < Len(Roster) /\ Roster[q] = reply[n + 1]
  <2>1. q \in 1 .. Len(Roster) /\ Roster[q] \notin done /\ DependsOn(reply)[Roster[q]] \subseteq done
    BY <1>2, <1>3 DEF Ready
  <2>2. PICK k \in 1 .. Len(Roster) : reply[k] = Roster[q]
    BY <1>2, <2>1, RosterIsBuilders
  <2>3. n < k
    BY <1>2, <2>1, <2>2
  <2>4. k = n + 1
    <3>1. CASE k = 1
      BY <1>2, <2>3, <3>1
    <3>2. CASE k # 1
      <4>0. DependsOn(reply)[reply[k]] = {reply[k - 1]}
        BY <3>2, EachDependsOnTheLast
      <4>1. reply[k - 1] \in done
        BY <2>1, <2>2, <4>0
      <4>2. PICK i \in 1 .. n : reply[i] = reply[k - 1]
        BY <4>1
      <4>3. i \in 1 .. Len(Roster) /\ k - 1 \in 1 .. Len(Roster)
        BY <1>2, <2>2, <3>2
      <4>4. i = k - 1
        BY <1>2, <4>2, <4>3
      <4> QED
        BY <1>2, <2>3, <4>4
    <3> QED
      BY <3>1, <3>2
  <2> QED
    BY <1>2, <2>2, <2>3, <2>4
<1>4. ASSUME n # Len(Roster)
      PROVE  \E q \in DOMAIN Roster : Roster[q] = reply[n + 1] /\ q \in ready
  <2>1. n + 1 \in 1 .. Len(Roster)
    BY <1>n, <1>4
  <2>2. PICK q \in DOMAIN Roster : Roster[q] = reply[n + 1]
    <3>1. reply[n + 1] \in Builder
      BY <1>2, <2>1
    <3> QED
      BY <3>1 DEF Builder
  <2>3. reply[n + 1] \notin done
    <3>1. \A i \in 1 .. n : i \in 1 .. Len(Roster) /\ i # n + 1
      BY <1>2
    <3> QED
      BY <1>2, <2>1, <3>1
  <2>4. DependsOn(reply)[reply[n + 1]] = IF n + 1 = 1 THEN {} ELSE {reply[(n + 1) - 1]}
    BY <2>1, EachDependsOnTheLast
  <2>5. DependsOn(reply)[reply[n + 1]] \subseteq done
    <3>1. CASE n = 0
      BY <2>4, <3>1
    <3>2. CASE n # 0
      <4>1. n + 1 # 1 /\ (n + 1) - 1 = n /\ n \in 1 .. n
        BY <1>2, <3>2
      <4> QED
        BY <2>4, <4>1
    <3> QED
      BY <3>1, <3>2
  <2> QED
    BY <2>2, <2>3, <2>5 DEF Ready
<1>5. CASE n = Len(Roster)
  <2>1. ready = {}
    BY <1>2, <1>3, <1>5
  <2> HIDE DEF ready
  <2> QED
    BY <1>1, <1>5, <2>1 DEF ready
<1>6. CASE n # Len(Roster)
  <2>1. PICK q \in DOMAIN Roster : Roster[q] = reply[n + 1] /\ q \in ready
    BY <1>4, <1>6
  <2>2. \A p \in ready : p \in DOMAIN Roster /\ Roster[p] = Roster[q]
    BY <1>3, <2>1 DEF Ready
  <2>3. ready = {q}
    BY <2>1, <2>2, RosterAssumption
  <2> HIDE DEF ready
  <2> QED
    BY <1>1, <1>6, <2>1, <2>3 DEF ready
<1> QED
  BY <1>5, <1>6

LEMMA PrefixGrows ==
    ASSUME NEW reply \in Seq(Builder), NEW n \in Nat, n < Len(reply)
    PROVE  Prefix(reply, n) \o [i \in 1 .. 1 |-> reply[n + 1]] = Prefix(reply, n + 1)
<1> DEFINE last == [i \in 1 .. 1 |-> reply[n + 1]]
<1>1. Len(reply) \in Nat /\ \A i \in 1 .. Len(reply) : reply[i] \in Builder
  BY ElementOfSeq, LenProperties
<1>2. n + 1 \in 1 .. Len(reply) /\ \A i \in 1 .. n : i \in 1 .. Len(reply)
  BY <1>1
<1>3. Prefix(reply, n) \in Seq(Builder) /\ Len(Prefix(reply, n)) = n
  BY <1>1, <1>2 DEF Prefix
<1>4. last \in Seq(Builder) /\ Len(last) = 1
  BY <1>1, <1>2
<1> DEFINE first == Prefix(reply, n)
           both == first \o last
<1>5. /\ both \in Seq(Builder)
      /\ Len(both) = n + 1
      /\ \A i \in 1 .. n + 1 : both[i] = IF i <= n THEN first[i] ELSE last[i - n]
  <2> HIDE DEF first, last
  <2>1. /\ first \o last \in Seq(Builder)
        /\ Len(first \o last) = Len(first) + Len(last)
        /\ \A i \in 1 .. Len(first) + Len(last) : (first \o last)[i] =
                     IF i <= Len(first) THEN first[i] ELSE last[i - Len(first)]
    BY <1>3, <1>4, ConcatProperties DEF first
  <2>2. Len(first) = n /\ Len(first) + Len(last) = n + 1
    BY <1>3, <1>4 DEF first
  <2> QED
    BY <2>1, <2>2
<1>t. last[1] = reply[n + 1] /\ \A i \in 1 .. n : first[i] = reply[i]
  BY DEF Prefix
<1>7. DOMAIN both = 1 .. n + 1 /\ both = [i \in 1 .. n + 1 |-> both[i]]
  <2> HIDE DEF both
  <2> QED
    BY <1>5
<1>6. ASSUME NEW i \in 1 .. n + 1 PROVE both[i] = reply[i]
  <2> HIDE DEF both, first, last
  <2>1. CASE i <= n
    BY <1>5, <1>t, <2>1
  <2>2. CASE ~(i <= n)
    <3>1. i = n + 1 /\ i - n = 1
      BY <2>2
    <3>2. both[i] = last[i - n]
      BY <1>5, <2>2
    <3> QED
      BY <1>t, <3>1, <3>2
  <2> QED
    BY <2>1, <2>2
<1>8. both = [i \in 1 .. n + 1 |-> reply[i]]
  <2> HIDE DEF both
  <2> QED
    BY <1>6, <1>7
<1> QED
  BY <1>8 DEF Prefix

LEMMA RoundAdds ==
    ASSUME NEW reply \in Seq(Builder), Agrees(reply), NEW n \in 0 .. Len(Roster)
    PROVE  Round(DependsOn(reply), Prefix(reply, n)) =
               Prefix(reply, IF n = Len(Roster) THEN n ELSE n + 1)
<1>1. n \in Nat /\ n <= Len(Roster) /\ Len(Roster) \in Nat /\ Len(reply) = Len(Roster)
  BY RosterIsBuilders, AgreedOnce
<1> DEFINE ready == Ready(DependsOn(reply), {Prefix(reply, n)[i] : i \in DOMAIN Prefix(reply, n)})
<1>2. IF n = Len(Roster) THEN ready = {}
      ELSE \E q \in DOMAIN Roster : Roster[q] = reply[n + 1] /\ ready = {q}
  BY NextReady
<1>3. Round(DependsOn(reply), Prefix(reply, n)) = Prefix(reply, n) \o InInputOrder(ready)
  BY DEF Round
<1> HIDE DEF ready
<1>4. CASE n = Len(Roster)
  <2>1. Prefix(reply, n) \in Seq(Builder)
    <3>1. \A i \in 1 .. n : reply[i] \in Builder
      BY <1>1, ElementOfSeq
    <3> QED
      BY <1>1, <3>1 DEF Prefix
  <2>2. InInputOrder(ready) = <<>>
    BY <1>2, <1>4, NoneInOrder
  <2> QED
    BY <1>3, <1>4, <2>1, <2>2, ConcatEmptySeq
<1>5. CASE n # Len(Roster)
  <2>1. PICK q \in DOMAIN Roster : Roster[q] = reply[n + 1] /\ ready = {q}
    BY <1>2, <1>5
  <2>2. InInputOrder(ready) = [i \in 1 .. 1 |-> reply[n + 1]]
    BY <2>1, OneInOrder
  <2>3. n < Len(reply)
    BY <1>1, <1>5
  <2> QED
    BY <1>1, <1>3, <1>5, <2>2, <2>3, PrefixGrows
<1> QED
  BY <1>4, <1>5

\* The rounds of dependency_order, as a function of the earlier ones.
Rounds(depends, out) == [n \in Nat |-> IF n = 0 THEN <<>> ELSE Round(depends, out[n - 1])]

LEMMA OrderIsKept ==
    ASSUME NEW reply \in Seq(Builder), Agrees(reply)
    PROVE  DependencyOrder(DependsOn(reply)) = reply
<1> DEFINE depends == DependsOn(reply)
           upTo(n) == IF n < Len(Roster) THEN n ELSE Len(Roster)
           kept == [n \in Nat |-> Prefix(reply, upTo(n))]
           out == CHOOSE f : f = Rounds(depends, f)
<1>1. Len(Roster) \in Nat /\ Len(reply) = Len(Roster) /\ DOMAIN reply = 1 .. Len(Roster)
  BY RosterIsBuilders, AgreedOnce
<1>2. Prefix(reply, Len(Roster)) = reply
  BY <1>1 DEF Prefix
<1>3. Prefix(reply, 0) = <<>>
  BY DEF Prefix
<1>4. ASSUME NEW n \in Nat, n # 0
      PROVE  n - 1 \in Nat /\ kept[n] = Round(depends, kept[n - 1])
  <2> DEFINE m == upTo(n - 1)
  <2>1. /\ n - 1 \in Nat /\ m \in 0 .. Len(Roster)
        /\ upTo(n) = (IF m = Len(Roster) THEN m ELSE m + 1)
    BY <1>1, <1>4
  <2>2. kept[n] = Prefix(reply, upTo(n)) /\ kept[n - 1] = Prefix(reply, m)
    BY <2>1
  <2> HIDE DEF m, upTo, kept, depends
  <2>3. Round(DependsOn(reply), Prefix(reply, m)) =
               Prefix(reply, IF m = Len(Roster) THEN m ELSE m + 1)
    BY <2>1, RoundAdds
  <2> QED
    BY <2>1, <2>2, <2>3 DEF depends
<1>5. kept[0] = <<>>
  <2>1. upTo(0) = 0
    BY <1>1
  <2> QED
    BY <1>3, <2>1
<1>6. kept[Len(Roster)] = reply
  BY <1>1, <1>2
<1>7. kept = Rounds(depends, kept)
  <2>1. kept = [n \in Nat |-> kept[n]]
    OBVIOUS
  <2> HIDE DEF kept, depends
  <2> QED
    BY <1>4, <1>5, <2>1 DEF Rounds
<1> HIDE DEF kept, depends
<1>8. out = Rounds(depends, out)
  BY <1>7
<1>9. DependencyOrder(depends) = out[Len(Roster)]
  BY DEF DependencyOrder, Rounds
<1> HIDE DEF out
<1>10. out[Len(Roster)] = kept[Len(Roster)]
  <2> DEFINE wrong == {n \in Nat : out[n] # kept[n]}
  <2>1. ASSUME wrong # {} PROVE FALSE
    <3>1. PICK n \in wrong : \A m \in wrong : <<m, n>> \notin OpToRel(<, Nat)
      BY <2>1, WFMin, NatLessThanWellFounded, Zenon
    <3>2. \A m \in wrong : ~(m < n)
      BY <3>1, Zenon DEF OpToRel
    <3>3. out[0] = <<>>
      BY <1>8 DEF Rounds
    <3>4. n \in Nat /\ n # 0
      BY <1>5, <3>3
    <3>5. n - 1 \in Nat /\ n - 1 < n
      BY <3>4
    <3>6. out[n - 1] = kept[n - 1]
      BY <3>2, <3>5
    <3>7. out[n] = Round(depends, out[n - 1])
      BY <1>8, <3>4 DEF Rounds
    <3> QED
      BY <1>4, <3>4, <3>6, <3>7
  <2> QED
    BY <1>1, <2>1
<1> QED
  BY <1>6, <1>9, <1>10 DEF depends

-----------------------------------------------------------------------------
(* The trees.  What a pull request changes its owner changed, and from what the   *)
(* owner saw; a refreshed one stands on the tip, since it is the first of the      *)
(* brief's order that is not settled and no other can be merged meanwhile.        *)

WorkPiece ==
    [state : PieceState, base : Nat, work : WorkTree,
     prior : [WorkPath -> {Missing, Seeded} \cup Builder],
     left : WorkTree, seen : Nat, repaired : BOOLEAN, refreshed : BOOLEAN]
Landing == [tree : WorkTree, by : Builder \cup {Seeded}, seen : Nat]

WorkTypes ==
    /\ brief \in [state : {"asked", "asked_again", "agreed", "refused", "cycle", "broken"},
                  reply : Seq(Builder), order : Seq(Builder)]
    /\ trunk \in Seq(Landing) /\ Len(trunk) >= 1
    /\ \A n \in 1 .. Len(trunk) : trunk[n].seen \in 1 .. n
    /\ piece \in [Builder -> WorkPiece]
    /\ \A r \in Builder : piece[r].base \in 1 .. Len(trunk) /\ piece[r].seen \in 1 .. Len(trunk)

\* A work item c, against its base B and the base S its owner's last turn saw.
Carries(c, B, S) ==
    LET authored == Changes(S, c.left)
    IN  /\ c.state = "in_review" =>
             /\ \A p \in Changes(B, c.work) : p \in authored /\ c.work[p] = c.left[p] /\ B[p] = S[p]
             /\ ~c.refreshed => c.base = c.seen /\ c.work = c.left
             /\ \A p \in authored : \/ Ignores(B, p)
                                    \/ Patched(B, Changes(B, c.work), c.work)[p] = c.left[p]
        /\ c.state = "refreshing" =>
             \A p \in authored : \/ Ignores(B, p) \/ c.left[p] = Missing
                                 \/ c.work[p] = c.left[p] \/ c.prior[p] = c.left[p]

\* A tree that landed on old, as work of one who saw S and was based on B.
Lands(new, old, left, B, S) ==
    /\ \A p \in WorkPath : new[p] # old[p] => p \in Changes(S, left) /\ old[p] = S[p]
    /\ \A p \in Changes(S, left) : Ignores(B, p) \/ new[p] = left[p]

SeenBy(r) == trunk[piece[r].seen].tree

InFront(r) == \E i \in DOMAIN brief.order :
    brief.order[i] = r /\ \A j \in 1 .. i - 1 : Settled(brief.order[j])

RefreshedInFront(r) == piece[r].refreshed =>
    /\ brief.state \in {"agreed", "broken"}
    /\ Settled(r) \/ (InFront(r) /\ piece[r].base = Tip)

LandedWhole(n) ==
    LET r == trunk[n].by
    IN  /\ r \in Builder /\ piece[r].state = "merged" /\ trunk[n].seen = piece[r].seen
        /\ Lands(trunk[n].tree, trunk[n - 1].tree, piece[r].left, BaseOf(r), SeenBy(r))

WorkInv ==
    /\ WorkTypes /\ BriefIsKept
    /\ \A r \in Builder : Carries(piece[r], BaseOf(r), SeenBy(r)) /\ RefreshedInFront(r)
    /\ \A n \in 2 .. Tip : LandedWhole(n)

LEMMA TipFacts ==
    ASSUME WorkTypes
    PROVE  /\ Tip \in Nat /\ Tip >= 1 /\ DOMAIN trunk = 1 .. Tip
           /\ \A n \in 1 .. Tip : trunk[n] \in Landing /\ trunk[n].tree \in WorkTree
           /\ TrunkTree \in WorkTree
           /\ \A r \in Builder : /\ piece[r] \in WorkPiece
                                 /\ piece[r].base \in 1 .. Tip /\ piece[r].seen \in 1 .. Tip
                                 /\ BaseOf(r) \in WorkTree /\ SeenBy(r) \in WorkTree
                                 /\ piece[r].work \in WorkTree /\ piece[r].left \in WorkTree
<1>1. Tip \in Nat /\ Tip >= 1 /\ DOMAIN trunk = 1 .. Tip
  BY LenProperties DEF WorkTypes, Tip
<1>2. \A n \in 1 .. Tip : trunk[n] \in Landing
  BY ElementOfSeq DEF WorkTypes, Tip
<1>3. \A n \in 1 .. Tip : trunk[n].tree \in WorkTree
  BY <1>2 DEF Landing
<1>4. ASSUME NEW r \in Builder
      PROVE  /\ piece[r] \in WorkPiece
             /\ piece[r].base \in 1 .. Tip /\ piece[r].seen \in 1 .. Tip
             /\ piece[r].work \in WorkTree /\ piece[r].left \in WorkTree
  <2>1. piece[r] \in WorkPiece /\ piece[r].base \in 1 .. Tip /\ piece[r].seen \in 1 .. Tip
    BY DEF WorkTypes, Tip
  <2> QED
    BY <2>1 DEF WorkPiece
<1>5. Tip \in 1 .. Tip
  BY <1>1
<1> QED
  BY <1>1, <1>2, <1>3, <1>4, <1>5 DEF TrunkTree, BaseOf, SeenBy

(* One pull request at most is the first of the order that is not settled.        *)
LEMMA OneInFront ==
    ASSUME WorkTypes, NEW q \in Builder, NEW r \in Builder,
           InFront(q), InFront(r), ~Settled(q), ~Settled(r)
    PROVE  q = r
<1>1. brief.order \in Seq(Builder) /\ DOMAIN brief.order \subseteq Int
  BY DEF WorkTypes
<1>2. PICK i \in DOMAIN brief.order :
          brief.order[i] = q /\ \A j \in 1 .. i - 1 : Settled(brief.order[j])
  BY DEF InFront
<1>3. PICK k \in DOMAIN brief.order :
          brief.order[k] = r /\ \A j \in 1 .. k - 1 : Settled(brief.order[j])
  BY DEF InFront
<1>4. i \in Int /\ k \in Int /\ 1 <= i /\ 1 <= k
  BY <1>1
<1>5. ~(k < i)
  <2>1. k < i => k \in 1 .. i - 1
    BY <1>4
  <2> QED
    BY <1>2, <1>3, <2>1
<1>6. ~(i < k)
  <2>1. i < k => i \in 1 .. k - 1
    BY <1>4
  <2> QED
    BY <1>2, <1>3, <2>1
<1> QED
  BY <1>2, <1>3, <1>4, <1>5, <1>6

LEMMA WorkBegins == WorkInit => WorkInv
<1> SUFFICES ASSUME WorkInit PROVE WorkInv
  OBVIOUS
<1>1. PICK t \in WorkTree :
          /\ trunk = <<[tree |-> t, by |-> Seeded, seen |-> 1]>>
          /\ piece = [r \in Builder |-> FreshCheckout(1, t)]
  BY DEF WorkInit
<1>2. brief = [state |-> "asked", reply |-> <<>>, order |-> <<>>]
  BY DEF WorkInit
<1>3. Tip = 1 /\ trunk[1] = [tree |-> t, by |-> Seeded, seen |-> 1]
  BY <1>1 DEF Tip
<1>4. trunk[1] \in Landing
  BY <1>3 DEF Landing
<1>5. NoFiles \in [WorkPath -> {Missing, Seeded} \cup Builder]
  BY DEF NoFiles
<1>6. FreshCheckout(1, t) \in WorkPiece
  BY <1>5 DEF FreshCheckout, WorkPiece, PieceState
<1>7. \A r \in Builder : piece[r] = FreshCheckout(1, t) /\ piece[r].base = 1 /\ piece[r].seen = 1
                         /\ piece[r].state = "working" /\ ~piece[r].refreshed
  BY <1>1 DEF FreshCheckout
<1>8. WorkTypes
  <2>1. trunk \in Seq(Landing)
    BY <1>1, <1>3, <1>4
  <2>2. brief \in [state : {"asked", "asked_again", "agreed", "refused", "cycle", "broken"},
                  reply : Seq(Builder), order : Seq(Builder)]
    BY <1>2
  <2>3. piece \in [Builder -> WorkPiece]
    BY <1>1, <1>6
  <2>4. Len(trunk) = 1
    BY <1>3 DEF Tip
  <2>5. \A n \in 1 .. Len(trunk) : trunk[n].seen \in 1 .. n
    <3>1. trunk[1].seen = 1
      BY <1>3
    <3> QED
      BY <2>4, <3>1
  <2> QED
    BY <1>7, <2>1, <2>2, <2>3, <2>4, <2>5 DEF WorkTypes
<1>9. BriefIsKept
  BY <1>2 DEF BriefIsKept
<1>10. \A r \in Builder : Carries(piece[r], BaseOf(r), SeenBy(r)) /\ RefreshedInFront(r)
  BY <1>7 DEF Carries, RefreshedInFront
<1>11. 2 .. Tip = {}
  BY <1>3
<1> QED
  BY <1>8, <1>9, <1>10, <1>11 DEF WorkInv

(* The trees of one pull request: its base B, the branch's T, its owner's last base *)
(* S, and what its patch is.  What a refresh builds:                            *)
LEMMA RefreshCarries ==
    ASSUME NEW c, NEW B \in WorkTree, NEW S \in WorkTree, NEW T \in WorkTree,
           c.state = "in_review", ~c.refreshed, c.base = c.seen => B = S, Carries(c, B, S),
           c.work \in WorkTree, c.left \in WorkTree,
           NEW stale, stale = Conflicts(B, c.work, T),
           NEW seed, seed = Patched(T, Changes(B, c.work) \ stale, c.work),
           NEW d, d.left = c.left, d.work = seed, d.refreshed,
           d.prior = Patched(NoFiles, stale, c.work),
           d.state = "refreshing" \/ d.state = "left" \/ (d.state = "in_review" /\ stale = {})
    PROVE  Carries(d, T, S)
<1>1. B = S /\ c.work = c.left
  BY DEF Carries
<1>2. \A p \in WorkPath : seed[p] = IF p \in Changes(B, c.work) \ stale THEN c.work[p] ELSE T[p]
  BY DEF Patched
<1>3. \A p \in WorkPath : p \in stale => d.prior[p] = c.work[p]
  BY DEF Patched
<1>4. \A p \in Changes(B, c.work) : p \notin stale => T[p] = B[p] \/ T[p] = c.work[p]
  BY DEF Conflicts
<1>5. ASSUME NEW p \in Changes(S, c.left), d.state = "refreshing"
      PROVE  d.work[p] = c.left[p] \/ d.prior[p] = c.left[p]
  <2>1. p \in WorkPath /\ p \in Changes(B, c.work)
    BY <1>1, <1>5 DEF Changes
  <2> QED
    BY <1>1, <1>2, <1>3, <2>1
<1>6. ASSUME NEW p \in Changes(T, seed), d.state = "in_review"
      PROVE  p \in Changes(S, c.left) /\ seed[p] = c.left[p] /\ T[p] = S[p]
  <2>1. p \in WorkPath /\ T[p] # seed[p]
    BY <1>6 DEF Changes
  <2>2. p \in Changes(B, c.work) /\ p \notin stale /\ seed[p] = c.work[p]
    BY <1>2, <2>1
  <2> QED
    BY <1>1, <1>4, <2>1, <2>2
<1>7. ASSUME NEW p \in Changes(S, c.left), d.state = "in_review"
      PROVE  Ignores(T, p) \/ Patched(T, Changes(T, seed), seed)[p] = c.left[p]
  <2>1. p \in WorkPath /\ p \in Changes(B, c.work) /\ p \notin stale
    BY <1>1, <1>7 DEF Changes
  <2>2. seed[p] = c.left[p]
    BY <1>1, <1>2, <2>1
  <2>3. CASE p \in Changes(T, seed) \/ T[p] = seed[p]
    BY <2>1, <2>2, <2>3 DEF Patched
  <2>4. CASE p \notin Changes(T, seed) /\ T[p] # seed[p]
    <3>1. T[p] = Missing /\ p = "out" /\ seed["rules"] # Missing
      BY <2>1, <2>4 DEF Changes, Ignores
    <3>2. B[p] = Missing
      BY <1>1, <1>4, <2>1, <2>2, <2>4, <3>1
    <3>3. c.work["rules"] = Missing
      BY <2>1, <3>1, <3>2 DEF Changes, Ignores
    <3>4. T["rules"] # Missing
      <4>1. "rules" \in WorkPath
        BY DEF WorkPath
      <4> QED
        BY <1>2, <3>1, <3>3, <4>1
    <3> QED
      BY <3>1, <3>4 DEF Ignores
  <2> QED
    BY <2>3, <2>4
<1>8. d.state = "in_review" =>
         /\ \A p \in Changes(T, d.work) : p \in Changes(S, d.left) /\ d.work[p] = d.left[p] /\ T[p] = S[p]
         /\ ~d.refreshed => d.base = d.seen /\ d.work = d.left
         /\ \A p \in Changes(S, d.left) : \/ Ignores(T, p)
                                         \/ Patched(T, Changes(T, d.work), d.work)[p] = d.left[p]
  BY <1>6, <1>7
<1>9. d.state = "refreshing" =>
             \A p \in Changes(S, d.left) : \/ Ignores(T, p) \/ d.left[p] = Missing
                                 \/ d.work[p] = d.left[p] \/ d.prior[p] = d.left[p]
  BY <1>5
<1> QED
  BY <1>8, <1>9 DEF Carries

(* What is merged where nothing conflicts.                                     *)
LEMMA MergeLands ==
    ASSUME NEW c, NEW B \in WorkTree, NEW S \in WorkTree, NEW T \in WorkTree,
           c.state = "in_review", Carries(c, B, S), c.base = c.seen => B = S,
           c.refreshed => B = T, c.work \in WorkTree, c.left \in WorkTree,
           Conflicts(B, c.work, T) = {},
           NEW paths, paths = {p \in Changes(B, c.work) : T[p] # c.work[p]}
    PROVE  Lands(Patched(T, paths, c.work), T, c.left, B, S)
<1> DEFINE new == Patched(T, paths, c.work)
<1>1. \A p \in WorkPath : new[p] = IF p \in paths THEN c.work[p] ELSE T[p]
  BY DEF Patched
<1>2. \A p \in Changes(B, c.work) : p \in WorkPath /\ (T[p] = B[p] \/ T[p] = c.work[p])
  BY DEF Conflicts, Changes
<1>3. \A p \in Changes(B, c.work) : p \in Changes(S, c.left) /\ c.work[p] = c.left[p] /\ B[p] = S[p]
  BY DEF Carries
<1>4. ASSUME NEW p \in WorkPath, new[p] # T[p]
      PROVE  p \in Changes(S, c.left) /\ T[p] = S[p]
  <2> HIDE DEF new
  <2>1. p \in Changes(B, c.work) /\ T[p] # c.work[p]
    BY <1>1, <1>4
  <2> QED
    BY <1>2, <1>3, <2>1
<1>5. ASSUME NEW p \in Changes(S, c.left) PROVE Ignores(B, p) \/ new[p] = c.left[p]
  <2> HIDE DEF new
  <2>1. p \in WorkPath
    BY <1>5 DEF Changes
  <2>2. CASE p \in Changes(B, c.work)
    BY <1>1, <1>3, <2>1, <2>2
  <2>3. CASE p \notin Changes(B, c.work)
    <3>1. c.refreshed
      BY <1>5, <2>3 DEF Carries
    <3>2. Ignores(B, p) \/ Patched(B, Changes(B, c.work), c.work)[p] = c.left[p]
      BY <1>5 DEF Carries
    <3>3. Patched(B, Changes(B, c.work), c.work)[p] = B[p]
      BY <2>1, <2>3 DEF Patched
    <3>4. new[p] = T[p]
      BY <1>1, <2>1, <2>3
    <3> QED
      BY <3>1, <3>2, <3>3, <3>4
  <2> QED
    BY <2>2, <2>3
<1> QED
  BY <1>4, <1>5 DEF Lands

(* A tree of no path that is both a file and a directory.                         *)
LEMMA PatchedTree ==
    ASSUME NEW T \in WorkTree, NEW w \in WorkTree, NEW paths, ~Clash(T, paths, w)
    PROVE  Patched(T, paths, w) \in WorkTree
<1>1. /\ T \in [WorkPath -> {Missing, Seeded} \cup Builder]
      /\ w \in [WorkPath -> {Missing, Seeded} \cup Builder]
      /\ T["dir"] = Missing \/ T["leaf"] = Missing
      /\ w["dir"] = Missing \/ w["leaf"] = Missing
  BY DEF WorkTree
<1>2. Patched(T, paths, w) \in [WorkPath -> {Missing, Seeded} \cup Builder]
  BY <1>1 DEF Patched
<1>3. "dir" \in WorkPath /\ "leaf" \in WorkPath
  BY DEF WorkPath
<1>4. Patched(T, paths, w)["dir"] = Missing \/ Patched(T, paths, w)["leaf"] = Missing
  BY <1>1, <1>3 DEF Patched, Clash
<1> QED
  BY <1>2, <1>4 DEF WorkTree

-----------------------------------------------------------------------------
(* A step that changes one work item and no tree of the branch.                  *)
LEMMA OneItemMoves ==
    ASSUME WorkInv, NEW r \in Builder, NEW c \in WorkPiece,
           c.base \in 1 .. Tip, c.seen \in 1 .. Tip,
           piece' = [piece EXCEPT ![r] = c], UNCHANGED <<brief, trunk>>,
           brief.state = "agreed", ~Settled(r),
           Carries(c, trunk[c.base].tree, trunk[c.seen].tree),
           c.refreshed => (c.state \in {"failed", "left", "merged"} \/ (InFront(r) /\ c.base = Tip))
    PROVE  WorkInv'
<1>1. WorkTypes /\ BriefIsKept
  BY DEF WorkInv
<1>2. /\ piece' \in [Builder -> WorkPiece] /\ piece'[r] = c
      /\ \A q \in Builder : q # r => piece'[q] = piece[q]
  BY <1>1 DEF WorkTypes
<1>3. WorkTypes'
  <2>1. \A q \in Builder : piece'[q].base \in 1 .. Len(trunk) /\ piece'[q].seen \in 1 .. Len(trunk)
    BY <1>1, <1>2 DEF WorkTypes, Tip
  <2> QED
    BY <1>1, <1>2, <2>1 DEF WorkTypes
<1>4. BriefIsKept'
  BY <1>1 DEF BriefIsKept
<1>5. \A q \in Builder : Settled(q) => Settled(q)'
  <2> SUFFICES ASSUME NEW q \in Builder, Settled(q) PROVE Settled(q)'
    OBVIOUS
  <2>1. q # r
    OBVIOUS
  <2> QED
    BY <1>2, <2>1 DEF Settled
<1>6. ASSUME NEW q \in Builder, InFront(q) PROVE InFront(q)'
  <2>1. PICK i \in DOMAIN brief.order :
            brief.order[i] = q /\ \A j \in 1 .. i - 1 : Settled(brief.order[j])
    BY <1>6 DEF InFront
  <2>2. \A j \in 1 .. i - 1 : brief.order[j] \in Builder
    <3>1. brief.order \in Seq(Builder)
      BY <1>1 DEF WorkTypes
    <3>2. DOMAIN brief.order = 1 .. Len(brief.order) /\ Len(brief.order) \in Nat
      BY <3>1
    <3>3. \A j \in 1 .. i - 1 : j \in 1 .. Len(brief.order)
      BY <2>1, <3>2
    <3> QED
      BY <3>1, <3>3, ElementOfSeq
  <2>3. \A j \in 1 .. i - 1 : Settled(brief.order[j])'
    BY <1>5, <2>1, <2>2
  <2> QED
    BY <2>1, <2>3 DEF InFront
<1>7. ASSUME NEW q \in Builder PROVE (Carries(piece[q], BaseOf(q), SeenBy(q)) /\ RefreshedInFront(q))'
  <2>1. CASE q = r
    <3>1. Carries(piece[q], BaseOf(q), SeenBy(q))'
      BY <1>2, <2>1 DEF BaseOf, SeenBy
    <3>2. RefreshedInFront(q)'
      <4>1. c.refreshed => Settled(q)' \/ (InFront(q)' /\ c.base = Tip')
        BY <1>2, <1>6, <2>1 DEF Settled, Tip
      <4> QED
        BY <1>2, <2>1, <4>1 DEF RefreshedInFront
    <3> QED
      BY <3>1, <3>2
  <2>2. CASE q # r
    <3>1. piece'[q] = piece[q] /\ BaseOf(q)' = BaseOf(q) /\ SeenBy(q)' = SeenBy(q)
      BY <1>2, <2>2 DEF BaseOf, SeenBy
    <3>2. Carries(piece[q], BaseOf(q), SeenBy(q)) /\ RefreshedInFront(q)
      BY DEF WorkInv
    <3>3. RefreshedInFront(q)'
      <4>1. Settled(q) => Settled(q)'
        BY <1>5
      <4> QED
        BY <1>6, <3>1, <3>2, <4>1 DEF RefreshedInFront, Tip
    <3> QED
      BY <3>1, <3>2, <3>3
  <2> QED
    BY <2>1, <2>2
<1>8. ASSUME NEW n \in 2 .. Tip PROVE LandedWhole(n)'
  <2>1. LandedWhole(n)
    BY DEF WorkInv
  <2>2. trunk[n].by \in Builder /\ piece[trunk[n].by].state = "merged"
    BY <2>1 DEF LandedWhole
  <2>3. trunk[n].by # r
    BY <2>2 DEF Settled
  <2>4. piece'[trunk[n].by] = piece[trunk[n].by]
    BY <1>2, <2>2, <2>3
  <2> QED
    BY <2>1, <2>4 DEF LandedWhole, BaseOf, SeenBy
<1>9. Tip' = Tip
  BY DEF Tip
<1> QED
  BY <1>3, <1>4, <1>7, <1>8, <1>9 DEF WorkInv

(* A step that leaves the work items and the branch.                            *)
LEMMA BriefMoves ==
    ASSUME WorkInv, UNCHANGED <<trunk, piece>>,
           brief' \in [state : {"asked", "asked_again", "agreed", "refused", "cycle", "broken"},
                       reply : Seq(Builder), order : Seq(Builder)],
           BriefIsKept',
           \/ brief.state \notin {"agreed", "broken"}
           \/ brief.state = "agreed" /\ brief'.state \in {"agreed", "broken"} /\ brief'.order = brief.order
    PROVE  WorkInv'
<1>1. WorkTypes'
  BY DEF WorkInv, WorkTypes
<1>2. ASSUME NEW q \in Builder PROVE (Carries(piece[q], BaseOf(q), SeenBy(q)) /\ RefreshedInFront(q))'
  <2>1. Carries(piece[q], BaseOf(q), SeenBy(q)) /\ RefreshedInFront(q)
    BY DEF WorkInv
  <2>2. Carries(piece[q], BaseOf(q), SeenBy(q))'
    BY <2>1 DEF BaseOf, SeenBy
  <2>3. RefreshedInFront(q)'
    <3>1. CASE brief.state \notin {"agreed", "broken"}
      BY <2>1, <3>1 DEF RefreshedInFront
    <3>2. CASE brief.state = "agreed" /\ brief'.state \in {"agreed", "broken"} /\ brief'.order = brief.order
      <4>1. InFront(q) => InFront(q)'
        BY <3>2 DEF InFront, Settled
      <4> QED
        BY <2>1, <3>2, <4>1 DEF RefreshedInFront, Settled, Tip
    <3> QED
      BY <3>1, <3>2
  <2> QED
    BY <2>2, <2>3
<1>3. ASSUME NEW n \in 2 .. Tip PROVE LandedWhole(n)'
  <2>1. LandedWhole(n)
    BY DEF WorkInv
  <2> QED
    BY <2>1 DEF LandedWhole, BaseOf, SeenBy
<1>4. Tip' = Tip
  BY DEF Tip
<1> QED
  BY <1>1, <1>2, <1>3, <1>4 DEF WorkInv

LEMMA BriefReplyKeeps == ASSUME WorkInv, BriefReply PROVE WorkInv'
<1>1. WorkTypes /\ BriefIsKept /\ brief.state \in {"asked", "asked_again"} /\ UNCHANGED <<trunk, piece>>
  BY DEF WorkInv, BriefReply
<1>2. PICK reply \in UNION {[1 .. n -> Builder] : n \in 0 .. Len(Roster) + 1} :
          brief' = IF Agrees(reply)
                   THEN LET order == DependencyOrder(DependsOn(reply))
                        IN  [state |-> IF Len(order) = Len(Roster) THEN "agreed" ELSE "cycle",
                             reply |-> reply, order |-> order]
                   ELSE [brief EXCEPT !.state = IF @ = "asked" THEN "asked_again" ELSE "refused"]
  BY DEF BriefReply
<1>3. reply \in Seq(Builder)
  BY <1>2, RosterIsBuilders
<1>4. CASE Agrees(reply)
  <2>1. DependencyOrder(DependsOn(reply)) = reply /\ Len(reply) = Len(Roster)
    BY <1>3, <1>4, OrderIsKept, AgreedOnce
  <2>2. brief' = [state |-> "agreed", reply |-> reply, order |-> reply]
    BY <1>2, <1>4, <2>1
  <2> QED
    BY <1>1, <1>3, <2>2, BriefMoves DEF BriefIsKept
<1>5. CASE ~Agrees(reply)
  <2>1. brief' = [brief EXCEPT !.state = "asked_again"] \/ brief' = [brief EXCEPT !.state = "refused"]
    BY <1>2, <1>5
  <2>2. /\ brief' \in [state : {"asked", "asked_again", "agreed", "refused", "cycle", "broken"},
                       reply : Seq(Builder), order : Seq(Builder)]
        /\ brief'.state \in {"asked_again", "refused"}
    BY <1>1, <2>1 DEF WorkTypes
  <2> QED
    BY <1>1, <2>2, BriefMoves DEF BriefIsKept
<1> QED
  BY <1>4, <1>5

LEMMA NoBriefKeeps == ASSUME WorkInv, NoBrief PROVE WorkInv'
<1>1. /\ WorkTypes /\ BriefIsKept /\ brief.state \in {"asked", "asked_again"}
      /\ brief' = [brief EXCEPT !.state = "refused"] /\ UNCHANGED <<trunk, piece>>
  BY DEF WorkInv, NoBrief
<1>2. /\ brief' \in [state : {"asked", "asked_again", "agreed", "refused", "cycle", "broken"},
                     reply : Seq(Builder), order : Seq(Builder)]
      /\ brief'.state = "refused"
  BY <1>1 DEF WorkTypes
<1> QED
  BY <1>1, <1>2, BriefMoves DEF BriefIsKept

LEMMA OwnerTurnKeeps ==
    ASSUME WorkInv, NEW r \in Builder, OwnerTurn(r)
    PROVE  WorkInv'
<1>1. WorkTypes /\ brief.state = "agreed" /\ Owned(r) /\ UNCHANGED <<brief, trunk>>
  BY DEF WorkInv, OwnerTurn
<1>2. PICK t \in WorkTree :
          piece' = IF Changes(BaseOf(r), t) = {}
                   THEN [piece EXCEPT ![r].state = "failed", ![r].work = t]
                   ELSE [piece EXCEPT ![r].state = "in_review", ![r].work = t,
                                      ![r].left = t, ![r].seen = piece[r].base]
  BY DEF OwnerTurn, Edited
<1>3. /\ piece[r] \in WorkPiece /\ piece[r].base \in 1 .. Tip /\ piece[r].seen \in 1 .. Tip
      /\ Tip \in Nat /\ BaseOf(r) \in WorkTree
  BY <1>1, TipFacts
<1>4. ~Settled(r) /\ RefreshedInFront(r)
  BY <1>1 DEF Owned, Settled, WorkInv
<1>5. CASE Changes(BaseOf(r), t) = {}
  <2> DEFINE c == [piece[r] EXCEPT !.state = "failed", !.work = t]
  <2>1. piece' = [piece EXCEPT ![r] = c]
    BY <1>2, <1>5
  <2>2. c \in WorkPiece /\ c.base = piece[r].base /\ c.seen = piece[r].seen /\ c.state = "failed"
    BY <1>3 DEF WorkPiece, PieceState
  <2> HIDE DEF c
  <2>3. Carries(c, trunk[c.base].tree, trunk[c.seen].tree)
    BY <2>2 DEF Carries
  <2> QED
    BY <1>1, <1>3, <1>4, <2>1, <2>2, <2>3, OneItemMoves
<1>6. CASE Changes(BaseOf(r), t) # {}
  <2> DEFINE c == [piece[r] EXCEPT !.state = "in_review", !.work = t, !.left = t, !.seen = piece[r].base]
  <2>1. piece' = [piece EXCEPT ![r] = c]
    BY <1>2, <1>6
  <2>2. c \in WorkPiece
    BY <1>3 DEF WorkPiece, PieceState
  <2>3. /\ c.base = piece[r].base /\ c.seen = piece[r].base /\ c.state = "in_review"
        /\ c.work = t /\ c.left = t /\ c.refreshed = piece[r].refreshed
    BY <1>3 DEF WorkPiece
  <2> HIDE DEF c
  <2>4. Carries(c, BaseOf(r), BaseOf(r))
    <3>1. \A p \in Changes(BaseOf(r), t) : p \in WorkPath
      BY DEF Changes
    <3>2. \A p \in Changes(BaseOf(r), t) : Patched(BaseOf(r), Changes(BaseOf(r), t), t)[p] = t[p]
      BY <3>1 DEF Patched
    <3>3. Changes(BaseOf(r), c.work) = Changes(BaseOf(r), t) /\ Changes(BaseOf(r), c.left) = Changes(BaseOf(r), t)
      BY <2>3
    <3> QED
      BY <2>3, <3>2, <3>3 DEF Carries
  <2>5. c.refreshed => InFront(r) /\ c.base = Tip
    BY <1>4, <2>3 DEF RefreshedInFront
  <2>6. Carries(c, trunk[c.base].tree, trunk[c.seen].tree)
    BY <2>3, <2>4 DEF BaseOf
  <2> QED
    BY <1>1, <1>3, <1>4, <2>1, <2>2, <2>3, <2>5, <2>6, OneItemMoves
<1> QED
  BY <1>5, <1>6

LEMMA OwnerTurnFailsKeeps ==
    ASSUME WorkInv, NEW r \in Builder, OwnerTurnFails(r)
    PROVE  WorkInv'
<1>1. /\ WorkTypes /\ brief.state = "agreed" /\ Owned(r) /\ UNCHANGED <<brief, trunk>>
      /\ piece' = [piece EXCEPT ![r].state = "failed"]
  BY DEF WorkInv, OwnerTurnFails
<1>2. piece[r] \in WorkPiece /\ piece[r].base \in 1 .. Tip /\ piece[r].seen \in 1 .. Tip
  BY <1>1, TipFacts
<1> DEFINE c == [piece[r] EXCEPT !.state = "failed"]
<1>3. piece' = [piece EXCEPT ![r] = c]
  BY <1>1
<1>4. c \in WorkPiece /\ c.base = piece[r].base /\ c.seen = piece[r].seen /\ c.state = "failed"
  BY <1>2 DEF WorkPiece, PieceState
<1> HIDE DEF c
<1>5. Carries(c, trunk[c.base].tree, trunk[c.seen].tree) /\ ~Settled(r)
  BY <1>1, <1>4 DEF Carries, Owned, Settled
<1> QED
  BY <1>1, <1>2, <1>3, <1>4, <1>5, OneItemMoves

LEMMA LeaveToPersonKeeps ==
    ASSUME WorkInv, NEW r \in Builder, LeaveToPerson(r)
    PROVE  WorkInv'
<1>1. /\ WorkTypes /\ brief.state = "agreed" /\ piece[r].state = "in_review" /\ UNCHANGED <<brief, trunk>>
      /\ piece' = [piece EXCEPT ![r].state = "left"]
  BY DEF WorkInv, LeaveToPerson, IsNext
<1>2. piece[r] \in WorkPiece /\ piece[r].base \in 1 .. Tip /\ piece[r].seen \in 1 .. Tip
  BY <1>1, TipFacts
<1> DEFINE c == [piece[r] EXCEPT !.state = "left"]
<1>3. piece' = [piece EXCEPT ![r] = c]
  BY <1>1
<1>4. c \in WorkPiece /\ c.base = piece[r].base /\ c.seen = piece[r].seen /\ c.state = "left"
  BY <1>2 DEF WorkPiece, PieceState
<1> HIDE DEF c
<1>5. Carries(c, trunk[c.base].tree, trunk[c.seen].tree) /\ ~Settled(r)
  BY <1>1, <1>4 DEF Carries, Settled
<1> QED
  BY <1>1, <1>2, <1>3, <1>4, <1>5, OneItemMoves

LEMMA AskRepairKeeps ==
    ASSUME WorkInv, NEW r \in Builder, AskRepair(r)
    PROVE  WorkInv'
<1> DEFINE next == IF piece[r].repaired THEN "left" ELSE "repairing"
<1>1. /\ WorkTypes /\ brief.state = "agreed" /\ piece[r].state = "in_review" /\ UNCHANGED <<brief, trunk>>
      /\ piece' = [piece EXCEPT ![r].state = next, ![r].repaired = TRUE]
  BY DEF WorkInv, AskRepair, IsNext
<1>2. piece[r] \in WorkPiece /\ piece[r].base \in 1 .. Tip /\ piece[r].seen \in 1 .. Tip
  BY <1>1, TipFacts
<1>3. next \in {"left", "repairing"}
  OBVIOUS
<1> HIDE DEF next
<1> DEFINE c == [piece[r] EXCEPT !.state = next, !.repaired = TRUE]
<1>4. piece' = [piece EXCEPT ![r] = c]
  BY <1>1
<1>5. c \in WorkPiece
  BY <1>2, <1>3 DEF WorkPiece, PieceState
<1>6. /\ c.base = piece[r].base /\ c.seen = piece[r].seen /\ c.state = next
      /\ c.refreshed = piece[r].refreshed
  BY <1>2 DEF WorkPiece
<1> HIDE DEF c
<1>7. Carries(c, trunk[c.base].tree, trunk[c.seen].tree) /\ ~Settled(r) /\ RefreshedInFront(r)
  BY <1>1, <1>3, <1>6 DEF Carries, Settled, WorkInv
<1>8. c.refreshed => InFront(r) /\ c.base = Tip
  BY <1>6, <1>7 DEF RefreshedInFront
<1> QED
  BY <1>1, <1>2, <1>4, <1>5, <1>6, <1>7, <1>8, OneItemMoves

LEMMA RefreshItemKeeps ==
    ASSUME WorkInv, NEW r \in Builder, RefreshItem(r)
    PROVE  WorkInv'
<1> DEFINE patch == PatchOf(r)
           stale == Conflicts(BaseOf(r), piece[r].work, TrunkTree)
           seed == Patched(TrunkTree, patch \ stale, piece[r].work)
           broken == RefreshClash(TrunkTree, patch \ stale, piece[r].work)
           prior == Patched(NoFiles, stale, piece[r].work)
<1>1. /\ WorkTypes /\ BriefIsKept /\ brief.state = "agreed" /\ IsNext(r)
      /\ piece[r].state = "in_review" /\ ~piece[r].refreshed /\ UNCHANGED trunk
  BY DEF WorkInv, RefreshItem, IsNext
<1>2. /\ Tip \in Nat /\ Tip >= 1 /\ TrunkTree \in WorkTree /\ TrunkTree = trunk[Tip].tree
      /\ piece[r] \in WorkPiece /\ piece[r].base \in 1 .. Tip /\ piece[r].seen \in 1 .. Tip
      /\ BaseOf(r) \in WorkTree /\ SeenBy(r) \in WorkTree
      /\ piece[r].work \in WorkTree /\ piece[r].left \in WorkTree
  BY <1>1, TipFacts DEF TrunkTree
<1>3. IF broken
      THEN brief' = [brief EXCEPT !.state = "broken"] /\ UNCHANGED piece
      ELSE /\ UNCHANGED brief
           /\ \E outcome \in IF stale # {} THEN {"refreshing"}
                             ELSE IF Changes(TrunkTree, seed) = {} THEN {"left"}
                             ELSE {"in_review", "left"} :
                 piece' = [piece EXCEPT ![r] =
                   [ResetWorktree(@, seed, prior) EXCEPT !.state = outcome, !.refreshed = TRUE]]
  BY DEF RefreshItem
<1>4. CASE broken
  <2>1. brief' = [brief EXCEPT !.state = "broken"] /\ UNCHANGED <<trunk, piece>>
    BY <1>1, <1>3, <1>4
  <2>2. /\ brief' \in [state : {"asked", "asked_again", "agreed", "refused", "cycle", "broken"},
                       reply : Seq(Builder), order : Seq(Builder)]
        /\ brief'.state = "broken" /\ brief'.order = brief.order /\ brief'.reply = brief.reply
    BY <1>1, <2>1 DEF WorkTypes
  <2>3. BriefIsKept'
    BY <1>1, <2>2 DEF BriefIsKept
  <2> QED
    BY <1>1, <2>1, <2>2, <2>3, BriefMoves
<1>5. CASE ~broken
  <2>1. UNCHANGED brief /\ \E outcome \in {"refreshing", "left", "in_review"} :
            /\ outcome = "in_review" => stale = {}
            /\ piece' = [piece EXCEPT ![r] =
                   [ResetWorktree(@, seed, prior) EXCEPT !.state = outcome, !.refreshed = TRUE]]
    <3> HIDE DEF broken, seed, stale, prior, patch
    <3> QED
      BY <1>3, <1>5
  <2>2. PICK outcome \in {"refreshing", "left", "in_review"} :
            /\ outcome = "in_review" => stale = {}
            /\ piece' = [piece EXCEPT ![r] =
                   [ResetWorktree(@, seed, prior) EXCEPT !.state = outcome, !.refreshed = TRUE]]
    BY <2>1
  <2>3. seed \in WorkTree
    <3>1. ~Clash(TrunkTree, patch \ stale, piece[r].work)
      BY <1>2, <1>5 DEF RefreshClash, Clash, Patched, WorkPath
    <3> QED
      BY <1>2, <3>1, PatchedTree
  <2>4. prior \in [WorkPath -> {Missing, Seeded} \cup Builder]
    BY <1>2 DEF Patched, NoFiles, WorkTree
  <2> HIDE DEF seed, prior, stale
  <2> DEFINE c == [ResetWorktree(piece[r], seed, prior) EXCEPT !.state = outcome, !.refreshed = TRUE]
  <2>5. piece' = [piece EXCEPT ![r] = c]
    BY <2>2
  <2>6. c \in WorkPiece
    BY <1>2, <2>3, <2>4 DEF ResetWorktree, WorkPiece, PieceState
  <2>7. /\ c.base = Tip /\ c.seen = piece[r].seen /\ c.state = outcome /\ c.refreshed
        /\ c.work = seed /\ c.prior = prior /\ c.left = piece[r].left
    BY <1>2 DEF ResetWorktree, WorkPiece
  <2> HIDE DEF c
  <2>8. Carries(c, TrunkTree, SeenBy(r))
    <3>1. Carries(piece[r], BaseOf(r), SeenBy(r))
      BY DEF WorkInv
    <3>2. piece[r].base = piece[r].seen => BaseOf(r) = SeenBy(r)
      BY DEF BaseOf, SeenBy
    <3>3. seed = Patched(TrunkTree, Changes(BaseOf(r), piece[r].work) \ stale, piece[r].work)
      BY DEF seed, PatchOf
    <3>4. stale = Conflicts(BaseOf(r), piece[r].work, TrunkTree)
      BY DEF stale
    <3>5. c.prior = Patched(NoFiles, stale, piece[r].work)
      BY <2>7 DEF prior
    <3>6. c.state = "refreshing" \/ c.state = "left" \/ (c.state = "in_review" /\ stale = {})
      BY <2>2, <2>7
    <3> QED
      BY <1>1, <1>2, <2>7, <3>1, <3>2, <3>3, <3>4, <3>5, <3>6, RefreshCarries
  <2>9. Carries(c, trunk[c.base].tree, trunk[c.seen].tree)
    BY <1>2, <2>7, <2>8 DEF SeenBy
  <2>10. InFront(r) /\ ~Settled(r) /\ c.base \in 1 .. Tip /\ c.seen \in 1 .. Tip
    BY <1>1, <1>2, <2>7 DEF IsNext, InFront, Settled
  <2> QED
    BY <1>1, <2>1, <2>5, <2>6, <2>7, <2>9, <2>10, OneItemMoves
<1> QED
  BY <1>4, <1>5

LEMMA MergeItemKeeps ==
    ASSUME WorkInv, NEW r \in Builder, MergeItem(r)
    PROVE  WorkInv'
<1> DEFINE new == Patched(TrunkTree, ToWrite(r), piece[r].work)
           row == [tree |-> new, by |-> r, seen |-> piece[r].seen]
           c == [piece[r] EXCEPT !.state = "merged"]
<1>1. /\ WorkTypes /\ BriefIsKept /\ brief.state = "agreed" /\ IsNext(r) /\ Builds(r)
      /\ piece[r].state = "in_review" /\ Conflicts(BaseOf(r), piece[r].work, TrunkTree) = {}
      /\ trunk' = Append(trunk, row) /\ piece' = [piece EXCEPT ![r].state = "merged"]
      /\ UNCHANGED brief
  BY DEF WorkInv, MergeItem, IsNext
<1>2. /\ Tip \in Nat /\ Tip >= 1 /\ TrunkTree \in WorkTree /\ TrunkTree = trunk[Tip].tree
      /\ piece[r] \in WorkPiece /\ piece[r].base \in 1 .. Tip /\ piece[r].seen \in 1 .. Tip
      /\ BaseOf(r) \in WorkTree /\ SeenBy(r) \in WorkTree
      /\ piece[r].work \in WorkTree /\ piece[r].left \in WorkTree
  BY <1>1, TipFacts DEF TrunkTree
<1>3. new \in WorkTree
  BY <1>1, <1>2, PatchedTree DEF Builds
<1> HIDE DEF new
<1>4. /\ row \in Landing /\ row.tree = new /\ row.by = r /\ row.seen = piece[r].seen
  BY <1>2, <1>3 DEF Landing
<1> HIDE DEF row
<1>5. /\ trunk' \in Seq(Landing) /\ Len(trunk') = Tip + 1 /\ trunk'[Tip + 1] = row
      /\ \A n \in 1 .. Tip : trunk'[n] = trunk[n]
  <2>1. trunk \in Seq(Landing) /\ Len(trunk) = Tip
    BY <1>1 DEF WorkTypes, Tip
  <2> QED
    BY <1>1, <1>2, <1>4, <2>1, AppendProperties
<1>6. Tip' = Tip + 1
  BY <1>5 DEF Tip
<1>7. /\ c \in WorkPiece /\ c.state = "merged" /\ c.base = piece[r].base /\ c.seen = piece[r].seen
      /\ c.left = piece[r].left /\ piece' = [piece EXCEPT ![r] = c]
  BY <1>1, <1>2 DEF WorkPiece, PieceState
<1> HIDE DEF c
<1>8. /\ piece' \in [Builder -> WorkPiece] /\ piece'[r] = c
      /\ \A q \in Builder : q # r => piece'[q] = piece[q]
  BY <1>1, <1>7 DEF WorkTypes
<1>9. \A q \in Builder : /\ piece'[q].base = piece[q].base /\ piece'[q].seen = piece[q].seen
                         /\ piece'[q].left = piece[q].left
  BY <1>7, <1>8
<1>10. \A q \in Builder : BaseOf(q)' = BaseOf(q) /\ SeenBy(q)' = SeenBy(q)
  <2> SUFFICES ASSUME NEW q \in Builder PROVE BaseOf(q)' = BaseOf(q) /\ SeenBy(q)' = SeenBy(q)
    OBVIOUS
  <2>1. piece[q].base \in 1 .. Tip /\ piece[q].seen \in 1 .. Tip
    BY <1>1, TipFacts
  <2>2. trunk'[piece[q].base] = trunk[piece[q].base] /\ trunk'[piece[q].seen] = trunk[piece[q].seen]
    BY <1>5, <2>1
  <2> QED
    BY <1>9, <2>2 DEF BaseOf, SeenBy
<1>11. WorkTypes'
  <2>1. ASSUME NEW n \in 1 .. Tip + 1 PROVE trunk'[n].seen \in 1 .. n
    <3>1. CASE n \in 1 .. Tip
      <4>1. trunk'[n] = trunk[n]
        BY <1>5, <3>1
      <4>2. trunk[n].seen \in 1 .. n
        BY <1>1, <3>1 DEF WorkTypes, Tip
      <4> QED
        BY <4>1, <4>2
    <3>2. CASE n = Tip + 1
      BY <1>2, <1>4, <1>5, <3>2
    <3> QED
      BY <1>2, <3>1, <3>2
  <2>2. \A q \in Builder : piece'[q].base \in 1 .. Tip + 1 /\ piece'[q].seen \in 1 .. Tip + 1
    <3> SUFFICES ASSUME NEW q \in Builder
                 PROVE  piece'[q].base \in 1 .. Tip + 1 /\ piece'[q].seen \in 1 .. Tip + 1
      OBVIOUS
    <3>1. piece[q].base \in 1 .. Tip /\ piece[q].seen \in 1 .. Tip
      BY <1>1, TipFacts
    <3> QED
      BY <1>2, <1>9, <3>1
  <2>3. Len(trunk') >= 1
    BY <1>2, <1>5
  <2>4. brief' \in [state : {"asked", "asked_again", "agreed", "refused", "cycle", "broken"},
                    reply : Seq(Builder), order : Seq(Builder)]
    BY <1>1 DEF WorkTypes
  <2> QED
    BY <1>5, <1>8, <2>1, <2>2, <2>3, <2>4 DEF WorkTypes
<1>12. BriefIsKept'
  BY <1>1 DEF BriefIsKept
<1>13. ASSUME NEW q \in Builder PROVE (Carries(piece[q], BaseOf(q), SeenBy(q)) /\ RefreshedInFront(q))'
  <2>1. Carries(piece[q], BaseOf(q), SeenBy(q)) /\ RefreshedInFront(q)
    BY DEF WorkInv
  <2>2. CASE q = r
    <3>1. Carries(piece[q], BaseOf(q), SeenBy(q))'
      BY <1>7, <1>8, <2>2 DEF Carries
    <3>2. RefreshedInFront(q)'
      BY <1>1, <1>7, <1>8, <2>2 DEF RefreshedInFront, Settled
    <3> QED
      BY <3>1, <3>2
  <2>3. CASE q # r
    <3>1. piece'[q] = piece[q] /\ BaseOf(q)' = BaseOf(q) /\ SeenBy(q)' = SeenBy(q)
      BY <1>8, <1>10, <2>3
    <3>2. InFront(r) /\ ~Settled(r)
      BY <1>1 DEF IsNext, InFront, Settled
    <3>3. piece[q].refreshed => Settled(q)
      BY <1>1, <2>1, <2>3, <3>2, OneInFront DEF RefreshedInFront
    <3>4. Settled(q) => Settled(q)'
      BY <3>1 DEF Settled
    <3>5. Carries(piece[q], BaseOf(q), SeenBy(q))'
      BY <2>1, <3>1
    <3> QED
      BY <1>1, <3>1, <3>3, <3>4, <3>5 DEF RefreshedInFront
  <2> QED
    BY <2>2, <2>3
<1>14. Lands(new, TrunkTree, piece[r].left, BaseOf(r), SeenBy(r))
  <2>1. Carries(piece[r], BaseOf(r), SeenBy(r)) /\ RefreshedInFront(r)
    BY DEF WorkInv
  <2>2. piece[r].base = piece[r].seen => BaseOf(r) = SeenBy(r)
    BY DEF BaseOf, SeenBy
  <2>3. piece[r].refreshed => BaseOf(r) = TrunkTree
    BY <1>1, <2>1 DEF RefreshedInFront, Settled, BaseOf, TrunkTree
  <2>4. ToWrite(r) = {p \in Changes(BaseOf(r), piece[r].work) : TrunkTree[p] # piece[r].work[p]}
    BY DEF ToWrite, PatchOf
  <2> QED
    BY <1>1, <1>2, <2>1, <2>2, <2>3, <2>4, MergeLands DEF new
<1>15. ASSUME NEW n \in 2 .. Tip + 1 PROVE LandedWhole(n)'
  <2>1. CASE n \in 2 .. Tip
    <3>1. LandedWhole(n)
      BY <2>1 DEF WorkInv
    <3>2. n \in 1 .. Tip /\ n - 1 \in 1 .. Tip
      BY <1>2, <2>1
    <3>3. trunk'[n] = trunk[n] /\ trunk'[n - 1] = trunk[n - 1]
      BY <1>5, <3>2
    <3>4. PICK q \in Builder : q = trunk[n].by
      BY <3>1 DEF LandedWhole
    <3>5. /\ piece[q].state = "merged" /\ trunk[n].seen = piece[q].seen
          /\ Lands(trunk[n].tree, trunk[n - 1].tree, piece[q].left, BaseOf(q), SeenBy(q))
      BY <3>1, <3>4 DEF LandedWhole
    <3>6. q # r
      BY <1>1, <3>5
    <3>7. /\ piece'[q] = piece[q]
          /\ trunk'[piece'[q].base].tree = BaseOf(q) /\ trunk'[piece'[q].seen].tree = SeenBy(q)
      BY <1>8, <1>10, <3>6 DEF BaseOf, SeenBy
    <3>8. trunk'[n].by = q /\ trunk'[n].seen = piece'[q].seen /\ piece'[q].state = "merged"
      BY <3>3, <3>4, <3>5, <3>7
    <3>9. Lands(trunk'[n].tree, trunk'[n - 1].tree, piece'[q].left,
                trunk'[piece'[q].base].tree, trunk'[piece'[q].seen].tree)
      BY <3>3, <3>5, <3>7
    <3> QED
      BY <3>8, <3>9 DEF LandedWhole, BaseOf, SeenBy
  <2>2. CASE n = Tip + 1
    <3>1. trunk'[n] = row /\ n - 1 = Tip /\ Tip \in 1 .. Tip
      BY <1>2, <1>5, <2>2
    <3>2. trunk'[n - 1].tree = TrunkTree
      BY <1>2, <1>5, <3>1
    <3>3. BaseOf(r)' = BaseOf(r) /\ SeenBy(r)' = SeenBy(r) /\ piece'[r].left = piece[r].left
      BY <1>7, <1>8, <1>10
    <3>4. /\ trunk'[n].by = r /\ trunk'[n].tree = new /\ trunk'[n].seen = piece'[r].seen
          /\ piece'[r].state = "merged"
      BY <1>4, <1>7, <1>8, <3>1
    <3>5. Lands(trunk'[n].tree, trunk'[n - 1].tree, piece'[r].left, BaseOf(r)', SeenBy(r)')
      BY <1>14, <3>2, <3>3, <3>4
    <3> QED
      BY <3>4, <3>5 DEF LandedWhole, BaseOf, SeenBy
  <2> QED
    BY <1>2, <2>1, <2>2
<1> QED
  BY <1>6, <1>11, <1>12, <1>13, <1>15 DEF WorkInv

LEMMA WorkStep == WorkInv /\ [WorkNext]_workVars => WorkInv'
<1> SUFFICES ASSUME WorkInv, [WorkNext]_workVars PROVE WorkInv'
  OBVIOUS
<1>1. CASE BriefReply
  BY <1>1, BriefReplyKeeps
<1>2. CASE NoBrief
  BY <1>2, NoBriefKeeps
<1>3. ASSUME NEW r \in Builder, OwnerTurn(r) PROVE WorkInv'
  BY <1>3, OwnerTurnKeeps
<1>4. ASSUME NEW r \in Builder, OwnerTurnFails(r) PROVE WorkInv'
  BY <1>4, OwnerTurnFailsKeeps
<1>5. ASSUME NEW r \in Builder, MergeItem(r) PROVE WorkInv'
  BY <1>5, MergeItemKeeps
<1>6. ASSUME NEW r \in Builder, AskRepair(r) PROVE WorkInv'
  BY <1>6, AskRepairKeeps
<1>7. ASSUME NEW r \in Builder, LeaveToPerson(r) PROVE WorkInv'
  BY <1>7, LeaveToPersonKeeps
<1>8. ASSUME NEW r \in Builder, RefreshItem(r) PROVE WorkInv'
  BY <1>8, RefreshItemKeeps
<1>9. CASE UNCHANGED workVars
  BY <1>9 DEF workVars, WorkInv, WorkTypes, BriefIsKept, Carries, RefreshedInFront, LandedWhole,
              BaseOf, SeenBy, InFront, Settled, Tip
<1> QED
  BY <1>1, <1>2, <1>3, <1>4, <1>5, <1>6, <1>7, <1>8, <1>9 DEF WorkNext

(* The brief that was agreed is the order in which the work is judged          *)
(* (integration_plan.create, dependency_order), and along it every builder's     *)
(* work lands whole and replaces no other's, for any roster: a pull request of a   *)
(* moved branch, patched or refreshed (apply_patch, prepare_refresh_checkout),    *)
(* changes what its owner changed, from what the owner saw.                     *)
THEOREM AllWorkLandsWhole == WorkSpec => []WorkLandsWhole
<1>1. ASSUME WorkInv PROVE WorkLandsWhole
  <2>1. WorkTypes /\ BriefIsKept
    BY <1>1 DEF WorkInv
  <2>2. WorkTypeOK
    <3>1. \A n \in DOMAIN trunk :
            trunk[n] \in [tree : WorkTree, by : Builder \cup {Seeded}, seen : 1 .. n]
      <4> SUFFICES ASSUME NEW n \in DOMAIN trunk
                   PROVE  trunk[n] \in [tree : WorkTree, by : Builder \cup {Seeded}, seen : 1 .. n]
        OBVIOUS
      <4>1. n \in 1 .. Tip /\ trunk[n] \in Landing
        BY <2>1, TipFacts
      <4>2. trunk[n].seen \in 1 .. n
        BY <2>1, <4>1 DEF WorkTypes, Tip
      <4> QED
        BY <4>1, <4>2 DEF Landing
    <3>2. \A r \in Builder : piece[r] \in
            [state : PieceState, base : DOMAIN trunk, work : WorkTree,
             prior : [WorkPath -> {Missing, Seeded} \cup Builder],
             left : WorkTree, seen : DOMAIN trunk, repaired : BOOLEAN, refreshed : BOOLEAN]
      <4> SUFFICES ASSUME NEW r \in Builder
                   PROVE  piece[r] \in
                     [state : PieceState, base : DOMAIN trunk, work : WorkTree,
                      prior : [WorkPath -> {Missing, Seeded} \cup Builder],
                      left : WorkTree, seen : DOMAIN trunk, repaired : BOOLEAN, refreshed : BOOLEAN]
        OBVIOUS
      <4>1. /\ piece[r] \in WorkPiece /\ piece[r].base \in DOMAIN trunk
            /\ piece[r].seen \in DOMAIN trunk
        BY <2>1, TipFacts
      <4> QED
        BY <4>1 DEF WorkPiece
    <3>3. piece = [r \in Builder |-> piece[r]]
      BY <2>1 DEF WorkTypes
    <3> QED
      BY <2>1, <3>1, <3>2, <3>3 DEF WorkTypeOK, WorkTypes
  <2>3. NothingLandedIsLost
    <3> SUFFICES ASSUME NEW n \in 2 .. Tip, NEW p \in WorkPath,
                        trunk[n].tree[p] # trunk[n - 1].tree[p]
                 PROVE  /\ p \in Authored(trunk[n].by)
                        /\ trunk[n - 1].tree[p] = trunk[trunk[n].seen].tree[p]
      BY DEF NothingLandedIsLost
    <3>1. LandedWhole(n)
      BY <1>1 DEF WorkInv
    <3> QED
      BY <3>1 DEF LandedWhole, Lands, Authored, SeenBy
  <2>4. WorkIsCarried
    <3> SUFFICES ASSUME NEW r \in Builder, NEW p \in Authored(r), ~Ignores(BaseOf(r), p)
                 PROVE  IsCarried(r, p)
      BY DEF WorkIsCarried
    <3>1. Carries(piece[r], BaseOf(r), SeenBy(r)) /\ Authored(r) = Changes(SeenBy(r), piece[r].left)
      BY <1>1 DEF WorkInv, Authored, SeenBy
    <3>2. piece[r].state = "refreshing" =>
              \/ piece[r].work[p] = piece[r].left[p]
              \/ piece[r].prior[p] = piece[r].left[p] \/ piece[r].left[p] = Missing
      BY <3>1 DEF Carries
    <3>3. piece[r].state = "in_review" =>
              Patched(BaseOf(r), PatchOf(r), piece[r].work)[p] = piece[r].left[p]
      BY <3>1 DEF Carries, PatchOf
    <3>4. ASSUME NEW n \in 2 .. Tip, trunk[n].by = r PROVE trunk[n].tree[p] = piece[r].left[p]
      <4>1. LandedWhole(n)
        BY <1>1 DEF WorkInv
      <4>2. Lands(trunk[n].tree, trunk[n - 1].tree, piece[r].left, BaseOf(r), SeenBy(r))
        BY <3>4, <4>1 DEF LandedWhole
      <4> QED
        BY <3>1, <4>2 DEF Lands
    <3> QED
      BY <3>2, <3>3, <3>4 DEF IsCarried
  <2> QED
    BY <2>1, <2>2, <2>3, <2>4 DEF WorkLandsWhole
<1> QED
  BY <1>1, WorkBegins, WorkStep, PTL DEF WorkSpec

-----------------------------------------------------------------------------
(* The saved records.  A copy of a run is never older than its last whole save,  *)
(* wherever it lies; so whoever reads any of them, at any moment of the savers,   *)
(* the pruning and the mirror, sees a run that is alive as alive.              *)

RecordFile == [over : BOOLEAN, saved : Nat, modified : Int]
SaverRow == [pc : {"idle", "built", "written"}, over : BOOLEAN, saved : Nat, whole : BOOLEAN]
Found == [at : {"none", "disk", "mirror"}, modified : Int, record : RecordFile]
Reader == [kind : Kind \cup {"none"}, host : Host, mirrored : BOOLEAN, run : SavedRun,
           pc : {"idle", "local", "mirror", "page", "fetch"}, stamp : Nat, since : Int,
           pulse : [SavedRun -> Int], page : SavedRun, found : [SavedRun -> Found],
           read : [SavedRun -> RecordFile], whole : BOOLEAN]

RecordTypes ==
    /\ instant \in Nat
    /\ place \in [SavedRun -> Host]
    /\ worker \in [SavedRun -> {"unborn", "running", "settled", "killed"}]
    /\ registry \in [Host -> SUBSET SavedRun]
    /\ saver \in [SavedRun -> [SaverThread -> SaverRow]]
    /\ disk \in [Host -> [SavedRun -> RecordFile]]
    /\ mirror \in [SavedRun -> RecordFile]
    /\ pulse \in [SavedRun -> Int]
    /\ reader \in Reader

\* A copy of a run's record that is at least as young as p.
TrueCopy(f, r, p) == f # NotSaved => p <= f.saved /\ (f.over => worker[r] = "settled")

(* What the savers of a run, and pruning, leave behind at any moment.           *)
RunPlaced(r) ==
    /\ Never <= pulse[r] /\ pulse[r] <= instant
    /\ worker[r] = "unborn" => pulse[r] = Never
    /\ worker[r] = "running" => r \in registry[place[r]]

FilesHonest(r) ==
    /\ \A h \in Host : /\ TrueCopy(disk[h][r], r, pulse[r])
                       /\ disk[h][r] # NotSaved => h = place[r] /\ 0 <= disk[h][r].modified
    /\ TrueCopy(mirror[r], r, pulse[r])
    /\ mirror[r] # NotSaved =>
          place[r] \in Coordinator /\ mirror[r].saved <= mirror[r].modified + Skew
    /\ place[r] \in Coordinator /\ pulse[r] # Never => mirror[r] # NotSaved

SaversHonest(r) ==
    /\ \A t \in SaverThread :
          /\ saver[r][t].pc # "idle" => worker[r] # "unborn"
          /\ saver[r][t].over => worker[r] = "settled"
          /\ saver[r][t].pc = "written" =>
                /\ place[r] \in Coordinator
                /\ pulse[r] <= saver[r][t].saved /\ saver[r][t].saved <= instant
                /\ saver[r][t].whole /\ disk[place[r]][r] # NotSaved =>
                      saver[r][t].saved <= disk[place[r]][r].saved
    /\ \A t, u \in SaverThread : saver[r][t].pc = "written" /\ saver[r][u].pc = "written" => t = u

(* The box keeps the newest: a run with no file there was crowded out.           *)
Boxed == {r \in SavedRun : place[r] = "box"}
Since(at, r) == {q \in Boxed \ {r} : at[r] <= at[q]}
BoxKeepsNewest == \A r \in Boxed :
    /\ disk["box"][r] # NotSaved => disk["box"][r].modified = pulse[r]
    /\ pulse[r] # Never => disk["box"][r] # NotSaved \/ Keep <= Cardinality(Since(pulse, r))

StoreInv == /\ \A r \in SavedRun : RunPlaced(r) /\ FilesHonest(r) /\ SaversHonest(r)
            /\ BoxKeepsNewest

Scanning == reader.pc \in {"page", "fetch"}

(* What a read under way knows: pulses of the past, and copies no older than     *)
(* those; and no healthy run that it has come by is missing.                   *)
ReaderPast(r) ==
    /\ Never <= reader.pulse[r] /\ reader.pulse[r] <= pulse[r]
    /\ worker[r] = "unborn" => reader.pulse[r] = Never

FoundHonest(r) ==
    /\ TrueCopy(reader.read[r], r, reader.pulse[r])
    /\ reader.found[r].at = "disk" => /\ place[r] = reader.host /\ reader.found[r].record # NotSaved
                                      /\ TrueCopy(reader.found[r].record, r, reader.pulse[r])
    /\ reader.found[r].at = "mirror" => mirror[r] # NotSaved

Alive(r) == Running(r) /\ reader.pulse[r] # Never

\* The runs that the listing has come by.
Listed(r) ==
    \/ place[r] = "box" /\ reader.host = "box"
    \/ /\ place[r] \in Coordinator /\ reader.mirrored /\ (reader.pc = "page" => r < reader.page)
       /\ reader.kind = "active" => reader.stamp - reader.pulse[r] <= StaleAfter

Outnumbered(r) == r \in Boxed /\ Keep <= Cardinality(Since(reader.pulse, r))

NothingMissed(r) ==
    reader.whole /\ Alive(r) /\ Listed(r) =>
        reader.found[r].at # "none" \/ reader.read[r] # NotSaved \/ Outnumbered(r)

ReaderInv ==
    /\ \A r \in SavedRun : ReaderPast(r)
    /\ reader.pc \in {"local", "mirror"} => reader.kind = "load"
    /\ Scanning =>
        /\ reader.kind \in {"list", "active"}
        /\ reader.host \in Coordinator => reader.mirrored
        /\ reader.kind = "list" => reader.since <= 0 - Skew
        /\ reader.kind = "active" =>
              /\ reader.host \in Coordinator /\ reader.whole
              /\ reader.since <= reader.stamp - StaleAfter - Skew
              /\ \A r \in SavedRun : Alive(r) => place[r] # reader.host
        /\ \A r \in SavedRun : FoundHonest(r) /\ NothingMissed(r)

RecordInv == RecordTypes /\ StoreInv /\ ReaderInv

LEMMA NeverIsEarly ==
    Never \in Int /\ Never < 0 /\ \A t \in Nat, p \in Int : t - p <= StaleAfter => p # Never
<1>1. Never = 0 - StaleAfter - 1
  BY RecordAssumption DEF Never
<1> QED
  BY <1>1, RecordAssumption

LEMMA NotSavedIsNone ==
    /\ NotSaved \in RecordFile /\ ~NotSaved.over /\ NotSaved.saved = 0
    /\ NotSaved.modified < 0 - Skew
    /\ \A f : f.modified \in Int /\ 0 <= f.modified + Skew => f # NotSaved
<1>1. -Skew - 1 \in Int /\ -Skew - 1 < 0 - Skew /\ -Skew - 1 = 0 - Skew - 1
  BY RecordAssumption
<1>2. NotSaved.modified = 0 - Skew - 1 /\ NotSaved.saved = 0 /\ NotSaved.over = FALSE
  BY <1>1 DEF NotSaved
<1>3. NotSaved \in RecordFile
  BY <1>1 DEF NotSaved, RecordFile
<1>4. ASSUME NEW f, f.modified \in Int, 0 <= f.modified + Skew PROVE f # NotSaved
  BY <1>2, <1>4, RecordAssumption
<1> QED
  BY <1>2, <1>3, <1>4, RecordAssumption

LEMMA RunsAreFinite == IsFiniteSet(SavedRun) /\ 1 \in SavedRun /\ MaxRun \in SavedRun
BY RecordAssumption, FS_Interval DEF SavedRun

(* Saving others only crowds a run out further.                               *)
LEMMA SinceGrows ==
    ASSUME NEW f \in [SavedRun -> Int], NEW g \in [SavedRun -> Int], NEW r \in SavedRun,
           f[r] = g[r], \A q \in SavedRun : f[q] <= g[q],
           Keep <= Cardinality(Since(f, r))
    PROVE  Keep <= Cardinality(Since(g, r))
<1>1. Since(f, r) \subseteq Since(g, r) /\ Since(g, r) \subseteq SavedRun
  <2>1. \A q \in SavedRun : f[r] <= f[q] => g[r] <= g[q]
    <3> SUFFICES ASSUME NEW q \in SavedRun, f[r] <= f[q] PROVE g[r] <= g[q]
      OBVIOUS
    <3>1. f[r] \in Int /\ f[q] \in Int /\ g[q] \in Int /\ g[r] = f[r] /\ f[q] <= g[q]
      OBVIOUS
    <3> QED
      BY <3>1
  <2> QED
    BY <2>1 DEF Since, Boxed
<1>2. IsFiniteSet(Since(g, r)) /\ IsFiniteSet(Since(f, r))
  BY <1>1, RunsAreFinite, FS_Subset
<1>3. Cardinality(Since(f, r)) <= Cardinality(Since(g, r))
  BY <1>1, <1>2, FS_Subset
<1>4. Cardinality(Since(f, r)) \in Nat /\ Cardinality(Since(g, r)) \in Nat /\ Keep \in Nat
  BY <1>2, FS_CardinalityType, RecordAssumption
<1> QED
  BY <1>3, <1>4

LEMMA SaverUpdate ==
    ASSUME NEW S, NEW s \in [SavedRun -> [SaverThread -> S]], NEW r \in SavedRun,
           NEW t \in SaverThread, NEW x \in S,
           NEW z, z = [s EXCEPT ![r][t] = x]
    PROVE  /\ z \in [SavedRun -> [SaverThread -> S]]
           /\ z[r][t] = x
           /\ \A q \in SavedRun, u \in SaverThread : q # r \/ u # t => z[q][u] = s[q][u]
           /\ \A q \in SavedRun : q # r => z[q] = s[q]
OBVIOUS

-----------------------------------------------------------------------------
(* What no step of a saver takes back.                                        *)

StoreGrows ==
    /\ place' = place
    /\ \A r \in SavedRun :
          /\ pulse[r] <= pulse'[r]
          /\ worker'[r] = "unborn" => worker[r] = "unborn"
          /\ worker[r] = "settled" => worker'[r] = "settled"
          /\ worker'[r] = "running" => worker[r] \in {"unborn", "running"}
          /\ mirror[r] # NotSaved => mirror'[r] # NotSaved

LEMMA ReaderRests ==
    ASSUME RecordInv, RecordTypes', StoreGrows, reader' = reader
    PROVE  ReaderInv'
<1>1. ReaderInv /\ RecordTypes
  BY DEF RecordInv
<1>2. ASSUME NEW r \in SavedRun PROVE ReaderPast(r)'
  <2>1. reader.pulse[r] \in Int /\ pulse[r] \in Int /\ pulse'[r] \in Int /\ reader.pulse[r] <= pulse[r]
    BY <1>1 DEF RecordTypes, ReaderInv, ReaderPast, Reader
  <2>2. reader.pulse[r] <= pulse'[r]
    BY <2>1 DEF StoreGrows
  <2> QED
    BY <1>1, <2>2 DEF ReaderInv, ReaderPast, StoreGrows
<1>3. ASSUME NEW r \in SavedRun, Alive(r)' PROVE Alive(r)
  BY <1>1, <1>3 DEF Alive, Running, ReaderInv, ReaderPast, StoreGrows
<1>4. ASSUME NEW r \in SavedRun, Scanning PROVE (FoundHonest(r) /\ NothingMissed(r))'
  <2>1. FoundHonest(r) /\ NothingMissed(r)
    BY <1>1, <1>4 DEF ReaderInv
  <2>2. FoundHonest(r)'
    BY <2>1 DEF FoundHonest, TrueCopy, StoreGrows
  <2>3. NothingMissed(r)'
    <3>1. Listed(r)' = Listed(r)
      BY DEF Listed, StoreGrows
    <3>2. Outnumbered(r)' = Outnumbered(r)
      BY DEF Outnumbered, Since, Boxed, StoreGrows
    <3> QED
      BY <1>3, <2>1, <3>1, <3>2 DEF NothingMissed
  <2> QED
    BY <2>2, <2>3
<1>5. Scanning' = Scanning
  BY DEF Scanning
<1> QED
  BY <1>1, <1>2, <1>3, <1>4, <1>5 DEF ReaderInv, StoreGrows

-----------------------------------------------------------------------------
(* The reader.                                                               *)

stored == <<instant, place, worker, registry, saver, disk, mirror, pulse>>

LEMMA StoreRests ==
    ASSUME RecordInv, UNCHANGED stored, reader' \in Reader
    PROVE  RecordTypes' /\ StoreInv'
<1>1. RecordTypes'
  BY DEF RecordInv, RecordTypes, stored
<1>2. \A r \in SavedRun : RunPlaced(r)' /\ FilesHonest(r)' /\ SaversHonest(r)'
  BY DEF RecordInv, StoreInv, stored, RunPlaced, FilesHonest, SaversHonest, TrueCopy
<1>3. BoxKeepsNewest'
  BY DEF RecordInv, StoreInv, stored, BoxKeepsNewest, Since, Boxed
<1> QED
  BY <1>1, <1>2, <1>3 DEF StoreInv

LEMMA NobodyReads ==
    NoReader \in Reader /\ (StoreInv' /\ reader' = NoReader => ReaderInv')
<1>1. NoReader \in Reader
  <2>1. NotSaved \in RecordFile /\ Never \in Int /\ 1 \in SavedRun
    BY NotSavedIsNone, NeverIsEarly, RunsAreFinite
  <2>2. NoCandidate \in Found
    BY <2>1 DEF NoCandidate, Found
  <2> QED
    BY <2>1, <2>2 DEF NoReader, Reader, Host, Kind
<1>2. ASSUME StoreInv', reader' = NoReader PROVE ReaderInv'
  <2>1. reader'.pc = "idle" /\ reader'.pulse = [r \in SavedRun |-> Never]
    BY <1>2 DEF NoReader
  <2>2. ASSUME NEW r \in SavedRun PROVE ReaderPast(r)'
    <3>1. Never <= pulse'[r] /\ Never <= Never
      BY <1>2, NeverIsEarly DEF StoreInv, RunPlaced
    <3> QED
      BY <2>1, <3>1 DEF ReaderPast
  <2> QED
    BY <2>1, <2>2 DEF ReaderInv, Scanning
<1> QED
  BY <1>1, <1>2

LEMMA NoReaderReads ==
    ASSUME RecordInv, UNCHANGED stored, reader' = NoReader
    PROVE  RecordInv'
<1>1. RecordTypes' /\ StoreInv'
  BY NobodyReads, StoreRests
<1> QED
  BY <1>1, NobodyReads DEF RecordInv

LEMMA ReadOneBegins ==
    ASSUME RecordInv, NEW kind \in Kind, kind = "load", NEW h \in Host, NEW m \in BOOLEAN,
           NEW r \in SavedRun, Opens(kind, h, m, r, "local")
    PROVE  RecordInv'
<1>1. NotSaved \in RecordFile /\ Never \in Int /\ 1 \in SavedRun
  BY NotSavedIsNone, NeverIsEarly, RunsAreFinite
<1>2. NoCandidate \in Found
  BY <1>1 DEF NoCandidate, Found
<1>3. RecordTypes /\ StoreInv /\ UNCHANGED stored
  BY DEF RecordInv, Opens, stored
<1> DEFINE past == [[q \in SavedRun |-> Never] EXCEPT ![r] = pulse[r]]
           new == [kind |-> kind, host |-> h, mirrored |-> m, run |-> r, pc |-> "local",
             stamp |-> instant, since |-> 0, pulse |-> past, page |-> 1,
             found |-> [q \in SavedRun |-> NoCandidate], read |-> [q \in SavedRun |-> NotSaved],
             whole |-> TRUE]
<1>4. reader' = new
  BY DEF Opens, NoReader
<1>5. past \in [SavedRun -> Int]
  BY <1>1, <1>3 DEF RecordTypes
<1>6. reader' \in Reader
  BY <1>1, <1>2, <1>3, <1>4, <1>5 DEF Reader, RecordTypes
<1>7. RecordTypes' /\ StoreInv'
  BY <1>3, <1>6, StoreRests
<1>8. reader'.pc = "local" /\ reader'.kind = "load" /\ reader'.pulse = past
  BY <1>4
<1>9. ASSUME NEW q \in SavedRun PROVE ReaderPast(q)'
  <2>1. RunPlaced(q)' /\ pulse'[q] \in Int
    BY <1>7 DEF StoreInv, RecordTypes
  <2>2. past[q] = IF q = r THEN pulse'[q] ELSE Never
    BY <1>3 DEF stored
  <2>3. Never <= past[q] /\ past[q] <= pulse'[q] /\ (worker'[q] = "unborn" => past[q] = Never)
    BY <2>1, <2>2, NeverIsEarly DEF RunPlaced
  <2> QED
    BY <1>8, <2>3 DEF ReaderPast
<1> QED
  BY <1>7, <1>8, <1>9 DEF RecordInv, ReaderInv, Scanning

LEMMA LoadMovesOn ==
    ASSUME RecordInv, LoadMisses
    PROVE  RecordInv'
<1>1. UNCHANGED stored /\ RecordTypes /\ ReaderInv
  BY DEF LoadMisses, stored, RecordInv
<1>2. CASE reader.pc = "local" /\ reader.mirrored
  <2>1. reader' = [reader EXCEPT !.pc = "mirror"] /\ reader \in Reader
    BY <1>1, <1>2 DEF LoadMisses, RecordTypes
  <2>2. /\ reader' \in Reader /\ reader'.pc = "mirror" /\ reader'.kind = reader.kind
        /\ reader'.pulse = reader.pulse
    BY <2>1 DEF Reader
  <2>3. RecordTypes' /\ StoreInv'
    BY <1>1, <2>2, StoreRests
  <2>4. \A q \in SavedRun : ReaderPast(q)'
    BY <1>1, <2>2 DEF ReaderInv, ReaderPast, stored
  <2>5. reader.kind = "load"
    BY <1>1, <1>2 DEF ReaderInv
  <2> QED
    BY <2>2, <2>3, <2>4, <2>5 DEF RecordInv, ReaderInv, Scanning
<1>3. CASE ~(reader.pc = "local" /\ reader.mirrored)
  BY <1>1, <1>3, NoReaderReads DEF LoadMisses
<1> QED
  BY <1>2, <1>3

LEMMA ReadAllBegins ==
    ASSUME RecordInv, NEW kind \in {"list", "active"}, NEW h \in Host, NEW m \in BOOLEAN,
           h \in Coordinator => m, NEW since \in Int, kind = "list" => since <= 0 - Skew,
           kind = "active" => /\ h \in Coordinator /\ since <= instant - StaleAfter - Skew
                              /\ \A r \in registry[h] : ~Running(r),
           OpensAll(kind, h, m, since)
    PROVE  RecordInv'
<1>1. NotSaved \in RecordFile /\ Never \in Int /\ 1 \in SavedRun
  BY NotSavedIsNone, NeverIsEarly, RunsAreFinite
<1>2. NoCandidate \in Found /\ NoCandidate.at = "none"
  BY <1>1 DEF NoCandidate, Found
<1>3. RecordTypes /\ StoreInv /\ UNCHANGED stored
  BY DEF RecordInv, OpensAll, stored
<1> DEFINE files == LocalFiles(h, since)
           begin == IF m THEN "page" ELSE "fetch"
           new == [kind |-> kind, host |-> h, mirrored |-> m, run |-> 1, pc |-> begin,
             stamp |-> instant, since |-> since, pulse |-> pulse, page |-> 1,
             found |-> files, read |-> [q \in SavedRun |-> NotSaved], whole |-> TRUE]
<1>4. reader' = new
  BY DEF OpensAll, NoReader
<1>5. ASSUME NEW r \in SavedRun
      PROVE  /\ files[r] \in Found
             /\ files[r].at # "mirror"
             /\ files[r].at = "disk" => disk[h][r] # NotSaved /\ files[r].record = disk[h][r]
             /\ disk[h][r] # NotSaved /\ disk[h][r].modified >= since => files[r].at = "disk"
  <2>1. disk[h][r] \in RecordFile /\ disk[h][r].modified \in Int
    BY <1>3 DEF RecordTypes, RecordFile
  <2>2. CASE disk[h][r] # NotSaved /\ disk[h][r].modified >= since
    <3>1. files[r] = [at |-> "disk", modified |-> disk[h][r].modified, record |-> disk[h][r]]
      BY <2>2 DEF LocalFiles
    <3> QED
      BY <2>1, <2>2, <3>1 DEF Found
  <2>3. CASE ~(disk[h][r] # NotSaved /\ disk[h][r].modified >= since)
    <3>1. files[r] = NoCandidate
      BY <2>3 DEF LocalFiles
    <3> QED
      BY <1>2, <2>3, <3>1
  <2> QED
    BY <2>2, <2>3
<1>6. files \in [SavedRun -> Found]
  <2>1. files = [r \in SavedRun |-> files[r]]
    BY DEF LocalFiles
  <2> QED
    BY <1>5, <2>1
<1> HIDE DEF files
<1>7. reader' \in Reader
  BY <1>1, <1>3, <1>4, <1>6 DEF Reader, RecordTypes, Kind
<1>8. RecordTypes' /\ StoreInv'
  BY <1>3, <1>7, StoreRests
<1>9. /\ reader'.kind = kind /\ reader'.host = h /\ reader'.mirrored = m /\ reader'.pc = begin
      /\ reader'.stamp = instant /\ reader'.since = since /\ reader'.pulse = pulse
      /\ reader'.page = 1 /\ reader'.found = files /\ reader'.whole = TRUE
      /\ \A r \in SavedRun : reader'.read[r] = NotSaved
  BY <1>4
<1>10. ASSUME NEW r \in SavedRun PROVE ReaderPast(r)'
  <2>1. RunPlaced(r) /\ pulse[r] \in Int /\ pulse'[r] = pulse[r] /\ worker'[r] = worker[r]
    BY <1>3 DEF StoreInv, RecordTypes, stored
  <2> QED
    BY <1>9, <2>1 DEF ReaderPast, RunPlaced
<1>11. ASSUME NEW r \in SavedRun PROVE FoundHonest(r)'
  <2>1. FilesHonest(r) /\ worker' = worker /\ place' = place
    BY <1>3 DEF StoreInv, stored
  <2>2. TrueCopy(disk[h][r], r, pulse[r]) /\ (disk[h][r] # NotSaved => place[r] = h)
    BY <2>1 DEF FilesHonest
  <2> QED
    BY <1>5, <1>9, <2>1, <2>2 DEF FoundHonest, TrueCopy
<1>12. ASSUME NEW r \in SavedRun, Alive(r)' PROVE kind = "active" => place'[r] # h
  <2>1. RunPlaced(r) /\ worker[r] = "running" /\ place' = place
    BY <1>3, <1>12 DEF StoreInv, stored, Alive, Running
  <2> QED
    BY <2>1 DEF RunPlaced, Running
<1>13. ASSUME NEW r \in SavedRun, Alive(r)', Listed(r)'
       PROVE  files[r].at # "none" \/ Outnumbered(r)'
  <2>1. place[r] = "box" /\ h = "box" /\ place' = place
    <3>1. begin = "page" => ~(r < 1)
      BY DEF SavedRun
    <3>2. m => begin = "page"
      OBVIOUS
    <3>3. place' = place
      BY <1>3 DEF stored
    <3> QED
      BY <1>9, <1>13, <3>1, <3>2, <3>3 DEF Listed
  <2>2. pulse[r] # Never
    BY <1>9, <1>13 DEF Alive
  <2>3. disk["box"][r] # NotSaved \/ Keep <= Cardinality(Since(pulse, r))
    BY <1>3, <2>1, <2>2 DEF StoreInv, BoxKeepsNewest, Boxed
  <2>4. CASE disk["box"][r] # NotSaved
    <3>1. disk[h][r].modified >= since
      <4>1. 0 <= disk[h][r].modified /\ disk[h][r].modified \in Int /\ Skew \in Nat
        BY <1>3, <2>1, <2>4, RecordAssumption
           DEF StoreInv, FilesHonest, RecordTypes, RecordFile
      <4>2. since <= 0 - Skew
        BY <2>1 DEF Coordinator
      <4> QED
        BY <4>1, <4>2
    <3> QED
      BY <1>5, <2>1, <2>4, <3>1
  <2>5. Keep <= Cardinality(Since(pulse, r)) => Outnumbered(r)'
    BY <1>9, <2>1 DEF Outnumbered, Since, Boxed
  <2> QED
    BY <2>3, <2>4, <2>5
<1>14. ASSUME NEW r \in SavedRun PROVE NothingMissed(r)'
  BY <1>9, <1>13 DEF NothingMissed
<1> QED
  BY <1>8, <1>9, <1>10, <1>11, <1>12, <1>14 DEF RecordInv, ReaderInv

LEMMA ReadGoesOn ==
    ASSUME RecordInv, UNCHANGED stored, Scanning, reader' \in Reader,
           reader'.pc \in {"page", "fetch"},
           reader'.kind = reader.kind, reader'.host = reader.host, reader'.pulse = reader.pulse,
           reader'.mirrored = reader.mirrored, reader'.stamp = reader.stamp,
           reader'.since = reader.since, reader.kind = "active" => reader'.whole,
           \A r \in SavedRun : FoundHonest(r)' /\ NothingMissed(r)'
    PROVE  RecordInv'
<1>1. RecordTypes' /\ StoreInv'
  BY StoreRests
<1>2. ReaderInv /\ worker' = worker /\ place' = place /\ pulse' = pulse
  BY DEF RecordInv, stored
<1>3. \A r \in SavedRun : ReaderPast(r)' /\ (Alive(r)' => Alive(r))
  BY <1>2 DEF ReaderInv, ReaderPast, Alive, Running
<1> QED
  BY <1>1, <1>2, <1>3 DEF RecordInv, ReaderInv, Scanning

LEMMA PageKeeps ==
    ASSUME RecordInv, Page
    PROVE  RecordInv'
<1>1. RecordTypes /\ StoreInv /\ ReaderInv /\ UNCHANGED stored /\ reader.pc = "page" /\ Scanning
  BY DEF RecordInv, Page, stored, Scanning
<1>2. reader \in Reader /\ reader.page \in SavedRun
  BY <1>1 DEF RecordTypes, Reader
<1> DEFINE turned == IF reader.page < MaxRun THEN reader.page + 1 ELSE reader.page
           goes == IF reader.page < MaxRun THEN "page" ELSE "fetch"
<1>3. PICK p \in SavedRun : p = reader.page
  BY <1>2
<1> DEFINE better == /\ mirror[p] # NotSaved /\ mirror[p].modified >= reader.since
                     /\ \/ reader.found[p].at = "none"
                        \/ mirror[p].modified > reader.found[p].modified
           file == IF better THEN [at |-> "mirror", modified |-> mirror[p].modified,
                                   record |-> NotSaved]
                   ELSE reader.found[p]
           found == [reader.found EXCEPT ![p] = file]
<1>4. reader' = [reader EXCEPT !.found = found, !.page = turned, !.pc = goes]
  <2>1. reader' = [reader EXCEPT !.found[p] = file, !.page = turned, !.pc = goes]
    BY <1>3 DEF Page
  <2> QED
    BY <1>2, <2>1 DEF Reader
<1>5. file \in Found
  <2>1. mirror[p] \in RecordFile /\ reader.found[p] \in Found /\ NotSaved \in RecordFile
    BY <1>1, <1>2, NotSavedIsNone DEF RecordTypes, Reader
  <2> QED
    BY <2>1 DEF Found, RecordFile
<1>6. found \in [SavedRun -> Found] /\ found[p] = file
      /\ \A r \in SavedRun : r # p => found[r] = reader.found[r]
  BY <1>2, <1>5 DEF Reader
<1>7. /\ better => file.at = "mirror" /\ mirror[p] # NotSaved
      /\ ~better => file = reader.found[p]
  OBVIOUS
<1>8. ~better => \/ mirror[p] = NotSaved \/ ~(mirror[p].modified >= reader.since)
                 \/ reader.found[p].at # "none"
  OBVIOUS
<1> HIDE DEF file, better
<1>9. turned \in SavedRun /\ (goes = "page" => turned = p + 1) /\ goes \in {"page", "fetch"}
      /\ (goes = "fetch" => p = MaxRun)
  <2>1. p \in Nat /\ 1 <= p /\ p <= MaxRun /\ MaxRun \in Nat
    BY RecordAssumption DEF SavedRun
  <2> QED
    BY <1>3, <2>1 DEF SavedRun
<1> HIDE DEF turned, goes, found
<1>10. /\ reader' \in Reader /\ reader'.found = found /\ reader'.page = turned /\ reader'.pc = goes
       /\ reader'.kind = reader.kind /\ reader'.host = reader.host /\ reader'.pulse = reader.pulse
       /\ reader'.mirrored = reader.mirrored /\ reader'.stamp = reader.stamp
       /\ reader'.since = reader.since /\ reader'.whole = reader.whole /\ reader'.read = reader.read
  BY <1>2, <1>4, <1>6, <1>9 DEF Reader
<1>11. ASSUME NEW r \in SavedRun PROVE FoundHonest(r)'
  <2>1. FoundHonest(r) /\ worker' = worker /\ place' = place /\ mirror' = mirror
    BY <1>1 DEF ReaderInv, stored
  <2>2. CASE r = p
    BY <1>6, <1>7, <1>10, <2>1, <2>2 DEF FoundHonest, TrueCopy
  <2>3. CASE r # p
    BY <1>6, <1>10, <2>1, <2>3 DEF FoundHonest, TrueCopy
  <2> QED
    BY <2>2, <2>3
<1>12. ASSUME NEW r \in SavedRun PROVE NothingMissed(r)'
  <2> SUFFICES ASSUME reader'.whole, Alive(r)', Listed(r)',
                      ~Outnumbered(r), reader.read[r] = NotSaved
               PROVE  found[r].at # "none"
    <3>1. Outnumbered(r)' = Outnumbered(r)
      BY <1>1, <1>10 DEF Outnumbered, Since, Boxed, stored
    <3> QED
      BY <1>10, <3>1 DEF NothingMissed
  <2>1. reader.whole /\ Alive(r) /\ NothingMissed(r)
    BY <1>1, <1>10 DEF Alive, Running, ReaderInv, stored
  <2>2. CASE Listed(r)
    <3>1. reader.found[r].at # "none"
      BY <2>1, <2>2 DEF NothingMissed
    <3> QED
      BY <1>6, <1>7, <3>1
  <2>3. CASE ~Listed(r)
    <3>1. /\ place[r] \in Coordinator /\ reader.mirrored /\ ~(r < p)
          /\ goes = "page" => r < turned
          /\ reader.kind = "active" => reader.stamp - reader.pulse[r] <= StaleAfter
      BY <1>1, <1>3, <1>10, <2>3 DEF Listed, stored
    <3>2. r = p
      <4>1. r \in Nat /\ p \in Nat /\ r <= MaxRun /\ MaxRun \in Nat
        BY RecordAssumption DEF SavedRun
      <4> QED
        BY <1>9, <3>1, <4>1
    <3>3. mirror[p] # NotSaved /\ TrueCopy(mirror[p], p, pulse[p])
          /\ mirror[p].saved <= mirror[p].modified + Skew
      <4>1. FilesHonest(p) /\ ReaderPast(p) /\ reader.pulse[p] # Never
        BY <1>1, <2>1, <3>2 DEF StoreInv, ReaderInv, Alive
      <4>2. reader.pulse[p] \in Int /\ pulse[p] \in Int /\ Never \in Int
        BY <1>1, <1>2, NeverIsEarly DEF RecordTypes, Reader
      <4>3. pulse[p] # Never
        BY <4>1, <4>2 DEF ReaderPast
      <4> QED
        BY <3>1, <3>2, <4>1, <4>3 DEF FilesHonest
    <3>4. mirror[p].modified >= reader.since
      <4>1. /\ mirror[p].modified \in Int /\ mirror[p].saved \in Nat /\ reader.since \in Int
            /\ reader.pulse[p] \in Int /\ pulse[p] \in Int /\ reader.stamp \in Nat
            /\ Skew \in Nat /\ StaleAfter \in Nat
        BY <1>1, <1>2, RecordAssumption DEF RecordTypes, Reader, RecordFile
      <4>2. pulse[p] <= mirror[p].saved /\ reader.pulse[p] <= pulse[p]
        BY <1>1, <3>3 DEF TrueCopy, ReaderInv, ReaderPast
      <4>3. CASE reader.kind = "list"
        <5>1. reader.since <= 0 - Skew
          BY <1>1, <4>3 DEF ReaderInv
        <5> QED
          BY <3>3, <4>1, <5>1
      <4>4. CASE reader.kind = "active"
        <5>1. reader.since <= reader.stamp - StaleAfter - Skew
          BY <1>1, <4>4 DEF ReaderInv
        <5>2. reader.stamp - reader.pulse[p] <= StaleAfter
          BY <3>1, <3>2, <4>4
        <5> QED
          BY <3>3, <4>1, <4>2, <5>1, <5>2
      <4> QED
        BY <1>1, <4>3, <4>4 DEF ReaderInv
    <3> QED
      BY <1>6, <1>7, <1>8, <3>2, <3>3, <3>4
  <2> QED
    BY <2>2, <2>3
<1> QED
  BY <1>1, <1>9, <1>10, <1>11, <1>12, ReadGoesOn DEF ReaderInv

LEMMA PageFailsKeeps ==
    ASSUME RecordInv, PageFails
    PROVE  RecordInv'
<1>1. RecordTypes /\ ReaderInv /\ UNCHANGED stored /\ reader.pc = "page" /\ Scanning
  BY DEF RecordInv, PageFails, stored, Scanning
<1>2. CASE reader.kind = "active"
  BY <1>1, <1>2, NoReaderReads DEF PageFails
<1>3. CASE reader.kind # "active"
  <2>1. reader \in Reader /\ reader' = [reader EXCEPT !.pc = "fetch", !.whole = FALSE]
    BY <1>1, <1>3 DEF PageFails, RecordTypes
  <2>2. /\ reader' \in Reader /\ reader'.pc = "fetch" /\ reader'.found = reader.found
        /\ reader'.kind = reader.kind /\ reader'.host = reader.host /\ reader'.pulse = reader.pulse
        /\ reader'.mirrored = reader.mirrored /\ reader'.stamp = reader.stamp
        /\ reader'.since = reader.since /\ ~reader'.whole /\ reader'.read = reader.read
    BY <2>1 DEF Reader
  <2>3. \A r \in SavedRun : FoundHonest(r)' /\ NothingMissed(r)'
    BY <1>1, <2>2 DEF ReaderInv, FoundHonest, TrueCopy, NothingMissed, stored
  <2> QED
    BY <1>1, <1>3, <2>2, <2>3, ReadGoesOn
<1> QED
  BY <1>2, <1>3

(* What is fetched is the copy that stands, or the one that was listed.       *)
LEMMA BodyIsHonest ==
    ASSUME RecordInv, Scanning, NEW r \in SavedRun, reader.found[r].at # "none"
    PROVE  /\ Body(r) \in RecordFile /\ TrueCopy(Body(r), r, reader.pulse[r])
           /\ Alive(r) => Body(r) # NotSaved
<1>1. RecordTypes /\ StoreInv /\ ReaderInv /\ reader \in Reader
  BY DEF RecordInv, RecordTypes
<1>2. FilesHonest(r) /\ ReaderPast(r) /\ FoundHonest(r)
  BY <1>1 DEF StoreInv, ReaderInv
<1>3. reader.found[r] \in Found /\ reader.host \in Host /\ reader.pulse[r] \in Int /\ pulse[r] \in Int
  BY <1>1 DEF RecordTypes, Reader
<1>4. /\ mirror[r] \in RecordFile /\ disk[reader.host][r] \in RecordFile
      /\ reader.found[r].record \in RecordFile
  BY <1>1, <1>3 DEF RecordTypes, Found
<1>5. ASSUME NEW f \in RecordFile, TrueCopy(f, r, pulse[r]) PROVE TrueCopy(f, r, reader.pulse[r])
  <2>1. f.saved \in Nat /\ reader.pulse[r] <= pulse[r]
    BY <1>2 DEF RecordFile, ReaderPast
  <2> QED
    BY <1>3, <1>5, <2>1 DEF TrueCopy
<1>6. CASE reader.found[r].at = "mirror"
  <2>1. Body(r) = mirror[r]
    BY <1>6 DEF Body
  <2> QED
    BY <1>2, <1>4, <1>5, <1>6, <2>1 DEF FilesHonest, FoundHonest
<1>7. CASE reader.found[r].at # "mirror" /\ reader.kind = "active"
  <2>1. Body(r) = disk[reader.host][r]
    BY <1>7 DEF Body
  <2>2. place[r] = reader.host /\ ~Alive(r)
    BY <1>1, <1>2, <1>3, <1>7 DEF FoundHonest, ReaderInv, Found
  <2> QED
    BY <1>2, <1>3, <1>4, <1>5, <2>1, <2>2 DEF FilesHonest
<1>8. CASE reader.found[r].at # "mirror" /\ reader.kind # "active"
  <2>1. Body(r) = reader.found[r].record
    BY <1>8 DEF Body
  <2> QED
    BY <1>2, <1>3, <1>4, <1>8, <2>1 DEF FoundHonest, Found
<1> QED
  BY <1>6, <1>7, <1>8

LEMMA FetchKeeps ==
    ASSUME RecordInv, NEW p \in SavedRun, FetchRecord(p)
    PROVE  RecordInv'
<1>1. /\ RecordTypes /\ ReaderInv /\ UNCHANGED stored /\ reader.pc = "fetch" /\ Scanning
      /\ reader.found[p].at # "none"
  BY DEF RecordInv, FetchRecord, stored, Scanning, Newest
<1>2. PICK body \in RecordFile : /\ body = Body(p) /\ TrueCopy(body, p, reader.pulse[p])
                                 /\ Alive(p) => body # NotSaved
  BY <1>1, BodyIsHonest
<1>3. reader \in Reader /\ NoCandidate \in Found /\ NoCandidate.at = "none"
  BY <1>1, NotSavedIsNone DEF RecordTypes, NoCandidate, Found
<1> DEFINE found == [reader.found EXCEPT ![p] = NoCandidate]
           read == [reader.read EXCEPT ![p] = body]
<1>4. reader' = [reader EXCEPT !.found = found, !.read = read]
  <2>1. reader' = [reader EXCEPT !.found[p] = NoCandidate, !.read[p] = body]
    BY <1>2 DEF FetchRecord
  <2> QED
    BY <1>3, <2>1 DEF Reader
<1>5. /\ found \in [SavedRun -> Found] /\ found[p] = NoCandidate
      /\ read \in [SavedRun -> RecordFile] /\ read[p] = body
      /\ \A r \in SavedRun : r # p => found[r] = reader.found[r] /\ read[r] = reader.read[r]
  BY <1>3 DEF Reader
<1> HIDE DEF found, read
<1>6. /\ reader' \in Reader /\ reader'.found = found /\ reader'.pc = "fetch"
      /\ reader'.kind = reader.kind /\ reader'.host = reader.host /\ reader'.pulse = reader.pulse
      /\ reader'.mirrored = reader.mirrored /\ reader'.stamp = reader.stamp
      /\ reader'.since = reader.since /\ reader'.whole = reader.whole /\ reader'.read = read
  BY <1>1, <1>3, <1>4, <1>5 DEF Reader
<1>7. ASSUME NEW r \in SavedRun PROVE FoundHonest(r)' /\ NothingMissed(r)'
  <2>1. /\ FoundHonest(r) /\ NothingMissed(r) /\ worker' = worker /\ place' = place
        /\ mirror' = mirror
    BY <1>1 DEF ReaderInv, stored
  <2>2. (Alive(r)' => Alive(r)) /\ (Listed(r)' => Listed(r))
    BY <1>1, <1>6, <2>1 DEF Alive, Running, Listed
  <2>3. Outnumbered(r)' = Outnumbered(r)
    BY <1>6, <2>1 DEF Outnumbered, Since, Boxed
  <2>4. CASE r = p
    <3>1. FoundHonest(r)'
      BY <1>2, <1>3, <1>5, <1>6, <2>1, <2>4 DEF FoundHonest, TrueCopy
    <3>2. NothingMissed(r)'
      BY <1>2, <1>5, <1>6, <2>2, <2>4 DEF NothingMissed
    <3> QED
      BY <3>1, <3>2
  <2>5. CASE r # p
    <3>1. FoundHonest(r)'
      BY <1>5, <1>6, <2>1, <2>5 DEF FoundHonest, TrueCopy
    <3>2. NothingMissed(r)'
      BY <1>5, <1>6, <2>1, <2>2, <2>3, <2>5 DEF NothingMissed
    <3> QED
      BY <3>1, <3>2
  <2> QED
    BY <2>4, <2>5
<1> QED
  BY <1>1, <1>6, <1>7, ReadGoesOn DEF ReaderInv

LEMMA FetchFailsKeeps ==
    ASSUME RecordInv, NEW p \in SavedRun, FetchRecordFails(p)
    PROVE  RecordInv'
<1>1. RecordTypes /\ ReaderInv /\ UNCHANGED stored /\ reader.pc = "fetch" /\ Scanning
  BY DEF RecordInv, FetchRecordFails, stored, Scanning
<1>2. CASE reader.kind = "active"
  BY <1>1, <1>2, NoReaderReads DEF FetchRecordFails
<1>3. CASE reader.kind # "active"
  <2>1. reader \in Reader /\ NoCandidate \in Found /\ NoCandidate.at = "none"
    BY <1>1, NotSavedIsNone DEF RecordTypes, NoCandidate, Found
  <2> DEFINE found == [reader.found EXCEPT ![p] = NoCandidate]
  <2>2. reader' = [reader EXCEPT !.found = found, !.whole = FALSE]
    BY <1>3, <2>1 DEF FetchRecordFails, Reader
  <2>3. /\ found \in [SavedRun -> Found]
        /\ \A r \in SavedRun : found[r] = IF r = p THEN NoCandidate ELSE reader.found[r]
    BY <2>1 DEF Reader
  <2> HIDE DEF found
  <2>4. /\ reader' \in Reader /\ reader'.pc = "fetch" /\ reader'.found = found
        /\ reader'.kind = reader.kind /\ reader'.host = reader.host /\ reader'.pulse = reader.pulse
        /\ reader'.mirrored = reader.mirrored /\ reader'.stamp = reader.stamp
        /\ reader'.since = reader.since /\ ~reader'.whole /\ reader'.read = reader.read
    BY <1>1, <2>1, <2>2, <2>3 DEF Reader
  <2>5. ASSUME NEW r \in SavedRun PROVE FoundHonest(r)' /\ NothingMissed(r)'
    <3>1. FoundHonest(r) /\ worker' = worker /\ place' = place /\ mirror' = mirror
      BY <1>1 DEF ReaderInv, stored
    <3>2. FoundHonest(r)'
      BY <2>1, <2>3, <2>4, <3>1 DEF FoundHonest, TrueCopy
    <3> QED
      BY <2>4, <3>2 DEF NothingMissed
  <2> QED
    BY <1>1, <1>3, <2>4, <2>5, ReadGoesOn DEF ReaderInv
<1> QED
  BY <1>2, <1>3

-----------------------------------------------------------------------------
(* The savers.                                                               *)

LEMMA RunRests ==
    ASSUME RecordInv, RecordTypes', place' = place, instant <= instant', NEW q \in SavedRun,
           worker'[q] = worker[q], pulse'[q] = pulse[q], mirror'[q] = mirror[q],
           saver'[q] = saver[q],
           worker[q] = "running" /\ q \in registry[place[q]] => q \in registry'[place[q]],
           \A h \in Host : disk'[h][q] \in {disk[h][q], NotSaved}
    PROVE  RunPlaced(q)' /\ FilesHonest(q)' /\ SaversHonest(q)'
<1>1. RecordTypes /\ RunPlaced(q) /\ FilesHonest(q) /\ SaversHonest(q)
  BY DEF RecordInv, StoreInv
<1>2. instant \in Nat /\ instant' \in Nat /\ pulse[q] \in Int
  BY <1>1 DEF RecordTypes
<1>3. RunPlaced(q)'
  BY <1>1, <1>2 DEF RunPlaced
<1>4. FilesHonest(q)'
  BY <1>1 DEF FilesHonest, TrueCopy
<1>5. SaversHonest(q)'
  <2>1. ASSUME NEW t \in SaverThread, saver[q][t].pc = "written"
        PROVE  saver[q][t].saved <= instant'
    <3>1. saver[q][t].saved \in Nat /\ saver[q][t].saved <= instant
      BY <1>1, <2>1 DEF SaversHonest, RecordTypes, SaverRow
    <3> QED
      BY <1>2, <3>1
  <2>2. place[q] \in Host
    BY <1>1 DEF RecordTypes
  <2>3. disk'[place[q]][q] # NotSaved => disk'[place[q]][q] = disk[place[q]][q]
    BY <2>2
  <2> QED
    BY <1>1, <2>1, <2>3 DEF SaversHonest
<1> QED
  BY <1>3, <1>4, <1>5

LEMMA BoxRests ==
    ASSUME RecordInv, place' = place, pulse' = pulse, disk'["box"] = disk["box"]
    PROVE  BoxKeepsNewest'
BY DEF RecordInv, StoreInv, BoxKeepsNewest, Since, Boxed

LEMMA BuildKeeps ==
    ASSUME RecordInv, NEW r \in SavedRun, NEW t \in SaverThread, NEW over \in BOOLEAN,
           Build(r, t, over), UNCHANGED <<instant, place, disk, mirror, pulse, reader>>,
           worker' \in [SavedRun -> {"unborn", "running", "settled", "killed"}],
           registry' \in [Host -> SUBSET SavedRun],
           \A q \in SavedRun : q # r => worker'[q] = worker[q],
           \A h \in Host : registry[h] \subseteq registry'[h],
           worker'[r] # "unborn", worker[r] = "settled" => worker'[r] = "settled",
           worker'[r] = "running" => /\ worker[r] \in {"unborn", "running"}
                                     /\ r \in registry'[place[r]],
           over => worker'[r] = "settled"
    PROVE  RecordInv'
<1>1. RecordTypes /\ StoreInv
  BY DEF RecordInv
<1> DEFINE row == [Resting EXCEPT !.pc = "built", !.over = over]
<1>2. saver' = [saver EXCEPT ![r][t] = row]
  BY DEF Build
<1>r. row \in SaverRow /\ row.pc = "built" /\ row.over = over
  BY DEF Resting, SaverRow
<1> HIDE DEF row
<1>3. row \in SaverRow /\ saver \in [SavedRun -> [SaverThread -> SaverRow]]
  BY <1>1, <1>r DEF RecordTypes
<1>4. /\ saver' \in [SavedRun -> [SaverThread -> SaverRow]] /\ saver'[r][t] = row
      /\ \A q \in SavedRun, u \in SaverThread : q # r \/ u # t => saver'[q][u] = saver[q][u]
      /\ \A q \in SavedRun : q # r => saver'[q] = saver[q]
  BY <1>2, <1>3, SaverUpdate
<1>5. RecordTypes'
  BY <1>1, <1>4 DEF RecordTypes
<1>6. StoreGrows
  <2>1. \A q \in SavedRun : pulse[q] <= pulse'[q]
    BY <1>1 DEF RecordTypes
  <2> QED
    BY <2>1 DEF StoreGrows
<1>7. ASSUME NEW q \in SavedRun PROVE RunPlaced(q)' /\ FilesHonest(q)' /\ SaversHonest(q)'
  <2>1. CASE q # r
    <3>1. place[q] \in Host /\ instant <= instant'
      BY <1>1 DEF RecordTypes
    <3> QED
      BY <1>4, <1>5, <2>1, <3>1, RunRests
  <2>2. CASE q = r
    <3>1. RunPlaced(r) /\ FilesHonest(r) /\ SaversHonest(r)
      BY <1>1 DEF StoreInv
    <3>2. RunPlaced(r)'
      BY <3>1 DEF RunPlaced
    <3>3. FilesHonest(r)'
      BY <3>1 DEF FilesHonest, TrueCopy
    <3>4. SaversHonest(r)'
      <4>2. ASSUME NEW u \in SaverThread
            PROVE  /\ saver'[r][u].over => worker'[r] = "settled"
                   /\ saver'[r][u].pc = "written" => saver'[r][u] = saver[r][u] /\ u # t
        <5>1. CASE u = t
          BY <1>r, <1>4, <5>1
        <5>2. CASE u # t
          BY <1>4, <3>1, <5>2 DEF SaversHonest
        <5> QED
          BY <5>1, <5>2
      <4> QED
        BY <3>1, <4>2 DEF SaversHonest
    <3> QED
      BY <2>2, <3>2, <3>3, <3>4
  <2> QED
    BY <2>1, <2>2
<1>8. BoxKeepsNewest'
  BY BoxRests
<1>9. ReaderInv'
  BY <1>5, <1>6, ReaderRests
<1> QED
  BY <1>5, <1>7, <1>8, <1>9 DEF RecordInv, StoreInv

LEMMA SubmitKeeps ==
    ASSUME RecordInv, NEW r \in SavedRun, SubmitRun(r)
    PROVE  RecordInv'
<1>1. RecordTypes /\ place[r] \in Host
  BY DEF RecordInv, RecordTypes
<1>2. /\ worker' \in [SavedRun -> {"unborn", "running", "settled", "killed"}]
      /\ registry' \in [Host -> SUBSET SavedRun]
      /\ \A q \in SavedRun : q # r => worker'[q] = worker[q]
      /\ \A h \in Host : registry[h] \subseteq registry'[h]
      /\ worker'[r] = "running" /\ worker[r] = "unborn" /\ r \in registry'[place[r]]
  BY <1>1 DEF SubmitRun, RecordTypes
<1>3. Build(r, "worker", FALSE) /\ UNCHANGED <<instant, place, disk, mirror, pulse, reader>>
  BY DEF SubmitRun
<1> QED
  BY <1>2, <1>3, BuildKeeps DEF SaverThread

LEMMA BeatKeeps ==
    ASSUME RecordInv, NEW r \in SavedRun, Beat(r)
    PROVE  RecordInv'
<1>1. RecordTypes /\ RunPlaced(r)
  BY DEF RecordInv, StoreInv
<1>2. /\ Build(r, "heartbeat", FALSE) /\ worker[r] = "running"
      /\ UNCHANGED <<instant, place, worker, registry, disk, mirror, pulse, reader>>
  BY DEF Beat, Running
<1> QED
  BY <1>1, <1>2, BuildKeeps DEF SaverThread, RecordTypes, RunPlaced

LEMMA SettleKeeps ==
    ASSUME RecordInv, NEW r \in SavedRun, SettleRun(r)
    PROVE  RecordInv'
<1>1. RecordTypes
  BY DEF RecordInv
<1>2. /\ worker' \in [SavedRun -> {"unborn", "running", "settled", "killed"}]
      /\ \A q \in SavedRun : q # r => worker'[q] = worker[q]
      /\ worker'[r] = "settled"
  BY <1>1 DEF SettleRun, RecordTypes
<1>3. /\ Build(r, "worker", TRUE)
      /\ UNCHANGED <<instant, place, registry, disk, mirror, pulse, reader>>
  BY DEF SettleRun
<1> QED
  BY <1>1, <1>2, <1>3, BuildKeeps DEF SaverThread, RecordTypes

LEMMA UnitKeeps ==
    ASSUME RecordInv, UnitPasses
    PROVE  RecordInv'
<1>1. RecordTypes /\ StoreInv
  BY DEF RecordInv
<1>2. /\ UNCHANGED <<place, worker, registry, saver, disk, mirror, pulse, reader>>
      /\ instant' \in Nat /\ instant <= instant'
  BY <1>1 DEF UnitPasses, RecordTypes
<1>3. RecordTypes'
  BY <1>1, <1>2 DEF RecordTypes
<1>4. StoreGrows
  BY <1>1, <1>2 DEF StoreGrows, RecordTypes
<1>5. \A q \in SavedRun : RunPlaced(q)' /\ FilesHonest(q)' /\ SaversHonest(q)'
  BY <1>2, <1>3, RunRests
<1> QED
  BY <1>2, <1>3, <1>4, <1>5, BoxRests, ReaderRests DEF RecordInv, StoreInv

LEMMA RecycleKeeps ==
    ASSUME RecordInv, NEW h \in Host, Recycle(h)
    PROVE  RecordInv'
<1>1. RecordTypes /\ StoreInv /\ UNCHANGED <<instant, place, mirror, pulse>>
  BY DEF RecordInv, Recycle
<1>2. /\ Resting \in SaverRow /\ Resting.pc = "idle" /\ ~Resting.over
      /\ NotSaved \in RecordFile /\ NoReader \in Reader
  BY NotSavedIsNone, NobodyReads DEF Resting, SaverRow
<1>3. /\ worker' \in [SavedRun -> {"unborn", "running", "settled", "killed"}]
      /\ \A r \in SavedRun : worker'[r] = IF r \in registry[h] /\ worker[r] = "running" THEN "killed"
                                          ELSE worker[r]
  BY <1>1 DEF Recycle, Running, RecordTypes
<1>4. /\ registry' \in [Host -> SUBSET SavedRun]
      /\ \A g \in Host : registry'[g] = IF g = h THEN {} ELSE registry[g]
  BY <1>1 DEF Recycle, RecordTypes
<1>5. ASSUME NEW r \in SavedRun
      PROVE  /\ saver'[r] \in [SaverThread -> SaverRow]
             /\ \A t \in SaverThread : saver'[r][t] \in {saver[r][t], Resting}
  <2>1. saver[r] \in [SaverThread -> SaverRow]
    BY <1>1 DEF RecordTypes
  <2>2. saver'[r] = IF r \in registry[h] THEN [t \in SaverThread |-> Resting] ELSE saver[r]
    BY DEF Recycle
  <2> QED
    BY <1>2, <2>1, <2>2
<1>6. saver' \in [SavedRun -> [SaverThread -> SaverRow]]
  <2>1. saver' = [r \in SavedRun |-> saver'[r]]
    BY DEF Recycle
  <2> QED
    BY <1>5, <2>1
<1>7. /\ disk' \in [Host -> [SavedRun -> RecordFile]] /\ disk'["box"] = disk["box"]
      /\ \A g \in Host, r \in SavedRun : disk'[g][r] \in {disk[g][r], NotSaved}
  <2>1. CASE h \in Coordinator
    <3>1. disk' = [disk EXCEPT ![h] = [r \in SavedRun |-> NotSaved]] /\ h # "box"
      BY <2>1 DEF Recycle, Coordinator
    <3> QED
      BY <1>1, <1>2, <3>1 DEF RecordTypes
  <2>2. CASE h \notin Coordinator
    BY <1>1, <2>2 DEF RecordTypes, Recycle
  <2> QED
    BY <2>1, <2>2
<1>8. reader' \in Reader /\ (reader' = NoReader \/ reader' = reader)
  BY <1>1, <1>2 DEF Recycle, RecordTypes
<1>9. RecordTypes'
  BY <1>1, <1>3, <1>4, <1>6, <1>7, <1>8 DEF RecordTypes
<1>10. ASSUME NEW r \in SavedRun PROVE RunPlaced(r)' /\ FilesHonest(r)' /\ SaversHonest(r)'
  <2>1. RunPlaced(r) /\ FilesHonest(r) /\ SaversHonest(r) /\ place[r] \in Host
    BY <1>1 DEF StoreInv, RecordTypes
  <2>2. /\ worker'[r] = "unborn" <=> worker[r] = "unborn"
        /\ worker'[r] = "settled" <=> worker[r] = "settled"
        /\ worker'[r] = "running" => worker[r] = "running" /\ r \notin registry[h]
    BY <1>3
  <2>3. RunPlaced(r)'
    BY <1>1, <1>4, <2>1, <2>2 DEF RunPlaced
  <2>4. FilesHonest(r)'
    BY <1>1, <1>7, <2>1, <2>2 DEF FilesHonest, TrueCopy
  <2>5. SaversHonest(r)'
    BY <1>1, <1>2, <1>5, <1>7, <2>1, <2>2 DEF SaversHonest
  <2> QED
    BY <2>3, <2>4, <2>5
<1>11. BoxKeepsNewest'
  BY <1>1, <1>7, BoxRests
<1>12. StoreInv'
  BY <1>10, <1>11 DEF StoreInv
<1>13. StoreGrows
  BY <1>1, <1>3 DEF StoreGrows, RecordTypes
<1>14. ReaderInv'
  BY <1>8, <1>9, <1>12, <1>13, NobodyReads, ReaderRests
<1> QED
  BY <1>9, <1>12, <1>14 DEF RecordInv

(* A saver that goes to rest, or hands its snapshot to the mirror.            *)
LEMMA PausedRests ==
    ASSUME NEW r \in SavedRun, NEW t \in SaverThread, NEW at \in Nat
    PROVE  Paused(r, t, at) \in SaverRow /\ Paused(r, t, at).pc = "idle" /\ ~Paused(r, t, at).over
BY DEF Paused, Resting, SaverRow

LEMMA MirrorKeeps ==
    ASSUME RecordInv, NEW r \in SavedRun, NEW t \in SaverThread, NEW bad \in BOOLEAN,
           Mirror(r, t, bad)
    PROVE  RecordInv'
<1>1. RecordTypes /\ StoreInv /\ UNCHANGED <<instant, place, worker, registry, disk, reader>>
  BY DEF RecordInv, Mirror
<1>2. PICK s \in SaverRow : s = saver[r][t]
  BY <1>1 DEF RecordTypes
<1> DEFINE row == [over |-> s.over, saved |-> s.saved, modified |-> instant - Skew]
           rest == Paused(r, t, instant)
<1>3. /\ s.pc = "written" /\ mirror' = (IF bad THEN mirror ELSE [mirror EXCEPT ![r] = row])
      /\ pulse' = (IF s.whole /\ ~bad THEN [pulse EXCEPT ![r] = s.saved] ELSE pulse)
      /\ saver' = [saver EXCEPT ![r][t] = rest]
  BY <1>2 DEF Mirror
<1>4. /\ place[r] \in Coordinator /\ pulse[r] <= s.saved /\ s.saved <= instant
      /\ s.saved \in Nat /\ instant \in Nat /\ pulse[r] \in Int /\ worker[r] # "unborn"
      /\ s.over => worker[r] = "settled"
      /\ s.whole /\ disk[place[r]][r] # NotSaved => s.saved <= disk[place[r]][r].saved
  BY <1>1, <1>2, <1>3 DEF StoreInv, SaversHonest, RecordTypes, SaverRow
<1>5. /\ row \in RecordFile /\ row # NotSaved /\ row.saved = s.saved /\ row.over = s.over
      /\ row.saved <= row.modified + Skew
  <2>1. row.modified = instant - Skew /\ instant - Skew \in Int /\ (instant - Skew) + Skew = instant
    BY <1>4, RecordAssumption
  <2>2. row # NotSaved
    BY <1>4, <2>1, NotSavedIsNone
  <2>3. row \in RecordFile
    BY <1>2, <1>4, <2>1 DEF SaverRow, RecordFile
  <2> QED
    BY <1>4, <2>1, <2>2, <2>3
<1>6. /\ saver' \in [SavedRun -> [SaverThread -> SaverRow]] /\ saver'[r][t] = rest
      /\ \A q \in SavedRun, u \in SaverThread : q # r \/ u # t => saver'[q][u] = saver[q][u]
      /\ \A q \in SavedRun : q # r => saver'[q] = saver[q]
      /\ rest.pc = "idle" /\ ~rest.over
  <2>1. rest \in SaverRow /\ rest.pc = "idle" /\ ~rest.over
    BY <1>4, PausedRests
  <2> QED
    BY <1>1, <1>3, <2>1, SaverUpdate DEF RecordTypes
<1>7. /\ mirror' \in [SavedRun -> RecordFile] /\ mirror'[r] = (IF bad THEN mirror[r] ELSE row)
      /\ \A q \in SavedRun : q # r => mirror'[q] = mirror[q]
  BY <1>1, <1>3, <1>5 DEF RecordTypes
<1>8. /\ pulse' \in [SavedRun -> Int]
      /\ pulse'[r] = (IF s.whole /\ ~bad THEN s.saved ELSE pulse[r])
      /\ \A q \in SavedRun : q # r => pulse'[q] = pulse[q]
  BY <1>1, <1>3, <1>4 DEF RecordTypes
<1> HIDE DEF row, rest
<1>9. RecordTypes'
  BY <1>1, <1>6, <1>7, <1>8 DEF RecordTypes
<1>10. ASSUME NEW q \in SavedRun PROVE RunPlaced(q)' /\ FilesHonest(q)' /\ SaversHonest(q)'
  <2>1. CASE q # r
    <3>1. instant <= instant' /\ \A h \in Host : disk'[h][q] \in {disk[h][q], NotSaved}
      BY <1>1, <1>4
    <3> QED
      BY <1>1, <1>6, <1>7, <1>8, <1>9, <2>1, <3>1, RunRests
  <2>2. CASE q = r
    <3>1. RunPlaced(r) /\ FilesHonest(r) /\ SaversHonest(r)
      BY <1>1 DEF StoreInv
    <3>2. pulse[r] <= pulse'[r] /\ pulse'[r] <= s.saved /\ Never \in Int /\ pulse'[r] \in Int
      BY <1>4, <1>8, NeverIsEarly
    <3>3. RunPlaced(r)'
      <4>1. Never <= pulse'[r] /\ pulse'[r] <= instant
        BY <1>4, <3>1, <3>2 DEF RunPlaced
      <4> QED
        BY <1>1, <1>4, <3>1, <4>1 DEF RunPlaced
    <3>4. FilesHonest(r)'
      <4>1. ASSUME NEW h \in Host, disk[h][r] # NotSaved
            PROVE  /\ pulse'[r] <= disk[h][r].saved /\ (disk[h][r].over => worker[r] = "settled")
                   /\ h = place[r] /\ 0 <= disk[h][r].modified
        <5>1. /\ pulse[r] <= disk[h][r].saved /\ h = place[r]
              /\ disk[h][r].over => worker[r] = "settled"
              /\ 0 <= disk[h][r].modified
          BY <3>1, <4>1 DEF FilesHonest, TrueCopy
        <5>2. disk[h][r].saved \in Nat
          BY <1>1 DEF RecordTypes, RecordFile
        <5>3. s.whole => s.saved <= disk[h][r].saved
          BY <1>4, <4>1, <5>1
        <5> QED
          BY <1>4, <1>8, <3>2, <5>1, <5>2, <5>3
      <4>2. TrueCopy(mirror'[r], r, pulse'[r])
            /\ (mirror'[r] # NotSaved => mirror'[r].saved <= mirror'[r].modified + Skew)
            /\ (pulse'[r] # Never => mirror'[r] # NotSaved)
        <5>1. CASE bad
          BY <1>4, <1>7, <1>8, <3>1, <5>1 DEF FilesHonest
        <5>2. CASE ~bad
          BY <1>4, <1>5, <1>7, <3>2, <5>2 DEF TrueCopy
        <5> QED
          BY <5>1, <5>2
      <4> QED
        BY <1>1, <1>4, <4>1, <4>2 DEF FilesHonest, TrueCopy
    <3>5. SaversHonest(r)'
      <4>1. ASSUME NEW u \in SaverThread PROVE saver'[r][u].pc # "written"
        BY <1>2, <1>3, <1>6, <3>1, <4>1 DEF SaversHonest
      <4>2. ASSUME NEW u \in SaverThread
            PROVE  /\ saver'[r][u].pc # "idle" => worker[r] # "unborn"
                   /\ saver'[r][u].over => worker[r] = "settled"
        BY <1>4, <1>6, <3>1 DEF SaversHonest
      <4> QED
        BY <1>1, <4>1, <4>2 DEF SaversHonest
    <3> QED
      BY <2>2, <3>3, <3>4, <3>5
  <2> QED
    BY <2>1, <2>2
<1>11. ASSUME NEW q \in SavedRun PROVE pulse[q] <= pulse'[q]
  <2>1. pulse[q] \in Int /\ (q = r => pulse'[q] = pulse[q] \/ pulse'[q] = s.saved)
        /\ (q # r => pulse'[q] = pulse[q])
    BY <1>1, <1>8 DEF RecordTypes
  <2> QED
    BY <1>4, <2>1
<1>12. BoxKeepsNewest'
  <2> SUFFICES ASSUME NEW q \in Boxed
               PROVE  /\ disk["box"][q] # NotSaved => disk["box"][q].modified = pulse'[q]
                      /\ pulse'[q] # Never => \/ disk["box"][q] # NotSaved
                                              \/ Keep <= Cardinality(Since(pulse, q)')
    BY <1>1 DEF BoxKeepsNewest, Boxed
  <2>1. q \in SavedRun /\ q # r /\ pulse'[q] = pulse[q]
    BY <1>4, <1>8 DEF Boxed, Coordinator
  <2>2. Keep <= Cardinality(Since(pulse, q)) => Keep <= Cardinality(Since(pulse', q))
    BY <1>1, <1>8, <1>11, <2>1, SinceGrows DEF RecordTypes
  <2>3. Since(pulse', q) = Since(pulse, q)'
    BY <1>1 DEF Since, Boxed
  <2> QED
    BY <1>1, <2>1, <2>2, <2>3 DEF StoreInv, BoxKeepsNewest
<1>13. StoreGrows
  BY <1>1, <1>5, <1>7, <1>11 DEF StoreGrows
<1> QED
  BY <1>1, <1>9, <1>10, <1>12, <1>13, ReaderRests DEF RecordInv, StoreInv

LEMMA PruneDrops ==
    ASSUME NEW files \in [SavedRun -> RecordFile]
    PROVE  /\ Prune(files) \in [SavedRun -> RecordFile]
           /\ \A r \in SavedRun :
                 /\ Prune(files)[r] \in {files[r], NotSaved}
                 /\ Prune(files)[r] = NotSaved =>
                       files[r] = NotSaved \/ Keep <= Cardinality(Newer(files, r))
<1>1. ASSUME NEW r \in SavedRun
      PROVE  /\ Prune(files)[r] \in {files[r], NotSaved}
             /\ Prune(files)[r] = NotSaved =>
                   files[r] = NotSaved \/ Keep <= Cardinality(Newer(files, r))
  <2>1. Prune(files)[r] = IF Cardinality(Newer(files, r)) < Keep THEN files[r] ELSE NotSaved
    BY DEF Prune
  <2>2. Cardinality(Newer(files, r)) \in Nat /\ Keep \in Nat
    BY RunsAreFinite, FS_Subset, FS_CardinalityType, RecordAssumption DEF Newer
  <2> QED
    BY <2>1, <2>2
<1>2. Prune(files) = [r \in SavedRun |-> Prune(files)[r]]
  BY DEF Prune
<1>3. \A r \in SavedRun : Prune(files)[r] \in RecordFile
  BY <1>1, NotSavedIsNone
<1> QED
  BY <1>1, <1>2, <1>3

(* What pruning deletes on the box, as many later saves have crowded out.       *)
LEMMA BoxPrunes ==
    ASSUME RecordInv, NEW r \in Boxed, NEW row \in RecordFile, row # NotSaved,
           row.modified = instant,
           place' = place, pulse' \in [SavedRun -> Int],
           pulse' = [pulse EXCEPT ![r] = instant],
           disk'["box"] = Prune([disk["box"] EXCEPT ![r] = row])
    PROVE  BoxKeepsNewest'
<1>1. RecordTypes /\ StoreInv /\ "box" \in Host /\ r \in SavedRun
  BY DEF RecordInv, Host, Boxed
<1> DEFINE files == [disk["box"] EXCEPT ![r] = row]
<1>2. /\ files \in [SavedRun -> RecordFile] /\ files[r] = row
      /\ \A q \in SavedRun : q # r => files[q] = disk["box"][q]
  BY <1>1 DEF RecordTypes
<1>3. disk'["box"] = Prune(files)
  OBVIOUS
<1> HIDE DEF files
<1>4. pulse'[r] = instant /\ \A q \in SavedRun : q # r => pulse'[q] = pulse[q]
  BY <1>1 DEF RecordTypes
<1>5. ASSUME NEW q \in SavedRun, files[q] # NotSaved
      PROVE  place[q] = "box" /\ files[q].modified = pulse'[q]
  <2>1. CASE q = r
    BY <1>2, <1>4, <2>1 DEF Boxed
  <2>2. CASE q # r
    <3>1. disk["box"][q] # NotSaved /\ files[q] = disk["box"][q]
      BY <1>2, <1>5, <2>2
    <3>2. place[q] = "box"
      BY <1>1, <3>1 DEF StoreInv, FilesHonest
    <3> QED
      BY <1>1, <1>4, <2>2, <3>1, <3>2 DEF StoreInv, BoxKeepsNewest, Boxed
  <2> QED
    BY <2>1, <2>2
<1>6. ASSUME NEW q \in SavedRun PROVE pulse[q] <= pulse'[q]
  <2>1. pulse[q] <= instant /\ pulse[q] \in Int /\ instant \in Nat
    BY <1>1 DEF StoreInv, RunPlaced, RecordTypes
  <2>2. pulse'[q] = pulse[q] \/ pulse'[q] = instant
    BY <1>4
  <2> QED
    BY <2>1, <2>2
<1>7. ASSUME NEW q \in Boxed
      PROVE  /\ disk'["box"][q] # NotSaved => disk'["box"][q].modified = pulse'[q]
             /\ pulse'[q] # Never => \/ disk'["box"][q] # NotSaved
                                     \/ Keep <= Cardinality(Since(pulse', q))
  <2>1. /\ q \in SavedRun /\ disk'["box"][q] \in {files[q], NotSaved}
        /\ disk'["box"][q] = NotSaved => files[q] = NotSaved \/ Keep <= Cardinality(Newer(files, q))
    BY <1>2, <1>3, PruneDrops DEF Boxed
  <2>2. disk'["box"][q] # NotSaved => disk'["box"][q].modified = pulse'[q]
    BY <1>5, <2>1
  <2>3. ASSUME files[q] = NotSaved, pulse'[q] # Never
        PROVE  Keep <= Cardinality(Since(pulse', q))
    <3>1. q # r /\ disk["box"][q] = NotSaved /\ pulse'[q] = pulse[q]
      BY <1>2, <1>4, <2>1, <2>3
    <3>2. Keep <= Cardinality(Since(pulse, q))
      BY <1>1, <2>3, <3>1 DEF StoreInv, BoxKeepsNewest
    <3>3. pulse \in [SavedRun -> Int]
      BY <1>1 DEF RecordTypes
    <3> QED
      BY <1>6, <2>1, <3>1, <3>2, <3>3, SinceGrows
  <2>4. ASSUME files[q] # NotSaved, Keep <= Cardinality(Newer(files, q))
        PROVE  Keep <= Cardinality(Since(pulse', q))
    <3>1. Newer(files, q) \subseteq Since(pulse', q)
      <4> SUFFICES ASSUME NEW p \in Newer(files, q) PROVE p \in Since(pulse', q)
        OBVIOUS
      <4>1. /\ p \in SavedRun /\ files[p] # NotSaved
            /\ \/ files[p].modified > files[q].modified
               \/ files[p].modified = files[q].modified /\ p > q
        BY DEF Newer
      <4>2. /\ place[p] = "box" /\ files[p].modified = pulse'[p]
            /\ files[q].modified = pulse'[q] /\ pulse'[p] \in Int /\ pulse'[q] \in Int
            /\ p \in Nat /\ q \in Nat
        BY <1>5, <2>1, <2>4, <4>1 DEF SavedRun
      <4>3. p # q /\ pulse'[q] <= pulse'[p]
        BY <4>1, <4>2
      <4> QED
        BY <4>1, <4>2, <4>3 DEF Since, Boxed
    <3>2. IsFiniteSet(Since(pulse', q))
      BY RunsAreFinite, FS_Subset DEF Since, Boxed
    <3>3. Cardinality(Newer(files, q)) <= Cardinality(Since(pulse', q))
      BY <3>1, <3>2, FS_Subset
    <3>4. Cardinality(Newer(files, q)) \in Nat /\ Cardinality(Since(pulse', q)) \in Nat /\ Keep \in Nat
      BY <3>1, <3>2, FS_Subset, FS_CardinalityType, RecordAssumption
    <3> QED
      BY <2>4, <3>3, <3>4
  <2> QED
    BY <2>1, <2>2, <2>3, <2>4
<1>8. \A q \in SavedRun : Since(pulse', q) = Since(pulse, q)'
  BY DEF Since, Boxed
<1> QED
  BY <1>7, <1>8 DEF BoxKeepsNewest, Boxed

LEMMA WriteKeeps ==
    ASSUME RecordInv, NEW r \in SavedRun, NEW t \in SaverThread, NEW bad \in BOOLEAN,
           WriteLocally(r, t, bad)
    PROVE  RecordInv'
<1>1. RecordTypes /\ StoreInv /\ UNCHANGED <<instant, place, worker, registry, mirror, reader>>
  BY DEF RecordInv, WriteLocally
<1>2. PICK s \in SaverRow : s = saver[r][t]
  BY <1>1 DEF RecordTypes
<1>3. PICK h \in Host : h = place[r]
  BY <1>1 DEF RecordTypes
<1> DEFINE row == [over |-> s.over, saved |-> instant, modified |-> instant]
           files == [disk[h] EXCEPT ![r] = row]
           next == IF h \in Coordinator
                   THEN [s EXCEPT !.pc = "written", !.saved = instant, !.whole = ~bad]
                   ELSE Paused(r, t, instant)
<1>4. /\ s.pc = "built" /\ ~Saving(h)
      /\ disk' = (IF bad THEN disk ELSE [disk EXCEPT ![h] = Prune(files)])
      /\ saver' = [saver EXCEPT ![r][t] = next]
      /\ pulse' = (IF h \in Coordinator \/ bad THEN pulse ELSE [pulse EXCEPT ![r] = instant])
  BY <1>1, <1>2, <1>3 DEF WriteLocally, RecordTypes
<1>5. /\ worker[r] # "unborn" /\ (s.over => worker[r] = "settled")
      /\ instant \in Nat /\ pulse[r] \in Int /\ Never <= pulse[r] /\ pulse[r] <= instant
  BY <1>1, <1>2, <1>4 DEF StoreInv, SaversHonest, RunPlaced, RecordTypes
<1>6. /\ row \in RecordFile /\ row # NotSaved /\ row.over = s.over
      /\ row.saved = instant /\ row.modified = instant
  <2>1. row.modified = instant /\ 0 <= instant + Skew /\ instant \in Int
    BY <1>5, RecordAssumption
  <2>2. row # NotSaved
    BY <2>1, NotSavedIsNone
  <2>3. row \in RecordFile
    BY <1>2, <1>5 DEF RecordFile, SaverRow
  <2> QED
    BY <2>2, <2>3
<1>7. /\ files \in [SavedRun -> RecordFile] /\ files[r] = row
      /\ \A q \in SavedRun : q # r => files[q] = disk[h][q]
  BY <1>1, <1>6 DEF RecordTypes
<1>8. /\ next \in SaverRow /\ (next.over => s.over)
      /\ next.pc \in {"idle", "written"}
      /\ next.pc = "written" => h \in Coordinator /\ next.saved = instant /\ next.whole = ~bad
  <2>1. CASE h \in Coordinator
    <3>1. next = [s EXCEPT !.pc = "written", !.saved = instant, !.whole = ~bad]
      BY <2>1
    <3> HIDE DEF next
    <3> QED
      BY <1>5, <2>1, <3>1 DEF SaverRow
  <2>2. CASE h \notin Coordinator
    <3>1. next = Paused(r, t, instant)
      BY <2>2
    <3> QED
      BY <1>5, <3>1, PausedRests
  <2> QED
    BY <2>1, <2>2
<1> HIDE DEF row, files, next
<1>9. /\ saver' \in [SavedRun -> [SaverThread -> SaverRow]] /\ saver'[r][t] = next
      /\ \A q \in SavedRun, u \in SaverThread : q # r \/ u # t => saver'[q][u] = saver[q][u]
      /\ \A q \in SavedRun : q # r => saver'[q] = saver[q]
  BY <1>1, <1>4, <1>8, SaverUpdate DEF RecordTypes
<1>10. /\ disk' \in [Host -> [SavedRun -> RecordFile]]
       /\ ~bad => disk'[h] = Prune(files)
       /\ \A g \in Host : bad \/ g # h => disk'[g] = disk[g]
  BY <1>1, <1>4, <1>7, PruneDrops DEF RecordTypes
<1>11. ASSUME NEW g \in Host, NEW q \in SavedRun
       PROVE  /\ q # r => disk'[g][q] \in {disk[g][q], NotSaved}
              /\ g # h \/ bad => disk'[g][q] = disk[g][q]
              /\ g = h /\ ~bad => disk'[g][r] \in {row, NotSaved}
  <2>1. CASE g = h /\ ~bad
    <3>1. \A p \in SavedRun : Prune(files)[p] \in {files[p], NotSaved}
      BY <1>7, PruneDrops
    <3> QED
      BY <1>7, <1>10, <2>1, <3>1
  <2>2. CASE g # h \/ bad
    BY <1>10, <2>2
  <2> QED
    BY <2>1, <2>2
<1>12. /\ pulse' \in [SavedRun -> Int] /\ pulse'[r] \in {pulse[r], instant}
       /\ h \in Coordinator \/ bad => pulse' = pulse
       /\ \A q \in SavedRun : q # r => pulse'[q] = pulse[q]
  BY <1>1, <1>4, <1>5 DEF RecordTypes
<1>13. RecordTypes'
  BY <1>1, <1>9, <1>10, <1>12 DEF RecordTypes
<1>14. ASSUME NEW q \in SavedRun PROVE RunPlaced(q)' /\ FilesHonest(q)' /\ SaversHonest(q)'
  <2>1. CASE q # r
    <3>1. instant <= instant' /\ \A g \in Host : disk'[g][q] \in {disk[g][q], NotSaved}
      BY <1>1, <1>5, <1>11, <2>1
    <3> QED
      BY <1>1, <1>9, <1>12, <1>13, <2>1, <3>1, RunRests
  <2>2. CASE q = r
    <3>1. RunPlaced(r) /\ FilesHonest(r) /\ SaversHonest(r)
      BY <1>1 DEF StoreInv
    <3>2. Never <= pulse'[r] /\ pulse'[r] <= instant
      <4>1. Never <= instant /\ instant <= instant
        BY <1>5, NeverIsEarly
      <4> QED
        BY <1>5, <1>12, <4>1
    <3>3. RunPlaced(r)'
      BY <1>1, <1>5, <3>1, <3>2 DEF RunPlaced
    <3>4. FilesHonest(r)'
      <4>1. ASSUME NEW g \in Host
            PROVE  /\ TrueCopy(disk[g][r], r, pulse[r])'
                   /\ disk'[g][r] # NotSaved => g = place[r] /\ 0 <= disk'[g][r].modified
        <5>1. CASE disk'[g][r] = NotSaved
          BY <5>1 DEF TrueCopy
        <5>2. CASE g = h /\ ~bad /\ disk'[g][r] = row
          BY <1>1, <1>3, <1>5, <1>6, <3>2, <5>2 DEF TrueCopy
        <5>3. CASE (g # h \/ bad) /\ disk'[g][r] # NotSaved
          <6>1. disk'[g][r] = disk[g][r] /\ g = place[r]
            BY <1>11, <3>1, <5>3 DEF FilesHonest
          <6>2. pulse'[r] = pulse[r]
            BY <1>3, <1>12, <5>3, <6>1
          <6> QED
            BY <1>1, <3>1, <6>1, <6>2 DEF FilesHonest, TrueCopy
        <5> QED
          BY <1>11, <5>1, <5>2, <5>3
      <4>2. TrueCopy(mirror[r], r, pulse[r])'
        <5>1. CASE h \in Coordinator \/ bad
          BY <1>1, <1>12, <3>1, <5>1 DEF FilesHonest, TrueCopy
        <5>2. CASE h \notin Coordinator /\ ~bad
          BY <1>1, <1>3, <3>1, <5>2 DEF FilesHonest, TrueCopy
        <5> QED
          BY <5>1, <5>2
      <4>3. place[r] \in Coordinator => pulse'[r] = pulse[r]
        BY <1>3, <1>12
      <4> QED
        BY <1>1, <3>1, <4>1, <4>2, <4>3 DEF FilesHonest
    <3>5. SaversHonest(r)'
      <4>1. ASSUME NEW u \in SaverThread PROVE saver[r][u].pc # "written"
        BY <1>3, <1>4, <4>1 DEF Saving
      <4>2. ASSUME NEW u \in SaverThread
            PROVE  /\ saver'[r][u].pc # "idle" => worker[r] # "unborn"
                   /\ saver'[r][u].over => worker[r] = "settled"
                   /\ saver'[r][u].pc = "written" => u = t
        <5>1. CASE u = t
          BY <1>5, <1>8, <1>9, <5>1
        <5>2. CASE u # t
          BY <1>9, <3>1, <4>1, <5>2 DEF SaversHonest
        <5> QED
          BY <5>1, <5>2
      <4>3. ASSUME saver'[r][t].pc = "written"
            PROVE  /\ place[r] \in Coordinator
                   /\ pulse'[r] <= saver'[r][t].saved /\ saver'[r][t].saved <= instant
                   /\ saver'[r][t].whole /\ disk'[place[r]][r] # NotSaved =>
                         saver'[r][t].saved <= disk'[place[r]][r].saved
        <5>1. h \in Coordinator /\ saver'[r][t].saved = instant /\ saver'[r][t].whole = ~bad
          BY <1>8, <1>9, <4>3
        <5>2. ~bad /\ disk'[h][r] # NotSaved => disk'[h][r] = row
          BY <1>11
        <5>3. instant <= instant
          BY <1>5
        <5> QED
          BY <1>3, <1>6, <3>2, <5>1, <5>2, <5>3
      <4> QED
        BY <1>1, <4>2, <4>3 DEF SaversHonest
    <3> QED
      BY <2>2, <3>3, <3>4, <3>5
  <2> QED
    BY <2>1, <2>2
<1>15. ASSUME NEW q \in SavedRun PROVE pulse[q] <= pulse'[q]
  <2>1. pulse[q] \in Int /\ (q = r => pulse'[q] = pulse[q] \/ pulse'[q] = instant)
        /\ (q # r => pulse'[q] = pulse[q])
    BY <1>1, <1>12 DEF RecordTypes
  <2> QED
    BY <1>5, <2>1
<1>16. BoxKeepsNewest'
  <2>1. CASE h \in Coordinator \/ bad
    <3>1. pulse' = pulse
      BY <1>12, <2>1
    <3>2. "box" \in Host /\ (h = "box" => bad)
      BY <2>1 DEF Coordinator, Host
    <3>3. disk'["box"] = disk["box"]
      BY <1>10, <3>2
    <3> QED
      BY <1>1, <3>1, <3>3, BoxRests
  <2>2. CASE h \notin Coordinator /\ ~bad
    <3>1. h = "box" /\ r \in Boxed
      BY <1>3, <2>2 DEF Host, Boxed
    <3>2. pulse' = [pulse EXCEPT ![r] = instant]
      BY <1>4, <2>2
    <3>3. disk'["box"] = Prune([disk["box"] EXCEPT ![r] = row])
      BY <1>10, <2>2, <3>1 DEF files
    <3> QED
      BY <1>1, <1>6, <1>12, <3>1, <3>2, <3>3, BoxPrunes
  <2> QED
    BY <2>1, <2>2
<1>17. StoreGrows
  BY <1>1, <1>15 DEF StoreGrows
<1> QED
  BY <1>1, <1>13, <1>14, <1>16, <1>17, ReaderRests DEF RecordInv, StoreInv

-----------------------------------------------------------------------------

LEMMA RecordStarts == RecordInit => RecordInv
<1> SUFFICES ASSUME RecordInit PROVE RecordInv
  OBVIOUS
<1>1. /\ NotSaved \in RecordFile /\ Never \in Int /\ Never <= 0 /\ Never <= Never
      /\ Resting \in SaverRow /\ Resting.pc = "idle" /\ ~Resting.over
  BY NotSavedIsNone, NeverIsEarly DEF Resting, SaverRow
<1>2. RecordTypes
  BY <1>1, NobodyReads DEF RecordInit, RecordTypes
<1>3. ASSUME NEW r \in SavedRun PROVE RunPlaced(r) /\ FilesHonest(r) /\ SaversHonest(r)
  <2>1. /\ worker[r] = "unborn" /\ pulse[r] = Never /\ instant = 0 /\ mirror[r] = NotSaved
        /\ \A h \in Host : disk[h][r] = NotSaved
        /\ \A t \in SaverThread : saver[r][t] = Resting
    BY DEF RecordInit
  <2> QED
    BY <1>1, <2>1 DEF RunPlaced, FilesHonest, TrueCopy, SaversHonest
<1>4. BoxKeepsNewest
  BY DEF RecordInit, BoxKeepsNewest, Boxed, Host
<1>5. ReaderInv
  <2>1. reader.pc = "idle" /\ \A r \in SavedRun : reader.pulse[r] = Never /\ pulse[r] = Never
    BY DEF RecordInit, NoReader
  <2> QED
    BY <1>1, <2>1 DEF ReaderInv, ReaderPast, Scanning
<1> QED
  BY <1>2, <1>3, <1>4, <1>5 DEF RecordInv, StoreInv

LEMMA ListingKeeps ==
    ASSUME RecordInv, NEW h \in Host, NEW m \in BOOLEAN,
           RecentRuns(h, m), h \in Coordinator => m
    PROVE  RecordInv'
<1>1. -Skew \in Int /\ -Skew <= 0 - Skew
  BY RecordAssumption
<1>2. OpensAll("list", h, m, -Skew)
  BY DEF RecentRuns
<1> QED
  BY <1>1, <1>2, ReadAllBegins

LEMMA ActiveKeeps ==
    ASSUME RecordInv, NEW h \in Host, ActiveRuns(h)
    PROVE  RecordInv'
<1>1. Horizon \in Int /\ Horizon <= instant - StaleAfter - Skew
  BY RecordAssumption DEF RecordInv, RecordTypes, Horizon
<1>2. /\ h \in Coordinator /\ OpensAll("active", h, TRUE, Horizon)
      /\ \A r \in registry[h] : ~Running(r)
  BY DEF ActiveRuns
<1> QED
  BY <1>1, <1>2, ReadAllBegins

LEMMA RecordStep == RecordInv /\ [RecordNext]_recordVars => RecordInv'
<1> SUFFICES ASSUME RecordInv, [RecordNext]_recordVars PROVE RecordInv'
  OBVIOUS
<1>0. TRUE \in BOOLEAN /\ FALSE \in BOOLEAN /\ "box" \in Host /\ "box" \notin Coordinator
      /\ \A h \in Host : (h \in Coordinator) \in BOOLEAN
  BY DEF Host, Coordinator
<1>1. ASSUME NEW r \in SavedRun, SubmitRun(r) PROVE RecordInv'
  BY <1>1, SubmitKeeps
<1>2. ASSUME NEW r \in SavedRun, Beat(r) PROVE RecordInv'
  BY <1>2, BeatKeeps
<1>3. ASSUME NEW r \in SavedRun, SettleRun(r) PROVE RecordInv'
  BY <1>3, SettleKeeps
<1>4. ASSUME NEW r \in SavedRun, FetchRecord(r) PROVE RecordInv'
  BY <1>4, FetchKeeps
<1>5. ASSUME NEW r \in SavedRun, FetchRecordFails(r) PROVE RecordInv'
  BY <1>5, FetchFailsKeeps
<1>6. ASSUME NEW r \in SavedRun, NEW t \in SaverThread, NEW bad \in BOOLEAN,
             WriteLocally(r, t, bad) \/ Mirror(r, t, bad)
      PROVE  RecordInv'
  BY <1>6, WriteKeeps, MirrorKeeps
<1>7. ASSUME NEW h \in Host, Recycle(h) PROVE RecordInv'
  BY <1>7, RecycleKeeps
<1>8. ASSUME NEW h \in Host, ActiveRuns(h) PROVE RecordInv'
  BY <1>8, ActiveKeeps
<1>9. ASSUME NEW h \in Host, ListRuns(h) \/ ActiveDuplicate(h) PROVE RecordInv'
  <2>1. PICK m \in BOOLEAN : m <=> h \in Coordinator
    BY <1>0
  <2>2. RecentRuns(h, m)
    BY <1>9, <2>1 DEF ListRuns, ActiveDuplicate
  <2> QED
    BY <2>1, <2>2, ListingKeeps
<1>10. ASSUME NEW m \in BOOLEAN, LastRuns(m) PROVE RecordInv'
  BY <1>0, <1>10, ListingKeeps DEF LastRuns
<1>11. ASSUME NEW h \in Host, NEW m \in BOOLEAN, NEW r \in SavedRun, Opens("load", h, m, r, "local")
       PROVE  RecordInv'
  BY <1>11, ReadOneBegins DEF Kind
<1>12. ASSUME NEW r \in SavedRun, HistoryResponse(r) PROVE RecordInv'
  BY <1>0, <1>11, <1>12 DEF HistoryResponse
<1>13. ASSUME NEW r \in SavedRun, NEW m \in BOOLEAN, OneRun(r, m) \/ WatchFrame(r, m)
       PROVE  RecordInv'
  BY <1>0, <1>11, <1>13 DEF OneRun, WatchFrame
<1>14. ASSUME NEW h \in Host, NEW r \in SavedRun, RunStatus(h, r) \/ MayResubmit(h, r)
       PROVE  RecordInv'
  BY <1>0, <1>11, <1>14 DEF RunStatus, MayResubmit
<1>15. CASE LoadAnswers
  BY <1>15, NoReaderReads DEF LoadAnswers, stored
<1>16. CASE LoadMisses
  BY <1>16, LoadMovesOn
<1>17. CASE Page
  BY <1>17, PageKeeps
<1>18. CASE PageFails
  BY <1>18, PageFailsKeeps
<1>19. CASE AnswerAll
  BY <1>19, NoReaderReads DEF AnswerAll, stored
<1>20. CASE UnitPasses
  BY <1>20, UnitKeeps
<1>21. CASE UNCHANGED recordVars
  <2>1. UNCHANGED stored /\ reader' = reader /\ reader \in Reader
    BY <1>21 DEF recordVars, stored, RecordInv, RecordTypes
  <2>2. RecordTypes' /\ StoreInv'
    BY <2>1, StoreRests
  <2>3. StoreGrows
    BY <2>1 DEF StoreGrows, stored, RecordInv, RecordTypes
  <2> QED
    BY <2>1, <2>2, <2>3, ReaderRests DEF RecordInv
<1> QED
  BY <1>1, <1>2, <1>3, <1>4, <1>5, <1>6, <1>7, <1>8, <1>9, <1>10, <1>12, <1>13, <1>14, <1>15,
     <1>16, <1>17, <1>18, <1>19, <1>20, <1>21 DEF RecordNext

(* Of finitely many there is a newest.                                        *)
LEMMA SomeNewest ==
    ASSUME NEW m \in [SavedRun -> Int], NEW T \in SUBSET SavedRun, T # {}
    PROVE  \E r \in T : \A q \in T : m[q] <= m[r]
<1> DEFINE Above(r) == {q \in T : m[r] < m[q]}
           counts == {Cardinality(Above(r)) : r \in T}
<1>1. \A r \in T : IsFiniteSet(Above(r)) /\ Cardinality(Above(r)) \in Nat
  BY RunsAreFinite, FS_Subset, FS_CardinalityType
<1>2. counts \subseteq Nat /\ counts # {}
  BY <1>1
<1>3. PICK n \in counts : \A k \in counts : <<k, n>> \notin OpToRel(<, Nat)
  BY <1>2, WFMin, NatLessThanWellFounded, Zenon
<1>4. \A k \in counts : ~(k < n)
  BY <1>2, <1>3, Zenon DEF OpToRel
<1>5. PICK r \in T : n = Cardinality(Above(r))
  BY <1>3
<1>6. ASSUME NEW q \in T, m[r] < m[q] PROVE FALSE
  <2>1. m[r] \in Int /\ m[q] \in Int
    OBVIOUS
  <2>2. Above(q) \subseteq Above(r)
    <3> SUFFICES ASSUME NEW p \in Above(q) PROVE p \in Above(r)
      OBVIOUS
    <3>1. p \in T /\ m[p] \in Int /\ m[q] < m[p]
      OBVIOUS
    <3> QED
      BY <1>6, <2>1, <3>1
  <2>3. q \in Above(r) /\ q \notin Above(q)
    BY <1>6, <2>1
  <2>4. Cardinality(Above(q)) <= Cardinality(Above(r)) /\ Cardinality(Above(q)) # Cardinality(Above(r))
    BY <1>1, <2>2, <2>3, FS_Subset
  <2>5. PICK k \in Nat : k = Cardinality(Above(q))
    BY <1>1
  <2>6. k \in counts /\ n \in Nat /\ k <= n /\ k # n
    BY <1>2, <1>5, <2>4, <2>5
  <2>7. k < n
    BY <2>6
  <2> QED
    BY <1>4, <2>6, <2>7
<1>7. \A q \in T : m[q] <= m[r]
  BY <1>6
<1> QED
  BY <1>7

LEMMA AllIsRead ==
    ASSUME RecordTypes, Newest = {}, NEW r \in SavedRun
    PROVE  reader.found[r].at = "none"
<1> SUFFICES ASSUME reader.found[r].at # "none" PROVE FALSE
  OBVIOUS
<1> DEFINE m == [q \in SavedRun |-> reader.found[q].modified]
           T == {q \in SavedRun : reader.found[q].at # "none"}
<1>1. m \in [SavedRun -> Int] /\ T \in SUBSET SavedRun /\ T # {}
  BY DEF RecordTypes, Reader, Found
<1>2. PICK p \in T : \A q \in T : m[q] <= m[p]
  BY <1>1, SomeNewest
<1>3. p \in Newest
  BY <1>2 DEF Newest
<1> QED
  BY <1>3

(* A run that is running, and whose heartbeats arrive, is read as active.       *)
LEMMA YoungIsActive ==
    ASSUME RecordInv, NEW r \in SavedRun, NEW f \in RecordFile, f # NotSaved,
           TrueCopy(f, r, reader.pulse[r]), NEW now \in Nat, Healthy(r, now)
    PROVE  AsRead(f, now) = "active"
<1>1. /\ reader.pulse[r] \in Int /\ f.saved \in Nat /\ StaleAfter \in Nat
      /\ now - reader.pulse[r] <= StaleAfter /\ reader.pulse[r] <= f.saved
      /\ ~f.over
  BY RecordAssumption
     DEF RecordInv, RecordTypes, Reader, RecordFile, TrueCopy, Healthy, Running
<1>2. ~(now - f.saved > StaleAfter)
  BY <1>1
<1> QED
  BY <1>1, <1>2 DEF AsRead, IsStale

(* What a participant is told of a run, by whatever copy is read while saves,    *)
(* prunings, pages and clocks fall as they may (run_store.load, recent,          *)
(* active_runs): no run whose heartbeats arrive is called interrupted or is      *)
(* missing, and a watcher stops only at a verdict.                             *)
THEOREM AllReadsAreHonest == RecordSpec => []ReadsAreHonest
<1>1. ASSUME RecordInv PROVE ReadsAreHonest
  <2>1. RecordTypes /\ StoreInv /\ ReaderInv /\ reader \in Reader
    BY <1>1 DEF RecordInv, RecordTypes
  <2>2. instant \in Nat /\ reader.stamp \in Nat
    BY <2>1 DEF RecordTypes, Reader
  <2>3. CASE reader.pc \in {"local", "mirror"}
    <3>1. PICK f \in RecordFile : f = AtHand
      BY <2>1 DEF AtHand, LocalCopy, RecordTypes, Reader
    <3>2. reader.run \in SavedRun /\ reader.kind = "load" /\ reader.pc # "fetch"
      BY <2>1, <2>3 DEF Reader, ReaderInv
    <3>3. TrueCopy(f, reader.run, reader.pulse[reader.run])
      <4>1. FilesHonest(reader.run) /\ ReaderPast(reader.run) /\ reader.host \in Host
        BY <2>1, <3>2 DEF StoreInv, ReaderInv, Reader
      <4>2. TrueCopy(f, reader.run, pulse[reader.run])
        BY <3>1, <4>1 DEF AtHand, LocalCopy, FilesHonest
      <4>3. /\ f.saved \in Nat /\ pulse[reader.run] \in Int /\ reader.pulse[reader.run] \in Int
            /\ reader.pulse[reader.run] <= pulse[reader.run]
        BY <2>1, <3>2, <4>1 DEF RecordFile, RecordTypes, Reader, ReaderPast
      <4> QED
        BY <4>2, <4>3 DEF TrueCopy
    <3>4. ASSUME NEW r \in SavedRun, Healthy(r, instant), f # NotSaved
          PROVE  Answer(r) # "interrupted"
      <4>1. CASE r = reader.run
        <5>1. AsRead(f, instant) = "active"
          BY <1>1, <2>2, <3>3, <3>4, <4>1, YoungIsActive
        <5>2. Answer(r) = AsRead(f, instant)
          BY <3>1, <3>2, <3>4, <4>1 DEF Answer
        <5> QED
          BY <5>1, <5>2
      <4>2. CASE r # reader.run
        BY <3>2, <4>2 DEF Answer
      <4> QED
        BY <4>1, <4>2
    <3>5. f.over => worker[reader.run] = "settled"
      BY <3>3, NotSavedIsNone DEF TrueCopy
    <3>6. CanAnswer => f # NotSaved
      BY <3>1, <3>2 DEF CanAnswer
    <3> QED
      BY <3>1, <3>2, <3>4, <3>5, <3>6 DEF ReadsAreHonest, StopsWatching
  <2>4. CASE reader.pc = "fetch" /\ Newest = {}
    <3>1. Scanning /\ reader.kind \in {"list", "active"}
      BY <2>1, <2>4 DEF Scanning, ReaderInv
    <3>2. ASSUME NEW r \in SavedRun, NEW now \in Nat, Healthy(r, now),
                 now = IF reader.kind = "active" THEN reader.stamp ELSE instant,
                 reader.read[r] # NotSaved
          PROVE  Answer(r) = "active"
      <4>1. PICK f \in RecordFile : f = reader.read[r]
        BY <2>1 DEF Reader
      <4>2. TrueCopy(f, r, reader.pulse[r])
        BY <2>1, <3>1, <4>1 DEF ReaderInv, FoundHonest
      <4>3. AsRead(f, now) = "active"
        BY <1>1, <3>2, <4>1, <4>2, YoungIsActive
      <4> QED
        BY <2>4, <3>2, <4>1, <4>3 DEF Answer
    <3>3. ASSUME NEW r \in SavedRun, reader.read[r] = NotSaved PROVE Answer(r) = "none"
      BY <2>4, <3>3 DEF Answer
    <3>4. ASSUME NEW r \in SavedRun, NEW now \in Nat, Healthy(r, now),
                 reader.whole, Listed(r), ~Outnumbered(r)
          PROVE  reader.read[r] # NotSaved
      <4>1. NothingMissed(r) /\ reader.pulse[r] \in Int
        BY <2>1, <3>1 DEF ReaderInv, Reader
      <4>2. Alive(r)
        BY <3>4, <4>1, NeverIsEarly DEF Healthy, Alive
      <4> QED
        BY <2>1, <2>4, <3>4, <4>1, <4>2, AllIsRead DEF NothingMissed
    <3>5. ASSUME NEW r \in SavedRun, Healthy(r, instant), reader.kind = "list"
          PROVE  Answer(r) # "interrupted"
      BY <2>2, <3>2, <3>3, <3>5
    <3>6. ASSUME NEW r \in SavedRun, reader.kind = "list", reader.whole, Healthy(r, instant),
                 Reachable(r)
          PROVE  Answer(r) = "active" \/ Crowded(r)
      <4>1. Listed(r)
        <5>1. reader.host \in Host /\ place[r] \in Host
          BY <2>1 DEF RecordTypes, Reader
        <5>2. reader.host \in Coordinator => reader.mirrored
          BY <2>1, <3>1 DEF ReaderInv
        <5> QED
          BY <2>4, <3>6, <5>1, <5>2 DEF Listed, Reachable, Host
      <4>2. CASE Outnumbered(r)
        <5>1. place[r] = "box" /\ Keep <= Cardinality(Since(reader.pulse, r))
          BY <4>2 DEF Outnumbered, Boxed
        <5>2. {q \in SavedRun \ {r} : place[q] = "box" /\ reader.pulse[q] >= reader.pulse[r]}
                = Since(reader.pulse, r)
          BY <2>1 DEF Since, Boxed, Reader
        <5> QED
          BY <5>1, <5>2 DEF Crowded
      <4>3. CASE ~Outnumbered(r)
        BY <2>2, <3>2, <3>4, <3>6, <4>1, <4>3
      <4> QED
        BY <4>2, <4>3
    <3>7. ASSUME NEW r \in SavedRun, reader.kind = "active", Healthy(r, reader.stamp),
                 place[r] \in Coordinator
          PROVE  Answer(r) = "active"
      <4>1. /\ reader.host \in Coordinator /\ reader.mirrored /\ reader.whole
            /\ reader.stamp - reader.pulse[r] <= StaleAfter
        BY <2>1, <3>1, <3>7 DEF ReaderInv, Healthy
      <4>2. Listed(r) /\ ~Outnumbered(r)
        BY <2>4, <3>7, <4>1 DEF Listed, Outnumbered, Boxed, Coordinator
      <4>3. reader.read[r] # NotSaved
        BY <2>2, <3>4, <3>7, <4>1, <4>2
      <4> QED
        BY <2>2, <3>2, <3>7, <4>3
    <3> QED
      BY <2>4, <3>1, <3>5, <3>6, <3>7 DEF ReadsAreHonest
  <2>5. CASE ~(reader.pc \in {"local", "mirror"}) /\ ~(reader.pc = "fetch" /\ Newest = {})
    BY <2>5 DEF ReadsAreHonest, CanAnswer
  <2> QED
    BY <2>3, <2>4, <2>5
<1>2. RecordSpec => []RecordInv
  BY RecordStarts, RecordStep, PTL DEF RecordSpec
<1> QED
  BY <1>1, <1>2, PTL

-----------------------------------------------------------------------------
(* The types.  The invariants above have them, but for the bounds that nothing     *)
(* else needs: who is in the gate's group, and how far the clocks get.           *)

LEMMA EvidenceTyped == EvidenceSpec => []EvidenceTypeOK
<1>1. EvidenceInv => EvidenceTypeOK
  BY DEF EvidenceInv, EvidenceTypes, EvidenceTypeOK, ScratchType, Composing
<1> QED
  BY <1>1, EvidenceInvariant, PTL

LEMMA FanoutTyped == FanoutSpec => []FanoutTypeOK
<1>1. FanoutInv => FanoutTypeOK
  <2> SUFFICES ASSUME FanoutInv PROVE FanoutTypeOK
    OBVIOUS
  <2>1. pushes \in 0 .. MaxSession
    BY PushedCounted, FanoutAssumption DEF FanoutInv, BranchInv
  <2> QED
    BY <2>1 DEF FanoutInv, BranchInv, TileInv, CheckoutInv, TileType, TileSteps, TileStates,
       FanoutTypeOK
<1> QED
  BY <1>1, FanoutInvariant, PTL

LEMMA WriterTyped == WriterSpec => []WriterTypeOK
<1>1. WriterInv => WriterTypeOK
  BY DEF WriterInv
<1> QED
  BY <1>1, WriterInvariant, PTL

LEMMA WorkTyped == WorkSpec => []WorkTypeOK
<1>1. WorkLandsWhole => WorkTypeOK
  BY DEF WorkLandsWhole
<1> QED
  BY <1>1, AllWorkLandsWhole, PTL

LEMMA DeployTyped == DeploySpec => []DeployTypeOK
<1>1. DeployInv => DeployTypeOK
  <2> SUFFICES ASSUME DeployInv PROVE DeployTypeOK
    OBVIOUS
  <2>1. DeployTypes /\ Len(history) \in Nat
    BY DEF DeployInv, DeployTypes
  <2>2. ASSUME NEW p \in Deployer
        PROVE  deployer[p].current \in 0 .. Len(history) /\ deployer[p].blames \in 0 .. Len(history)
    <3>1. deployer[p].current \in Nat /\ deployer[p].blames \in Nat
      BY <2>1 DEF DeployTypes, Invoked
    <3>2. deployer[p].current <= Len(history)
      BY DEF DeployInv, KnowsItsOwn, Reads
    <3>3. deployer[p].blames = 0 \/ deployer[p].blames <= Len(history)
      BY DEF DeployInv, KnowsItsOwn, Blames
    <3> QED
      BY <2>1, <3>1, <3>2, <3>3
  <2>3. {roleUsable, known} \subseteq BOOLEAN
    BY <2>1 DEF DeployTypes
  <2> QED
    BY <2>1, <2>2, <2>3 DEF DeployTypes, Invoked, DeployTypeOK
<1> QED
  BY <1>1, DeployInvariant, PTL

GroupBounds == group \subseteq {theCheck, "service"}

LEMMA GroupBounded ==
  ASSUME GroupBounds, [ReviewNext]_reviewVars
  PROVE  GroupBounds'
<1>1. ASSUME UNCHANGED group PROVE GroupBounds'
  BY <1>1 DEF GroupBounds
<1>2. CASE GateIsRed \/ TimePasses \/ WaitEnds \/ UNCHANGED reviewVars
  BY <1>1, <1>2 DEF GateIsRed, TimePasses, WaitEnds, reviewVars
<1>3. CASE RedIsRejected \/ ListArtifacts \/ NoReviewer \/ ReadArtifact \/ InvocationFails
           \/ ReplyArrives
  <2>1. Stays
    BY <1>3 DEF RedIsRejected, ListArtifacts, NoReviewer, ReadArtifact, InvocationFails, ReplyArrives
  <2> QED
    BY <1>1, <2>1 DEF Stays
<1>4. CASE CheckStarts \/ ServiceStarts \/ CheckExits \/ GroupIsTerminated \/ GroupIsKilled
  <2>1. group' \subseteq group \cup {theCheck, "service"}
    BY <1>4 DEF CheckStarts, ServiceStarts, CheckExits, GroupIsTerminated, GroupIsKilled
  <2> QED
    BY <2>1 DEF GroupBounds
<1> QED
  BY <1>2, <1>3, <1>4 DEF ReviewNext

LEMMA ReviewTyped == ReviewSpec => []ReviewTypeOK
<1>1. ReviewInit => GroupBounds
  BY DEF ReviewInit, GroupBounds
<1>2. ReviewInv /\ GroupBounds => ReviewTypeOK
  BY DEF ReviewInv, GateInv, ContextInv, VerdictInv, ContextType, GroupBounds, ReviewTypeOK
<1> QED
  BY <1>1, <1>2, GroupBounded, ReviewInvariant, PTL DEF ReviewSpec

\* What a clock shows, here or in S3.
InTime(f) == f # NotSaved => f.saved <= MaxTime /\ 0 - Skew <= f.modified /\ f.modified <= MaxTime
FoundInTime(c) == 0 - Skew <= c.modified /\ c.modified <= MaxTime /\ InTime(c.record)

RecordBounds ==
    /\ instant <= MaxTime /\ fault \in 0 .. MaxFault
    /\ \A r \in SavedRun, t \in SaverThread : saver[r][t].saved <= MaxTime
    /\ \A h \in Host, r \in SavedRun : InTime(disk[h][r])
    /\ \A r \in SavedRun : /\ InTime(mirror[r]) /\ FoundInTime(reader.found[r])
                           /\ pulse[r] = Never \/ 0 <= pulse[r]

LEMMA NoCandidateInTime ==
    /\ InTime(NotSaved) /\ FoundInTime(NoCandidate)
    /\ \A r \in SavedRun : NoReader.found[r] = NoCandidate
<1>1. NoCandidate.modified = 0 /\ NoCandidate.record = NotSaved
  BY DEF NoCandidate
<1>2. 0 - Skew <= 0 /\ 0 <= MaxTime
  BY RecordAssumption
<1> QED
  BY <1>1, <1>2 DEF InTime, FoundInTime, NoReader

LEMMA StoreStaysInTime ==
    ASSUME RecordInv, RecordBounds, RecordTypes', instant' <= MaxTime, fault' \in 0 .. MaxFault,
           \A r \in SavedRun, t \in SaverThread :
                saver'[r][t].saved \in {saver[r][t].saved, 0, instant},
           \A h \in Host, r \in SavedRun :
                disk'[h][r] = disk[h][r] \/ InTime(disk'[h][r]),
           \A r \in SavedRun : /\ mirror'[r] = mirror[r] \/ InTime(mirror'[r])
                               /\ pulse'[r] = pulse[r] \/ 0 <= pulse'[r],
           reader' = reader \/ reader' = NoReader
    PROVE  RecordBounds'
<1>1. instant \in Nat /\ MaxTime \in Nat /\ instant <= MaxTime /\ 0 <= MaxTime
  BY RecordAssumption DEF RecordInv, RecordTypes, RecordBounds
<1>2. ASSUME NEW r \in SavedRun, NEW t \in SaverThread PROVE saver'[r][t].saved <= MaxTime
  BY <1>1 DEF RecordBounds
<1>3. ASSUME NEW h \in Host, NEW r \in SavedRun PROVE InTime(disk[h][r])'
  BY DEF RecordBounds, InTime
<1>4. ASSUME NEW r \in SavedRun
      PROVE  InTime(mirror[r])' /\ (pulse'[r] = Never \/ 0 <= pulse'[r])
  BY DEF RecordBounds, InTime
<1>5. ASSUME NEW r \in SavedRun PROVE FoundInTime(reader.found[r])'
  BY NoCandidateInTime DEF RecordBounds, FoundInTime, InTime
<1> QED
  BY <1>2, <1>3, <1>4, <1>5 DEF RecordBounds

LEMMA ReaderStaysInTime ==
    ASSUME RecordBounds, UNCHANGED stored, UNCHANGED fault,
           \A r \in SavedRun : \/ reader'.found[r] = reader.found[r]
                               \/ reader'.found[r] = NoCandidate
                               \/ FoundInTime(reader'.found[r])
    PROVE  RecordBounds'
<1>1. ASSUME NEW r \in SavedRun PROVE FoundInTime(reader.found[r])'
  BY NoCandidateInTime DEF RecordBounds, FoundInTime, InTime
<1> QED
  BY <1>1 DEF RecordBounds, stored, InTime

LEMMA NoReaderInTime ==
    ASSUME RecordBounds, UNCHANGED stored, UNCHANGED fault, reader' = NoReader
    PROVE  RecordBounds'
BY NoCandidateInTime, ReaderStaysInTime

LEMMA FaultsBounded ==
    ASSUME fault \in 0 .. MaxFault, NEW bad \in BOOLEAN, Faulty(bad)
    PROVE  fault' \in 0 .. MaxFault
BY RecordAssumption DEF Faulty

LEMMA BuildInTime ==
    ASSUME RecordInv, RecordBounds, RecordTypes', NEW r \in SavedRun, NEW t \in SaverThread,
           NEW over \in BOOLEAN, Build(r, t, over),
           UNCHANGED <<instant, disk, mirror, pulse, fault, reader>>
    PROVE  RecordBounds'
<1> DEFINE row == [Resting EXCEPT !.pc = "built", !.over = over]
<1>1. row \in SaverRow /\ row.saved = 0
  BY DEF Resting, SaverRow
<1>2. saver' = [saver EXCEPT ![r][t] = row] /\ saver \in [SavedRun -> [SaverThread -> SaverRow]]
  BY DEF Build, RecordInv, RecordTypes
<1> HIDE DEF row
<1>3. /\ saver'[r][t] = row
      /\ \A q \in SavedRun, u \in SaverThread : q # r \/ u # t => saver'[q][u] = saver[q][u]
  BY <1>1, <1>2, SaverUpdate
<1>4. \A q \in SavedRun, u \in SaverThread : saver'[q][u].saved \in {saver[q][u].saved, 0, instant}
  BY <1>1, <1>3
<1>5. instant' <= MaxTime /\ fault' \in 0 .. MaxFault
  BY DEF RecordBounds
<1> QED
  BY <1>4, <1>5, StoreStaysInTime

LEMMA WriteInTime ==
    ASSUME RecordInv, RecordBounds, RecordTypes', NEW r \in SavedRun, NEW t \in SaverThread,
           NEW bad \in BOOLEAN, WriteLocally(r, t, bad)
    PROVE  RecordBounds'
<1>1. RecordTypes /\ UNCHANGED <<instant, place, mirror, reader>>
  BY DEF RecordInv, WriteLocally
<1>2. PICK s \in SaverRow : s = saver[r][t]
  BY <1>1 DEF RecordTypes
<1>3. PICK h \in Host : h = place[r]
  BY <1>1 DEF RecordTypes
<1> DEFINE row == [over |-> s.over, saved |-> instant, modified |-> instant]
           files == [disk[h] EXCEPT ![r] = row]
           next == IF h \in Coordinator
                   THEN [s EXCEPT !.pc = "written", !.saved = instant, !.whole = ~bad]
                   ELSE Paused(r, t, instant)
<1>4. /\ Faulty(bad)
      /\ disk' = (IF bad THEN disk ELSE [disk EXCEPT ![h] = Prune(files)])
      /\ saver' = [saver EXCEPT ![r][t] = next]
      /\ pulse' = (IF h \in Coordinator \/ bad THEN pulse ELSE [pulse EXCEPT ![r] = instant])
  BY <1>1, <1>2, <1>3 DEF WriteLocally, RecordTypes
<1>5. instant \in Nat /\ instant <= MaxTime /\ MaxTime \in Nat /\ Skew \in Nat
  BY <1>1, RecordAssumption DEF RecordTypes, RecordBounds
<1>6. row \in RecordFile /\ InTime(row)
  <2>1. row.saved = instant /\ row.modified = instant /\ 0 - Skew <= instant
    BY <1>5
  <2>2. row \in RecordFile
    BY <1>2, <1>5 DEF RecordFile, SaverRow
  <2> QED
    BY <1>5, <2>1, <2>2 DEF InTime
<1>7. /\ files \in [SavedRun -> RecordFile] /\ files[r] = row
      /\ \A q \in SavedRun : q # r => files[q] = disk[h][q]
  BY <1>1, <1>6 DEF RecordTypes
<1>8. next \in SaverRow /\ next.saved \in {0, instant}
  <2>1. CASE h \in Coordinator
    <3>1. next = [s EXCEPT !.pc = "written", !.saved = instant, !.whole = ~bad]
      BY <2>1
    <3> HIDE DEF next
    <3> QED
      BY <1>5, <2>1, <3>1 DEF SaverRow
  <2>2. CASE h \notin Coordinator
    <3>1. next = Paused(r, t, instant)
      BY <2>2
    <3>2. Paused(r, t, instant) \in SaverRow
      BY <1>5, PausedRests
    <3>3. Paused(r, t, instant).saved \in {0, instant}
      BY DEF Paused, Resting
    <3> QED
      BY <3>1, <3>2, <3>3
  <2> QED
    BY <2>1, <2>2
<1> HIDE DEF row, files, next
<1>9. /\ saver'[r][t] = next
      /\ \A q \in SavedRun, u \in SaverThread : q # r \/ u # t => saver'[q][u] = saver[q][u]
  BY <1>1, <1>4, <1>8, SaverUpdate DEF RecordTypes
<1>10. \A q \in SavedRun, u \in SaverThread : saver'[q][u].saved \in {saver[q][u].saved, 0, instant}
  BY <1>8, <1>9
<1>11. ASSUME NEW g \in Host, NEW q \in SavedRun
       PROVE  disk'[g][q] = disk[g][q] \/ InTime(disk'[g][q])
  <2>1. CASE g = h /\ ~bad
    <3>1. disk'[h] = Prune(files) /\ Prune(files)[q] \in {files[q], NotSaved}
      BY <1>1, <1>4, <1>7, <2>1, PruneDrops DEF RecordTypes
    <3> QED
      BY <1>6, <1>7, <2>1, <3>1, NoCandidateInTime
  <2>2. CASE g # h \/ bad
    BY <1>1, <1>4, <2>2 DEF RecordTypes
  <2> QED
    BY <2>1, <2>2
<1>12. \A q \in SavedRun : pulse'[q] = pulse[q] \/ 0 <= pulse'[q]
  BY <1>1, <1>4, <1>5 DEF RecordTypes
<1>13. instant' <= MaxTime /\ fault' \in 0 .. MaxFault
  BY <1>1, <1>4, <1>5, FaultsBounded DEF RecordBounds
<1> QED
  BY <1>1, <1>10, <1>11, <1>12, <1>13, StoreStaysInTime

LEMMA MirrorInTime ==
    ASSUME RecordInv, RecordBounds, RecordTypes', NEW r \in SavedRun, NEW t \in SaverThread,
           NEW bad \in BOOLEAN, Mirror(r, t, bad)
    PROVE  RecordBounds'
<1>1. RecordTypes /\ UNCHANGED <<instant, disk, reader>>
  BY DEF RecordInv, Mirror
<1>2. PICK s \in SaverRow : s = saver[r][t]
  BY <1>1 DEF RecordTypes
<1> DEFINE row == [over |-> s.over, saved |-> s.saved, modified |-> instant - Skew]
           rest == Paused(r, t, instant)
<1>3. /\ Faulty(bad) /\ mirror' = (IF bad THEN mirror ELSE [mirror EXCEPT ![r] = row])
      /\ pulse' = (IF s.whole /\ ~bad THEN [pulse EXCEPT ![r] = s.saved] ELSE pulse)
      /\ saver' = [saver EXCEPT ![r][t] = rest]
  BY <1>2 DEF Mirror
<1>4. /\ instant \in Nat /\ instant <= MaxTime /\ MaxTime \in Nat /\ Skew \in Nat
      /\ s.saved \in Nat /\ s.saved <= MaxTime
  BY <1>1, <1>2, RecordAssumption DEF RecordTypes, RecordBounds, SaverRow
<1>5. InTime(row)
  <2>1. row.saved = s.saved /\ row.modified = instant - Skew
    OBVIOUS
  <2>2. 0 - Skew <= instant - Skew /\ instant - Skew <= MaxTime
    BY <1>4
  <2> QED
    BY <1>4, <2>1, <2>2 DEF InTime
<1>6. rest \in SaverRow /\ rest.saved \in {0, instant}
  <2>1. rest.saved \in {0, instant}
    BY DEF Paused, Resting
  <2> QED
    BY <1>4, <2>1, PausedRests
<1> HIDE DEF row, rest
<1>7. /\ saver'[r][t] = rest
      /\ \A q \in SavedRun, u \in SaverThread : q # r \/ u # t => saver'[q][u] = saver[q][u]
  BY <1>1, <1>3, <1>6, SaverUpdate DEF RecordTypes
<1>8. \A q \in SavedRun, u \in SaverThread : saver'[q][u].saved \in {saver[q][u].saved, 0, instant}
  BY <1>6, <1>7
<1>9. \A q \in SavedRun : mirror'[q] = mirror[q] \/ InTime(mirror'[q])
  BY <1>1, <1>3, <1>5 DEF RecordTypes
<1>10. \A q \in SavedRun : pulse'[q] = pulse[q] \/ 0 <= pulse'[q]
  BY <1>1, <1>3, <1>4 DEF RecordTypes
<1>11. instant' <= MaxTime /\ fault' \in 0 .. MaxFault
  BY <1>1, <1>3, <1>4, FaultsBounded DEF RecordBounds
<1> QED
  BY <1>1, <1>8, <1>9, <1>10, <1>11, StoreStaysInTime

LEMMA RecycleInTime ==
    ASSUME RecordInv, RecordBounds, RecordTypes', NEW h \in Host, Recycle(h)
    PROVE  RecordBounds'
<1>1. RecordTypes /\ UNCHANGED <<instant, mirror, pulse, fault>>
  BY DEF RecordInv, Recycle
<1>2. ASSUME NEW r \in SavedRun, NEW t \in SaverThread
      PROVE  saver'[r][t].saved \in {saver[r][t].saved, 0, instant}
  <2>1. saver'[r] = IF r \in registry[h] THEN [u \in SaverThread |-> Resting] ELSE saver[r]
    BY DEF Recycle
  <2> QED
    BY <2>1 DEF Resting
<1>3. ASSUME NEW g \in Host, NEW r \in SavedRun
      PROVE  disk'[g][r] = disk[g][r] \/ InTime(disk'[g][r])
  <2>1. disk' = disk \/ disk' = [disk EXCEPT ![h] = [q \in SavedRun |-> NotSaved]]
    BY DEF Recycle
  <2>2. disk'[g][r] \in {disk[g][r], NotSaved}
    BY <1>1, <2>1 DEF RecordTypes
  <2> QED
    BY <2>2, NoCandidateInTime
<1>4. reader' = reader \/ reader' = NoReader
  BY DEF Recycle
<1>5. instant' <= MaxTime /\ fault' \in 0 .. MaxFault
  BY <1>1 DEF RecordBounds
<1> QED
  BY <1>1, <1>2, <1>3, <1>4, <1>5, StoreStaysInTime

LEMMA UnitInTime ==
    ASSUME RecordInv, RecordBounds, RecordTypes', UnitPasses
    PROVE  RecordBounds'
<1>1. /\ UNCHANGED <<saver, disk, mirror, pulse, fault, reader>>
      /\ instant < MaxTime /\ instant' = instant + 1 /\ instant \in Nat /\ MaxTime \in Nat
  BY RecordAssumption DEF UnitPasses, RecordInv, RecordTypes
<1>2. instant' <= MaxTime /\ fault' \in 0 .. MaxFault
  BY <1>1 DEF RecordBounds
<1> QED
  BY <1>1, <1>2, StoreStaysInTime

LEMMA OpenedInTime ==
    ASSUME RecordBounds, NEW kind, NEW h, NEW m, NEW r \in SavedRun, NEW pc,
           Opens(kind, h, m, r, pc)
    PROVE  RecordBounds'
<1>1. UNCHANGED stored /\ UNCHANGED fault
  BY DEF Opens, stored
<1>2. reader'.found = [q \in SavedRun |-> NoCandidate]
  BY DEF Opens, NoReader
<1> QED
  BY <1>1, <1>2, ReaderStaysInTime

LEMMA ListedInTime ==
    ASSUME RecordInv, RecordBounds, NEW kind, NEW h \in Host, NEW m, NEW since,
           OpensAll(kind, h, m, since)
    PROVE  RecordBounds'
<1>1. UNCHANGED stored /\ UNCHANGED fault
  BY DEF OpensAll, stored
<1>2. reader'.found = LocalFiles(h, since)
  BY DEF OpensAll, NoReader
<1>3. ASSUME NEW r \in SavedRun PROVE FoundInTime(LocalFiles(h, since)[r])
  <2>1. CASE disk[h][r] # NotSaved /\ disk[h][r].modified >= since
    <3>1. LocalFiles(h, since)[r] =
            [at |-> "disk", modified |-> disk[h][r].modified, record |-> disk[h][r]]
      BY <2>1 DEF LocalFiles
    <3>2. InTime(disk[h][r])
      BY DEF RecordBounds
    <3> QED
      BY <2>1, <3>1, <3>2 DEF FoundInTime, InTime
  <2>2. CASE ~(disk[h][r] # NotSaved /\ disk[h][r].modified >= since)
    <3>1. LocalFiles(h, since)[r] = NoCandidate
      BY <2>2 DEF LocalFiles
    <3> QED
      BY <3>1, NoCandidateInTime
  <2> QED
    BY <2>1, <2>2
<1> QED
  BY <1>1, <1>2, <1>3, ReaderStaysInTime

LEMMA PageInTime ==
    ASSUME RecordInv, RecordBounds, Page
    PROVE  RecordBounds'
<1>1. UNCHANGED stored /\ UNCHANGED fault /\ reader \in Reader /\ RecordTypes
  BY DEF RecordInv, RecordTypes, Page, stored
<1>2. PICK p \in SavedRun : p = reader.page
  BY <1>1 DEF Reader
<1> DEFINE better == /\ mirror[p] # NotSaved /\ mirror[p].modified >= reader.since
                     /\ \/ reader.found[p].at = "none"
                        \/ mirror[p].modified > reader.found[p].modified
           file == IF better THEN [at |-> "mirror", modified |-> mirror[p].modified,
                                   record |-> NotSaved]
                   ELSE reader.found[p]
           turned == IF p < MaxRun THEN p + 1 ELSE p
           goes == IF p < MaxRun THEN "page" ELSE "fetch"
<1>3. FoundInTime(file)
  <2>1. CASE better
    <3>1. file.modified = mirror[p].modified /\ file.record = NotSaved /\ mirror[p] # NotSaved
      BY <2>1
    <3>2. InTime(mirror[p])
      BY DEF RecordBounds
    <3> QED
      BY <3>1, <3>2, NoCandidateInTime DEF FoundInTime, InTime
  <2>2. CASE ~better
    <3>1. file = reader.found[p]
      BY <2>2
    <3> QED
      BY <3>1 DEF RecordBounds
  <2> QED
    BY <2>1, <2>2
<1>4. reader' = [reader EXCEPT !.found[p] = file, !.page = turned, !.pc = goes]
  BY <1>2 DEF Page
<1> HIDE DEF file, better, turned, goes
<1>5. reader'.found = [reader.found EXCEPT ![p] = file]
  BY <1>1, <1>4 DEF Reader
<1>6. reader.found \in [SavedRun -> Found]
  BY <1>1 DEF Reader
<1>7. \A r \in SavedRun : reader'.found[r] = IF r = p THEN file ELSE reader.found[r]
  BY <1>5, <1>6
<1> QED
  BY <1>1, <1>3, <1>7, ReaderStaysInTime

LEMMA FetchInTime ==
    ASSUME RecordInv, RecordBounds, NEW p \in SavedRun, FetchRecord(p) \/ FetchRecordFails(p)
    PROVE  RecordBounds'
<1>1. UNCHANGED stored /\ UNCHANGED fault /\ reader \in Reader
  BY DEF RecordInv, RecordTypes, FetchRecord, FetchRecordFails, stored
<1>2. CASE reader' = NoReader
  BY <1>1, <1>2, NoReaderInTime
<1>3. CASE reader'.found = [reader.found EXCEPT ![p] = NoCandidate]
  <2>1. reader.found \in [SavedRun -> Found]
    BY <1>1 DEF Reader
  <2>2. \A r \in SavedRun : reader'.found[r] = IF r = p THEN NoCandidate ELSE reader.found[r]
    BY <1>3, <2>1
  <2> QED
    BY <1>1, <2>2, ReaderStaysInTime
<1>4. CASE FetchRecord(p)
  <2>1. PICK body : reader' = [reader EXCEPT !.found[p] = NoCandidate, !.read[p] = body]
    BY <1>4 DEF FetchRecord
  <2>2. reader'.found = [reader.found EXCEPT ![p] = NoCandidate]
    BY <1>1, <2>1 DEF Reader
  <2> QED
    BY <1>3, <2>2
<1>5. CASE FetchRecordFails(p) /\ reader' # NoReader
  <2>1. reader' = [reader EXCEPT !.found[p] = NoCandidate, !.whole = FALSE]
    BY <1>5 DEF FetchRecordFails
  <2>2. reader'.found = [reader.found EXCEPT ![p] = NoCandidate]
    BY <1>1, <2>1 DEF Reader
  <2> QED
    BY <1>3, <2>2
<1> QED
  BY <1>2, <1>4, <1>5

LEMMA AnsweredInTime ==
    ASSUME RecordInv, RecordBounds, LoadAnswers \/ LoadMisses \/ PageFails \/ AnswerAll
    PROVE  RecordBounds'
<1>1. UNCHANGED stored /\ UNCHANGED fault /\ reader \in Reader
  BY DEF RecordInv, RecordTypes, LoadAnswers, LoadMisses, PageFails, AnswerAll, stored
<1>2. \/ reader' = NoReader
      \/ reader' = [reader EXCEPT !.pc = "mirror"]
      \/ reader' = [reader EXCEPT !.pc = "fetch", !.whole = FALSE]
  BY DEF LoadAnswers, LoadMisses, PageFails, AnswerAll
<1>3. reader' = NoReader \/ reader'.found = reader.found
  BY <1>1, <1>2 DEF Reader
<1> QED
  BY <1>1, <1>3, NoReaderInTime, ReaderStaysInTime

LEMMA RecordStaysInTime ==
    ASSUME RecordInv, RecordBounds, [RecordNext]_recordVars
    PROVE  RecordBounds'
<1>0. RecordTypes' /\ TRUE \in BOOLEAN /\ FALSE \in BOOLEAN /\ "box" \in Host
      /\ "worker" \in SaverThread /\ "heartbeat" \in SaverThread
  BY RecordStep DEF RecordInv, Host, SaverThread
<1>1. ASSUME NEW r \in SavedRun, SubmitRun(r) \/ Beat(r) \/ SettleRun(r) PROVE RecordBounds'
  <2>1. CASE SubmitRun(r)
    BY <1>0, <2>1, BuildInTime DEF SubmitRun
  <2>2. CASE Beat(r)
    BY <1>0, <2>2, BuildInTime DEF Beat
  <2>3. CASE SettleRun(r)
    BY <1>0, <2>3, BuildInTime DEF SettleRun
  <2> QED
    BY <1>1, <2>1, <2>2, <2>3
<1>2. ASSUME NEW r \in SavedRun, FetchRecord(r) \/ FetchRecordFails(r) PROVE RecordBounds'
  BY <1>2, FetchInTime
<1>3. ASSUME NEW r \in SavedRun, NEW t \in SaverThread, NEW bad \in BOOLEAN,
             WriteLocally(r, t, bad) \/ Mirror(r, t, bad)
      PROVE  RecordBounds'
  BY <1>0, <1>3, WriteInTime, MirrorInTime
<1>4. ASSUME NEW h \in Host, Recycle(h) PROVE RecordBounds'
  BY <1>0, <1>4, RecycleInTime
<1>5. ASSUME NEW kind, NEW h \in Host, NEW m, NEW since, OpensAll(kind, h, m, since)
      PROVE  RecordBounds'
  BY <1>5, ListedInTime
<1>6. ASSUME NEW h \in Host, ActiveRuns(h) \/ ListRuns(h) \/ ActiveDuplicate(h)
      PROVE  RecordBounds'
  BY <1>5, <1>6 DEF ActiveRuns, ListRuns, ActiveDuplicate, RecentRuns
<1>7. ASSUME NEW m \in BOOLEAN, LastRuns(m) PROVE RecordBounds'
  BY <1>0, <1>5, <1>7 DEF LastRuns, RecentRuns
<1>8. ASSUME NEW h, NEW m, NEW r \in SavedRun, Opens("load", h, m, r, "local")
      PROVE  RecordBounds'
  BY <1>8, OpenedInTime
<1>9. ASSUME NEW r \in SavedRun, HistoryResponse(r) PROVE RecordBounds'
  BY <1>8, <1>9 DEF HistoryResponse
<1>10. ASSUME NEW r \in SavedRun, NEW m \in BOOLEAN, OneRun(r, m) \/ WatchFrame(r, m)
       PROVE  RecordBounds'
  BY <1>8, <1>10 DEF OneRun, WatchFrame
<1>11. ASSUME NEW h \in Host, NEW r \in SavedRun, RunStatus(h, r) \/ MayResubmit(h, r)
       PROVE  RecordBounds'
  BY <1>8, <1>11 DEF RunStatus, MayResubmit
<1>12. CASE LoadAnswers \/ LoadMisses \/ PageFails \/ AnswerAll
  BY <1>12, AnsweredInTime
<1>13. CASE Page
  BY <1>13, PageInTime
<1>14. CASE UnitPasses
  BY <1>0, <1>14, UnitInTime
<1>15. CASE UNCHANGED recordVars
  <2>1. UNCHANGED stored /\ UNCHANGED fault /\ reader' = reader
    BY <1>15 DEF recordVars, stored
  <2> QED
    BY <2>1, ReaderStaysInTime
<1> QED
  BY <1>1, <1>2, <1>3, <1>4, <1>6, <1>7, <1>9, <1>10, <1>11, <1>12, <1>13, <1>14, <1>15
  DEF RecordNext

LEMMA CopyTyped ==
    ASSUME NEW f \in RecordFile, InTime(f)
    PROVE  f \in SavedResult \cup {NotSaved}
<1>1. CASE f # NotSaved
  <2>1. /\ f.saved \in Nat /\ f.saved <= MaxTime /\ f.modified \in Int /\ MaxTime \in Nat
        /\ 0 - Skew <= f.modified /\ f.modified <= MaxTime /\ Skew \in Nat
    BY <1>1, RecordAssumption DEF InTime, RecordFile
  <2>2. f.saved \in Time /\ f.modified \in -Skew .. MaxTime
    BY <2>1 DEF Time
  <2> QED
    BY <2>2 DEF RecordFile, SavedResult
<1> QED
  BY <1>1

LEMMA RecordTyped == RecordSpec => []RecordTypeOK
<1>1. RecordInit => RecordBounds
  <2> SUFFICES ASSUME RecordInit PROVE RecordBounds
    OBVIOUS
  <2>1. 0 <= MaxTime /\ 0 \in 0 .. MaxFault
    BY RecordAssumption
  <2> QED
    BY <2>1, NoCandidateInTime DEF RecordInit, RecordBounds, Resting
<1>2. RecordInv /\ RecordBounds => RecordTypeOK
  <2> SUFFICES ASSUME RecordInv, RecordBounds PROVE RecordTypeOK
    OBVIOUS
  <2>1. RecordTypes /\ reader \in Reader /\ MaxTime \in Nat /\ Skew \in Nat /\ instant \in Nat
        /\ instant <= MaxTime
    BY RecordAssumption DEF RecordInv, RecordTypes, RecordBounds
  <2>2. instant \in Time /\ fault \in 0 .. MaxFault
    BY <2>1 DEF RecordBounds, Time
  <2>3. saver \in [SavedRun -> [SaverThread -> [pc : {"idle", "built", "written"},
                                over : BOOLEAN, saved : Time, whole : BOOLEAN]]]
    <3>1. saver \in [SavedRun -> [SaverThread -> SaverRow]]
      BY <2>1 DEF RecordTypes
    <3>2. ASSUME NEW r \in SavedRun, NEW t \in SaverThread PROVE saver[r][t].saved \in Time
      <4>1. saver[r][t].saved \in Nat
        BY <3>1 DEF SaverRow
      <4> QED
        BY <2>1, <4>1 DEF RecordBounds, Time
    <3> QED
      BY <3>1, <3>2 DEF SaverRow
  <2>4. disk \in [Host -> [SavedRun -> SavedResult \cup {NotSaved}]]
    <3>1. disk \in [Host -> [SavedRun -> RecordFile]]
      BY <2>1 DEF RecordTypes
    <3>2. ASSUME NEW h \in Host, NEW r \in SavedRun PROVE disk[h][r] \in SavedResult \cup {NotSaved}
      <4>1. disk[h][r] \in RecordFile /\ InTime(disk[h][r])
        BY <3>1 DEF RecordBounds
      <4> QED
        BY <4>1, CopyTyped
    <3> QED
      BY <3>1, <3>2
  <2>5. mirror \in [SavedRun -> SavedResult \cup {NotSaved}]
    <3>1. mirror \in [SavedRun -> RecordFile]
      BY <2>1 DEF RecordTypes
    <3>2. ASSUME NEW r \in SavedRun PROVE mirror[r] \in SavedResult \cup {NotSaved}
      <4>1. mirror[r] \in RecordFile /\ InTime(mirror[r])
        BY <3>1 DEF RecordBounds
      <4> QED
        BY <4>1, CopyTyped
    <3> QED
      BY <3>1, <3>2
  <2>6. pulse \in [SavedRun -> Time \cup {Never}]
    <3>1. pulse \in [SavedRun -> Int]
      BY <2>1 DEF RecordTypes
    <3>2. ASSUME NEW r \in SavedRun PROVE pulse[r] \in Time \cup {Never}
      <4>1. pulse[r] \in Int /\ pulse[r] <= instant /\ (pulse[r] = Never \/ 0 <= pulse[r])
        BY <3>1 DEF RecordInv, StoreInv, RunPlaced, RecordBounds
      <4> QED
        BY <2>1, <4>1 DEF Time
    <3> QED
      BY <3>1, <3>2
  <2>7. reader.found \in [SavedRun -> [at : {"none", "disk", "mirror"}, modified : -Skew .. MaxTime,
                                       record : SavedResult \cup {NotSaved}]]
    <3>1. reader.found \in [SavedRun -> Found]
      BY <2>1 DEF Reader
    <3>2. ASSUME NEW r \in SavedRun
          PROVE  /\ reader.found[r].modified \in -Skew .. MaxTime
                 /\ reader.found[r].record \in SavedResult \cup {NotSaved}
      <4>1. /\ reader.found[r].modified \in Int /\ reader.found[r].record \in RecordFile
            /\ 0 - Skew <= reader.found[r].modified /\ reader.found[r].modified <= MaxTime
            /\ InTime(reader.found[r].record)
        BY <3>1 DEF Found, RecordBounds, FoundInTime
      <4>2. reader.found[r].record \in SavedResult \cup {NotSaved}
        BY <4>1, CopyTyped
      <4> QED
        BY <2>1, <4>1, <4>2
    <3> QED
      BY <3>1, <3>2 DEF Found
  <2> QED
    BY <2>1, <2>2, <2>3, <2>4, <2>5, <2>6, <2>7 DEF RecordTypes, Reader, RecordTypeOK
<1>3. RecordInv /\ RecordBounds /\ [RecordNext]_recordVars => RecordInv' /\ RecordBounds'
  BY RecordStep, RecordStaysInTime
<1> QED
  BY <1>1, <1>2, <1>3, RecordStarts, PTL DEF RecordSpec

(* Whatever the components that make, judge, publish and record the builders'    *)
(* work do, each from its own first state and in any order of their steps, the   *)
(* variables of each keep their types: clocks, saves and listings stay in time,   *)
(* and commits, operations and sessions within their numbers.                  *)
THEOREM DeliveryTyped ==
    RecordSpec /\ WorkSpec /\ WriterSpec /\ ReviewSpec /\ EvidenceSpec /\ DeploySpec
    /\ FanoutSpec => []DeliveryTypeOK
<1>1. /\ RecordTypeOK /\ WorkTypeOK /\ WriterTypeOK /\ ReviewTypeOK /\ EvidenceTypeOK
      /\ DeployTypeOK /\ FanoutTypeOK
      => DeliveryTypeOK
  BY DEF DeliveryTypeOK
<1> QED
  BY <1>1, RecordTyped, WorkTyped, WriterTyped, ReviewTyped, EvidenceTyped, DeployTyped,
     FanoutTyped, PTL
==============================================================================
