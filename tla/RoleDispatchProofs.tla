------------------------- MODULE RoleDispatchProofs -------------------------
(***************************************************************************)
(* Theorems of RoleDispatch, for any number of roles, turns and attempts.    *)
(* What one role's dispatch does depends on that role's variables alone, so  *)
(* the inductive invariant is stated of one role, and a step of one role     *)
(* leaves every other one as it was.                                         *)
(***************************************************************************)
EXTENDS RoleDispatch, TLAPS

(* A function of roles, and one of roles and attempts, with one value changed. *)
LEMMA OneRow ==
  ASSUME NEW S, NEW f \in [Item -> S], NEW i \in Item, NEW v \in S
  PROVE  /\ [f EXCEPT ![i] = v] \in [Item -> S]
         /\ [f EXCEPT ![i] = v][i] = v
         /\ \A j \in Item : j # i => [f EXCEPT ![i] = v][j] = f[j]
OBVIOUS

LEMMA OneCell ==
  ASSUME NEW S, NEW f \in [Item -> [Attempt -> S]], NEW i \in Item, NEW a \in Attempt, NEW v \in S
  PROVE  /\ [f EXCEPT ![i][a] = v] \in [Item -> [Attempt -> S]]
         /\ [f EXCEPT ![i][a] = v][i][a] = v
         /\ \A b \in Attempt : b # a => [f EXCEPT ![i][a] = v][i][b] = f[i][b]
         /\ \A j \in Item : j # i => [f EXCEPT ![i][a] = v][j] = f[j]
OBVIOUS

-----------------------------------------------------------------------------
(* Attempts are numbered over all turns, two to a turn at most.                *)
Counted(i) ==
    /\ turns[i] = 0 => attempt[i] = 0 /\ phase[i] = "idle"
    /\ turns[i] > 0 => /\ attempt[i] >= 1 /\ tries[i] >= 1 /\ phase[i] # "idle"
                       /\ attempt[i] <= 2 * (turns[i] - 1) + tries[i]
    /\ phase[i] = "redispatch" => tries[i] = 1
TypeInv == TypeOK /\ \A i \in Item : Counted(i)

PlaceTypes ==
    /\ phase \in [Item -> Phase]
    /\ turns \in [Item -> 0 .. MaxTurn]
    /\ tries \in [Item -> 0 .. 2]
    /\ attempt \in [Item -> 0 .. 2 * MaxTurn]
    /\ console \in [Item -> [Attempt -> BOOLEAN]]
RemoteTypes ==
    /\ proc \in [Item -> [Attempt -> ProcState]]
    /\ packing \in [Item -> [Attempt -> PackState]]
    /\ tree \in [Item -> [Attempt -> Tree]]
    /\ result \in [Item -> [Attempt -> Tree \cup {NoTree}]]
SealTypes ==
    /\ input \in [Item -> Tree \cup {NoTree}]
    /\ unsettled \in SUBSET (Item \X Attempt)
    /\ exchange \in {"open", "kept", "deleted"}

LEMMA Types ==
  ASSUME TypeInv
  PROVE  /\ PlaceTypes /\ RemoteTypes /\ SealTypes /\ MaxTurn \in Nat
         /\ \A i \in Item : /\ Counted(i)
                            /\ attempt[i] \in 0 .. 2 * MaxTurn
                            /\ phase[i] # "idle" => attempt[i] \in Attempt
<1>1. PlaceTypes /\ RemoteTypes /\ SealTypes /\ MaxTurn \in Nat
  BY DispatchAssumption DEF TypeInv, TypeOK, PlaceTypes, RemoteTypes, SealTypes
<1>2. ASSUME NEW i \in Item
      PROVE  /\ Counted(i) /\ attempt[i] \in 0 .. 2 * MaxTurn
             /\ phase[i] # "idle" => attempt[i] \in Attempt
  BY <1>1 DEF TypeInv, PlaceTypes, Counted, Attempt
<1> QED
  BY <1>1, <1>2

(* The steps the coordinator takes for a role find its dispatch under way.      *)
UnderWay == Phase \ (Between \cup {"idle"})

LEMMA UnderWayOnly ==
  ASSUME TypeInv, NEW i \in Item, Coordinator(i)
  PROVE  /\ phase[i] \in UnderWay /\ attempt[i] \in Attempt
         /\ UNCHANGED <<turns, exchange>>
         /\ Redispatch(i) \/ UNCHANGED <<tries, attempt, console>>
<1>1. phase[i] \in UnderWay
  BY Types DEF PlaceTypes, Coordinator, Redispatch, OpenFails, SendCommand, StatusArrives,
     ConnectionEnds, PtyReady, PtyNeverReady, SendTurn, TurnIdle, PtyEnds, SendSnapshot,
     SnapshotStatus, Accept, UnderWay, Between, Phase
<1>2. attempt[i] \in Attempt
  BY <1>1, Types DEF UnderWay
<1>3. UNCHANGED <<turns, exchange>> /\ (Redispatch(i) \/ UNCHANGED <<tries, attempt, console>>)
  BY DEF Coordinator, Redispatch, OpenFails, SendCommand, StatusArrives, ConnectionEnds, PtyReady,
     PtyNeverReady, SendTurn, TurnIdle, PtyEnds, SendSnapshot, SnapshotStatus, Accept, ledger
<1> QED
  BY <1>1, <1>2, <1>3

LEMMA PlaceStep ==
  ASSUME TypeInv, [Next]_vars
  PROVE  PlaceTypes' /\ \A i \in Item : Counted(i)'
<1> USE DEF ledger, remote
<1>0. /\ PlaceTypes /\ MaxTurn \in Nat /\ MaxTurn' = MaxTurn /\ Item' = Item
      /\ \A i \in Item : Counted(i) /\ turns[i] \in 0 .. MaxTurn /\ tries[i] \in 0 .. 2
                         /\ attempt[i] \in 0 .. 2 * MaxTurn
  BY Types DEF PlaceTypes
<1>1. ASSUME NEW i \in Item, BeginTurn(i) PROVE PlaceTypes' /\ \A j \in Item : Counted(j)'
  <2>1. /\ phase' = [phase EXCEPT ![i] = "opening"] /\ "opening" \in Phase
        /\ turns' = [turns EXCEPT ![i] = turns[i] + 1] /\ turns[i] < MaxTurn
        /\ tries' = [tries EXCEPT ![i] = 1]
        /\ attempt' = [attempt EXCEPT ![i] = attempt[i] + 1]
        /\ console' \in {console, [console EXCEPT ![i][attempt[i] + 1] = i \in Hosted]}
    BY <1>1 DEF BeginTurn, To, Opens, Phase
  <2>2. attempt[i] <= 2 * turns[i]
    BY <1>0 DEF Counted
  <2>3. attempt[i] + 1 \in 1 .. 2 * MaxTurn
    BY <1>0, <2>1, <2>2
  <2>4. console' \in [Item -> [Attempt -> BOOLEAN]]
    <3>1. attempt[i] + 1 \in Attempt /\ (i \in Hosted) \in BOOLEAN
      BY <2>3 DEF Attempt
    <3>2. console \in [Item -> [Attempt -> BOOLEAN]]
      BY <1>0 DEF PlaceTypes
    <3>3. [console EXCEPT ![i][attempt[i] + 1] = i \in Hosted] \in [Item -> [Attempt -> BOOLEAN]]
      BY <3>1, <3>2, OneCell
    <3> QED
      BY <2>1, <3>2, <3>3
  <2>5. PlaceTypes'
    <3>1. turns[i] + 1 \in 0 .. MaxTurn /\ attempt[i] + 1 \in 0 .. 2 * MaxTurn /\ 1 \in 0 .. 2
      BY <1>0, <2>1, <2>3
    <3> QED
      BY <1>0, <2>1, <2>4, <3>1, OneRow DEF PlaceTypes
  <2>6. ASSUME NEW j \in Item PROVE Counted(j)'
    BY <1>0, <2>1, <2>2 DEF Counted, PlaceTypes
  <2> QED
    BY <2>5, <2>6
<1>2. ASSUME NEW i \in Item, Redispatch(i) PROVE PlaceTypes' /\ \A j \in Item : Counted(j)'
  <2>1. /\ phase[i] = "redispatch" /\ "opening" \in Phase
        /\ phase' = [phase EXCEPT ![i] = "opening"] /\ turns' = turns
        /\ tries' = [tries EXCEPT ![i] = tries[i] + 1]
        /\ attempt' = [attempt EXCEPT ![i] = attempt[i] + 1]
        /\ console' \in {console, [console EXCEPT ![i][attempt[i] + 1] = i \in Hosted]}
    BY <1>2 DEF Redispatch, To, Opens, Phase
  <2>2. tries[i] = 1 /\ turns[i] > 0 /\ attempt[i] <= 2 * turns[i] - 1
    BY <1>0, <2>1 DEF Counted
  <2>3. attempt[i] + 1 \in 1 .. 2 * MaxTurn
    BY <1>0, <2>2
  <2>4. console' \in [Item -> [Attempt -> BOOLEAN]]
    <3>1. attempt[i] + 1 \in Attempt /\ (i \in Hosted) \in BOOLEAN
      BY <2>3 DEF Attempt
    <3>2. console \in [Item -> [Attempt -> BOOLEAN]]
      BY <1>0 DEF PlaceTypes
    <3>3. [console EXCEPT ![i][attempt[i] + 1] = i \in Hosted] \in [Item -> [Attempt -> BOOLEAN]]
      BY <3>1, <3>2, OneCell
    <3> QED
      BY <2>1, <3>2, <3>3
  <2>5. PlaceTypes'
    <3>1. tries[i] + 1 \in 0 .. 2 /\ attempt[i] + 1 \in 0 .. 2 * MaxTurn
      BY <1>0, <2>2, <2>3
    <3> QED
      BY <1>0, <2>1, <2>4, <3>1, OneRow DEF PlaceTypes
  <2>6. ASSUME NEW j \in Item PROVE Counted(j)'
    BY <1>0, <2>1, <2>2 DEF Counted, PlaceTypes
  <2> QED
    BY <2>5, <2>6
<1>3. ASSUME NEW i \in Item, NEW p \in Phase, To(i, p), p # "idle", phase[i] # "idle",
             p = "redispatch" => tries[i] < 2,
             UNCHANGED <<turns, tries, attempt, console>>
      PROVE  PlaceTypes' /\ \A j \in Item : Counted(j)'
  <2>1. PlaceTypes'
    BY <1>0, <1>3, OneRow DEF PlaceTypes, To
  <2>2. ASSUME NEW j \in Item PROVE Counted(j)'
    BY <1>0, <1>3 DEF Counted, PlaceTypes, To
  <2> QED
    BY <2>1, <2>2
<1>4. ASSUME NEW i \in Item, Coordinator(i), ~Redispatch(i)
      PROVE  \E p \in Phase \ {"idle"} : To(i, p) /\ (p = "redispatch" => tries[i] < 2)
  BY <1>4 DEF Coordinator, OpenFails, SendCommand, StatusArrives, ConnectionEnds, PtyReady,
     PtyNeverReady, SendTurn, TurnIdle, PtyEnds, SendSnapshot, SnapshotStatus, Accept,
     RoleExecutionError, Unsettled, Phase, Between
<1>5. ASSUME NEW i \in Item, Coordinator(i), ~Redispatch(i)
      PROVE  PlaceTypes' /\ \A j \in Item : Counted(j)'
  BY <1>3, <1>4, <1>5, UnderWayOnly DEF UnderWay
<1>6. ASSUME UNCHANGED <<phase, ledger>> PROVE PlaceTypes' /\ \A j \in Item : Counted(j)'
  BY <1>0, <1>6 DEF PlaceTypes, Counted
<1>7. ASSUME NEW i \in Item, NEW a \in Attempt, Remote(i, a) PROVE UNCHANGED <<phase, ledger>>
  BY <1>7 DEF Remote, Hydrate, WorkEnds, CommandExits, SnapshotExits, Vanish
<1> QED
  BY <1>1, <1>2, <1>5, <1>6, <1>7 DEF Next, EndRun, vars

LEMMA Trees ==
  ASSUME NEW T \in Tree, NEW a \in Attempt
  PROVE  /\ T \cup {<<a, "part">>} \in Tree
         /\ (T \ {<<a, "part">>}) \cup {<<a, "whole">>} \in Tree
BY DEF Tree

(* A remote step writes one cell of each of the variables it writes.            *)
LEMMA RemoteStep ==
  ASSUME TypeInv, NEW i \in Item, NEW a \in Attempt, Remote(i, a)
  PROVE  RemoteTypes'
<1>1. /\ RemoteTypes /\ SealTypes
      /\ input[i] \in Tree \cup {NoTree} /\ tree[i][a] \in Tree
      /\ tree[i][a] \in Tree \cup {NoTree}
  BY Types DEF RemoteTypes, SealTypes
<1>2. ASSUME NEW s \in ProcState, Becomes(i, a, s) PROVE proc' \in [Item -> [Attempt -> ProcState]]
  BY <1>1, <1>2, OneCell DEF Becomes, RemoteTypes
<1>3. ASSUME NEW T \in Tree, tree' = [tree EXCEPT ![i][a] = T]
      PROVE  tree' \in [Item -> [Attempt -> Tree]]
  BY <1>1, <1>3, OneCell DEF RemoteTypes
<1>4. ASSUME NEW s \in PackState, packing' = [packing EXCEPT ![i][a] = s]
      PROVE  packing' \in [Item -> [Attempt -> PackState]]
  BY <1>1, <1>4, OneCell DEF RemoteTypes
<1>5. Upload(i, a) => result' \in [Item -> [Attempt -> Tree \cup {NoTree}]]
  BY <1>1, OneCell DEF RemoteTypes, Upload
<1>6. /\ {"none", "sent", "idle", "working", "finished", "failed", "exit0", "exit1", "gone"} \subseteq ProcState
      /\ {"exit0", "exit1"} \subseteq PackState
  BY DEF ProcState, PackState
<1>7. CASE Hydrate(i, a)
  <2>1. input[i] # NoTree => input[i] \cup {<<a, "part">>} \in Tree
    BY <1>1, Trees
  <2>2. proc' \in [Item -> [Attempt -> ProcState]]
    BY <1>2, <1>6, <1>7 DEF Hydrate
  <2>3. tree' \in [Item -> [Attempt -> Tree]]
    BY <1>1, <1>3, <1>7, <2>1 DEF Hydrate, RemoteTypes
  <2> QED
    BY <1>1, <1>7, <2>2, <2>3 DEF Hydrate, RemoteTypes
<1>8. CASE WorkEnds(i, a)
  <2>1. (tree[i][a] \ {<<a, "part">>}) \cup {<<a, "whole">>} \in Tree
    BY <1>1, Trees
  <2>2. proc' \in [Item -> [Attempt -> ProcState]]
    BY <1>2, <1>6, <1>8 DEF WorkEnds
  <2>3. tree' \in [Item -> [Attempt -> Tree]]
    BY <1>1, <1>3, <1>8, <2>1 DEF WorkEnds, RemoteTypes
  <2> QED
    BY <1>1, <1>8, <2>2, <2>3 DEF WorkEnds, RemoteTypes
<1>9. CASE CommandExits(i, a)
  <2>1. proc' \in [Item -> [Attempt -> ProcState]]
    BY <1>2, <1>6, <1>9 DEF CommandExits
  <2> QED
    BY <1>1, <1>5, <1>9, <2>1 DEF CommandExits, RemoteTypes
<1>10. CASE SnapshotExits(i, a)
  <2>1. packing' \in [Item -> [Attempt -> PackState]]
    BY <1>4, <1>6, <1>10 DEF SnapshotExits
  <2> QED
    BY <1>1, <1>5, <1>10, <2>1 DEF SnapshotExits, RemoteTypes
<1>11. CASE Vanish(i, a)
  <2>1. proc' \in [Item -> [Attempt -> ProcState]]
    BY <1>2, <1>6, <1>11 DEF Vanish
  <2> QED
    BY <1>1, <1>11, <2>1 DEF Vanish, RemoteTypes
<1> QED
  BY <1>7, <1>8, <1>9, <1>10, <1>11 DEF Remote

LEMMA CoordinatorStep ==
  ASSUME TypeInv, NEW i \in Item, Coordinator(i)
  PROVE  RemoteTypes' /\ SealTypes'
<1> DEFINE a == attempt[i]
<1>1. RemoteTypes /\ SealTypes /\ a \in Attempt
  BY Types, UnderWayOnly
<1>2. /\ input[i] \in Tree \cup {NoTree} /\ result[i][a] \in Tree \cup {NoTree}
      /\ tree[i][a] \in Tree /\ <<i, a>> \in Item \X Attempt
      /\ tree[i][a] \cup {<<a, "part">>} \in Tree
  <2>1. /\ input[i] \in Tree \cup {NoTree} /\ result[i][a] \in Tree \cup {NoTree}
        /\ tree[i][a] \in Tree
    BY <1>1 DEF RemoteTypes, SealTypes
  <2>2. <<i, a>> \in Item \X Attempt
    BY <1>1
  <2>3. tree[i][a] \cup {<<a, "part">>} \in Tree
    BY <1>1, <2>1, Trees
  <2> QED
    BY <2>1, <2>2, <2>3
<1>3. exchange' = exchange
  BY UnderWayOnly
<1>4. unsettled' \in SUBSET (Item \X Attempt)
  <2>1. unsettled \in SUBSET (Item \X Attempt)
        /\ unsettled \cup {<<i, a>>} \in SUBSET (Item \X Attempt)
    BY <1>1, <1>2 DEF SealTypes
  <2>2. unsettled' = unsettled \/ unsettled' = unsettled \cup {<<i, a>>}
    BY DEF Coordinator, Redispatch, OpenFails, SendCommand, StatusArrives, ConnectionEnds, PtyReady,
       PtyNeverReady, SendTurn, TurnIdle, PtyEnds, SendSnapshot, SnapshotStatus, Accept, Unsettled
  <2> QED
    BY <2>1, <2>2
<1>5. input' \in [Item -> Tree \cup {NoTree}]
  <2>1. input' = input \/ input' = [input EXCEPT ![i] = result[i][a]]
    BY DEF Coordinator, Redispatch, OpenFails, SendCommand, StatusArrives, ConnectionEnds, PtyReady,
       PtyNeverReady, SendTurn, TurnIdle, PtyEnds, SendSnapshot, SnapshotStatus, Accept, Seal
  <2> QED
    BY <1>1, <1>2, <2>1, OneRow DEF SealTypes
<1>6. SealTypes'
  BY <1>1, <1>3, <1>4, <1>5 DEF SealTypes
<1>7. result' = result
  BY DEF Coordinator, Redispatch, OpenFails, SendCommand, StatusArrives, ConnectionEnds, PtyReady,
     PtyNeverReady, SendTurn, TurnIdle, PtyEnds, SendSnapshot, SnapshotStatus, Accept, remote
<1>8. proc' \in [Item -> [Attempt -> ProcState]]
  <2>1. ASSUME NEW s \in {"sent", "idle", "working"}, Becomes(i, a, s)
        PROVE  proc' \in [Item -> [Attempt -> ProcState]]
    <3>1. s \in ProcState
      BY DEF ProcState
    <3> QED
      BY <1>1, <2>1, <3>1, OneCell DEF Becomes, RemoteTypes
  <2>2. proc' = proc \/ \E s \in {"sent", "idle", "working"} : Becomes(i, a, s)
    BY DEF Coordinator, Redispatch, OpenFails, SendCommand, StatusArrives, ConnectionEnds, PtyReady,
       PtyNeverReady, SendTurn, TurnIdle, PtyEnds, SendSnapshot, SnapshotStatus, Accept, Submitted, remote
  <2> QED
    BY <1>1, <2>1, <2>2 DEF RemoteTypes
<1>9. packing' \in [Item -> [Attempt -> PackState]]
  <2>1. packing' = packing \/ packing' = [packing EXCEPT ![i][a] = "running"]
    BY DEF Coordinator, Redispatch, OpenFails, SendCommand, StatusArrives, ConnectionEnds, PtyReady,
       PtyNeverReady, SendTurn, TurnIdle, PtyEnds, SendSnapshot, SnapshotStatus, Accept, remote
  <2>2. "running" \in PackState
    BY DEF PackState
  <2>3. packing \in [Item -> [Attempt -> PackState]]
    BY <1>1 DEF RemoteTypes
  <2>4. [packing EXCEPT ![i][a] = "running"] \in [Item -> [Attempt -> PackState]]
    BY <1>1, <2>2, <2>3, OneCell
  <2> QED
    BY <2>1, <2>3, <2>4
<1>10. tree' \in [Item -> [Attempt -> Tree]]
  <2>1. \/ tree' = tree
        \/ tree' = [tree EXCEPT ![i][a] = tree[i][a] \cup {<<a, "part">>}]
        \/ input[i] # NoTree /\ tree' = [tree EXCEPT ![i][a] = input[i]]
    BY DEF Coordinator, Redispatch, OpenFails, SendCommand, StatusArrives, ConnectionEnds, PtyReady,
       PtyNeverReady, SendTurn, TurnIdle, PtyEnds, SendSnapshot, SnapshotStatus, Accept, Submitted, remote
  <2>2. tree \in [Item -> [Attempt -> Tree]]
    BY <1>1 DEF RemoteTypes
  <2>3. ASSUME NEW T \in Tree PROVE [tree EXCEPT ![i][a] = T] \in [Item -> [Attempt -> Tree]]
    BY <1>1, <2>2, OneCell
  <2> QED
    BY <1>2, <2>1, <2>2, <2>3
<1> QED
  BY <1>1, <1>6, <1>7, <1>8, <1>9, <1>10 DEF RemoteTypes

LEMMA TypeInit == Init => TypeInv
<1> SUFFICES ASSUME Init PROVE TypeInv
  OBVIOUS
<1>1. /\ "idle" \in Phase /\ 0 \in 0 .. MaxTurn /\ 0 \in 0 .. 2 /\ 0 \in 0 .. 2 * MaxTurn
      /\ "none" \in ProcState /\ "none" \in PackState /\ Base \in Tree
  BY DispatchAssumption DEF Phase, ProcState, PackState, Base, Tree
<1>2. TypeOK
  BY <1>1 DEF Init, TypeOK
<1>3. ASSUME NEW i \in Item PROVE Counted(i)
  BY DEF Init, Counted
<1> QED
  BY <1>2, <1>3 DEF TypeInv

LEMMA TypeStep == TypeInv /\ [Next]_vars => TypeInv'
<1> SUFFICES ASSUME TypeInv, [Next]_vars PROVE TypeInv'
  OBVIOUS
<1>1. PlaceTypes' /\ \A i \in Item : Counted(i)'
  BY PlaceStep
<1>2. RemoteTypes' /\ SealTypes'
  <2>1. RemoteTypes /\ SealTypes
    BY Types
  <2>2. ASSUME NEW i \in Item, BeginTurn(i) PROVE RemoteTypes' /\ SealTypes'
    <3>1. Base \in Tree \cup {NoTree}
      BY DEF Base, Tree
    <3>2. input' \in [Item -> Tree \cup {NoTree}]
      BY <2>1, <2>2, <3>1, OneRow DEF BeginTurn, SealTypes
    <3> QED
      BY <2>1, <2>2, <3>2 DEF BeginTurn, RemoteTypes, SealTypes, remote
  <2>3. ASSUME NEW i \in Item, NEW a \in Attempt, Remote(i, a) PROVE RemoteTypes' /\ SealTypes'
    <3>1. UNCHANGED <<input, unsettled, exchange>>
      BY <2>3 DEF Remote, Hydrate, WorkEnds, CommandExits, SnapshotExits, Vanish
    <3> QED
      BY <2>1, <2>3, <3>1, RemoteStep DEF SealTypes
  <2>4. ASSUME EndRun PROVE RemoteTypes' /\ SealTypes'
    BY <2>1, <2>4 DEF EndRun, RemoteTypes, SealTypes
  <2>5. ASSUME UNCHANGED vars PROVE RemoteTypes' /\ SealTypes'
    BY <2>1, <2>5 DEF vars, RemoteTypes, SealTypes
  <2> QED
    BY <2>2, <2>3, <2>4, <2>5, CoordinatorStep DEF Next
<1>3. TypeOK'
  BY <1>1, <1>2 DEF TypeOK, PlaceTypes, RemoteTypes, SealTypes
<1> QED
  BY <1>1, <1>3 DEF TypeInv

(* Every variable keeps its type: attempts are numbered within the two that     *)
(* each turn may take, and every tree is made of attempts' work.                *)
THEOREM DispatchTypeOK == Spec => []TypeOK
<1>1. TypeInv => TypeOK
  BY DEF TypeInv
<1> QED
  BY TypeInit, TypeStep, <1>1, PTL DEF Spec

-----------------------------------------------------------------------------
(* What the steps of one role leave alone: every other role, and every attempt  *)
(* of its own but the one the step is about.                                    *)
Same(j) ==
    /\ UNCHANGED <<phase[j], attempt[j], console[j], proc[j], packing[j], tree[j], result[j], input[j]>>
    /\ \A a : <<j, a>> \in unsettled' <=> <<j, a>> \in unsettled
SameCell(j, b) ==
    /\ UNCHANGED <<proc[j][b], packing[j][b], tree[j][b], result[j][b]>>
    /\ <<j, b>> \in unsettled' <=> <<j, b>> \in unsettled

(* What a step of the coordinator does to its own attempt's cells.              *)
LEMMA Written ==
  ASSUME TypeInv, NEW i \in Item, Coordinator(i)
  PROVE  LET a == attempt[i]
         IN  /\ result' = result
             /\ proc' = proc \/ \E s \in {"sent", "idle", "working"} : Becomes(i, a, s)
             /\ packing' = packing \/ packing' = [packing EXCEPT ![i][a] = "running"]
             /\ \/ tree' = tree
                \/ tree' = [tree EXCEPT ![i][a] = tree[i][a] \cup {<<a, "part">>}]
                \/ input[i] # NoTree /\ tree' = [tree EXCEPT ![i][a] = input[i]]
             /\ input' = input \/ input' = [input EXCEPT ![i] = result[i][a]]
             /\ unsettled' = unsettled \/ unsettled' = unsettled \cup {<<i, a>>}
             /\ \E p \in Phase : To(i, p)
<1>1. result' = result
      /\ (packing' = packing \/ packing' = [packing EXCEPT ![i][attempt[i]] = "running"])
  BY DEF Coordinator, Redispatch, OpenFails, SendCommand, StatusArrives, ConnectionEnds, PtyReady,
     PtyNeverReady, SendTurn, TurnIdle, PtyEnds, SendSnapshot, SnapshotStatus, Accept, remote
<1>2. proc' = proc \/ \E s \in {"sent", "idle", "working"} : Becomes(i, attempt[i], s)
  BY DEF Coordinator, Redispatch, OpenFails, SendCommand, StatusArrives, ConnectionEnds, PtyReady,
     PtyNeverReady, SendTurn, TurnIdle, PtyEnds, SendSnapshot, SnapshotStatus, Accept, Submitted, remote
<1>3. \/ tree' = tree
      \/ tree' = [tree EXCEPT ![i][attempt[i]] = tree[i][attempt[i]] \cup {<<attempt[i], "part">>}]
      \/ input[i] # NoTree /\ tree' = [tree EXCEPT ![i][attempt[i]] = input[i]]
  BY DEF Coordinator, Redispatch, OpenFails, SendCommand, StatusArrives, ConnectionEnds, PtyReady,
     PtyNeverReady, SendTurn, TurnIdle, PtyEnds, SendSnapshot, SnapshotStatus, Accept, Submitted, remote
<1>4. input' = input \/ input' = [input EXCEPT ![i] = result[i][attempt[i]]]
  BY DEF Coordinator, Redispatch, OpenFails, SendCommand, StatusArrives, ConnectionEnds, PtyReady,
     PtyNeverReady, SendTurn, TurnIdle, PtyEnds, SendSnapshot, SnapshotStatus, Accept, Seal
<1>5. unsettled' = unsettled \/ unsettled' = unsettled \cup {<<i, attempt[i]>>}
  BY DEF Coordinator, Redispatch, OpenFails, SendCommand, StatusArrives, ConnectionEnds, PtyReady,
     PtyNeverReady, SendTurn, TurnIdle, PtyEnds, SendSnapshot, SnapshotStatus, Accept, Unsettled
<1>6. \E p \in Phase : To(i, p)
  BY DEF Coordinator, Redispatch, OpenFails, SendCommand, StatusArrives, ConnectionEnds, PtyReady,
     PtyNeverReady, SendTurn, TurnIdle, PtyEnds, SendSnapshot, SnapshotStatus, Accept,
     RoleExecutionError, Unsettled, Phase, Between
<1> QED
  BY <1>1, <1>2, <1>3, <1>4, <1>5, <1>6

LEMMA OtherCells ==
  ASSUME TypeInv, NEW i \in Item, Coordinator(i)
  PROVE  /\ \A b \in Attempt : b # attempt[i] => SameCell(i, b)
         /\ \A j \in Item : j # i => UNCHANGED <<phase[j], proc[j], packing[j], tree[j], result[j], input[j]>>
                                     /\ \A b : <<j, b>> \in unsettled' <=> <<j, b>> \in unsettled
<1> DEFINE a == attempt[i]
<1>1. /\ a \in Attempt /\ RemoteTypes /\ SealTypes /\ phase \in [Item -> Phase]
  BY Types, UnderWayOnly DEF PlaceTypes
<1>2. /\ \A b \in Attempt : b # a => proc'[i][b] = proc[i][b]
      /\ \A j \in Item : j # i => proc'[j] = proc[j]
  <2>1. ASSUME NEW s, Becomes(i, a, s)
        PROVE /\ \A b \in Attempt : b # a => proc'[i][b] = proc[i][b]
              /\ \A j \in Item : j # i => proc'[j] = proc[j]
    BY <1>1, <2>1 DEF Becomes, RemoteTypes
  <2> QED
    BY <2>1, Written
<1>3. /\ \A b \in Attempt : b # a => packing'[i][b] = packing[i][b]
      /\ \A j \in Item : j # i => packing'[j] = packing[j]
  <2>1. packing' = packing \/ packing' = [packing EXCEPT ![i][a] = "running"]
    BY Written
  <2> QED
    BY <1>1, <2>1 DEF RemoteTypes
<1>4. /\ \A b \in Attempt : b # a => tree'[i][b] = tree[i][b]
      /\ \A j \in Item : j # i => tree'[j] = tree[j]
  <2>1. ASSUME NEW T, tree' = [tree EXCEPT ![i][a] = T]
        PROVE /\ \A b \in Attempt : b # a => tree'[i][b] = tree[i][b]
              /\ \A j \in Item : j # i => tree'[j] = tree[j]
    BY <1>1, <2>1 DEF RemoteTypes
  <2> QED
    BY <2>1, Written
<1>5. result' = result
      /\ (unsettled' = unsettled \/ unsettled' = unsettled \cup {<<i, a>>})
  BY Written
<1>6. \A j \in Item : j # i => phase'[j] = phase[j]
  <2>1. PICK p \in Phase : To(i, p)
    BY Written
  <2> QED
    BY <1>1, <2>1 DEF To
<1>7. \A j \in Item : j # i => input'[j] = input[j]
  <2>1. input' = input \/ input' = [input EXCEPT ![i] = result[i][a]]
    BY Written
  <2> QED
    BY <1>1, <2>1 DEF SealTypes
<1>8. ASSUME NEW b \in Attempt, b # a PROVE SameCell(i, b)
  BY <1>2, <1>3, <1>4, <1>5, <1>8 DEF SameCell
<1>9. ASSUME NEW j \in Item, j # i
      PROVE  UNCHANGED <<phase[j], proc[j], packing[j], tree[j], result[j], input[j]>>
             /\ \A b : <<j, b>> \in unsettled' <=> <<j, b>> \in unsettled
  BY <1>2, <1>3, <1>4, <1>5, <1>6, <1>7, <1>9
<1> QED
  BY <1>8, <1>9

(* A new attempt is opened: nothing of the role but its number, its phase and   *)
(* whether it has a console differs, and its input is as it was or refreshed.   *)
Opening(i) ==
    /\ To(i, "opening")
    /\ attempt' = [attempt EXCEPT ![i] = attempt[i] + 1]
    /\ Opens(i)
    /\ input' \in {input, [input EXCEPT ![i] = Base]}
    /\ UNCHANGED <<proc, packing, tree, result, unsettled, exchange>>

LEMMA OpeningOnly ==
  ASSUME TypeInv, NEW i \in Item, Opening(i), attempt[i] + 1 \in Attempt
  PROVE  /\ phase'[i] = "opening" /\ attempt'[i] = attempt[i] + 1
         /\ \A b \in Attempt : b # attempt[i] + 1 => console'[i][b] = console[i][b]
         /\ input'[i] = input[i] \/ input'[i] = Base
         /\ \A j \in Item : j # i => Same(j)
<1>1. /\ PlaceTypes /\ SealTypes
  BY Types
<1>2. /\ phase'[i] = "opening" /\ \A j \in Item : j # i => phase'[j] = phase[j]
  BY <1>1 DEF PlaceTypes, Opening, To
<1>3. /\ attempt'[i] = attempt[i] + 1 /\ \A j \in Item : j # i => attempt'[j] = attempt[j]
  BY <1>1 DEF PlaceTypes, Opening
<1>4. /\ \A b \in Attempt : b # attempt[i] + 1 => console'[i][b] = console[i][b]
      /\ \A j \in Item : j # i => console'[j] = console[j]
  BY <1>1 DEF PlaceTypes, Opening, Opens
<1>5. /\ input'[i] = input[i] \/ input'[i] = Base
      /\ \A j \in Item : j # i => input'[j] = input[j]
  BY <1>1 DEF SealTypes, Opening
<1>6. UNCHANGED <<proc, packing, tree, result, unsettled>>
  BY DEF Opening
<1> QED
  BY <1>2, <1>3, <1>4, <1>5, <1>6 DEF Same

LEMMA OpeningSteps ==
  ASSUME TypeInv, NEW i \in Item, BeginTurn(i) \/ Redispatch(i)
  PROVE  Opening(i) /\ attempt[i] + 1 \in Attempt /\ attempt[i] \in Nat
<1>1. Opening(i)
  BY DEF BeginTurn, Redispatch, Opening, remote
<1>2. attempt[i] + 1 \in Attempt /\ attempt[i] \in Nat
  <2>1. /\ attempt \in [Item -> 0 .. 2 * MaxTurn] /\ attempt' \in [Item -> 0 .. 2 * MaxTurn]
        /\ MaxTurn \in Nat
    <3>1. Next
      BY DEF Next, Coordinator
    <3> QED
      BY <3>1, PlaceStep, Types DEF PlaceTypes
  <2>2. attempt'[i] = attempt[i] + 1
    BY <1>1, <2>1 DEF Opening
  <2> QED
    BY <2>1, <2>2 DEF Attempt
<1> QED
  BY <1>1, <1>2

(* A remote step of an attempt: only its own cells differ.                      *)
LEMMA RemoteOnly ==
  ASSUME TypeInv, NEW i \in Item, NEW a \in Attempt, Remote(i, a)
  PROVE  /\ UNCHANGED <<phase, ledger, input, unsettled, exchange>>
         /\ \A b \in Attempt : b # a => SameCell(i, b)
         /\ \A j \in Item : j # i => Same(j)
<1>1. RemoteTypes
  BY Types
<1>2. UNCHANGED <<phase, ledger, input, unsettled, exchange>>
  BY DEF Remote, Hydrate, WorkEnds, CommandExits, SnapshotExits, Vanish
<1>3. /\ \A b \in Attempt : b # a => proc'[i][b] = proc[i][b]
      /\ \A j \in Item : j # i => proc'[j] = proc[j]
  BY <1>1 DEF Remote, Hydrate, WorkEnds, CommandExits, SnapshotExits, Vanish, Becomes, RemoteTypes
<1>4. /\ \A b \in Attempt : b # a => packing'[i][b] = packing[i][b]
      /\ \A j \in Item : j # i => packing'[j] = packing[j]
  BY <1>1 DEF Remote, Hydrate, WorkEnds, CommandExits, SnapshotExits, Vanish, RemoteTypes
<1>5. /\ \A b \in Attempt : b # a => tree'[i][b] = tree[i][b]
      /\ \A j \in Item : j # i => tree'[j] = tree[j]
  BY <1>1 DEF Remote, Hydrate, WorkEnds, CommandExits, SnapshotExits, Vanish, RemoteTypes
<1>6. /\ \A b \in Attempt : b # a => result'[i][b] = result[i][b]
      /\ \A j \in Item : j # i => result'[j] = result[j]
  BY <1>1 DEF Remote, Hydrate, WorkEnds, CommandExits, SnapshotExits, Vanish, Upload, RemoteTypes
<1> QED
  BY <1>2, <1>3, <1>4, <1>5, <1>6 DEF Same, SameCell, ledger

-----------------------------------------------------------------------------
(* Where a role's latest attempt is, of every phase its dispatch may be in.     *)
Waits(i) ==
    LET a == attempt[i]
    IN  /\ phase[i] = "opening" =>
              proc[i][a] = "none" /\ packing[i][a] = "none" /\ result[i][a] = NoTree
        /\ phase[i] = "watching" => packing[i][a] = "none" /\ ~console[i][a]
        /\ phase[i] = "ready" => /\ packing[i][a] = "none" /\ console[i][a]
                                 /\ proc[i][a] \in {"idle", "gone"} /\ result[i][a] = NoTree
        /\ phase[i] = "waiting" => /\ packing[i][a] = "none" /\ console[i][a] /\ result[i][a] = NoTree
                                   /\ proc[i][a] \in {"working", "finished", "failed", "gone"}
        /\ phase[i] = "snapshot" => /\ packing[i][a] = "none" /\ console[i][a]
                                    /\ proc[i][a] \in {"finished", "gone"}
        /\ phase[i] = "watchingSnapshot" => console[i][a] /\ proc[i][a] \in {"finished", "gone"}
        /\ phase[i] \in {"accepting", "redispatch", "done", "failed"} => ~Executing(i, a)
        /\ phase[i] = "unsettled" => <<i, a>> \in unsettled

(* An attempt not yet made has left nothing behind it.                          *)
Fresh(i) ==
    \A a \in Attempt : a > attempt[i] =>
        proc[i][a] = "none" /\ packing[i][a] = "none" /\ result[i][a] = NoTree

(* An earlier attempt has ended, unless the role knows that it does not know.   *)
Past(i) ==
    \A a \in Attempt : a < attempt[i] => <<i, a>> \in unsettled \/ ~Executing(i, a)

(* An unsettled session is the end of a builder, and of a checker's turn.       *)
Pending(i) ==
    \A a \in Attempt : <<i, a>> \in unsettled =>
        /\ a <= attempt[i]
        /\ a = attempt[i] => phase[i] = "unsettled"
        /\ i \notin Checker => a = attempt[i]

Placed(i) == Waits(i) /\ Fresh(i) /\ Past(i) /\ Pending(i)

EndInv == exchange # "open" => AtRest /\ (exchange = "deleted" => unsettled = {})

PlacedInv == (\A i \in Item : Placed(i)) /\ EndInv

LEMMA PlacedElsewhere ==
  ASSUME TypeInv, NEW j \in Item, Placed(j), Same(j)
  PROVE  Placed(j)'
<1>1. \A a : Executing(j, a)' <=> Executing(j, a)
  BY DEF Same, Executing
<1>2. Waits(j)'
  <2>1. UNCHANGED <<phase[j], attempt[j], console[j], proc[j], packing[j], result[j]>>
    BY DEF Same
  <2>2. phase[j] = "unsettled" => attempt[j] \in Attempt
    BY Types
  <2> QED
    BY <1>1, <2>1, <2>2 DEF Placed, Waits, Same
<1>3. Fresh(j)' /\ Past(j)' /\ Pending(j)'
  BY <1>1 DEF Placed, Fresh, Past, Pending, Same
<1> QED
  BY <1>2, <1>3 DEF Placed

(* Nothing begins to execute by the Runtime's own doing.                        *)
LEMMA NoneBegins ==
  ASSUME TypeInv, NEW i \in Item, NEW a \in Attempt, Remote(i, a),
         NEW j \in Item, NEW b \in Attempt, Executing(j, b)'
  PROVE  Executing(j, b)
<1>1. UNCHANGED console /\ RemoteTypes
  BY RemoteOnly, Types DEF ledger
<1>2. CASE j = i /\ b = a
  BY <1>1, <1>2 DEF Remote, Hydrate, WorkEnds, CommandExits, SnapshotExits, Vanish, Executing,
     Becomes, RemoteTypes
<1>3. CASE j = i /\ b # a
  BY <1>1, <1>3, RemoteOnly DEF SameCell, Executing
<1>4. CASE j # i
  BY <1>1, <1>4, RemoteOnly DEF Same, Executing
<1> QED
  BY <1>2, <1>3, <1>4

LEMMA PlacedRemote ==
  ASSUME TypeInv, PlacedInv, NEW i \in Item, NEW a \in Attempt, Remote(i, a)
  PROVE  PlacedInv'
<1>1. /\ UNCHANGED <<phase, attempt, console, input, unsettled, exchange>>
      /\ \A b \in Attempt : b # a => SameCell(i, b)
      /\ \A j \in Item : j # i => Same(j)
      /\ RemoteTypes /\ Placed(i) /\ attempt[i] \in 0 .. 2 * MaxTurn
  BY RemoteOnly, Types DEF ledger, PlacedInv
<1>2. \A b \in Attempt : Executing(i, b)' => Executing(i, b)
  BY NoneBegins
<1>3. /\ proc[i][a] = "none" => proc'[i][a] = "none"
      /\ packing[i][a] = "none" => packing'[i][a] = "none"
      /\ console[i][a] /\ proc[i][a] \in {"idle", "gone"} => proc'[i][a] \in {"idle", "gone"}
      /\ console[i][a] /\ proc[i][a] \in {"finished", "gone"} => proc'[i][a] \in {"finished", "gone"}
      /\ console[i][a] /\ proc[i][a] \in {"working", "finished", "failed", "gone"} =>
            proc'[i][a] \in {"working", "finished", "failed", "gone"}
      /\ packing[i][a] = "none" /\ (console[i][a] \/ proc[i][a] = "none") => result'[i][a] = result[i][a]
  BY <1>1 DEF Remote, Hydrate, WorkEnds, CommandExits, SnapshotExits, Vanish, Becomes, RemoteTypes
<1>4. Waits(i)'
  <2>1. CASE attempt[i] = a
    BY <1>1, <1>2, <1>3, <2>1 DEF Placed, Waits
  <2>2. CASE attempt[i] # a /\ attempt[i] \in Attempt
    BY <1>1, <1>2, <2>2 DEF Placed, Waits, SameCell
  <2>3. CASE attempt[i] \notin Attempt
    <3>1. phase[i] = "idle"
      BY <2>3, Types
    <3> QED
      BY <1>1, <3>1 DEF Waits
  <2> QED
    BY <2>1, <2>2, <2>3
<1>5. Fresh(i)'
  <2>1. ASSUME NEW b \in Attempt, b > attempt[i]
        PROVE  proc'[i][b] = "none" /\ packing'[i][b] = "none" /\ result'[i][b] = NoTree
    <3>1. proc[i][b] = "none" /\ packing[i][b] = "none" /\ result[i][b] = NoTree
      BY <1>1, <2>1 DEF Placed, Fresh
    <3> QED
      BY <1>1, <1>3, <3>1 DEF SameCell
  <2> QED
    BY <1>1, <2>1 DEF Fresh
<1>6. Past(i)' /\ Pending(i)' /\ EndInv'
  BY <1>1, <1>2 DEF Placed, PlacedInv, Past, Pending, EndInv, AtRest
<1>7. \A j \in Item : Placed(j)'
  BY <1>1, <1>4, <1>5, <1>6, PlacedElsewhere DEF Placed, PlacedInv
<1> QED
  BY <1>6, <1>7 DEF PlacedInv

LEMMA PlacedOpening ==
  ASSUME TypeInv, PlacedInv, NEW i \in Item, BeginTurn(i) \/ Redispatch(i)
  PROVE  PlacedInv'
<1>1. Opening(i) /\ attempt[i] + 1 \in Attempt /\ attempt[i] \in Nat
  BY OpeningSteps
<1>2. /\ phase'[i] = "opening" /\ attempt'[i] = attempt[i] + 1
      /\ \A b \in Attempt : b # attempt[i] + 1 => console'[i][b] = console[i][b]
      /\ \A j \in Item : j # i => Same(j)
      /\ UNCHANGED <<proc, packing, tree, result, unsettled, exchange>>
  BY <1>1, OpeningOnly DEF Opening
<1>3. Placed(i) /\ (\A j \in Item : Placed(j)) /\ EndInv
  BY DEF PlacedInv
<1>4. /\ exchange = "open"
      /\ phase[i] = "redispatch" \/ AskAgain(i)
  BY <1>3 DEF EndInv, AtRest, Between, BeginTurn, Redispatch
<1>5. Waits(i)' /\ Fresh(i)'
  <2>1. \A b \in Attempt : b > attempt[i] =>
           proc[i][b] = "none" /\ packing[i][b] = "none" /\ result[i][b] = NoTree
    BY <1>3 DEF Placed, Fresh
  <2>2. attempt[i] + 1 > attempt[i]
    BY <1>1
  <2>3. Waits(i)'
    BY <1>1, <1>2, <2>1, <2>2 DEF Waits
  <2>4. Fresh(i)'
    BY <1>1, <1>2, <2>1 DEF Fresh, Attempt
  <2> QED
    BY <2>3, <2>4
<1>6. Past(i)'
  <2>1. ASSUME NEW b \in Attempt, b < attempt[i] + 1 PROVE <<i, b>> \in unsettled \/ ~Executing(i, b)
    <3>1. CASE b < attempt[i]
      BY <1>3, <3>1 DEF Placed, Past
    <3>2. CASE b = attempt[i]
      <4>1. phase[i] # "idle"
        BY <3>2, Types DEF Counted, Attempt, PlaceTypes
      <4>2. phase[i] \in {"redispatch", "done", "failed", "unsettled"}
        BY <1>4, <4>1 DEF AskAgain, Between
      <4> QED
        BY <1>3, <3>2, <4>2 DEF Placed, Waits
    <3> QED
      BY <1>1, <2>1, <3>1, <3>2 DEF Attempt
  <2>2. ASSUME NEW b \in Attempt, b < attempt[i] + 1, ~Executing(i, b) PROVE ~Executing(i, b)'
    BY <1>1, <1>2, <2>2 DEF Executing, Attempt
  <2> QED
    BY <1>2, <2>1, <2>2 DEF Past
<1>7. Pending(i)'
  <2>1. ASSUME NEW b \in Attempt, <<i, b>> \in unsettled
        PROVE  b <= attempt[i] /\ b # attempt[i] + 1 /\ i \in Checker
    BY <1>1, <1>3, <1>4, <2>1 DEF Placed, Pending, AskAgain, Attempt
  <2> QED
    BY <1>1, <1>2, <2>1 DEF Pending, Attempt
<1>8. ASSUME NEW j \in Item PROVE Placed(j)'
  BY <1>2, <1>3, <1>5, <1>6, <1>7, PlacedElsewhere DEF Placed
<1>9. EndInv'
  BY <1>2, <1>4 DEF EndInv
<1> QED
  BY <1>8, <1>9 DEF PlacedInv

(* How a coordinator step is read off the cells it writes.                      *)
LEMMA Reading ==
  ASSUME TypeInv, NEW i \in Item
  PROVE  /\ \A p : To(i, p) => phase'[i] = p
         /\ RoleExecutionError(i) => phase'[i] \in {"redispatch", "failed"}
         /\ Unsettled(i) => phase'[i] = "unsettled" /\ unsettled' = unsettled \cup {<<i, attempt[i]>>}
         /\ \A a \in Attempt : \A s : Becomes(i, a, s) => proc'[i][a] = s
         /\ \A a \in Attempt : packing' = [packing EXCEPT ![i][a] = "running"] => packing'[i][a] = "running"
         /\ Seal(i, attempt[i]) => input'[i] = result[i][attempt[i]]
<1>1. phase \in [Item -> Phase] /\ RemoteTypes /\ SealTypes
  BY Types DEF PlaceTypes
<1>2. \A p : To(i, p) => phase'[i] = p
  BY <1>1 DEF To
<1>3. RoleExecutionError(i) => phase'[i] \in {"redispatch", "failed"}
  BY <1>2 DEF RoleExecutionError
<1>4. Unsettled(i) => phase'[i] = "unsettled" /\ unsettled' = unsettled \cup {<<i, attempt[i]>>}
  BY <1>2 DEF Unsettled
<1>5. \A a \in Attempt : \A s : Becomes(i, a, s) => proc'[i][a] = s
  BY <1>1 DEF Becomes, RemoteTypes
<1>6. \A a \in Attempt : packing' = [packing EXCEPT ![i][a] = "running"] => packing'[i][a] = "running"
  BY <1>1 DEF RemoteTypes
<1>7. Seal(i, attempt[i]) => input'[i] = result[i][attempt[i]]
  BY <1>1 DEF Seal, SealTypes
<1> QED
  BY <1>2, <1>3, <1>4, <1>5, <1>6, <1>7

LEMMA PlacedCoordinator ==
  ASSUME TypeInv, PlacedInv, ~Stalls, NEW i \in Item, Coordinator(i), ~Redispatch(i)
  PROVE  PlacedInv'
<1> DEFINE a == attempt[i]
<1>1. /\ UNCHANGED <<turns, tries, attempt, console, exchange, result>>
      /\ a \in Attempt /\ phase[i] \in UnderWay /\ attempt[i] \in Nat
  BY UnderWayOnly, Written DEF Attempt
<1>2. /\ \A b \in Attempt : b # a => SameCell(i, b)
      /\ \A j \in Item : j # i => Same(j)
  BY <1>1, OtherCells DEF Same
<1>3. Placed(i) /\ (\A j \in Item : Placed(j)) /\ EndInv
  BY DEF PlacedInv
<1>4. exchange = "open"
  BY <1>1, <1>3 DEF EndInv, AtRest, UnderWay
<1>5. Waits(i)' /\ (unsettled' = unsettled \/ phase'[i] = "unsettled")
  <2>1. Waits(i)
    BY <1>3 DEF Placed
  <2>2. ASSUME UNCHANGED <<proc, packing>>
        PROVE  Executing(i, a)' <=> Executing(i, a)
    BY <1>1, <2>2 DEF Executing
  <2>3. CASE OpenFails(i) \/ PtyNeverReady(i)
    <3>1. ~Executing(i, a)
      BY <2>1, <2>3 DEF Waits, OpenFails, PtyNeverReady, Executing, OnConsole
    <3>2. phase'[i] \in {"redispatch", "failed"} /\ UNCHANGED <<proc, packing, unsettled>>
      BY <2>3, Reading DEF OpenFails, PtyNeverReady, remote
    <3> QED
      BY <1>1, <2>2, <3>1, <3>2 DEF Waits
  <2>4. CASE StatusArrives(i)
    <3>1. ~Executing(i, a)
      BY <2>1, <2>4 DEF Waits, StatusArrives, Executing, Latest
    <3>2. /\ phase'[i] \in {"accepting", "redispatch", "failed"}
          /\ UNCHANGED <<proc, packing, unsettled>>
      BY <2>4, Reading DEF StatusArrives, remote
    <3> QED
      BY <1>1, <2>2, <3>1, <3>2 DEF Waits
  <2>5. CASE SnapshotStatus(i)
    <3>1. ~Executing(i, a)
      BY <2>1, <2>5 DEF Waits, SnapshotStatus, Executing, Snapshot
    <3>2. /\ phase'[i] \in {"accepting", "redispatch", "failed"}
          /\ UNCHANGED <<proc, packing, unsettled>>
      BY <2>5, Reading DEF SnapshotStatus, remote
    <3> QED
      BY <1>1, <2>2, <3>1, <3>2 DEF Waits
  <2>6. CASE Accept(i)
    <3>1. ~Executing(i, a)
      BY <2>1, <2>6 DEF Waits, Accept
    <3>2. /\ phase'[i] \in {"done", "redispatch", "failed"}
          /\ UNCHANGED <<proc, packing, unsettled>>
      BY <2>6, Reading DEF Accept, remote
    <3> QED
      BY <1>1, <2>2, <3>1, <3>2 DEF Waits
  <2>7. CASE ConnectionEnds(i) \/ PtyEnds(i)
    <3>1. phase'[i] = "unsettled" /\ <<i, a>> \in unsettled'
      BY <2>7, Reading DEF ConnectionEnds, PtyEnds
    <3> QED
      BY <1>1, <3>1 DEF Waits
  <2>8. CASE SendCommand(i)
    <3>1. phase[i] = "opening" /\ ~console[i][a] /\ packing' = packing
      BY <2>8 DEF SendCommand, OnConsole
    <3>2. \/ phase'[i] = "watching" /\ unsettled' = unsettled
          \/ phase'[i] = "unsettled" /\ <<i, a>> \in unsettled'
      BY <2>8, Reading DEF SendCommand
    <3> QED
      BY <1>1, <2>1, <3>1, <3>2 DEF Waits
  <2>9. CASE PtyReady(i)
    <3>1. /\ phase[i] = "opening" /\ console[i][a] /\ UNCHANGED <<packing, unsettled>>
          /\ phase'[i] = "ready" /\ proc'[i][a] = "idle"
      BY <1>1, <2>9, Reading DEF PtyReady, OnConsole
    <3> QED
      BY <1>1, <2>1, <3>1 DEF Waits
  <2>10. CASE SendTurn(i)
    <3>1. phase[i] = "ready" /\ packing' = packing
      BY <2>10 DEF SendTurn
    <3>2. \/ phase'[i] = "waiting" /\ unsettled' = unsettled /\ proc'[i][a] = "working"
          \/ phase'[i] = "unsettled" /\ <<i, a>> \in unsettled'
      BY <1>1, <2>10, Reading DEF SendTurn, Submitted
    <3> QED
      BY <1>1, <2>1, <3>1, <3>2 DEF Waits
  <2>11. CASE TurnIdle(i)
    <3>1. phase[i] = "waiting" /\ proc[i][a] # "working" /\ UNCHANGED <<proc, packing, unsettled>>
      BY <2>11 DEF TurnIdle, Quiet, Latest, remote
    <3>2. \/ phase'[i] \in {"redispatch", "failed"} /\ proc[i][a] = "failed"
          \/ phase'[i] = "snapshot" /\ proc[i][a] # "failed"
      BY <2>11, Reading DEF TurnIdle, Latest
    <3>3. packing[i][a] = "none" /\ console[i][a] /\ proc[i][a] \in {"failed", "finished", "gone"}
      BY <2>1, <3>1 DEF Waits
    <3>4. proc[i][a] = "failed" => ~Executing(i, a)
      BY <3>3 DEF Executing
    <3> QED
      BY <1>1, <2>2, <3>1, <3>2, <3>3, <3>4 DEF Waits
  <2>12. CASE SendSnapshot(i)
    <3>1. phase[i] = "snapshot" /\ proc' = proc
      BY <2>12 DEF SendSnapshot
    <3>2. \/ phase'[i] = "watchingSnapshot" /\ unsettled' = unsettled
          \/ phase'[i] = "unsettled" /\ <<i, a>> \in unsettled'
      BY <2>12, Reading DEF SendSnapshot
    <3> QED
      BY <1>1, <2>1, <3>1, <3>2 DEF Waits
  <2> QED
    BY <2>3, <2>4, <2>5, <2>6, <2>7, <2>8, <2>9, <2>10, <2>11, <2>12 DEF Coordinator
<1>6. Fresh(i)' /\ Past(i)'
  <2>1. ASSUME NEW b \in Attempt, b # a
        PROVE  (Executing(i, b)' <=> Executing(i, b)) /\ SameCell(i, b)
    <3>1. SameCell(i, b)
      BY <1>2, <2>1
    <3>2. UNCHANGED <<proc[i][b], packing[i][b], console>>
      BY <1>1, <3>1 DEF SameCell
    <3> QED
      BY <3>1, <3>2 DEF Executing
  <2>2. Fresh(i)'
    <3>1. ASSUME NEW b \in Attempt, b > a
          PROVE  proc'[i][b] = "none" /\ packing'[i][b] = "none" /\ result'[i][b] = NoTree
      <4>1. b # a /\ proc[i][b] = "none" /\ packing[i][b] = "none" /\ result[i][b] = NoTree
        BY <1>1, <1>3, <3>1 DEF Placed, Fresh, Attempt
      <4> QED
        BY <2>1, <4>1 DEF SameCell
    <3> QED
      BY <1>1, <3>1 DEF Fresh
  <2>3. Past(i)'
    <3>1. ASSUME NEW b \in Attempt, b < a PROVE <<i, b>> \in unsettled' \/ ~Executing(i, b)'
      <4>1. b # a /\ (<<i, b>> \in unsettled \/ ~Executing(i, b))
        BY <1>1, <1>3, <3>1 DEF Placed, Past, Attempt
      <4> QED
        BY <2>1, <4>1 DEF SameCell
    <3> QED
      BY <1>1, <3>1 DEF Past
  <2> QED
    BY <2>2, <2>3
<1>7. Pending(i)'
  <2>1. unsettled' = unsettled \/ unsettled' = unsettled \cup {<<i, a>>}
    BY Written
  <2>2. <<i, a>> \notin unsettled
    BY <1>1, <1>3 DEF Placed, Pending, UnderWay, Between
  <2>3. ASSUME NEW b \in Attempt, <<i, b>> \in unsettled'
        PROVE  /\ b <= attempt[i] /\ (b = attempt[i] => phase'[i] = "unsettled")
               /\ i \notin Checker => b = attempt[i]
    <3>1. CASE b = a
      BY <1>1, <1>5, <2>2, <2>3, <3>1
    <3>2. CASE b # a
      BY <1>2, <1>3, <2>3, <3>2 DEF SameCell, Placed, Pending
    <3> QED
      BY <3>1, <3>2
  <2> QED
    BY <1>1, <2>3 DEF Pending
<1>8. ASSUME NEW j \in Item PROVE Placed(j)'
  BY <1>2, <1>3, <1>5, <1>6, <1>7, PlacedElsewhere DEF Placed
<1>9. EndInv'
  BY <1>1, <1>4 DEF EndInv
<1> QED
  BY <1>8, <1>9 DEF PlacedInv

LEMMA PlacedEnd ==
  ASSUME TypeInv, PlacedInv, EndRun
  PROVE  PlacedInv'
<1>1. /\ UNCHANGED <<phase, attempt, console, proc, packing, unsettled>> /\ AtRest
      /\ exchange' = "deleted" => unsettled = {}
  BY DEF EndRun, ledger
<1>2. ASSUME NEW i \in Item, NEW a \in Attempt PROVE result'[i][a] = result[i][a] \/ result'[i][a] = NoTree
  BY <1>2, Types DEF EndRun, RemoteTypes
<1>3. ASSUME NEW i \in Item PROVE Placed(i)'
  <2>1. Placed(i) /\ phase[i] \in Between \cup {"idle"}
    BY <1>1 DEF PlacedInv, AtRest
  <2>2. \A a : Executing(i, a)' <=> Executing(i, a)
    BY <1>1 DEF Executing
  <2>3. Waits(i)'
    BY <1>1, <2>1, <2>2 DEF Placed, Waits, Between
  <2>4. Fresh(i)' /\ Past(i)' /\ Pending(i)'
    BY <1>1, <1>2, <2>1, <2>2 DEF Placed, Fresh, Past, Pending
  <2> QED
    BY <2>3, <2>4 DEF Placed
<1>4. EndInv'
  BY <1>1 DEF EndInv, AtRest
<1> QED
  BY <1>3, <1>4 DEF PlacedInv

LEMMA PlacedInit == Init => PlacedInv
<1> SUFFICES ASSUME Init PROVE PlacedInv
  OBVIOUS
<1>1. ASSUME NEW i \in Item, NEW a \in Attempt
      PROVE  proc[i][a] = "none" /\ packing[i][a] = "none" /\ result[i][a] = NoTree /\ ~Executing(i, a)
  BY DEF Init, Executing
<1>2. ASSUME NEW i \in Item PROVE phase[i] = "idle" /\ unsettled = {} /\ Placed(i)
  BY <1>1 DEF Init, Placed, Waits, Fresh, Past, Pending
<1> QED
  BY <1>2 DEF PlacedInv, EndInv, Init

LEMMA PlacedStep ==
  ASSUME ~Stalls
  PROVE  TypeInv /\ PlacedInv /\ [Next]_vars => PlacedInv'
<1> SUFFICES ASSUME TypeInv, PlacedInv, [Next]_vars PROVE PlacedInv'
  OBVIOUS
<1>1. ASSUME UNCHANGED vars PROVE PlacedInv'
  <2>1. ASSUME NEW j \in Item PROVE Same(j)
    BY <1>1 DEF vars, Same
  <2>2. EndInv'
    BY <1>1 DEF vars, PlacedInv, EndInv, AtRest
  <2> QED
    BY <2>1, <2>2, PlacedElsewhere DEF PlacedInv
<1> QED
  BY <1>1, PlacedEnd, PlacedOpening, PlacedCoordinator, PlacedRemote DEF Next

LEMMA Placement ==
  ASSUME ~Stalls
  PROVE  Spec => [](TypeInv /\ PlacedInv)
<1>1. Init => TypeInv /\ PlacedInv
  BY TypeInit, PlacedInit
<1>2. TypeInv /\ PlacedInv /\ [Next]_vars => (TypeInv /\ PlacedInv)'
  BY TypeStep, PlacedStep
<1> QED
  BY <1>1, <1>2, PTL DEF Spec

(* A builder's turn is dispatched again only when its earlier attempt is known  *)
(* to have ended (engine._runtime_cli), so two attempts of a builder never work *)
(* at once - provided that a working TUI keeps repainting its terminal.         *)
THEOREM NoBuilderOverlaps ==
  ASSUME ~Stalls
  PROVE  Spec => []BuildersNeverOverlap
<1>1. ASSUME TypeInv, PlacedInv PROVE BuildersNeverOverlap
  <2>1. ASSUME NEW i \in Item \ Checker, NEW b \in Attempt, Executing(i, b) PROVE b = attempt[i]
    <3>1. Placed(i) /\ attempt[i] \in Nat
      BY <1>1, Types DEF PlacedInv
    <3>2. ~(b > attempt[i])
      BY <2>1, <3>1 DEF Placed, Fresh, Executing
    <3>3. ~(b < attempt[i])
      <4>1. b < attempt[i] => <<i, b>> \in unsettled
        BY <2>1, <3>1 DEF Placed, Past
      <4>2. <<i, b>> \in unsettled => b = attempt[i]
        BY <2>1, <3>1 DEF Placed, Pending
      <4> QED
        BY <3>1, <4>1, <4>2
    <3> QED
      BY <3>1, <3>2, <3>3 DEF Attempt
  <2> QED
    BY <2>1 DEF BuildersNeverOverlap, OneExecution
<1> QED
  BY <1>1, Placement, PTL

(* The run's transfer archives are deleted only when nothing remote can still   *)
(* read or write them (engine._drive_bound's cleanup).                          *)
THEOREM DeletedAfterWork ==
  ASSUME ~Stalls
  PROVE  Spec => []ArchivesOutliveWork
<1>1. ASSUME TypeInv, PlacedInv PROVE ArchivesOutliveWork
  <2>1. ASSUME exchange = "deleted", NEW i \in Item, NEW b \in Attempt, Executing(i, b) PROVE FALSE
    <3>1. Placed(i) /\ attempt[i] \in Nat /\ unsettled = {} /\ phase[i] \in Between \cup {"idle"}
      BY <1>1, <2>1, Types DEF PlacedInv, EndInv, AtRest
    <3>2. ~(b > attempt[i])
      BY <2>1, <3>1 DEF Placed, Fresh, Executing
    <3>3. ~(b < attempt[i])
      BY <2>1, <3>1 DEF Placed, Past
    <3>4. b # attempt[i]
      <4>1. phase[i] = "idle" => attempt[i] = 0
        BY <1>1, Types DEF Counted, PlaceTypes
      <4> QED
        BY <2>1, <3>1, <4>1 DEF Placed, Waits, Between, Attempt
    <3> QED
      BY <3>1, <3>2, <3>3, <3>4 DEF Attempt
  <2> QED
    BY <2>1 DEF ArchivesOutliveWork
<1> QED
  BY <1>1, Placement, PTL

-----------------------------------------------------------------------------
(* What a tree holds: whole work of earlier attempts known to have completed,   *)
(* and besides it the latest attempt's own.                                     *)
Prior(i, w) == w[2] = "whole" /\ w[1] < attempt[i] /\ <<i, w[1]>> \notin unsettled
Whole(i) == <<attempt[i], "whole">>
Own(i, T) == Whole(i) \in T /\ \A w \in T : w = Whole(i) \/ Prior(i, w)

Sealed(i) ==
    input[i] # NoTree => \A w \in input[i] :
        Prior(i, w) \/ (w = Whole(i) /\ phase[i] \in {"done", "failed", "redispatch"})

Worked(i) ==
    LET a == attempt[i]
    IN  /\ phase[i] = "ready" => \A w \in tree[i][a] : Prior(i, w)
        /\ phase[i] \in {"watching", "waiting", "snapshot", "watchingSnapshot"} =>
             /\ proc[i][a] = "working" => \A w \in tree[i][a] : w = <<a, "part">> \/ Prior(i, w)
             /\ proc[i][a] = "finished" => Own(i, tree[i][a])
             /\ proc[i][a] = "exit0" \/ packing[i][a] = "exit0" => Own(i, result[i][a])
        /\ phase[i] = "accepting" => Own(i, result[i][a])
        /\ phase[i] = "done" /\ exchange = "open" => Whole(i) \in input[i]

SealInv == \A i \in Item : Sealed(i) /\ Worked(i)

(* What stays true of a tree while no further attempt is made.                  *)
LEMMA PriorKept ==
  ASSUME NEW i \in Item, attempt[i] \in Nat, attempt'[i] = attempt[i],
         \A a : <<i, a>> \in unsettled' => <<i, a>> \in unsettled \/ a = attempt[i]
  PROVE  /\ Whole(i)' = Whole(i)
         /\ \A w : Prior(i, w) => Prior(i, w)'
         /\ \A T : Own(i, T) => Whole(i)' \in T /\ \A w \in T : w = Whole(i)' \/ Prior(i, w)'
<1>1. Whole(i)' = Whole(i)
  BY DEF Whole
<1>2. ASSUME NEW w, Prior(i, w) PROVE Prior(i, w)'
  BY <1>2 DEF Prior
<1> QED
  BY <1>1, <1>2 DEF Own

LEMMA SealedElsewhere ==
  ASSUME NEW j \in Item, attempt[j] \in Nat, Sealed(j), Worked(j), Same(j),
         exchange' = "open" => exchange = "open"
  PROVE  Sealed(j)' /\ Worked(j)'
<1>1. UNCHANGED <<phase[j], attempt[j], proc[j], packing[j], tree[j], result[j], input[j]>>
  BY DEF Same
<1>2. /\ Whole(j)' = Whole(j)
      /\ \A w : Prior(j, w) => Prior(j, w)'
  BY <1>1, PriorKept DEF Same
<1>3. Sealed(j)'
  BY <1>1, <1>2 DEF Sealed
<1>4. Worked(j)'
  BY <1>1, <1>2 DEF Worked, Own
<1> QED
  BY <1>3, <1>4

LEMMA SealedRemote ==
  ASSUME TypeInv, PlacedInv, SealInv, NEW i \in Item, NEW a \in Attempt, Remote(i, a)
  PROVE  SealInv'
<1>1. /\ UNCHANGED <<phase, attempt, console, input, unsettled, exchange>>
      /\ \A b \in Attempt : b # a => SameCell(i, b)
      /\ \A j \in Item : j # i => Same(j)
      /\ RemoteTypes /\ Waits(i) /\ Sealed(i) /\ Worked(i)
  BY RemoteOnly, Types DEF ledger, PlacedInv, Placed, SealInv
<1>2. \A j \in Item : attempt[j] \in Nat
  BY Types
<1>3. /\ Whole(i)' = Whole(i)
      /\ \A w : Prior(i, w) => Prior(i, w)'
      /\ \A T : Own(i, T) => Whole(i)' \in T /\ \A w \in T : w = Whole(i)' \/ Prior(i, w)'
  BY <1>1, <1>2, PriorKept
<1>4. Sealed(i)'
  BY <1>1, <1>3 DEF Sealed
<1>5. Worked(i)'
  <2>1. CASE phase[i] \in {"watching", "waiting", "snapshot", "watchingSnapshot"} /\ attempt[i] = a
    <3>1. proc'[i][a] = "working" => \A w \in tree'[i][a] : w = <<a, "part">> \/ Prior(i, w)
      <4>1. CASE Hydrate(i, a)
        <5>1. \A w \in input[i] : input[i] # NoTree => Prior(i, w)
          BY <1>1, <2>1 DEF Sealed
        <5>2. proc'[i][a] = "working" =>
                 input[i] # NoTree /\ tree'[i][a] = input[i] \cup {<<a, "part">>}
          BY <1>1, <4>1 DEF Hydrate, Becomes, RemoteTypes
        <5> QED
          BY <5>1, <5>2
      <4>2. CASE ~Hydrate(i, a)
        <5>1. proc'[i][a] = "working" => proc[i][a] = "working" /\ tree'[i][a] = tree[i][a]
          BY <1>1, <4>2 DEF Remote, WorkEnds, CommandExits, SnapshotExits, Vanish, Becomes, RemoteTypes
        <5> QED
          BY <1>1, <2>1, <5>1 DEF Worked
      <4> QED
        BY <4>1, <4>2
    <3>2. proc'[i][a] = "finished" => Own(i, tree'[i][a])
      <4>1. CASE WorkEnds(i, a)
        <5>1. \A w \in tree[i][a] : w = <<a, "part">> \/ Prior(i, w)
          BY <1>1, <2>1, <4>1 DEF Worked, WorkEnds
        <5>2. proc'[i][a] = "finished" =>
                 tree'[i][a] = (tree[i][a] \ {<<a, "part">>}) \cup {<<a, "whole">>}
          BY <1>1, <4>1 DEF WorkEnds, Becomes, RemoteTypes
        <5> QED
          BY <2>1, <5>1, <5>2 DEF Own, Whole
      <4>2. CASE ~WorkEnds(i, a)
        <5>1. proc'[i][a] = "finished" => proc[i][a] = "finished" /\ tree'[i][a] = tree[i][a]
          BY <1>1, <4>2 DEF Remote, Hydrate, CommandExits, SnapshotExits, Vanish, Becomes, RemoteTypes
        <5> QED
          BY <1>1, <2>1, <5>1 DEF Worked
      <4> QED
        BY <4>1, <4>2
    <3>3. proc'[i][a] = "exit0" \/ packing'[i][a] = "exit0" => Own(i, result'[i][a])
      <4>1. CASE CommandExits(i, a)
        <5>1. \/ proc[i][a] = "finished" /\ result'[i][a] = tree[i][a]
              \/ result' = result /\ proc'[i][a] = "exit1"
              \/ proc'[i][a] = "exit1"
          BY <1>1, <4>1 DEF CommandExits, Upload, Becomes, RemoteTypes
        <5>2. packing'[i][a] = packing[i][a] /\ packing[i][a] # "exit0"
          BY <1>1, <2>1, <4>1 DEF CommandExits, Waits
        <5> QED
          BY <1>1, <2>1, <5>1, <5>2 DEF Worked
      <4>2. CASE SnapshotExits(i, a)
        <5>1. \/ proc[i][a] # "gone" /\ result'[i][a] = tree[i][a]
              \/ packing'[i][a] = "exit1"
          BY <1>1, <4>2 DEF SnapshotExits, Upload, RemoteTypes
        <5>2. proc'[i][a] = proc[i][a] /\ proc[i][a] \in {"finished", "gone"}
          BY <1>1, <2>1, <4>2 DEF SnapshotExits, Waits
        <5> QED
          BY <1>1, <2>1, <5>1, <5>2 DEF Worked
      <4>3. CASE Hydrate(i, a) \/ WorkEnds(i, a) \/ Vanish(i, a)
        <5>1. /\ proc'[i][a] # "exit0" /\ packing'[i][a] = packing[i][a]
              /\ result'[i][a] = result[i][a]
          BY <1>1, <4>3 DEF Hydrate, WorkEnds, Vanish, Becomes, RemoteTypes
        <5> QED
          BY <1>1, <2>1, <5>1 DEF Worked
      <4> QED
        BY <4>1, <4>2, <4>3 DEF Remote
    <3> QED
      BY <1>1, <1>3, <2>1, <3>1, <3>2, <3>3 DEF Worked, Own
  <2>2. CASE phase[i] = "ready" /\ attempt[i] = a
    <3>1. tree'[i][a] = tree[i][a]
      BY <1>1, <2>2 DEF Waits, Remote, Hydrate, WorkEnds, CommandExits, SnapshotExits, Vanish
    <3> QED
      BY <1>1, <1>3, <2>2, <3>1 DEF Worked
  <2>3. CASE phase[i] = "accepting" /\ attempt[i] = a
    <3>1. result'[i][a] = result[i][a]
      BY <1>1, <2>3 DEF Waits, Executing, Remote, Hydrate, WorkEnds, CommandExits, SnapshotExits, Vanish
    <3> QED
      BY <1>1, <1>3, <2>3, <3>1 DEF Worked, Own
  <2>4. CASE attempt[i] # a /\ attempt[i] \in Attempt
    <3>1. UNCHANGED <<proc[i][attempt[i]], packing[i][attempt[i]], tree[i][attempt[i]], result[i][attempt[i]]>>
      BY <1>1, <2>4 DEF SameCell
    <3> QED
      BY <1>1, <1>3, <3>1 DEF Worked, Own
  <2>5. CASE phase[i] \notin {"watching", "waiting", "snapshot", "watchingSnapshot", "ready", "accepting"}
    BY <1>1, <1>3, <2>5 DEF Worked
  <2>6. phase[i] \in {"watching", "waiting", "snapshot", "watchingSnapshot", "ready", "accepting"}
           => attempt[i] \in Attempt
    BY Types
  <2> QED
    BY <2>1, <2>2, <2>3, <2>4, <2>5, <2>6
<1> QED
  BY <1>1, <1>2, <1>4, <1>5, SealedElsewhere DEF SealInv

LEMMA SealedOpening ==
  ASSUME TypeInv, PlacedInv, SealInv, NEW i \in Item, BeginTurn(i) \/ Redispatch(i)
  PROVE  SealInv'
<1>1. Opening(i) /\ attempt[i] + 1 \in Attempt /\ attempt[i] \in Nat
  BY OpeningSteps
<1>2. /\ phase'[i] = "opening" /\ attempt'[i] = attempt[i] + 1
      /\ input'[i] = input[i] \/ input'[i] = Base
      /\ \A j \in Item : j # i => Same(j)
      /\ UNCHANGED <<unsettled, exchange>>
  BY <1>1, OpeningOnly DEF Opening
<1>3. Placed(i) /\ Sealed(i) /\ \A j \in Item : Sealed(j) /\ Worked(j) /\ attempt[j] \in Nat
  BY Types DEF PlacedInv, SealInv
<1>4. Sealed(i)'
  <2>1. ASSUME NEW w \in input[i], input[i] # NoTree PROVE Prior(i, w)'
    <3>1. w[1] \in Attempt
      <4>1. input[i] \in Tree \cup {NoTree}
        BY Types DEF SealTypes
      <4> QED
        BY <2>1, <4>1 DEF Tree
    <3>2. CASE Prior(i, w)
      BY <1>1, <1>2, <3>1, <3>2 DEF Prior, Attempt
    <3>3. CASE w = Whole(i) /\ phase[i] \in {"done", "failed", "redispatch"}
      <4>1. w[1] = attempt[i] /\ w[2] = "whole" /\ <<i, attempt[i]>> \notin unsettled
        BY <1>3, <3>1, <3>3 DEF Whole, Placed, Pending
      <4> QED
        BY <1>1, <1>2, <4>1 DEF Prior
    <3> QED
      BY <1>3, <2>1, <3>2, <3>3 DEF Sealed
  <2> QED
    BY <1>2, <2>1 DEF Sealed, Base
<1>5. Worked(i)'
  BY <1>2 DEF Worked
<1> QED
  BY <1>2, <1>3, <1>4, <1>5, SealedElsewhere DEF SealInv

LEMMA SealedCoordinator ==
  ASSUME TypeInv, PlacedInv, SealInv, ~Stalls, NEW i \in Item, Coordinator(i), ~Redispatch(i)
  PROVE  SealInv'
<1> DEFINE a == attempt[i]
<1>1. /\ UNCHANGED <<turns, tries, attempt, console, exchange, result>>
      /\ a \in Attempt /\ phase[i] \in UnderWay \ {"redispatch"} /\ \A j \in Item : attempt[j] \in Nat
  <2>1. phase[i] # "redispatch"
    BY DEF Coordinator, OpenFails, SendCommand, StatusArrives,
     ConnectionEnds, PtyReady, PtyNeverReady, SendTurn, TurnIdle, PtyEnds, SendSnapshot,
     SnapshotStatus, Accept, Redispatch
  <2> QED
    BY <2>1, UnderWayOnly, Written, Types
<1>2. \A j \in Item : j # i => Same(j)
  BY <1>1, OtherCells DEF Same
<1>3. Placed(i) /\ Waits(i) /\ Sealed(i) /\ Worked(i) /\ PlacedInv'
  BY PlacedCoordinator DEF PlacedInv, Placed, SealInv
<1>4. /\ Whole(i)' = Whole(i)
      /\ \A w : Prior(i, w) => Prior(i, w)'
      /\ \A T : Own(i, T) => Whole(i)' \in T /\ \A w \in T : w = Whole(i)' \/ Prior(i, w)'
  <2>1. unsettled' = unsettled \/ unsettled' = unsettled \cup {<<i, a>>}
    BY Written
  <2> QED
    BY <1>1, <2>1, PriorKept
<1>5. input[i] # NoTree => \A w \in input[i] : Prior(i, w)
  BY <1>1, <1>3 DEF Sealed, UnderWay, Between
<1>6. ASSUME input' = input PROVE Sealed(i)'
  BY <1>4, <1>5, <1>6 DEF Sealed
<1>7. ASSUME Accept(i) PROVE Sealed(i)' /\ Worked(i)'
  <2>1. Own(i, result[i][a])
    BY <1>3, <1>7 DEF Accept, Worked
  <2>2. phase'[i] \in {"done", "failed", "redispatch"}
    BY <1>7, Reading DEF Accept
  <2>3. CASE input' = input /\ phase'[i] # "done"
    BY <1>6, <2>2, <2>3 DEF Worked
  <2>4. CASE input'[i] = result[i][a]
    BY <1>4, <2>1, <2>2, <2>4 DEF Sealed, Worked, Own
  <2> QED
    BY <1>7, <2>3, <2>4, Reading DEF Accept
<1>8. ASSUME OpenFails(i) \/ PtyNeverReady(i) \/ ConnectionEnds(i) \/ PtyEnds(i) PROVE Sealed(i)' /\ Worked(i)'
  <2>1. phase'[i] \in {"redispatch", "failed", "unsettled"} /\ input' = input
    BY <1>8, Reading DEF OpenFails, PtyNeverReady, ConnectionEnds, PtyEnds
  <2> QED
    BY <1>6, <2>1 DEF Worked
<1>9. ASSUME StatusArrives(i) \/ SnapshotStatus(i) PROVE Sealed(i)' /\ Worked(i)'
  <2>1. input' = input
    BY <1>9 DEF StatusArrives, SnapshotStatus
  <2>2. phase'[i] \in {"accepting", "redispatch", "failed"}
    BY <1>9, Reading DEF StatusArrives, SnapshotStatus
  <2>3. phase'[i] = "accepting" => Own(i, result[i][a])
    BY <1>3, <1>9, Reading DEF StatusArrives, SnapshotStatus, Latest, Snapshot, Worked
  <2> QED
    BY <1>1, <1>4, <1>6, <2>1, <2>2, <2>3 DEF Worked, Own
<1>10. ASSUME SendCommand(i) PROVE Sealed(i)' /\ Worked(i)'
  <2>1. input' = input /\ packing' = packing /\ packing[i][a] = "none"
    BY <1>3, <1>10 DEF SendCommand, Waits
  <2>2. \/ phase'[i] = "watching" /\ proc'[i][a] = "sent"
        \/ phase'[i] = "unsettled"
    BY <1>1, <1>10, Reading DEF SendCommand
  <2> QED
    BY <1>1, <1>6, <2>1, <2>2 DEF Worked
<1>11. ASSUME PtyReady(i) PROVE Sealed(i)' /\ Worked(i)'
  <2>1. input' = input /\ phase'[i] = "ready" /\ input[i] # NoTree /\ tree'[i][a] = input[i]
    BY <1>1, <1>11, Reading, Types DEF PtyReady, RemoteTypes
  <2> QED
    BY <1>1, <1>4, <1>5, <1>6, <2>1 DEF Worked
<1>12. ASSUME SendTurn(i) PROVE Sealed(i)' /\ Worked(i)'
  <2>1. input' = input /\ packing' = packing /\ packing[i][a] = "none"
    BY <1>3, <1>12 DEF SendTurn, Waits
  <2>2. \/ /\ phase'[i] = "waiting" /\ proc'[i][a] = "working"
           /\ tree'[i][a] = tree[i][a] \cup {<<a, "part">>}
        \/ phase'[i] = "unsettled"
    BY <1>1, <1>12, Reading, Types DEF SendTurn, Submitted, RemoteTypes
  <2>3. \A w \in tree[i][a] : Prior(i, w)
    BY <1>3, <1>12 DEF SendTurn, Worked
  <2> QED
    BY <1>1, <1>4, <1>6, <2>1, <2>2, <2>3 DEF Worked
<1>13. ASSUME TurnIdle(i) \/ SendSnapshot(i) PROVE Sealed(i)' /\ Worked(i)'
  <2>1. input' = input /\ UNCHANGED <<proc, tree>> /\ phase[i] \in {"waiting", "snapshot"}
    BY <1>13 DEF TurnIdle, SendSnapshot, remote
  <2>2. phase'[i] \in {"redispatch", "failed", "unsettled", "snapshot", "watchingSnapshot"}
    BY <1>13, Reading DEF TurnIdle, SendSnapshot
  <2>3. packing'[i][a] = packing[i][a] \/ packing'[i][a] = "running"
    BY <1>1, <1>13, Reading DEF TurnIdle, SendSnapshot, remote
  <2> QED
    BY <1>1, <1>3, <1>4, <1>6, <2>1, <2>2, <2>3 DEF Worked, Own
<1>14. Sealed(i)' /\ Worked(i)'
  BY <1>7, <1>8, <1>9, <1>10, <1>11, <1>12, <1>13 DEF Coordinator
<1> QED
  BY <1>1, <1>2, <1>14, SealedElsewhere DEF SealInv

LEMMA SealedEnd ==
  ASSUME TypeInv, SealInv, EndRun
  PROVE  SealInv'
<1>1. /\ UNCHANGED <<phase, attempt, proc, packing, tree, unsettled>> /\ exchange' # "open"
      /\ \A i \in Item : phase[i] \in Between \cup {"idle"} /\ attempt[i] \in Nat
  BY Types DEF EndRun, AtRest, ledger
<1>2. \A i \in Item : input'[i] = input[i] \/ input'[i] = NoTree
  BY DEF EndRun
<1>3. ASSUME NEW i \in Item PROVE Sealed(i)' /\ Worked(i)'
  <2>1. Whole(i)' = Whole(i) /\ \A w : Prior(i, w) => Prior(i, w)'
    BY <1>1, PriorKept
  <2>2. Sealed(i)'
    BY <1>1, <1>2, <2>1 DEF SealInv, Sealed
  <2>3. Worked(i)'
    BY <1>1 DEF Worked, Between
  <2> QED
    BY <2>2, <2>3
<1> QED
  BY <1>3 DEF SealInv

LEMMA SealedStep ==
  ASSUME ~Stalls
  PROVE  TypeInv /\ PlacedInv /\ SealInv /\ [Next]_vars => SealInv'
<1> SUFFICES ASSUME TypeInv, PlacedInv, SealInv, [Next]_vars PROVE SealInv'
  OBVIOUS
<1>1. ASSUME UNCHANGED vars PROVE SealInv'
  <2>1. ASSUME NEW j \in Item PROVE Same(j) /\ attempt[j] \in Nat
    BY <1>1, Types DEF vars, Same
  <2>2. exchange' = exchange
    BY <1>1 DEF vars
  <2> QED
    BY <2>1, <2>2, SealedElsewhere DEF SealInv
<1> QED
  BY <1>1, SealedEnd, SealedOpening, SealedCoordinator, SealedRemote DEF Next

(* What was sealed as a role's next input is only whole work of attempts known  *)
(* to have completed, and a turn reported as done has its own work there        *)
(* (runtime_stage.accept_result) - of a working TUI that keeps repainting.      *)
THEOREM SealsAreFaithful ==
  ASSUME ~Stalls
  PROVE  Spec => []SealIsFaithful
<1>1. Init => SealInv
  <2>1. ASSUME Init, NEW i \in Item PROVE Sealed(i) /\ Worked(i)
    BY <2>1 DEF Init, Sealed, Worked, Base
  <2> QED
    BY <2>1 DEF SealInv
<1>2. ASSUME TypeInv, PlacedInv, SealInv PROVE SealIsFaithful
  <2>1. ASSUME NEW i \in Item, input[i] # NoTree, NEW w \in input[i]
        PROVE  w[2] = "whole" /\ <<i, w[1]>> \notin unsettled
    <3>1. Placed(i) /\ Sealed(i) /\ attempt[i] \in Nat
      BY <1>2, Types DEF PlacedInv, SealInv
    <3>2. CASE Prior(i, w)
      BY <3>2 DEF Prior
    <3>3. CASE w = Whole(i) /\ phase[i] \in {"done", "failed", "redispatch"}
      <4>1. w[1] = attempt[i] /\ w[2] = "whole"
        BY <3>3 DEF Whole
      <4>2. w[1] \in Attempt
        BY <1>2, <3>3, <4>1, Types
      <4> QED
        BY <3>1, <3>3, <4>1, <4>2 DEF Placed, Pending
    <3> QED
      BY <2>1, <3>1, <3>2, <3>3 DEF Sealed
  <2>2. DoneIsSealed
    BY <1>2 DEF SealInv, Worked, DoneIsSealed, Whole
  <2> QED
    BY <2>1, <2>2 DEF SealIsFaithful, SealedWorkIsWhole
<1> QED
  BY <1>1, <1>2, Placement, SealedStep, PTL DEF Spec
==============================================================================
