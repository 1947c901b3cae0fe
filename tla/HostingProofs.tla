----------------------------- MODULE HostingProofs -----------------------------
(***************************************************************************)
(* Proofs about the project hosts: publishing a copied game, and the shells of  *)
(* interactive sessions.  Every section has an inductive invariant of its        *)
(* component, the lemmas that show that a step keeps it, and the theorem.  The    *)
(* last theorem gathers the types of all the services' components.              *)
(***************************************************************************)
EXTENDS MCServices, ServicesProofs, SequenceTheorems

-----------------------------------------------------------------------------
(* Publishing a game.  Every operation is a program of which a number of steps is  *)
(* left; what the host looks like depends on how many, and an exception leaves    *)
(* one program for another.  Nothing is claimed once a helper was killed or a     *)
(* rollback failed.                                                            *)

Step == {"capture", "write_on", "load_on", "write_off", "load_off", "stop", "launch", "units",
         "start", "ready", "verify", "origin", "record", "withdraw", "files", "answer"}

\* What is left of a program when it has n steps to go.
Open == Opening(TRUE)
Shut == Opening(FALSE)
RestoreOpen == RestoreSteps(TRUE)
RestoreShut == RestoreSteps(FALSE)
LastSteps(program, n) == SubSeq(program, Len(program) - n + 1, Len(program))

\* An operation of this kind has n steps of its program to go.
IsAt(kind, program, n) ==
    op.kind = kind /\ Len(op.todo) = n /\ op.todo = LastSteps(program, n)

Configuration == [current : [snapshot : Nat, published : BOOLEAN], launch : Nat,
                  units : Nat, route : BOOLEAN]
Operation == [kind : OpKind, todo : Seq(Step), saved : Configuration, before : BOOLEAN]

HostTypes ==
    /\ captured \in Nat /\ launch \in Nat /\ units \in Nat /\ game \in Nat
    /\ current \in [snapshot : Nat, published : BOOLEAN]
    /\ nginx \in [file : BOOLEAN, live : BOOLEAN]
    /\ listening \in BOOLEAN
    /\ op \in Operation

\* A configuration that may be served: its copy is the one on record and was verified.
Servable(c, l, u) == c.published => l = c.snapshot /\ u = c.snapshot /\ c.snapshot \in isolated

(* The host as it is between operations: the file may be ahead of the running   *)
(* nginx, but neither has the route open without a publication on record.       *)
AtRest ==
    /\ Servable(current, launch, units)
    /\ nginx.live \/ nginx.file => current.published
    /\ nginx.live /\ game # None => game = current.snapshot

\* What restore goes back to.
SavedIsServable ==
    /\ Servable(op.saved.current, op.saved.launch, op.saved.units)
    /\ op.saved.route => op.saved.current.published

RouteShut == ~nginx.live /\ ~nginx.file
Stopped == game = None /\ ~listening
RunsCandidate == game = captured \/ game = None

(* publish: until the route is shut the old game stays as it was; from there to   *)
(* the new game's verification the route is shut, and what it opens is verified.  *)
PublishInv(n) ==
    /\ SavedIsServable /\ captured # None
    /\ n >= 2 => current = op.saved.current
    /\ n >= 12 \/ n <= 1 => AtRest
    /\ n = 12 => ~nginx.file /\ (op.before => current.published)
    /\ n \in 5 .. 11 => RouteShut
    /\ n = 4 => nginx.file /\ ~nginx.live /\ ~op.before
    /\ n \in 8 .. 10 => Stopped
    /\ n <= 9 => launch = captured
    /\ n <= 8 => units = captured
    /\ n <= 7 => RunsCandidate
    /\ n <= 5 => captured \in isolated

(* What the route may reach, and what a visitor may start.                      *)
MayServe ==
    nginx.live /\ listening => /\ game # None => game \in isolated
                               /\ Executed # None => Executed \in isolated

(* restore, with n steps to go of its program for a publication, or for none.     *)
FilesRestored ==
    /\ current = op.saved.current /\ launch = op.saved.launch /\ units = op.saved.units

RestoreOpenInv(n) ==
    /\ SavedIsServable /\ op.saved.current.published
    /\ n = 8 => MayServe
    /\ n \in 6 .. 7 => Stopped
    /\ n <= 6 => FilesRestored
    /\ n <= 5 => game = op.saved.launch \/ game = None

RestoreShutInv(n) ==
    /\ SavedIsServable /\ ~op.saved.current.published
    /\ n = 4 => MayServe
    /\ n <= 3 => Stopped
    /\ n <= 2 => FilesRestored
    /\ n <= 1 => ~nginx.file
    /\ n = 0 => ~nginx.live

(* Every other operation keeps the host as it is at rest.                       *)
OtherInv ==
    \/ op = NoOp
    \/ IsAt("capture", <<"capture">>, 1)
    \/ \E n \in 0 .. 5 :
         /\ IsAt("unpublish", UnpublishSteps, n)
         /\ n = 4 => ~nginx.file /\ (op.before => current.published)
         /\ n <= 3 => RouteShut
         /\ n <= 2 => Stopped
    \/ \E n \in 0 .. 1 : IsAt("abort", <<"stop">>, n)
    \/ \E n \in 0 .. 2 :
         /\ IsAt("install", Shut, n)
         /\ n = 1 => ~nginx.file /\ (op.before => current.published)

InOrder ==
    \/ AtRest /\ OtherInv
    \/ \E n \in 0 .. 13 : IsAt("publish", PublishSteps, n) /\ PublishInv(n)
    \/ \E n \in 0 .. 8 : IsAt("restore", RestoreOpen, n) /\ RestoreOpenInv(n)
    \/ \E n \in 0 .. 4 : IsAt("restore", RestoreShut, n) /\ RestoreShutInv(n)

HostInv == disturbed \in BOOLEAN /\ (~disturbed => HostTypes /\ InOrder)

-----------------------------------------------------------------------------
(* The programs, step by step.                                                 *)

\* p is s and then t.
Joins(p, s, t) ==
    /\ p \in Seq(Step) /\ Len(p) = Len(s) + Len(t)
    /\ \A i \in 1 .. Len(s) + Len(t) :
         (i <= Len(s) => p[i] = s[i]) /\ (i > Len(s) => p[i] = t[i - Len(s)])

LEMMA Appending ==
  ASSUME NEW s \in Seq(Step), NEW t \in Seq(Step)
  PROVE  Joins(s \o t, s, t)
BY ConcatProperties DEF Joins

LEMMA OpeningSteps ==
  /\ Open \in Seq(Step) /\ Len(Open) = 2
  /\ Open[1] = "write_on" /\ Open[2] = "load_on"
  /\ Shut \in Seq(Step) /\ Len(Shut) = 2
  /\ Shut[1] = "write_off" /\ Shut[2] = "load_off"
<1>1. Open = <<"write_on", "load_on">> /\ Shut = <<"write_off", "load_off">>
  BY DEF Open, Shut, Opening
<1>2. <<"write_on", "load_on">> \in Seq(Step) /\ <<"write_off", "load_off">> \in Seq(Step)
  BY DEF Step
<1> QED
  BY <1>1, <1>2

LEMMA StartingSteps ==
  /\ Starting \in Seq(Step) /\ Len(Starting) = 6
  /\ Starting[1] = "start" /\ Starting[2] = "ready" /\ Starting[3] = "verify"
  /\ Starting[4] = "write_on" /\ Starting[5] = "load_on" /\ Starting[6] = "origin"
<1> DEFINE s == <<"start", "ready", "verify">>  o == <<"origin">>  p == s \o Open
<1>1. s \in Seq(Step) /\ Len(s) = 3 /\ s[1] = "start" /\ s[2] = "ready" /\ s[3] = "verify"
  BY DEF Step
<1>2. o \in Seq(Step) /\ Len(o) = 1 /\ o[1] = "origin"
  BY DEF Step
<1>3. Starting = p \o o
  BY DEF Starting, Open
<1> HIDE DEF s, o
<1>4. Joins(p, s, Open)
  BY <1>1, OpeningSteps, Appending
<1> HIDE DEF p
<1>5. p \in Seq(Step) /\ Joins(Starting, p, o)
  BY <1>2, <1>3, <1>4, Appending DEF Joins
<1> QED
  BY <1>1, <1>2, <1>4, <1>5, OpeningSteps DEF Joins

LEMMA PublishProgram ==
  /\ PublishSteps \in Seq(Step) /\ Len(PublishSteps) = 13
  /\ PublishSteps[1] = "write_off" /\ PublishSteps[2] = "load_off"
  /\ PublishSteps[3] = "stop" /\ PublishSteps[4] = "launch" /\ PublishSteps[5] = "units"
  /\ PublishSteps[6] = "start" /\ PublishSteps[7] = "ready" /\ PublishSteps[8] = "verify"
  /\ PublishSteps[9] = "write_on" /\ PublishSteps[10] = "load_on"
  /\ PublishSteps[11] = "origin" /\ PublishSteps[12] = "record" /\ PublishSteps[13] = "answer"
<1> DEFINE s == <<"stop", "launch", "units">>  o == <<"record", "answer">>
           p == Shut \o s  q == p \o Starting
<1>1. s \in Seq(Step) /\ Len(s) = 3 /\ s[1] = "stop" /\ s[2] = "launch" /\ s[3] = "units"
  BY DEF Step
<1>2. o \in Seq(Step) /\ Len(o) = 2 /\ o[1] = "record" /\ o[2] = "answer"
  BY DEF Step
<1>3. PublishSteps = q \o o
  BY DEF PublishSteps, Shut
<1> HIDE DEF s, o
<1>4. Joins(p, Shut, s)
  BY <1>1, OpeningSteps, Appending
<1> HIDE DEF p
<1>5. p \in Seq(Step) /\ Joins(q, p, Starting)
  BY <1>4, StartingSteps, Appending DEF Joins
<1> HIDE DEF q
<1>6. q \in Seq(Step) /\ Joins(PublishSteps, q, o)
  BY <1>2, <1>3, <1>5, Appending DEF Joins
<1>7. /\ Len(p) = 5 /\ Len(q) = 11
      /\ p[1] = "write_off" /\ p[2] = "load_off" /\ p[3] = "stop" /\ p[4] = "launch"
      /\ p[5] = "units"
  BY <1>1, <1>4, <1>5, OpeningSteps, StartingSteps DEF Joins
<1>8. /\ q[1] = "write_off" /\ q[2] = "load_off" /\ q[3] = "stop" /\ q[4] = "launch"
      /\ q[5] = "units" /\ q[6] = "start" /\ q[7] = "ready" /\ q[8] = "verify"
      /\ q[9] = "write_on" /\ q[10] = "load_on" /\ q[11] = "origin"
  BY <1>5, <1>7, StartingSteps DEF Joins
<1> QED
  BY <1>2, <1>6, <1>7, <1>8 DEF Joins

LEMMA RestoreProgram ==
  /\ RestoreOpen \in Seq(Step) /\ Len(RestoreOpen) = 8
  /\ RestoreOpen[1] = "stop" /\ RestoreOpen[2] = "files"
  /\ RestoreOpen[3] = "start" /\ RestoreOpen[4] = "ready"
  /\ RestoreOpen[5] = "verify" /\ RestoreOpen[6] = "write_on"
  /\ RestoreOpen[7] = "load_on" /\ RestoreOpen[8] = "origin"
  /\ RestoreShut \in Seq(Step) /\ Len(RestoreShut) = 4
  /\ RestoreShut[1] = "stop" /\ RestoreShut[2] = "files"
  /\ RestoreShut[3] = "write_off" /\ RestoreShut[4] = "load_off"
<1> DEFINE s == <<"stop", "files">>
<1>1. s \in Seq(Step) /\ Len(s) = 2 /\ s[1] = "stop" /\ s[2] = "files"
  BY DEF Step
<1>2. RestoreOpen = s \o Starting /\ RestoreShut = s \o Shut
  BY DEF RestoreOpen, RestoreShut, RestoreSteps, Shut
<1> HIDE DEF s
<1>3. Joins(RestoreOpen, s, Starting)
  BY <1>1, <1>2, Appending, StartingSteps
<1>4. Joins(RestoreShut, s, Shut)
  BY <1>1, <1>2, Appending, OpeningSteps
<1>5. /\ RestoreOpen[1] = "stop" /\ RestoreOpen[2] = "files"
      /\ RestoreOpen[3] = "start" /\ RestoreOpen[4] = "ready"
      /\ RestoreOpen[5] = "verify" /\ RestoreOpen[6] = "write_on"
      /\ RestoreOpen[7] = "load_on" /\ RestoreOpen[8] = "origin"
  BY <1>1, <1>3, StartingSteps DEF Joins
<1>6. /\ RestoreShut[1] = "stop" /\ RestoreShut[2] = "files"
      /\ RestoreShut[3] = "write_off" /\ RestoreShut[4] = "load_off"
  BY <1>1, <1>4, OpeningSteps DEF Joins
<1> QED
  BY <1>1, <1>3, <1>4, <1>5, <1>6, StartingSteps, OpeningSteps DEF Joins

LEMMA UnpublishProgram ==
  /\ UnpublishSteps \in Seq(Step) /\ Len(UnpublishSteps) = 5
  /\ UnpublishSteps[1] = "write_off" /\ UnpublishSteps[2] = "load_off"
  /\ UnpublishSteps[3] = "stop" /\ UnpublishSteps[4] = "withdraw"
  /\ UnpublishSteps[5] = "answer"
<1> DEFINE s == <<"stop", "withdraw", "answer">>
<1>1. s \in Seq(Step) /\ Len(s) = 3 /\ s[1] = "stop" /\ s[2] = "withdraw" /\ s[3] = "answer"
  BY DEF Step
<1>2. UnpublishSteps = Shut \o s
  BY DEF UnpublishSteps, Shut
<1> HIDE DEF s
<1>3. Joins(UnpublishSteps, Shut, s)
  BY <1>1, <1>2, Appending, OpeningSteps
<1> QED
  BY <1>1, <1>3, OpeningSteps DEF Joins

(* A step of a program is its first one that is left; the others stay left.        *)
LEMMA StepOfProgram ==
  ASSUME NEW program \in Seq(Step), NEW n \in 0 .. Len(program)
  PROVE  /\ LastSteps(program, n) \in Seq(Step) /\ Len(LastSteps(program, n)) = n
         /\ (LastSteps(program, n) = <<>>) <=> (n = 0)
         /\ n > 0 => /\ Head(LastSteps(program, n)) = program[Len(program) - n + 1]
                     /\ Tail(LastSteps(program, n)) = LastSteps(program, n - 1)
<1> DEFINE m == Len(program) - n + 1
<1>1. Len(program) \in Nat /\ m \in 1 .. Len(program) + 1
  BY LenProperties
<1>2. CASE n = 0
  <2>1. SubSeq(program, m, Len(program)) = <<>>
    BY <1>1, <1>2, SubSeqEmpty
  <2> QED
    BY <2>1, <1>2, EmptySeq DEF LastSteps
<1>3. CASE n > 0
  <2>1. m \in 1 .. Len(program) /\ Len(program) \in m .. Len(program)
    BY <1>1, <1>3
  <2>2. /\ Head(SubSeq(program, m, Len(program))) = program[m]
        /\ Tail(SubSeq(program, m, Len(program))) = SubSeq(program, m + 1, Len(program))
    BY <2>1, HeadTailOfSubSeq, Zenon
  <2>3. m + 1 = Len(program) - (n - 1) + 1
    BY <1>1
  <2>4. \A i \in m .. Len(program) : program[i] \in Step
    BY <2>1, ElementOfSeq
  <2>5. SubSeq(program, m, Len(program)) \in Seq(Step) /\ Len(SubSeq(program, m, Len(program))) = Len(program) - m + 1
    BY <2>1, <2>4, SubSeqProperties
  <2>6. Len(LastSteps(program, n)) = n
    BY <2>5, <1>1 DEF LastSteps
  <2>7. LastSteps(program, n) # <<>>
    BY <2>6, <1>3, EmptySeq
  <2> QED
    BY <2>2, <2>3, <2>5, <2>6, <2>7, <1>3 DEF LastSteps
<1> QED
  BY <1>2, <1>3

(* A program that begins has all its steps to go.                               *)
LEMMA WholeProgram ==
  ASSUME NEW program \in Seq(Step)
  PROVE  program = LastSteps(program, Len(program))
<1>1. Len(program) \in Nat /\ \A i \in 1 .. Len(program) : program[i] \in Step
  BY LenProperties, ElementOfSeq
<1> DEFINE t == SubSeq(program, 1, Len(program))
<1>2. /\ t \in Seq(Step) /\ Len(t) = IF 1 <= Len(program) THEN Len(program) - 1 + 1 ELSE 0
      /\ \A i \in 1 .. Len(program) - 1 + 1 : t[i] = program[1 + i - 1]
  BY <1>1, SubSeqProperties
<1> HIDE DEF t
<1>3. Len(t) = Len(program) /\ \A i \in 1 .. Len(t) : t[i] = program[i]
  BY <1>1, <1>2
<1>4. t = program
  BY <1>2, <1>3, SeqEqual
<1>5. Len(program) - Len(program) + 1 = 1
  BY <1>1
<1> QED
  BY <1>4, <1>5 DEF t, LastSteps

(* An operation that goes on has one step less to go.                            *)
LEMMA GoingOn ==
  ASSUME NEW kind, NEW program \in Seq(Step), NEW n \in 0 .. Len(program),
         IsAt(kind, program, n)
  PROVE  /\ (op.todo = <<>>) <=> (n = 0)
         /\ n > 0 => Head(op.todo) = program[Len(program) - n + 1]
         /\ op.kind = kind
         /\ n > 0 => Tail(op.todo) = LastSteps(program, n - 1) /\ Len(Tail(op.todo)) = n - 1
<1>1. op.kind = kind /\ op.todo = LastSteps(program, n)
  BY DEF IsAt
<1>2. Len(program) \in Nat /\ n \in Int
  BY LenProperties
<1>3. n > 0 => n - 1 \in 0 .. Len(program)
  BY <1>2
<1>4. n > 0 => Len(LastSteps(program, n - 1)) = n - 1
  BY <1>3, StepOfProgram
<1> QED
  BY <1>1, <1>4, StepOfProgram DEF StepIs

LEMMA PublishAt ==
  ASSUME NEW n \in 0 .. 13, IsAt("publish", PublishSteps, n)
  PROVE  /\ (op.todo = <<>>) <=> (n = 0)
         /\ op'.kind = op.kind /\ op'.todo = Tail(op.todo) /\ n > 0
              => IsAt("publish", PublishSteps, n - 1)'
         /\ StepIs("write_off") => n = 13
         /\ StepIs("load_off") => n = 12
         /\ StepIs("stop") => n = 11
         /\ StepIs("launch") => n = 10
         /\ StepIs("units") => n = 9
         /\ StepIs("start") => n = 8
         /\ StepIs("ready") => n = 7
         /\ StepIs("verify") => n = 6
         /\ StepIs("write_on") => n = 5
         /\ StepIs("load_on") => n = 4
         /\ StepIs("origin") => n = 3
         /\ StepIs("record") => n = 2
         /\ StepIs("answer") => n = 1
         /\ ~StepIs("capture") /\ ~StepIs("files") /\ ~StepIs("withdraw")
<1>1. PublishSteps \in Seq(Step) /\ Len(PublishSteps) = 13 /\ n \in 0 .. Len(PublishSteps)
  BY PublishProgram
<1>2. /\ (op.todo = <<>>) <=> (n = 0)
      /\ n > 0 => Head(op.todo) = PublishSteps[Len(PublishSteps) - n + 1]
      /\ op.kind = "publish"
      /\ n > 0 => Tail(op.todo) = LastSteps(PublishSteps, n - 1) /\ Len(Tail(op.todo)) = n - 1
  BY <1>1, GoingOn
<1>3. \/ n = 0
      \/ n = 13 /\ PublishSteps[13 - n + 1] = "write_off"
      \/ n = 12 /\ PublishSteps[13 - n + 1] = "load_off"
      \/ n = 11 /\ PublishSteps[13 - n + 1] = "stop"
      \/ n = 10 /\ PublishSteps[13 - n + 1] = "launch"
      \/ n = 9 /\ PublishSteps[13 - n + 1] = "units"
      \/ n = 8 /\ PublishSteps[13 - n + 1] = "start"
      \/ n = 7 /\ PublishSteps[13 - n + 1] = "ready"
      \/ n = 6 /\ PublishSteps[13 - n + 1] = "verify"
      \/ n = 5 /\ PublishSteps[13 - n + 1] = "write_on"
      \/ n = 4 /\ PublishSteps[13 - n + 1] = "load_on"
      \/ n = 3 /\ PublishSteps[13 - n + 1] = "origin"
      \/ n = 2 /\ PublishSteps[13 - n + 1] = "record"
      \/ n = 1 /\ PublishSteps[13 - n + 1] = "answer"
  BY PublishProgram
<1>4. \/ n = 0
      \/ n = 13 /\ Head(op.todo) = "write_off"
      \/ n = 12 /\ Head(op.todo) = "load_off"
      \/ n = 11 /\ Head(op.todo) = "stop"
      \/ n = 10 /\ Head(op.todo) = "launch"
      \/ n = 9 /\ Head(op.todo) = "units"
      \/ n = 8 /\ Head(op.todo) = "start"
      \/ n = 7 /\ Head(op.todo) = "ready"
      \/ n = 6 /\ Head(op.todo) = "verify"
      \/ n = 5 /\ Head(op.todo) = "write_on"
      \/ n = 4 /\ Head(op.todo) = "load_on"
      \/ n = 3 /\ Head(op.todo) = "origin"
      \/ n = 2 /\ Head(op.todo) = "record"
      \/ n = 1 /\ Head(op.todo) = "answer"
  BY <1>1, <1>2, <1>3
<1>5. op'.kind = op.kind /\ op'.todo = Tail(op.todo) /\ n > 0
        => IsAt("publish", PublishSteps, n - 1)'
  BY <1>2 DEF IsAt
<1> QED
  BY <1>2, <1>4, <1>5 DEF StepIs

LEMMA RestoreOpenAt ==
  ASSUME NEW n \in 0 .. 8, IsAt("restore", RestoreOpen, n)
  PROVE  /\ (op.todo = <<>>) <=> (n = 0)
         /\ op'.kind = op.kind /\ op'.todo = Tail(op.todo) /\ n > 0
              => IsAt("restore", RestoreOpen, n - 1)'
         /\ StepIs("stop") => n = 8
         /\ StepIs("files") => n = 7
         /\ StepIs("start") => n = 6
         /\ StepIs("ready") => n = 5
         /\ StepIs("verify") => n = 4
         /\ StepIs("write_on") => n = 3
         /\ StepIs("load_on") => n = 2
         /\ StepIs("origin") => n = 1
         /\ ~StepIs("capture") /\ ~StepIs("write_off") /\ ~StepIs("load_off")
         /\ ~StepIs("launch") /\ ~StepIs("units") /\ ~StepIs("record")
         /\ ~StepIs("withdraw") /\ ~StepIs("answer")
<1>1. RestoreOpen \in Seq(Step) /\ Len(RestoreOpen) = 8 /\ n \in 0 .. Len(RestoreOpen)
  BY RestoreProgram
<1>2. /\ (op.todo = <<>>) <=> (n = 0)
      /\ n > 0 => Head(op.todo) = RestoreOpen[Len(RestoreOpen) - n + 1]
      /\ op.kind = "restore"
      /\ n > 0 => Tail(op.todo) = LastSteps(RestoreOpen, n - 1) /\ Len(Tail(op.todo)) = n - 1
  BY <1>1, GoingOn
<1>3. \/ n = 0
      \/ n = 8 /\ RestoreOpen[8 - n + 1] = "stop"
      \/ n = 7 /\ RestoreOpen[8 - n + 1] = "files"
      \/ n = 6 /\ RestoreOpen[8 - n + 1] = "start"
      \/ n = 5 /\ RestoreOpen[8 - n + 1] = "ready"
      \/ n = 4 /\ RestoreOpen[8 - n + 1] = "verify"
      \/ n = 3 /\ RestoreOpen[8 - n + 1] = "write_on"
      \/ n = 2 /\ RestoreOpen[8 - n + 1] = "load_on"
      \/ n = 1 /\ RestoreOpen[8 - n + 1] = "origin"
  BY RestoreProgram
<1> QED
  BY <1>1, <1>2, <1>3 DEF IsAt, StepIs

LEMMA RestoreShutAt ==
  ASSUME NEW n \in 0 .. 4, IsAt("restore", RestoreShut, n)
  PROVE  /\ (op.todo = <<>>) <=> (n = 0)
         /\ op'.kind = op.kind /\ op'.todo = Tail(op.todo) /\ n > 0
              => IsAt("restore", RestoreShut, n - 1)'
         /\ StepIs("stop") => n = 4
         /\ StepIs("files") => n = 3
         /\ StepIs("write_off") => n = 2
         /\ StepIs("load_off") => n = 1
         /\ ~StepIs("capture") /\ ~StepIs("write_on") /\ ~StepIs("load_on")
         /\ ~StepIs("launch") /\ ~StepIs("units") /\ ~StepIs("record") /\ ~StepIs("start")
         /\ ~StepIs("ready") /\ ~StepIs("origin") /\ ~StepIs("verify")
         /\ ~StepIs("withdraw") /\ ~StepIs("answer")
<1>1. RestoreShut \in Seq(Step) /\ Len(RestoreShut) = 4 /\ n \in 0 .. Len(RestoreShut)
  BY RestoreProgram
<1>2. /\ (op.todo = <<>>) <=> (n = 0)
      /\ n > 0 => Head(op.todo) = RestoreShut[Len(RestoreShut) - n + 1]
      /\ op.kind = "restore"
      /\ n > 0 => Tail(op.todo) = LastSteps(RestoreShut, n - 1) /\ Len(Tail(op.todo)) = n - 1
  BY <1>1, GoingOn
<1>3. \/ n = 0
      \/ n = 4 /\ RestoreShut[4 - n + 1] = "stop"
      \/ n = 3 /\ RestoreShut[4 - n + 1] = "files"
      \/ n = 2 /\ RestoreShut[4 - n + 1] = "write_off"
      \/ n = 1 /\ RestoreShut[4 - n + 1] = "load_off"
  BY RestoreProgram
<1> QED
  BY <1>1, <1>2, <1>3 DEF IsAt, StepIs

LEMMA UnpublishAt ==
  ASSUME NEW n \in 0 .. 5, IsAt("unpublish", UnpublishSteps, n)
  PROVE  /\ (op.todo = <<>>) <=> (n = 0)
         /\ op'.kind = op.kind /\ op'.todo = Tail(op.todo) /\ n > 0
              => IsAt("unpublish", UnpublishSteps, n - 1)'
         /\ StepIs("write_off") => n = 5
         /\ StepIs("load_off") => n = 4
         /\ StepIs("stop") => n = 3
         /\ StepIs("withdraw") => n = 2
         /\ StepIs("answer") => n = 1
         /\ ~StepIs("capture") /\ ~StepIs("write_on") /\ ~StepIs("load_on")
         /\ ~StepIs("launch") /\ ~StepIs("units") /\ ~StepIs("record") /\ ~StepIs("start")
         /\ ~StepIs("ready") /\ ~StepIs("origin") /\ ~StepIs("verify") /\ ~StepIs("files")
<1>1. UnpublishSteps \in Seq(Step) /\ Len(UnpublishSteps) = 5 /\ n \in 0 .. Len(UnpublishSteps)
  BY UnpublishProgram
<1>2. /\ (op.todo = <<>>) <=> (n = 0)
      /\ n > 0 => Head(op.todo) = UnpublishSteps[Len(UnpublishSteps) - n + 1]
      /\ op.kind = "unpublish"
      /\ n > 0 => Tail(op.todo) = LastSteps(UnpublishSteps, n - 1) /\ Len(Tail(op.todo)) = n - 1
  BY <1>1, GoingOn
<1>3. \/ n = 0
      \/ n = 5 /\ UnpublishSteps[5 - n + 1] = "write_off"
      \/ n = 4 /\ UnpublishSteps[5 - n + 1] = "load_off"
      \/ n = 3 /\ UnpublishSteps[5 - n + 1] = "stop"
      \/ n = 2 /\ UnpublishSteps[5 - n + 1] = "withdraw"
      \/ n = 1 /\ UnpublishSteps[5 - n + 1] = "answer"
  BY UnpublishProgram
<1> QED
  BY <1>1, <1>2, <1>3 DEF IsAt, StepIs

LEMMA InstallAt ==
  ASSUME NEW n \in 0 .. 2, IsAt("install", Shut, n)
  PROVE  /\ (op.todo = <<>>) <=> (n = 0)
         /\ op'.kind = op.kind /\ op'.todo = Tail(op.todo) /\ n > 0
              => IsAt("install", Shut, n - 1)'
         /\ StepIs("write_off") => n = 2
         /\ StepIs("load_off") => n = 1
         /\ \A step : StepIs(step) => step \in {"write_off", "load_off"}
<1>1. Shut \in Seq(Step) /\ Len(Shut) = 2 /\ n \in 0 .. Len(Shut)
  BY OpeningSteps
<1>2. /\ (op.todo = <<>>) <=> (n = 0)
      /\ n > 0 => Head(op.todo) = Shut[Len(Shut) - n + 1]
      /\ op.kind = "install"
      /\ n > 0 => Tail(op.todo) = LastSteps(Shut, n - 1) /\ Len(Tail(op.todo)) = n - 1
  BY <1>1, GoingOn
<1>3. \/ n = 0
      \/ n = 2 /\ Shut[2 - n + 1] = "write_off"
      \/ n = 1 /\ Shut[2 - n + 1] = "load_off"
  BY OpeningSteps
<1> QED
  BY <1>1, <1>2, <1>3 DEF IsAt, StepIs

LEMMA OnlyStep ==
  ASSUME NEW kind, NEW only \in Step, NEW n \in 0 .. 1, IsAt(kind, <<only>>, n)
  PROVE  /\ (op.todo = <<>>) <=> (n = 0)
         /\ op'.kind = op.kind /\ op'.todo = Tail(op.todo) /\ n > 0
              => IsAt(kind, <<only>>, 0)'
         /\ \A step : StepIs(step) => n = 1 /\ step = only
<1> DEFINE p == <<only>>
<1>1. p \in Seq(Step) /\ Len(p) = 1 /\ p[1] = only /\ n \in 0 .. Len(p)
  OBVIOUS
<1> HIDE DEF p
<1>2. IsAt(kind, p, n)
  BY DEF p
<1>3. /\ (op.todo = <<>>) <=> (n = 0)
      /\ n > 0 => Head(op.todo) = p[Len(p) - n + 1]
      /\ op.kind = kind
      /\ n > 0 => Tail(op.todo) = LastSteps(p, n - 1) /\ Len(Tail(op.todo)) = n - 1
  BY <1>1, <1>2, GoingOn
<1>4. n = 0 \/ (n = 1 /\ n - 1 = 0 /\ p[1 - n + 1] = only)
  BY <1>1
<1> QED
  BY <1>1, <1>3, <1>4 DEF p, IsAt, StepIs

-----------------------------------------------------------------------------
(* Types, and how the steps are read off what they write.                       *)

LEMMA RestorePrograms ==
  ASSUME NEW published \in BOOLEAN
  PROVE  RestoreSteps(published) = IF published THEN RestoreOpen ELSE RestoreShut
BY DEF RestoreSteps, RestoreOpen, RestoreShut

LEMMA NoOperation ==
  /\ NoOp \in Operation /\ NoOp.kind = "none" /\ NoOp.todo = <<>> /\ ~NoOp.before
  /\ Nothing \in Configuration /\ Nothing.current \in [snapshot : Nat, published : BOOLEAN]
  /\ ~Nothing.current.published
<1>1. Nothing \in Configuration /\ Nothing.current \in [snapshot : Nat, published : BOOLEAN]
      /\ ~Nothing.current.published
  BY DEF Nothing, Configuration, None
<1>2. <<>> \in Seq(Step) /\ "none" \in OpKind
  BY DEF OpKind
<1> HIDE DEF Nothing
<1> QED
  BY <1>1, <1>2 DEF NoOp, Operation

LEMMA GoesOn ==
  ASSUME HostTypes, op.todo # <<>>, op' = Onward
  PROVE  /\ op' \in Operation /\ op'.kind = op.kind /\ op'.todo = Tail(op.todo)
         /\ op'.saved = op.saved /\ op'.before = op.before
<1>1. op \in Operation /\ op.todo \in Seq(Step)
  BY DEF HostTypes, Operation
<1>2. Tail(op.todo) \in Seq(Step)
  BY <1>1, HeadTailProperties
<1>3. op' = [op EXCEPT !.todo = Tail(@)]
  BY DEF Onward
<1> QED
  BY <1>1, <1>2, <1>3 DEF Operation

LEMMA Begun ==
  ASSUME NEW kind \in OpKind, NEW todo \in Seq(Step), Begins(kind, todo)
  PROVE  /\ op' \in Operation /\ op'.kind = kind /\ op'.todo = todo
         /\ op = NoOp
         /\ UNCHANGED <<captured, current, launch, units, nginx, game, listening, isolated, disturbed>>
<1>1. op' = [NoOp EXCEPT !.kind = kind, !.todo = todo]
  BY DEF Begins
<1>2. NoOp \in Operation
  BY NoOperation
<1>3. op' \in Operation /\ op'.kind = kind /\ op'.todo = todo
  BY <1>1, <1>2 DEF Operation
<1> QED
  BY <1>3 DEF Begins, managed, running

LEMMA RouteWritten ==
  ASSUME HostTypes, WriteRoute
  PROVE  /\ op.todo # <<>> /\ op' \in Operation /\ op'.kind = op.kind
         /\ op'.todo = Tail(op.todo) /\ op'.saved = op.saved /\ op'.before = nginx.file
         /\ (StepIs("write_on") /\ nginx'.file) \/ (StepIs("write_off") /\ ~nginx'.file)
         /\ nginx' \in [file : BOOLEAN, live : BOOLEAN] /\ nginx'.live = nginx.live
         /\ UNCHANGED <<captured, current, launch, units, game, listening, isolated, disturbed>>
<1>1. PICK on \in BOOLEAN : StepIs(Opening(on)[1]) /\ nginx' = [nginx EXCEPT !.file = on]
  BY DEF WriteRoute
<1>2. op.todo # <<>>
  BY <1>1 DEF StepIs
<1>3. op \in Operation /\ op.todo \in Seq(Step) /\ nginx \in [file : BOOLEAN, live : BOOLEAN]
  BY DEF HostTypes, Operation
<1>4. Tail(op.todo) \in Seq(Step)
  BY <1>2, <1>3, HeadTailProperties
<1>5. op' = [[op EXCEPT !.todo = Tail(@)] EXCEPT !.before = nginx.file]
  BY DEF WriteRoute, Onward
<1>6. /\ op' \in Operation /\ op'.kind = op.kind
      /\ op'.todo = Tail(op.todo) /\ op'.saved = op.saved /\ op'.before = nginx.file
  BY <1>3, <1>4, <1>5 DEF Operation
<1>7. /\ nginx' \in [file : BOOLEAN, live : BOOLEAN] /\ nginx'.live = nginx.live
      /\ nginx'.file = on
  BY <1>1, <1>3
<1>8. (StepIs("write_on") /\ nginx'.file) \/ (StepIs("write_off") /\ ~nginx'.file)
  <2>1. CASE on = TRUE
    <3>1. Opening(on)[1] = "write_on"
      BY <2>1 DEF Opening
    <3> QED
      BY <3>1, <1>1, <1>7, <2>1
  <2>2. CASE on = FALSE
    <3>1. Opening(on)[1] = "write_off"
      BY <2>2 DEF Opening
    <3> QED
      BY <3>1, <1>1, <1>7, <2>2
  <2> QED
    BY <2>1, <2>2
<1> QED
  BY <1>2, <1>6, <1>7, <1>8 DEF WriteRoute, running

LEMMA RouteLoaded ==
  ASSUME HostTypes, LoadRoute
  PROVE  /\ op.todo # <<>> /\ op' \in Operation /\ op'.kind = op.kind
         /\ op'.todo = Tail(op.todo) /\ op'.saved = op.saved /\ op'.before = op.before
         /\ (StepIs("load_on") \/ StepIs("load_off"))
         /\ nginx' \in [file : BOOLEAN, live : BOOLEAN]
         /\ nginx'.live = nginx.file /\ nginx'.file = nginx.file
         /\ UNCHANGED <<captured, current, launch, units, game, listening, isolated, disturbed>>
<1>1. PICK on \in BOOLEAN : StepIs(Opening(on)[2])
  BY DEF LoadRoute
<1>2. StepIs("load_on") \/ StepIs("load_off")
  <2>1. CASE on = TRUE
    <3>1. Opening(on)[2] = "load_on"
      BY <2>1 DEF Opening
    <3> QED
      BY <3>1, <1>1
  <2>2. CASE on = FALSE
    <3>1. Opening(on)[2] = "load_off"
      BY <2>2 DEF Opening
    <3> QED
      BY <3>1, <1>1
  <2> QED
    BY <2>1, <2>2
<1>3. op.todo # <<>> /\ op' = Onward
  BY <1>2 DEF LoadRoute, StepIs
<1>4. nginx \in [file : BOOLEAN, live : BOOLEAN] /\ nginx' = [nginx EXCEPT !.live = nginx.file]
  BY DEF HostTypes, LoadRoute
<1> QED
  BY <1>2, <1>3, <1>4, GoesOn DEF LoadRoute, running

\* An operation that begins, or takes over, has its whole program to go.
LEMMA WholeAhead ==
  /\ op'.kind = "publish" /\ op'.todo = PublishSteps => IsAt("publish", PublishSteps, 13)'
  /\ op'.kind = "restore" /\ op'.todo = RestoreOpen => IsAt("restore", RestoreOpen, 8)'
  /\ op'.kind = "restore" /\ op'.todo = RestoreShut => IsAt("restore", RestoreShut, 4)'
  /\ op'.kind = "unpublish" /\ op'.todo = UnpublishSteps => IsAt("unpublish", UnpublishSteps, 5)'
  /\ op'.kind = "install" /\ op'.todo = Shut => IsAt("install", Shut, 2)'
  /\ op'.kind = "capture" /\ op'.todo = <<"capture">> => IsAt("capture", <<"capture">>, 1)'
  /\ op'.kind = "abort" /\ op'.todo = <<"stop">> => IsAt("abort", <<"stop">>, 1)'
  /\ op'.kind = "abort" /\ op'.todo = <<>> => IsAt("abort", <<"stop">>, 0)'
<1>1. PublishSteps = LastSteps(PublishSteps, 13) /\ Len(PublishSteps) = 13
  BY PublishProgram, WholeProgram
<1>2. RestoreOpen = LastSteps(RestoreOpen, 8) /\ Len(RestoreOpen) = 8
  BY RestoreProgram, WholeProgram
<1>3. RestoreShut = LastSteps(RestoreShut, 4) /\ Len(RestoreShut) = 4
  BY RestoreProgram, WholeProgram
<1>4. UnpublishSteps = LastSteps(UnpublishSteps, 5) /\ Len(UnpublishSteps) = 5
  BY UnpublishProgram, WholeProgram
<1>5. Shut = LastSteps(Shut, 2) /\ Len(Shut) = 2
  BY OpeningSteps, WholeProgram
<1>6. ASSUME NEW only \in Step
      PROVE  <<only>> = LastSteps(<<only>>, 1) /\ Len(<<only>>) = 1 /\ <<>> = LastSteps(<<only>>, 0)
  <2> DEFINE p == <<only>>
  <2>1. p \in Seq(Step) /\ Len(p) = 1
    OBVIOUS
  <2> HIDE DEF p
  <2>2. 0 \in 0 .. Len(p)
    BY <2>1
  <2>3. p = LastSteps(p, 1) /\ LastSteps(p, 0) = <<>>
    BY <2>1, <2>2, WholeProgram, StepOfProgram
  <2> QED
    BY <2>1, <2>3 DEF p
<1>7. "capture" \in Step /\ "stop" \in Step
  BY DEF Step
<1>8. <<"capture">> = LastSteps(<<"capture">>, 1) /\ Len(<<"capture">>) = 1
  BY <1>6, <1>7
<1>9. <<"stop">> = LastSteps(<<"stop">>, 1) /\ Len(<<"stop">>) = 1
      /\ <<>> = LastSteps(<<"stop">>, 0)
  BY <1>6, <1>7
<1>10. Len(<<>>) = 0
  OBVIOUS
<1> QED
  BY <1>1, <1>2, <1>3, <1>4, <1>5, <1>8, <1>9, <1>10 DEF IsAt

\* What takes over from an operation that raises.
LEMMA Handled ==
  ASSUME HostTypes, op.todo # <<>>, op' = Handler, op.kind \notin {"restore", "close"}
  PROVE  /\ op' \in Operation
         /\ op.kind = "publish" =>
              /\ op'.kind = "restore" /\ op'.saved = op.saved
              /\ op.saved.current.published => op'.todo = RestoreOpen
              /\ ~op.saved.current.published => op'.todo = RestoreShut
         /\ op.kind # "publish" =>
              op'.kind = "abort" /\ (op'.todo = <<>> \/ op'.todo = <<"stop">>)
<1>1. op \in Operation /\ op.saved.current.published \in BOOLEAN
  BY DEF HostTypes, Operation, Configuration
<1>2. <<"stop">> \in Seq(Step) /\ <<>> \in Seq(Step) /\ {"restore", "abort"} \subseteq OpKind
  BY DEF Step, OpKind
<1>3. CASE op.kind = "publish"
  <2> DEFINE p == RestoreSteps(op.saved.current.published)
  <2>1. p = IF op.saved.current.published THEN RestoreOpen ELSE RestoreShut
    BY <1>1, RestorePrograms
  <2>2. p \in Seq(Step)
    BY <2>1, RestoreProgram
  <2>3. op' = [op EXCEPT !.kind = "restore", !.todo = p]
    BY <1>3 DEF Handler
  <2> HIDE DEF p
  <2>4. op' \in Operation /\ op'.kind = "restore" /\ op'.saved = op.saved /\ op'.todo = p
    BY <1>1, <1>2, <2>2, <2>3 DEF Operation
  <2> QED
    BY <1>3, <2>1, <2>4
<1>4. CASE op.kind # "publish"
  <2>1. op' = [op EXCEPT !.kind = "abort", !.todo = <<"stop">>]
        \/ op' = [op EXCEPT !.kind = "abort", !.todo = <<>>]
    BY <1>4 DEF Handler
  <2> QED
    BY <1>1, <1>2, <1>4, <2>1 DEF Operation
<1> QED
  BY <1>3, <1>4

\* What Raise does besides handing over: a rejected file is put back.
LEMMA Raised ==
  ASSUME HostTypes, Raise
  PROVE  /\ op.todo # <<>> /\ op' = Handler
         /\ nginx' \in [file : BOOLEAN, live : BOOLEAN] /\ nginx'.live = nginx.live
         /\ \/ nginx'.file = nginx.file
            \/ (StepIs("load_on") \/ StepIs("load_off")) /\ nginx'.file = op.before
         /\ listening' \in BOOLEAN /\ (listening' => listening)
         /\ op.kind = "restore" => disturbed'
         /\ UNCHANGED <<captured, current, launch, units, game, isolated>>
<1>1. nginx \in [file : BOOLEAN, live : BOOLEAN] /\ op.before \in BOOLEAN /\ listening \in BOOLEAN
  BY DEF HostTypes, Operation
<1>2. \/ UNCHANGED nginx
      \/ (StepIs("load_on") \/ StepIs("load_off")) /\ nginx' = [nginx EXCEPT !.file = op.before]
  <2>1. ASSUME NEW on \in BOOLEAN, StepIs(Opening(on)[2])
        PROVE  StepIs("load_on") \/ StepIs("load_off")
    <3>1. CASE on = TRUE
      <4>1. Opening(on)[2] = "load_on"
        BY <3>1 DEF Opening
      <4> QED
        BY <4>1, <2>1
    <3>2. CASE on = FALSE
      <4>1. Opening(on)[2] = "load_off"
        BY <3>2 DEF Opening
      <4> QED
        BY <4>1, <2>1
    <3> QED
      BY <3>1, <3>2
  <2> QED
    BY <2>1 DEF Raise
<1>3. /\ nginx' \in [file : BOOLEAN, live : BOOLEAN] /\ nginx'.live = nginx.live
      /\ \/ nginx'.file = nginx.file
         \/ (StepIs("load_on") \/ StepIs("load_off")) /\ nginx'.file = op.before
  BY <1>1, <1>2
<1>4. listening' \in BOOLEAN /\ (listening' => listening)
  BY <1>1 DEF Raise
<1> QED
  BY <1>3, <1>4 DEF Raise

LEMMA PublishKeeps ==
  ASSUME HostTypes, NEW n \in 0 .. 13, IsAt("publish", PublishSteps, n), PublishInv(n),
         GameNext, ~disturbed'
  PROVE  (HostTypes /\ InOrder)'
<1> DEFINE Goal == (HostTypes /\ InOrder)'
           Goes(m) == IsAt("publish", PublishSteps, m)' /\ PublishInv(m)'
<1>0. op.kind = "publish" /\ op # NoOp /\ op.todo \in Seq(Step)
  BY NoOperation DEF IsAt, HostTypes, Operation
<1>g. ASSUME NEW m \in 0 .. 13, HostTypes', Goes(m) PROVE Goal
  BY <1>g DEF InOrder
<1>t. /\ captured \in Nat /\ launch \in Nat /\ units \in Nat /\ game \in Nat
      /\ current \in [snapshot : Nat, published : BOOLEAN]
      /\ nginx \in [file : BOOLEAN, live : BOOLEAN] /\ nginx.file \in BOOLEAN
      /\ listening \in BOOLEAN /\ op \in Operation
      /\ op.saved.current \in [snapshot : Nat, published : BOOLEAN]
      /\ op.saved.launch \in Nat /\ op.saved.units \in Nat /\ op.saved.route \in BOOLEAN
      /\ None = 0
  BY DEF HostTypes, Operation, Configuration, None
<1>1. CASE Publish \/ Unpublish \/ Install
  BY <1>0, <1>1 DEF Publish, Unpublish, Install, Begins
<1>2. CASE Capture \/ RestoreFiles
  BY <1>2, PublishAt DEF Capture, RestoreFiles
<1>3. CASE WriteRoute
  <2>1. /\ op.todo # <<>> /\ op' \in Operation /\ op'.kind = op.kind
        /\ op'.todo = Tail(op.todo) /\ op'.saved = op.saved /\ op'.before = nginx.file
        /\ (StepIs("write_on") /\ nginx'.file) \/ (StepIs("write_off") /\ ~nginx'.file)
        /\ nginx' \in [file : BOOLEAN, live : BOOLEAN] /\ nginx'.live = nginx.live
        /\ UNCHANGED <<captured, current, launch, units, game, listening, isolated, disturbed>>
    BY <1>3, RouteWritten
  <2>2. HostTypes'
    BY <2>1, <1>t DEF HostTypes
  <2>3. n > 0 /\ IsAt("publish", PublishSteps, n - 1)'
    BY <2>1, PublishAt
  <2>6. (StepIs("write_off") => n = 13) /\ (StepIs("write_on") => n = 5)
    BY PublishAt
  <2>4. (n = 13 /\ ~nginx'.file) \/ (n = 5 /\ nginx'.file)
    BY <2>1, <2>6
  <2>5. PublishInv(n - 1)'
    BY <2>1, <2>4, <1>t DEF PublishInv, SavedIsServable, Servable, AtRest, RouteShut, Stopped,
                            RunsCandidate
  <2> QED
    BY <2>2, <2>3, <2>5, <1>g
<1>4. CASE LoadRoute
  <2>1. /\ op.todo # <<>> /\ op' \in Operation /\ op'.kind = op.kind
        /\ op'.todo = Tail(op.todo) /\ op'.saved = op.saved /\ op'.before = op.before
        /\ (StepIs("load_on") \/ StepIs("load_off"))
        /\ nginx' \in [file : BOOLEAN, live : BOOLEAN]
        /\ nginx'.live = nginx.file /\ nginx'.file = nginx.file
        /\ UNCHANGED <<captured, current, launch, units, game, listening, isolated, disturbed>>
    BY <1>4, RouteLoaded
  <2>2. HostTypes'
    BY <2>1, <1>t DEF HostTypes
  <2>3. n > 0 /\ IsAt("publish", PublishSteps, n - 1)'
    BY <2>1, PublishAt
  <2>4. n = 12 \/ n = 4
    BY <2>1, PublishAt
  <2>5. PublishInv(n - 1)'
    BY <2>1, <2>4, <1>t DEF PublishInv, SavedIsServable, Servable, AtRest, RouteShut, Stopped,
                            RunsCandidate
  <2> QED
    BY <2>2, <2>3, <2>5, <1>g
<1>5. ASSUME op.todo # <<>>, op' = Onward, HostTypes', PublishInv(n - 1)'
      PROVE  Goal
  <2>1. n > 0 /\ IsAt("publish", PublishSteps, n - 1)'
    BY <1>5, PublishAt, GoesOn
  <2> QED
    BY <2>1, <1>5, <1>g
<1>6. ASSUME op.todo # <<>>, op' = Onward
      PROVE  op' \in Operation /\ op'.saved = op.saved /\ op'.before = op.before
  BY <1>6, GoesOn
<1>7. CASE Stop
  <2>1. /\ op.todo # <<>> /\ op' = Onward /\ n = 11
        /\ game' = None /\ listening' = FALSE
        /\ UNCHANGED <<captured, current, launch, units, nginx, isolated, disturbed>>
    BY <1>7, PublishAt DEF Stop, StepIs, managed
  <2>2. HostTypes'
    BY <2>1, <1>6, <1>t DEF HostTypes
  <2>3. PublishInv(n - 1)'
    BY <2>1, <1>6, <1>t DEF PublishInv, SavedIsServable, Servable, AtRest, RouteShut, Stopped,
                            RunsCandidate
  <2> QED
    BY <2>1, <2>2, <2>3, <1>5
<1>8. CASE WriteLaunch \/ WriteUnits
  <2>1. /\ op.todo # <<>> /\ op' = Onward
        /\ \/ n = 10 /\ launch' = captured /\ units' = units
           \/ n = 9 /\ launch' = launch /\ units' = captured
        /\ UNCHANGED <<captured, current, nginx, game, listening, isolated, disturbed>>
    BY <1>8, PublishAt DEF WriteLaunch, WriteUnits, StepIs, running
  <2>2. HostTypes'
    BY <2>1, <1>6, <1>t DEF HostTypes
  <2>3. PublishInv(n - 1)'
    BY <2>1, <1>6, <1>t DEF PublishInv, SavedIsServable, Servable, AtRest, RouteShut, Stopped,
                            RunsCandidate
  <2> QED
    BY <2>1, <2>2, <2>3, <1>5
<1>9. CASE Start
  <2>1. /\ op.todo # <<>> /\ op' = Onward /\ n = 8
        /\ game' = Executed /\ listening' = TRUE
        /\ UNCHANGED <<captured, current, launch, units, nginx, isolated, disturbed>>
    BY <1>9, PublishAt DEF Start, StepIs, managed
  <2>2. game' = captured
    BY <2>1, <1>t DEF PublishInv, Executed
  <2>3. HostTypes'
    BY <2>1, <2>2, <1>6, <1>t DEF HostTypes
  <2>4. PublishInv(n - 1)'
    BY <2>1, <2>2, <1>6, <1>t DEF PublishInv, SavedIsServable, Servable, AtRest, RouteShut,
                            Stopped, RunsCandidate
  <2> QED
    BY <2>1, <2>3, <2>4, <1>5
<1>10. CASE Ready \/ Verify \/ StatusAnswers
  <2>1. /\ op.todo # <<>> /\ op' = Onward /\ (n = 7 \/ n = 3 \/ n = 6 \/ n = 1)
        /\ n = 6 => game # None /\ isolated' = isolated \cup {game}
        /\ n # 6 => isolated' = isolated
        /\ UNCHANGED <<captured, current, launch, units, nginx, game, listening, disturbed>>
    BY <1>10, PublishAt DEF Ready, Verify, StatusAnswers, StepIs, managed, running
  <2>2. HostTypes'
    BY <2>1, <1>6, <1>t DEF HostTypes
  <2>3. PublishInv(n - 1)'
    BY <2>1, <1>6, <1>t DEF PublishInv, SavedIsServable, Servable, AtRest, RouteShut, Stopped,
                            RunsCandidate
  <2> QED
    BY <2>1, <2>2, <2>3, <1>5
<1>11. CASE RecordCurrent
  <2>1. /\ op.todo # <<>> /\ op' = Onward /\ n = 2
        /\ current' = [snapshot |-> captured, published |-> TRUE]
        /\ UNCHANGED <<captured, launch, units, nginx, game, listening, isolated, disturbed>>
    BY <1>11, PublishAt DEF RecordCurrent, StepIs, running
  <2>2. HostTypes'
    BY <2>1, <1>6, <1>t DEF HostTypes
  <2>3. PublishInv(n - 1)'
    BY <2>1, <1>6, <1>t DEF PublishInv, SavedIsServable, Servable, AtRest, RouteShut, Stopped,
                            RunsCandidate
  <2> QED
    BY <2>1, <2>2, <2>3, <1>5
<1>12. CASE Finish
  <2>1. /\ n = 0 /\ op' = NoOp
        /\ UNCHANGED <<captured, current, launch, units, nginx, game, listening, isolated>>
    BY <1>12, PublishAt DEF Finish, managed, running
  <2>2. HostTypes'
    BY <2>1, <1>t, NoOperation DEF HostTypes
  <2>3. AtRest'
    BY <2>1 DEF PublishInv, AtRest, Servable
  <2> QED
    BY <2>1, <2>2, <2>3 DEF InOrder, OtherInv
<1>13. CASE Raise
  <2>1. /\ op.todo # <<>> /\ op' = Handler
        /\ nginx' \in [file : BOOLEAN, live : BOOLEAN] /\ nginx'.live = nginx.live
        /\ listening' \in BOOLEAN /\ (listening' => listening)
        /\ UNCHANGED <<captured, current, launch, units, game, isolated>>
    BY <1>13, Raised
  <2>2. /\ op' \in Operation /\ op'.kind = "restore" /\ op'.saved = op.saved
        /\ op.saved.current.published => op'.todo = RestoreOpen
        /\ ~op.saved.current.published => op'.todo = RestoreShut
    BY <2>1, <1>0, Handled
  <2>3. HostTypes'
    BY <2>1, <2>2, <1>t DEF HostTypes
  <2>4. MayServe
    BY <1>t DEF PublishInv, MayServe, AtRest, Servable, RouteShut, RunsCandidate, Executed
  <2>5. MayServe'
    BY <2>1, <2>4 DEF MayServe, Executed
  <2>6. SavedIsServable'
    BY <2>1, <2>2 DEF PublishInv, SavedIsServable, Servable
  <2>7. CASE op.saved.current.published
    <3>1. IsAt("restore", RestoreOpen, 8)'
      BY <2>2, <2>7, WholeAhead
    <3>2. RestoreOpenInv(8)'
      BY <2>2, <2>5, <2>6, <2>7 DEF RestoreOpenInv
    <3> QED
      BY <3>1, <3>2, <2>3 DEF InOrder
  <2>8. CASE ~op.saved.current.published
    <3>1. IsAt("restore", RestoreShut, 4)'
      BY <2>2, <2>8, WholeAhead
    <3>2. RestoreShutInv(4)'
      BY <2>2, <2>5, <2>6, <2>8 DEF RestoreShutInv
    <3> QED
      BY <3>1, <3>2, <2>3 DEF InOrder
  <2> QED
    BY <2>7, <2>8
<1>14. CASE Escape \/ Killed \/ Reboot
  BY <1>0, <1>14 DEF Escape, Killed, Reboot
<1>15. CASE GameExits \/ Visit
  <2>1. UNCHANGED <<captured, current, launch, units, nginx, listening, isolated, op, disturbed>>
    BY <1>15 DEF GameExits, Visit, managed
  <2>2. game' = None \/ (listening /\ nginx.live /\ game = None /\ Executed # None /\ game' = Executed)
    BY <1>15 DEF GameExits, Visit
  <2>3. game' \in Nat
    BY <2>2, <1>t DEF Executed
  <2>4. HostTypes'
    BY <2>1, <2>3, <1>t DEF HostTypes
  <2>5. PublishInv(n)'
    BY <2>1, <2>2, <2>3, <1>t DEF PublishInv, SavedIsServable, Servable, AtRest, RouteShut,
                            Stopped, RunsCandidate, Executed
  <2>6. IsAt("publish", PublishSteps, n)'
    BY <2>1 DEF IsAt
  <2> QED
    BY <2>4, <2>5, <2>6, <1>g
<1> QED
  BY <1>1, <1>2, <1>3, <1>4, <1>7, <1>8, <1>9, <1>10, <1>11, <1>12, <1>13, <1>14, <1>15
     DEF GameNext

\* restore writes the files in their order, and goes on once all of them are written.
LEMMA FilesWritten ==
  ASSUME HostTypes, RestoreFiles
  PROVE  /\ op.todo # <<>> /\ StepIs("files") /\ HostTypes'
         /\ nginx'.live = nginx.live
         /\ UNCHANGED <<captured, game, listening, isolated, disturbed>>
         /\ \/ op' = op
            \/ op' = Onward /\ nginx'.file = op.saved.route
               /\ launch' = op.saved.launch /\ current' = op.saved.current
               /\ units' = op.saved.units
<1>1. PICK k \in 1 .. 4 :
         /\ launch' = op.saved.launch
         /\ current' = IF k >= 2 THEN op.saved.current ELSE current
         /\ nginx' = IF k >= 3 THEN [nginx EXCEPT !.file = op.saved.route] ELSE nginx
         /\ units' = IF k = 4 THEN op.saved.units ELSE units
         /\ op' = IF k = 4 THEN Onward ELSE op
  BY DEF RestoreFiles
<1>2. op.todo # <<>> /\ StepIs("files")
  BY DEF RestoreFiles, StepIs
<1>3. UNCHANGED <<captured, game, listening, isolated, disturbed>>
  BY DEF RestoreFiles, running
<1>4. /\ captured \in Nat /\ launch \in Nat /\ units \in Nat /\ game \in Nat
      /\ current \in [snapshot : Nat, published : BOOLEAN]
      /\ nginx \in [file : BOOLEAN, live : BOOLEAN]
      /\ listening \in BOOLEAN /\ op \in Operation
      /\ op.saved.current \in [snapshot : Nat, published : BOOLEAN]
      /\ op.saved.launch \in Nat /\ op.saved.units \in Nat /\ op.saved.route \in BOOLEAN
  BY DEF HostTypes, Operation, Configuration
<1>5. /\ nginx' \in [file : BOOLEAN, live : BOOLEAN] /\ nginx'.live = nginx.live
      /\ k = 4 => nginx'.file = op.saved.route
  BY <1>1, <1>4
<1>6. op' \in Operation
  BY <1>1, <1>2, <1>4, GoesOn
<1>7. HostTypes'
  BY <1>1, <1>3, <1>4, <1>5, <1>6 DEF HostTypes
<1> QED
  BY <1>1, <1>2, <1>3, <1>5, <1>7

LEMMA RestoreOpenKeeps ==
  ASSUME HostTypes, NEW n \in 0 .. 8, IsAt("restore", RestoreOpen, n), RestoreOpenInv(n),
         GameNext, ~disturbed'
  PROVE  (HostTypes /\ InOrder)'
<1> DEFINE Goal == (HostTypes /\ InOrder)'
           Goes(m) == IsAt("restore", RestoreOpen, m)' /\ RestoreOpenInv(m)'
<1>0. op.kind = "restore" /\ op # NoOp /\ op.todo \in Seq(Step)
  BY NoOperation DEF IsAt, HostTypes, Operation
<1>g. ASSUME NEW m \in 0 .. 8, HostTypes', Goes(m) PROVE Goal
  BY <1>g DEF InOrder
<1>t. /\ captured \in Nat /\ launch \in Nat /\ units \in Nat /\ game \in Nat
      /\ current \in [snapshot : Nat, published : BOOLEAN]
      /\ nginx \in [file : BOOLEAN, live : BOOLEAN] /\ nginx.file \in BOOLEAN
      /\ listening \in BOOLEAN /\ op \in Operation
      /\ op.saved.current \in [snapshot : Nat, published : BOOLEAN]
      /\ op.saved.launch \in Nat /\ op.saved.units \in Nat /\ op.saved.route \in BOOLEAN
      /\ None = 0
  BY DEF HostTypes, Operation, Configuration, None
<1>1. CASE Publish \/ Unpublish \/ Install
  BY <1>0, <1>1 DEF Publish, Unpublish, Install, Begins
<1>2. CASE Capture \/ WriteLaunch \/ WriteUnits \/ RecordCurrent \/ StatusAnswers
  BY <1>2, RestoreOpenAt DEF Capture, WriteLaunch, WriteUnits, RecordCurrent, StatusAnswers
<1>3. CASE WriteRoute
  <2>1. /\ op.todo # <<>> /\ op' \in Operation /\ op'.kind = op.kind
        /\ op'.todo = Tail(op.todo) /\ op'.saved = op.saved /\ op'.before = nginx.file
        /\ (StepIs("write_on") /\ nginx'.file) \/ (StepIs("write_off") /\ ~nginx'.file)
        /\ nginx' \in [file : BOOLEAN, live : BOOLEAN] /\ nginx'.live = nginx.live
        /\ UNCHANGED <<captured, current, launch, units, game, listening, isolated, disturbed>>
    BY <1>3, RouteWritten
  <2>2. HostTypes'
    BY <2>1, <1>t DEF HostTypes
  <2>3. n > 0 /\ IsAt("restore", RestoreOpen, n - 1)'
    BY <2>1, RestoreOpenAt
  <2>4. n = 3
    BY <2>1, RestoreOpenAt
  <2>5. RestoreOpenInv(n - 1)'
    BY <2>1, <2>4, <1>t DEF RestoreOpenInv, SavedIsServable, Servable, FilesRestored, Stopped
  <2> QED
    BY <2>2, <2>3, <2>5, <1>g
<1>4. CASE LoadRoute
  <2>1. /\ op.todo # <<>> /\ op' \in Operation /\ op'.kind = op.kind
        /\ op'.todo = Tail(op.todo) /\ op'.saved = op.saved /\ op'.before = op.before
        /\ (StepIs("load_on") \/ StepIs("load_off"))
        /\ nginx' \in [file : BOOLEAN, live : BOOLEAN]
        /\ nginx'.live = nginx.file /\ nginx'.file = nginx.file
        /\ UNCHANGED <<captured, current, launch, units, game, listening, isolated, disturbed>>
    BY <1>4, RouteLoaded
  <2>2. HostTypes'
    BY <2>1, <1>t DEF HostTypes
  <2>3. n > 0 /\ IsAt("restore", RestoreOpen, n - 1)'
    BY <2>1, RestoreOpenAt
  <2>4. n = 2
    BY <2>1, RestoreOpenAt
  <2>5. RestoreOpenInv(n - 1)'
    BY <2>1, <2>4, <1>t DEF RestoreOpenInv, SavedIsServable, Servable, FilesRestored, Stopped
  <2> QED
    BY <2>2, <2>3, <2>5, <1>g
<1>5. ASSUME op.todo # <<>>, op' = Onward, HostTypes', RestoreOpenInv(n - 1)'
      PROVE  Goal
  <2>1. n > 0 /\ IsAt("restore", RestoreOpen, n - 1)'
    BY <1>5, RestoreOpenAt, GoesOn
  <2> QED
    BY <2>1, <1>5, <1>g
<1>6. ASSUME op.todo # <<>>, op' = Onward
      PROVE  op' \in Operation /\ op'.saved = op.saved /\ op'.before = op.before
  BY <1>6, GoesOn
<1>7. CASE Stop
  <2>1. /\ op.todo # <<>> /\ op' = Onward /\ n = 8
        /\ game' = None /\ listening' = FALSE
        /\ UNCHANGED <<captured, current, launch, units, nginx, isolated, disturbed>>
    BY <1>7, RestoreOpenAt DEF Stop, StepIs, managed
  <2>2. HostTypes'
    BY <2>1, <1>6, <1>t DEF HostTypes
  <2>3. RestoreOpenInv(n - 1)'
    BY <2>1, <1>6, <1>t DEF RestoreOpenInv, SavedIsServable, Servable, FilesRestored, Stopped
  <2> QED
    BY <2>1, <2>2, <2>3, <1>5
<1>8. CASE RestoreFiles
  <2>1. /\ op.todo # <<>> /\ StepIs("files") /\ HostTypes'
        /\ nginx'.live = nginx.live
        /\ UNCHANGED <<captured, game, listening, isolated, disturbed>>
        /\ \/ op' = op
           \/ op' = Onward /\ nginx'.file = op.saved.route
              /\ launch' = op.saved.launch /\ current' = op.saved.current
              /\ units' = op.saved.units
    BY <1>8, FilesWritten
  <2>2. n = 7
    BY <2>1, RestoreOpenAt
  <2>3. CASE op' = op
    <3>1. RestoreOpenInv(n)'
      BY <2>1, <2>2, <2>3, <1>t DEF RestoreOpenInv, SavedIsServable, Servable, Stopped
    <3>2. IsAt("restore", RestoreOpen, n)'
      BY <2>3 DEF IsAt
    <3> QED
      BY <2>1, <3>1, <3>2, <1>g
  <2>4. CASE op' = Onward /\ launch' = op.saved.launch /\ current' = op.saved.current
             /\ units' = op.saved.units
    <3>1. RestoreOpenInv(n - 1)'
      BY <2>1, <2>2, <2>4, <1>6, <1>t DEF RestoreOpenInv, SavedIsServable, Servable, Stopped,
                                          FilesRestored
    <3> QED
      BY <2>1, <2>4, <3>1, <1>5
  <2> QED
    BY <2>1, <2>3, <2>4
<1>9. CASE Start
  <2>1. /\ op.todo # <<>> /\ op' = Onward /\ n = 6
        /\ game' = Executed /\ listening' = TRUE
        /\ UNCHANGED <<captured, current, launch, units, nginx, isolated, disturbed>>
    BY <1>9, RestoreOpenAt DEF Start, StepIs, managed
  <2>2. game' = op.saved.launch
    BY <2>1, <1>t DEF RestoreOpenInv, Executed, FilesRestored, SavedIsServable, Servable
  <2>3. HostTypes'
    BY <2>1, <2>2, <1>6, <1>t DEF HostTypes
  <2>4. RestoreOpenInv(n - 1)'
    BY <2>1, <2>2, <1>6, <1>t DEF RestoreOpenInv, SavedIsServable, Servable, FilesRestored,
                                  Stopped
  <2> QED
    BY <2>1, <2>3, <2>4, <1>5
<1>10. CASE Ready \/ Verify
  <2>1. /\ op.todo # <<>> /\ op' = Onward /\ (n = 5 \/ n = 4 \/ n = 1)
        /\ isolated' = isolated \/ isolated' = isolated \cup {game}
        /\ UNCHANGED <<captured, current, launch, units, nginx, game, listening, disturbed>>
    BY <1>10, RestoreOpenAt DEF Ready, Verify, StepIs, managed, running
  <2>2. HostTypes'
    BY <2>1, <1>6, <1>t DEF HostTypes
  <2>3. RestoreOpenInv(n - 1)'
    BY <2>1, <1>6, <1>t DEF RestoreOpenInv, SavedIsServable, Servable, FilesRestored, Stopped
  <2> QED
    BY <2>1, <2>2, <2>3, <1>5
<1>12. CASE Finish
  <2>1. /\ n = 0 /\ op' = NoOp
        /\ UNCHANGED <<captured, current, launch, units, nginx, game, listening, isolated>>
    BY <1>12, RestoreOpenAt DEF Finish, managed, running
  <2>2. HostTypes'
    BY <2>1, <1>t, NoOperation DEF HostTypes
  <2>3. AtRest'
    BY <2>1 DEF RestoreOpenInv, AtRest, Servable, SavedIsServable, FilesRestored
  <2> QED
    BY <2>1, <2>2, <2>3 DEF InOrder, OtherInv
<1>13. CASE Raise
  BY <1>0, <1>13, Raised
<1>14. CASE Escape \/ Killed \/ Reboot
  BY <1>0, <1>14 DEF Escape, Killed, Reboot
<1>15. CASE GameExits \/ Visit
  <2>1. UNCHANGED <<captured, current, launch, units, nginx, listening, isolated, op, disturbed>>
    BY <1>15 DEF GameExits, Visit, managed
  <2>2. game' = None \/ (listening /\ nginx.live /\ game = None /\ Executed # None /\ game' = Executed)
    BY <1>15 DEF GameExits, Visit
  <2>3. game' \in Nat
    BY <2>2, <1>t DEF Executed
  <2>4. HostTypes'
    BY <2>1, <2>3, <1>t DEF HostTypes
  <2>5. RestoreOpenInv(n)'
    BY <2>1, <2>2, <2>3, <1>t DEF RestoreOpenInv, SavedIsServable, Servable, FilesRestored,
                                  Stopped, MayServe, Executed
  <2>6. IsAt("restore", RestoreOpen, n)'
    BY <2>1 DEF IsAt
  <2> QED
    BY <2>4, <2>5, <2>6, <1>g
<1> QED
  BY <1>1, <1>2, <1>3, <1>4, <1>7, <1>8, <1>9, <1>10, <1>12, <1>13, <1>14, <1>15
     DEF GameNext

LEMMA RestoreShutKeeps ==
  ASSUME HostTypes, NEW n \in 0 .. 4, IsAt("restore", RestoreShut, n), RestoreShutInv(n),
         GameNext, ~disturbed'
  PROVE  (HostTypes /\ InOrder)'
<1> DEFINE Goal == (HostTypes /\ InOrder)'
           Goes(m) == IsAt("restore", RestoreShut, m)' /\ RestoreShutInv(m)'
<1>0. op.kind = "restore" /\ op # NoOp /\ op.todo \in Seq(Step)
  BY NoOperation DEF IsAt, HostTypes, Operation
<1>g. ASSUME NEW m \in 0 .. 4, HostTypes', Goes(m) PROVE Goal
  BY <1>g DEF InOrder
<1>t. /\ captured \in Nat /\ launch \in Nat /\ units \in Nat /\ game \in Nat
      /\ current \in [snapshot : Nat, published : BOOLEAN]
      /\ nginx \in [file : BOOLEAN, live : BOOLEAN] /\ nginx.file \in BOOLEAN
      /\ listening \in BOOLEAN /\ op \in Operation
      /\ op.saved.current \in [snapshot : Nat, published : BOOLEAN]
      /\ op.saved.launch \in Nat /\ op.saved.units \in Nat /\ op.saved.route \in BOOLEAN
      /\ None = 0
  BY DEF HostTypes, Operation, Configuration, None
<1>1. CASE Publish \/ Unpublish \/ Install
  BY <1>0, <1>1 DEF Publish, Unpublish, Install, Begins
<1>2. CASE Capture \/ WriteLaunch \/ WriteUnits \/ RecordCurrent \/ StatusAnswers \/ Start
           \/ Ready \/ Verify
  BY <1>2, RestoreShutAt DEF Capture, WriteLaunch, WriteUnits, RecordCurrent, StatusAnswers,
                             Start, Ready, Verify
<1>3. CASE WriteRoute
  <2>1. /\ op.todo # <<>> /\ op' \in Operation /\ op'.kind = op.kind
        /\ op'.todo = Tail(op.todo) /\ op'.saved = op.saved /\ op'.before = nginx.file
        /\ (StepIs("write_on") /\ nginx'.file) \/ (StepIs("write_off") /\ ~nginx'.file)
        /\ nginx' \in [file : BOOLEAN, live : BOOLEAN] /\ nginx'.live = nginx.live
        /\ UNCHANGED <<captured, current, launch, units, game, listening, isolated, disturbed>>
    BY <1>3, RouteWritten
  <2>2. HostTypes'
    BY <2>1, <1>t DEF HostTypes
  <2>3. n > 0 /\ IsAt("restore", RestoreShut, n - 1)'
    BY <2>1, RestoreShutAt
  <2>4. n = 2 /\ ~nginx'.file
    BY <2>1, RestoreShutAt
  <2>5. RestoreShutInv(n - 1)'
    BY <2>1, <2>4, <1>t DEF RestoreShutInv, SavedIsServable, Servable, FilesRestored, Stopped
  <2> QED
    BY <2>2, <2>3, <2>5, <1>g
<1>4. CASE LoadRoute
  <2>1. /\ op.todo # <<>> /\ op' \in Operation /\ op'.kind = op.kind
        /\ op'.todo = Tail(op.todo) /\ op'.saved = op.saved /\ op'.before = op.before
        /\ (StepIs("load_on") \/ StepIs("load_off"))
        /\ nginx' \in [file : BOOLEAN, live : BOOLEAN]
        /\ nginx'.live = nginx.file /\ nginx'.file = nginx.file
        /\ UNCHANGED <<captured, current, launch, units, game, listening, isolated, disturbed>>
    BY <1>4, RouteLoaded
  <2>2. HostTypes'
    BY <2>1, <1>t DEF HostTypes
  <2>3. n > 0 /\ IsAt("restore", RestoreShut, n - 1)'
    BY <2>1, RestoreShutAt
  <2>4. n = 1
    BY <2>1, RestoreShutAt
  <2>5. RestoreShutInv(n - 1)'
    BY <2>1, <2>4, <1>t DEF RestoreShutInv, SavedIsServable, Servable, FilesRestored, Stopped
  <2> QED
    BY <2>2, <2>3, <2>5, <1>g
<1>5. ASSUME op.todo # <<>>, op' = Onward, HostTypes', RestoreShutInv(n - 1)'
      PROVE  Goal
  <2>1. n > 0 /\ IsAt("restore", RestoreShut, n - 1)'
    BY <1>5, RestoreShutAt, GoesOn
  <2> QED
    BY <2>1, <1>5, <1>g
<1>6. ASSUME op.todo # <<>>, op' = Onward
      PROVE  op' \in Operation /\ op'.saved = op.saved /\ op'.before = op.before
  BY <1>6, GoesOn
<1>7. CASE Stop
  <2>1. /\ op.todo # <<>> /\ op' = Onward /\ n = 4
        /\ game' = None /\ listening' = FALSE
        /\ UNCHANGED <<captured, current, launch, units, nginx, isolated, disturbed>>
    BY <1>7, RestoreShutAt DEF Stop, StepIs, managed
  <2>2. HostTypes'
    BY <2>1, <1>6, <1>t DEF HostTypes
  <2>3. RestoreShutInv(n - 1)'
    BY <2>1, <1>6, <1>t DEF RestoreShutInv, SavedIsServable, Servable, FilesRestored, Stopped
  <2> QED
    BY <2>1, <2>2, <2>3, <1>5
<1>8. CASE RestoreFiles
  <2>1. /\ op.todo # <<>> /\ StepIs("files") /\ HostTypes'
        /\ nginx'.live = nginx.live
        /\ UNCHANGED <<captured, game, listening, isolated, disturbed>>
        /\ \/ op' = op
           \/ op' = Onward /\ nginx'.file = op.saved.route
              /\ launch' = op.saved.launch /\ current' = op.saved.current
              /\ units' = op.saved.units
    BY <1>8, FilesWritten
  <2>2. n = 3
    BY <2>1, RestoreShutAt
  <2>3. CASE op' = op
    <3>1. RestoreShutInv(n)'
      BY <2>1, <2>2, <2>3, <1>t DEF RestoreShutInv, SavedIsServable, Servable, Stopped
    <3>2. IsAt("restore", RestoreShut, n)'
      BY <2>3 DEF IsAt
    <3> QED
      BY <2>1, <3>1, <3>2, <1>g
  <2>4. CASE op' = Onward /\ launch' = op.saved.launch /\ current' = op.saved.current
             /\ units' = op.saved.units
    <3>1. RestoreShutInv(n - 1)'
      BY <2>1, <2>2, <2>4, <1>6, <1>t DEF RestoreShutInv, SavedIsServable, Servable, Stopped,
                                          FilesRestored
    <3> QED
      BY <2>1, <2>4, <3>1, <1>5
  <2> QED
    BY <2>1, <2>3, <2>4
<1>12. CASE Finish
  <2>1. /\ n = 0 /\ op' = NoOp
        /\ UNCHANGED <<captured, current, launch, units, nginx, game, listening, isolated>>
    BY <1>12, RestoreShutAt DEF Finish, managed, running
  <2>2. HostTypes'
    BY <2>1, <1>t, NoOperation DEF HostTypes
  <2>3. AtRest'
    BY <2>1 DEF RestoreShutInv, AtRest, Servable, SavedIsServable, FilesRestored
  <2> QED
    BY <2>1, <2>2, <2>3 DEF InOrder, OtherInv
<1>13. CASE Raise
  BY <1>0, <1>13, Raised
<1>14. CASE Escape \/ Killed \/ Reboot
  BY <1>0, <1>14 DEF Escape, Killed, Reboot
<1>15. CASE GameExits \/ Visit
  <2>1. UNCHANGED <<captured, current, launch, units, nginx, listening, isolated, op, disturbed>>
    BY <1>15 DEF GameExits, Visit, managed
  <2>2. game' = None \/ (listening /\ nginx.live /\ game = None /\ Executed # None /\ game' = Executed)
    BY <1>15 DEF GameExits, Visit
  <2>3. game' \in Nat
    BY <2>2, <1>t DEF Executed
  <2>4. HostTypes'
    BY <2>1, <2>3, <1>t DEF HostTypes
  <2>5. RestoreShutInv(n)'
    BY <2>1, <2>2, <2>3, <1>t DEF RestoreShutInv, SavedIsServable, Servable, FilesRestored,
                                  Stopped, MayServe, Executed
  <2>6. IsAt("restore", RestoreShut, n)'
    BY <2>1 DEF IsAt
  <2> QED
    BY <2>4, <2>5, <2>6, <1>g
<1> QED
  BY <1>1, <1>2, <1>3, <1>4, <1>7, <1>8, <1>12, <1>13, <1>14, <1>15 DEF GameNext

(* Operations that leave the host at rest.                                        *)

LEMMA TypesAtRest ==
  ASSUME HostTypes
  PROVE  /\ captured \in Nat /\ launch \in Nat /\ units \in Nat /\ game \in Nat
         /\ current \in [snapshot : Nat, published : BOOLEAN]
         /\ nginx \in [file : BOOLEAN, live : BOOLEAN]
         /\ nginx.file \in BOOLEAN /\ nginx.live \in BOOLEAN
         /\ listening \in BOOLEAN /\ op \in Operation /\ op.todo \in Seq(Step)
         /\ None = 0
BY DEF HostTypes, Operation, None

\* Returning leaves the host as it is, and so does raising: a handler takes over.
LEMMA LeavesAtRest ==
  ASSUME HostTypes, AtRest,
         \/ Finish
         \/ /\ Raise /\ op.kind \notin {"publish", "restore", "close"}
            /\ StepIs("load_on") \/ StepIs("load_off") => (op.before => current.published)
  PROVE  (HostTypes /\ InOrder)'
<1>1. CASE Finish
  <2>1. /\ op' = NoOp
        /\ UNCHANGED <<captured, current, launch, units, nginx, game, listening, isolated>>
    BY <1>1 DEF Finish, managed, running
  <2>2. HostTypes'
    BY <2>1, TypesAtRest, NoOperation DEF HostTypes
  <2>3. AtRest'
    BY <2>1 DEF AtRest, Servable
  <2> QED
    BY <2>1, <2>2, <2>3 DEF InOrder, OtherInv
<1>2. CASE /\ Raise /\ op.kind \notin {"publish", "restore", "close"}
           /\ StepIs("load_on") \/ StepIs("load_off") => (op.before => current.published)
  <2>1. /\ op.todo # <<>> /\ op' = Handler
        /\ nginx' \in [file : BOOLEAN, live : BOOLEAN] /\ nginx'.live = nginx.live
        /\ \/ nginx'.file = nginx.file
           \/ (StepIs("load_on") \/ StepIs("load_off")) /\ nginx'.file = op.before
        /\ listening' \in BOOLEAN
        /\ UNCHANGED <<captured, current, launch, units, game, isolated>>
    BY <1>2, Raised
  <2>2. op' \in Operation /\ op'.kind = "abort" /\ (op'.todo = <<>> \/ op'.todo = <<"stop">>)
    BY <1>2, <2>1, Handled
  <2>3. HostTypes'
    BY <2>1, <2>2, TypesAtRest DEF HostTypes
  <2>4. AtRest'
    BY <1>2, <2>1, TypesAtRest DEF AtRest, Servable
  <2>5. IsAt("abort", <<"stop">>, 0)' \/ IsAt("abort", <<"stop">>, 1)'
    BY <2>2, WholeAhead
  <2>6. OtherInv'
    BY <2>5 DEF OtherInv
  <2> QED
    BY <2>3, <2>4, <2>6 DEF InOrder
<1> QED
  BY <1>1, <1>2

\* The game exits, or a visitor starts it.
LEMMA VisitsAtRest ==
  ASSUME HostTypes, AtRest, OtherInv, GameExits \/ Visit
  PROVE  (HostTypes /\ InOrder)'
<1>1. UNCHANGED <<captured, current, launch, units, nginx, listening, isolated, op, disturbed>>
  BY DEF GameExits, Visit, managed
<1>2. game' = None \/ (listening /\ nginx.live /\ game = None /\ Executed # None /\ game' = Executed)
  BY DEF GameExits, Visit
<1>3. game' \in Nat
  BY <1>2, TypesAtRest DEF Executed
<1>4. HostTypes'
  BY <1>1, <1>3, TypesAtRest DEF HostTypes
<1>5. AtRest'
  BY <1>1, <1>2, TypesAtRest DEF AtRest, Servable, Executed
<1>6. Stopped => Stopped'
  BY <1>1, <1>2 DEF Stopped
<1>7. ASSUME NEW kind, NEW program, NEW n, IsAt(kind, program, n)
      PROVE  IsAt(kind, program, n)'
  BY <1>1, <1>7 DEF IsAt
<1>8. OtherInv'
  <2>1. CASE op = NoOp
    BY <2>1, <1>1 DEF OtherInv
  <2>2. CASE IsAt("capture", <<"capture">>, 1)
    BY <2>2, <1>7 DEF OtherInv
  <2>3. ASSUME NEW n \in 0 .. 5, IsAt("unpublish", UnpublishSteps, n),
               n = 4 => ~nginx.file /\ (op.before => current.published),
               n <= 3 => RouteShut, n <= 2 => Stopped
        PROVE  OtherInv'
    <3>1. IsAt("unpublish", UnpublishSteps, n)'
      BY <2>3, <1>7
    <3>2. /\ (n = 4 => ~nginx.file /\ (op.before => current.published))'
          /\ (n <= 3 => RouteShut)' /\ (n <= 2 => Stopped)'
      BY <2>3, <1>1, <1>6 DEF RouteShut
    <3> QED
      BY <3>1, <3>2 DEF OtherInv
  <2>4. ASSUME NEW n \in 0 .. 1, IsAt("abort", <<"stop">>, n) PROVE OtherInv'
    BY <2>4, <1>7 DEF OtherInv
  <2>5. ASSUME NEW n \in 0 .. 2, IsAt("install", Shut, n),
               n = 1 => ~nginx.file /\ (op.before => current.published)
        PROVE  OtherInv'
    <3>1. IsAt("install", Shut, n)'
      BY <2>5, <1>7
    <3>2. (n = 1 => ~nginx.file /\ (op.before => current.published))'
      BY <2>5, <1>1
    <3> QED
      BY <3>1, <3>2 DEF OtherInv
  <2> QED
    BY <2>1, <2>2, <2>3, <2>4, <2>5 DEF OtherInv
<1> QED
  BY <1>4, <1>5, <1>8 DEF InOrder

LEMMA IdleKeeps ==
  ASSUME HostTypes, AtRest, op = NoOp, GameNext, ~disturbed'
  PROVE  (HostTypes /\ InOrder)'
<1>0. op.kind = "none" /\ op.todo = <<>> /\ OtherInv
  BY NoOperation DEF OtherInv
<1>t. /\ captured \in Nat /\ launch \in Nat /\ units \in Nat /\ game \in Nat /\ None \in Nat
      /\ current \in [snapshot : Nat, published : BOOLEAN]
      /\ nginx \in [file : BOOLEAN, live : BOOLEAN]
      /\ listening \in BOOLEAN /\ op \in Operation
  BY TypesAtRest
<1>1. ASSUME NEW kind \in OpKind, NEW todo \in Seq(Step), Begins(kind, todo)
      PROVE  /\ HostTypes' /\ AtRest' /\ op'.kind = kind /\ op'.todo = todo
             /\ nginx' = nginx
  <2>1. /\ op' \in Operation /\ op'.kind = kind /\ op'.todo = todo
        /\ UNCHANGED <<captured, current, launch, units, nginx, game, listening, isolated, disturbed>>
    BY <1>1, Begun
  <2>2. HostTypes'
    BY <2>1, TypesAtRest DEF HostTypes
  <2>3. AtRest'
    BY <2>1 DEF AtRest, Servable
  <2> QED
    BY <2>1, <2>2, <2>3
<1>2. CASE Publish
  <2> DEFINE todo == <<"capture">>
  <2>1. todo \in Seq(Step) /\ "capture" \in OpKind
    BY DEF Step, OpKind
  <2>2. Begins("capture", todo)
    BY <1>2 DEF Publish
  <2>3. HostTypes' /\ AtRest' /\ op'.kind = "capture" /\ op'.todo = todo
    BY <1>1, <2>1, <2>2
  <2>4. IsAt("capture", <<"capture">>, 1)'
    BY <2>3, WholeAhead
  <2> QED
    BY <2>3, <2>4 DEF InOrder, OtherInv
<1>3. CASE Unpublish
  <2>1. "unpublish" \in OpKind
    BY DEF OpKind
  <2>2. HostTypes' /\ AtRest' /\ op'.kind = "unpublish" /\ op'.todo = UnpublishSteps
    BY <1>1, <1>3, <2>1, UnpublishProgram DEF Unpublish
  <2>3. IsAt("unpublish", UnpublishSteps, 5)'
    BY <2>2, WholeAhead
  <2>4. OtherInv'
    BY <2>3 DEF OtherInv
  <2> QED
    BY <2>2, <2>4 DEF InOrder
<1>4. CASE Install
  <2>1. "install" \in OpKind
    BY DEF OpKind
  <2>2. HostTypes' /\ AtRest' /\ op'.kind = "install" /\ op'.todo = Shut
    BY <1>1, <1>4, <2>1, OpeningSteps DEF Install, Shut
  <2>3. IsAt("install", Shut, 2)'
    BY <2>2, WholeAhead
  <2>4. OtherInv'
    BY <2>3 DEF OtherInv
  <2> QED
    BY <2>2, <2>4 DEF InOrder
<1>5. CASE Reboot
  <2>1. /\ op' = NoOp /\ game' = None /\ listening' = FALSE
        /\ nginx' = [nginx EXCEPT !.live = nginx.file]
        /\ UNCHANGED <<captured, current, launch, units, isolated>>
    BY <1>5 DEF Reboot
  <2>2. /\ nginx' \in [file : BOOLEAN, live : BOOLEAN]
        /\ nginx'.live = nginx.file /\ nginx'.file = nginx.file
    BY <2>1, TypesAtRest
  <2>3. HostTypes'
    BY <2>1, <2>2, <1>t, NoOperation DEF HostTypes
  <2>4. AtRest'
    <3>1. (nginx'.live => nginx.file) /\ (nginx'.file => nginx.file) /\ game' = None
      BY <2>1, <2>2, TypesAtRest
    <3>2. Servable(current, launch, units)'
      BY <2>1 DEF AtRest, Servable
    <3>3. nginx'.live \/ nginx'.file => current'.published
      BY <3>1, <2>1 DEF AtRest
    <3> QED
      BY <3>1, <3>2, <3>3 DEF AtRest
  <2> QED
    BY <2>1, <2>3, <2>4 DEF InOrder, OtherInv
<1>6. CASE GameExits \/ Visit
  BY <1>0, <1>6, VisitsAtRest
<1>7. CASE WriteRoute \/ LoadRoute
  BY <1>0, <1>7 DEF WriteRoute, LoadRoute, StepIs
<1>8. CASE Capture \/ Stop \/ WriteLaunch \/ WriteUnits \/ Start \/ Ready \/ Verify
           \/ RecordCurrent \/ RestoreFiles \/ StatusAnswers
  BY <1>0, <1>8 DEF Capture, Stop, WriteLaunch, WriteUnits, Start, Ready, Verify, RecordCurrent,
                    RestoreFiles, StatusAnswers, StepIs
<1>9. CASE Finish \/ Raise \/ Escape \/ Killed
  BY <1>0, <1>9 DEF Finish, Raise, Escape, Killed
<1> QED
  BY <1>2, <1>3, <1>4, <1>5, <1>6, <1>7, <1>8, <1>9 DEF GameNext

LEMMA CaptureKeeps ==
  ASSUME HostTypes, AtRest, IsAt("capture", <<"capture">>, 1), GameNext, ~disturbed'
  PROVE  (HostTypes /\ InOrder)'
<1>1. op.kind = "capture" /\ op # NoOp /\ OtherInv
  BY NoOperation DEF IsAt, OtherInv
<1>2. op.todo # <<>> /\ \A step : StepIs(step) => step = "capture"
  <2>1. "capture" \in Step /\ 1 \in 0 .. 1
    BY DEF Step
  <2> QED
    BY <2>1, OnlyStep
<1>3. CASE Capture
  <2> DEFINE saved == OwnedConfiguration
  <2>1. /\ op' = [op EXCEPT !.kind = "publish", !.todo = PublishSteps, !.saved = saved]
        /\ captured' = captured + 1
        /\ UNCHANGED <<current, launch, units, nginx, game, listening, isolated>>
    BY <1>3 DEF Capture, managed, running
  <2>2. /\ saved \in Configuration /\ saved.current = current /\ saved.launch = launch
        /\ saved.units = units /\ saved.route = nginx.file
    BY TypesAtRest DEF OwnedConfiguration, Configuration
  <2> HIDE DEF saved
  <2>3. "publish" \in OpKind
    BY DEF OpKind
  <2>4. op' \in Operation /\ op'.kind = "publish" /\ op'.todo = PublishSteps /\ op'.saved = saved
    BY <2>1, <2>2, <2>3, TypesAtRest, PublishProgram DEF Operation
  <2>5. HostTypes'
    BY <2>1, <2>4, TypesAtRest DEF HostTypes
  <2>6. AtRest'
    BY <2>1 DEF AtRest, Servable
  <2>7. SavedIsServable'
    BY <2>1, <2>2, <2>4, TypesAtRest DEF SavedIsServable, Servable, AtRest
  <2>8. captured' # None /\ current' = op'.saved.current
    BY <2>1, <2>2, <2>4, TypesAtRest
  <2>9. PublishInv(13)'
    BY <2>6, <2>7, <2>8 DEF PublishInv
  <2>10. IsAt("publish", PublishSteps, 13)'
    BY <2>4, WholeAhead
  <2> QED
    BY <2>5, <2>9, <2>10 DEF InOrder
<1>4. CASE Raise
  BY <1>1, <1>2, <1>4, LeavesAtRest
<1>5. CASE GameExits \/ Visit
  BY <1>1, <1>5, VisitsAtRest
<1>6. CASE Publish \/ Unpublish \/ Install \/ Finish \/ Escape \/ Killed \/ Reboot
  BY <1>1, <1>2, <1>6 DEF Publish, Unpublish, Install, Begins, Finish, Escape, Killed, Reboot
<1>7. CASE WriteRoute \/ LoadRoute
  BY <1>2, <1>7, RouteWritten, RouteLoaded
<1>8. CASE Stop \/ WriteLaunch \/ WriteUnits \/ Start \/ Ready \/ Verify \/ RecordCurrent
           \/ RestoreFiles \/ StatusAnswers
  BY <1>2, <1>8 DEF Stop, WriteLaunch, WriteUnits, Start, Ready, Verify, RecordCurrent,
                    RestoreFiles, StatusAnswers
<1> QED
  BY <1>3, <1>4, <1>5, <1>6, <1>7, <1>8 DEF GameNext

LEMMA AbortKeeps ==
  ASSUME HostTypes, AtRest, NEW n \in 0 .. 1, IsAt("abort", <<"stop">>, n),
         GameNext, ~disturbed'
  PROVE  (HostTypes /\ InOrder)'
<1>1. op.kind = "abort" /\ op # NoOp /\ OtherInv
  BY NoOperation DEF IsAt, OtherInv
<1>2. /\ \A step : StepIs(step) => n = 1 /\ step = "stop"
      /\ op'.kind = op.kind /\ op'.todo = Tail(op.todo) /\ n > 0 => IsAt("abort", <<"stop">>, 0)'
  <2>1. "stop" \in Step
    BY DEF Step
  <2> QED
    BY <2>1, OnlyStep
<1>t. /\ captured \in Nat /\ launch \in Nat /\ units \in Nat /\ game \in Nat /\ None \in Nat
      /\ current \in [snapshot : Nat, published : BOOLEAN]
      /\ nginx \in [file : BOOLEAN, live : BOOLEAN]
      /\ listening \in BOOLEAN /\ op \in Operation
  BY TypesAtRest
<1>3. CASE Stop
  <2>1. /\ op.todo # <<>> /\ op' = Onward /\ n = 1 /\ game' = None /\ listening' = FALSE
        /\ UNCHANGED <<captured, current, launch, units, nginx, isolated>>
    BY <1>2, <1>3 DEF Stop, StepIs, managed
  <2>2. op' \in Operation /\ op'.kind = op.kind /\ op'.todo = Tail(op.todo)
    BY <2>1, GoesOn
  <2>3. HostTypes'
    BY <2>1, <2>2, <1>t DEF HostTypes
  <2>4. AtRest'
    BY <2>1 DEF AtRest, Servable
  <2>5. IsAt("abort", <<"stop">>, 0)'
    BY <2>1, <2>2, <1>2
  <2> QED
    BY <2>3, <2>4, <2>5 DEF InOrder, OtherInv
<1>4. CASE Finish \/ Raise
  BY <1>1, <1>2, <1>4, LeavesAtRest
<1>5. CASE GameExits \/ Visit
  BY <1>1, <1>5, VisitsAtRest
<1>6. CASE Publish \/ Unpublish \/ Install \/ Escape \/ Killed \/ Reboot
  BY <1>1, <1>6 DEF Publish, Unpublish, Install, Begins, Escape, Killed, Reboot
<1>7. CASE WriteRoute \/ LoadRoute
  BY <1>2, <1>7, RouteWritten, RouteLoaded
<1>8. CASE Capture \/ WriteLaunch \/ WriteUnits \/ Start \/ Ready \/ Verify \/ RecordCurrent
           \/ RestoreFiles \/ StatusAnswers
  BY <1>2, <1>8 DEF Capture, WriteLaunch, WriteUnits, Start, Ready, Verify, RecordCurrent,
                    RestoreFiles, StatusAnswers
<1> QED
  BY <1>3, <1>4, <1>5, <1>6, <1>7, <1>8 DEF GameNext

LEMMA UnpublishKeeps ==
  ASSUME HostTypes, AtRest, NEW n \in 0 .. 5, IsAt("unpublish", UnpublishSteps, n),
         n = 4 => ~nginx.file /\ (op.before => current.published),
         n <= 3 => RouteShut, n <= 2 => Stopped,
         GameNext, ~disturbed'
  PROVE  (HostTypes /\ InOrder)'
<1>1. op.kind = "unpublish" /\ op # NoOp /\ OtherInv
  BY NoOperation DEF IsAt, OtherInv
<1>t. /\ captured \in Nat /\ launch \in Nat /\ units \in Nat /\ game \in Nat /\ None \in Nat
      /\ current \in [snapshot : Nat, published : BOOLEAN]
      /\ nginx \in [file : BOOLEAN, live : BOOLEAN]
      /\ listening \in BOOLEAN /\ op \in Operation
  BY TypesAtRest
<1>2. ASSUME NEW m \in 0 .. 5, HostTypes', AtRest', IsAt("unpublish", UnpublishSteps, m)',
             (m = 4 => ~nginx.file /\ (op.before => current.published))',
             (m <= 3 => RouteShut)', (m <= 2 => Stopped)'
      PROVE  (HostTypes /\ InOrder)'
  <2>1. OtherInv'
    BY <1>2 DEF OtherInv
  <2> QED
    BY <2>1, <1>2 DEF InOrder
<1>3. CASE WriteRoute
  <2>1. /\ op.todo # <<>> /\ op' \in Operation /\ op'.kind = op.kind
        /\ op'.todo = Tail(op.todo) /\ op'.before = nginx.file
        /\ (StepIs("write_on") /\ nginx'.file) \/ (StepIs("write_off") /\ ~nginx'.file)
        /\ nginx' \in [file : BOOLEAN, live : BOOLEAN] /\ nginx'.live = nginx.live
        /\ UNCHANGED <<captured, current, launch, units, game, listening, isolated>>
    BY <1>3, RouteWritten
  <2>2. n = 5 /\ n - 1 = 4 /\ ~nginx'.file /\ IsAt("unpublish", UnpublishSteps, n - 1)'
    BY <2>1, UnpublishAt
  <2>3. HostTypes'
    BY <2>1, <1>t DEF HostTypes
  <2>4. AtRest'
    BY <2>1, <2>2 DEF AtRest, Servable
  <2>5. (op.before => current.published)'
    BY <2>1 DEF AtRest
  <2> QED
    BY <2>2, <2>3, <2>4, <2>5, <1>2
<1>4. CASE LoadRoute
  <2>1. /\ op.todo # <<>> /\ op' \in Operation /\ op'.kind = op.kind
        /\ op'.todo = Tail(op.todo)
        /\ (StepIs("load_on") \/ StepIs("load_off"))
        /\ nginx' \in [file : BOOLEAN, live : BOOLEAN]
        /\ nginx'.live = nginx.file /\ nginx'.file = nginx.file
        /\ UNCHANGED <<captured, current, launch, units, game, listening, isolated>>
    BY <1>4, RouteLoaded
  <2>2. n = 4 /\ n - 1 = 3 /\ IsAt("unpublish", UnpublishSteps, n - 1)'
    BY <2>1, UnpublishAt
  <2>3. HostTypes'
    BY <2>1, <1>t DEF HostTypes
  <2>4. ~nginx'.live /\ ~nginx'.file
    BY <2>1, <2>2
  <2>5. AtRest' /\ RouteShut'
    BY <2>1, <2>4 DEF AtRest, Servable, RouteShut
  <2> QED
    BY <2>2, <2>3, <2>5, <1>2
<1>5. CASE Stop
  <2>1. /\ op.todo # <<>> /\ op' = Onward /\ n = 3 /\ n - 1 = 2
        /\ game' = None /\ listening' = FALSE
        /\ UNCHANGED <<captured, current, launch, units, nginx, isolated>>
    BY <1>5, UnpublishAt DEF Stop, StepIs, managed
  <2>2. op' \in Operation /\ op'.kind = op.kind /\ op'.todo = Tail(op.todo)
    BY <2>1, GoesOn
  <2>3. HostTypes'
    BY <2>1, <2>2, <1>t DEF HostTypes
  <2>4. AtRest' /\ RouteShut' /\ Stopped'
    BY <2>1 DEF AtRest, Servable, RouteShut, Stopped
  <2>5. IsAt("unpublish", UnpublishSteps, n - 1)'
    BY <2>1, <2>2, UnpublishAt
  <2> QED
    BY <2>1, <2>3, <2>4, <2>5, <1>2
<1>6. CASE RecordCurrent \/ StatusAnswers
  <2>1. /\ op.todo # <<>> /\ op' = Onward /\ (n = 2 \/ n = 1) /\ n > 0
        /\ current' = [current EXCEPT !.published = FALSE] \/ current' = current
        /\ UNCHANGED <<captured, launch, units, nginx, game, listening, isolated>>
    BY <1>6, UnpublishAt DEF RecordCurrent, StatusAnswers, StepIs, managed, running
  <2>2. op' \in Operation /\ op'.kind = op.kind /\ op'.todo = Tail(op.todo)
    BY <2>1, GoesOn
  <2>3. /\ current' \in [snapshot : Nat, published : BOOLEAN]
        /\ current'.snapshot = current.snapshot /\ (current'.published => current.published)
    BY <2>1, <1>t
  <2>4. HostTypes'
    BY <2>1, <2>2, <2>3, <1>t DEF HostTypes
  <2>5. RouteShut' /\ Stopped'
    BY <2>1 DEF RouteShut, Stopped
  <2>6. AtRest'
    BY <2>1, <2>3, <2>5 DEF AtRest, Servable, RouteShut
  <2>7. IsAt("unpublish", UnpublishSteps, n - 1)'
    BY <2>1, <2>2, UnpublishAt
  <2>8. n - 1 \in 0 .. 5 /\ n - 1 # 4
    BY <2>1
  <2> QED
    BY <2>4, <2>5, <2>6, <2>7, <2>8, <1>2
<1>7. CASE Finish
  BY <1>7, LeavesAtRest
<1>8. CASE Raise
  BY <1>1, <1>8, UnpublishAt, LeavesAtRest
<1>9. CASE GameExits \/ Visit
  BY <1>1, <1>9, VisitsAtRest
<1>10. CASE Publish \/ Unpublish \/ Install \/ Escape \/ Killed \/ Reboot
  BY <1>1, <1>10 DEF Publish, Unpublish, Install, Begins, Escape, Killed, Reboot
<1>11. CASE Capture \/ WriteLaunch \/ WriteUnits \/ Start \/ Ready \/ Verify \/ RestoreFiles
  BY <1>11, UnpublishAt DEF Capture, WriteLaunch, WriteUnits, Start, Ready, Verify, RestoreFiles
<1> QED
  BY <1>3, <1>4, <1>5, <1>6, <1>7, <1>8, <1>9, <1>10, <1>11 DEF GameNext

LEMMA InstallKeeps ==
  ASSUME HostTypes, AtRest, NEW n \in 0 .. 2, IsAt("install", Shut, n),
         n = 1 => ~nginx.file /\ (op.before => current.published),
         GameNext, ~disturbed'
  PROVE  (HostTypes /\ InOrder)'
<1>1. op.kind = "install" /\ op # NoOp /\ OtherInv
  BY NoOperation DEF IsAt, OtherInv
<1>t. /\ captured \in Nat /\ launch \in Nat /\ units \in Nat /\ game \in Nat /\ None \in Nat
      /\ current \in [snapshot : Nat, published : BOOLEAN]
      /\ nginx \in [file : BOOLEAN, live : BOOLEAN]
      /\ listening \in BOOLEAN /\ op \in Operation
  BY TypesAtRest
<1>2. ASSUME NEW m \in 0 .. 2, HostTypes', AtRest', IsAt("install", Shut, m)',
             (m = 1 => ~nginx.file /\ (op.before => current.published))'
      PROVE  (HostTypes /\ InOrder)'
  <2>1. OtherInv'
    BY <1>2 DEF OtherInv
  <2> QED
    BY <2>1, <1>2 DEF InOrder
<1>3. CASE WriteRoute
  <2>1. /\ op.todo # <<>> /\ op' \in Operation /\ op'.kind = op.kind
        /\ op'.todo = Tail(op.todo) /\ op'.before = nginx.file
        /\ (StepIs("write_on") /\ nginx'.file) \/ (StepIs("write_off") /\ ~nginx'.file)
        /\ nginx' \in [file : BOOLEAN, live : BOOLEAN] /\ nginx'.live = nginx.live
        /\ UNCHANGED <<captured, current, launch, units, game, listening, isolated>>
    BY <1>3, RouteWritten
  <2>2. n = 2 /\ n - 1 = 1 /\ ~nginx'.file /\ IsAt("install", Shut, n - 1)'
    BY <2>1, InstallAt
  <2>3. HostTypes'
    BY <2>1, <1>t DEF HostTypes
  <2>4. AtRest'
    BY <2>1, <2>2 DEF AtRest, Servable
  <2>5. (op.before => current.published)'
    BY <2>1 DEF AtRest
  <2> QED
    BY <2>2, <2>3, <2>4, <2>5, <1>2
<1>4. CASE LoadRoute
  <2>1. /\ op.todo # <<>> /\ op' \in Operation /\ op'.kind = op.kind
        /\ op'.todo = Tail(op.todo)
        /\ (StepIs("load_on") \/ StepIs("load_off"))
        /\ nginx' \in [file : BOOLEAN, live : BOOLEAN]
        /\ nginx'.live = nginx.file /\ nginx'.file = nginx.file
        /\ UNCHANGED <<captured, current, launch, units, game, listening, isolated>>
    BY <1>4, RouteLoaded
  <2>2. n = 1 /\ n - 1 = 0 /\ IsAt("install", Shut, n - 1)'
    BY <2>1, InstallAt
  <2>3. HostTypes'
    BY <2>1, <1>t DEF HostTypes
  <2>4. ~nginx'.live /\ ~nginx'.file
    BY <2>1, <2>2
  <2>5. AtRest'
    BY <2>1, <2>4 DEF AtRest, Servable
  <2> QED
    BY <2>2, <2>3, <2>5, <1>2
<1>7. CASE Finish
  BY <1>7, LeavesAtRest
<1>8. CASE Raise
  BY <1>1, <1>8, InstallAt, LeavesAtRest
<1>9. CASE GameExits \/ Visit
  BY <1>1, <1>9, VisitsAtRest
<1>10. CASE Publish \/ Unpublish \/ Install \/ Escape \/ Killed \/ Reboot
  BY <1>1, <1>10 DEF Publish, Unpublish, Install, Begins, Escape, Killed, Reboot
<1>11. CASE Capture \/ Stop \/ WriteLaunch \/ WriteUnits \/ Start \/ Ready \/ Verify
            \/ RecordCurrent \/ RestoreFiles \/ StatusAnswers
  BY <1>11, InstallAt DEF Capture, Stop, WriteLaunch, WriteUnits, Start, Ready, Verify,
                          RecordCurrent, RestoreFiles, StatusAnswers
<1> QED
  BY <1>3, <1>4, <1>7, <1>8, <1>9, <1>10, <1>11 DEF GameNext

-----------------------------------------------------------------------------

LEMMA HostBegins == GameInit => HostInv
<1> SUFFICES ASSUME GameInit PROVE HostTypes /\ AtRest /\ op = NoOp /\ disturbed = FALSE
  BY DEF HostInv, InOrder, OtherInv
<1>1. current = Nothing.current /\ op = NoOp /\ NoOp \in Operation /\ disturbed = FALSE
      /\ current \in [snapshot : Nat, published : BOOLEAN] /\ ~current.published
  BY NoOperation DEF GameInit
<1>2. nginx \in [file : BOOLEAN, live : BOOLEAN] /\ ~nginx.file /\ ~nginx.live
  BY DEF GameInit
<1>3. HostTypes
  BY <1>1, <1>2 DEF GameInit, HostTypes, None
<1>4. AtRest
  BY <1>1, <1>2 DEF AtRest, Servable
<1> QED
  BY <1>1, <1>3, <1>4

\* Nothing takes back that a helper was killed.
LEMMA DisturbedStays ==
  ASSUME disturbed \in BOOLEAN, GameNext
  PROVE  disturbed' \in BOOLEAN /\ (disturbed => disturbed')
BY DEF GameNext, Publish, Unpublish, Install, Begins, Capture, WriteRoute, LoadRoute, Stop,
       WriteLaunch, WriteUnits, Start, Ready, Verify, RecordCurrent, RestoreFiles, StatusAnswers,
       Finish, Raise, Escape, Killed, Reboot, GameExits, Visit

LEMMA HostStep == HostInv /\ [GameNext]_hostVars => HostInv'
<1> SUFFICES ASSUME HostInv, [GameNext]_hostVars PROVE HostInv'
  OBVIOUS
<1>1. CASE GameNext
  <2>1. disturbed' \in BOOLEAN /\ (disturbed => disturbed')
    BY <1>1, DisturbedStays DEF HostInv
  <2>2. ASSUME ~disturbed' PROVE (HostTypes /\ InOrder)'
    <3>1. HostTypes /\ InOrder
      BY <2>1, <2>2 DEF HostInv
    <3>2. CASE AtRest /\ OtherInv
      <4>1. ASSUME op = NoOp PROVE (HostTypes /\ InOrder)'
        BY <1>1, <2>2, <3>1, <3>2, <4>1, IdleKeeps
      <4>2. ASSUME IsAt("capture", <<"capture">>, 1) PROVE (HostTypes /\ InOrder)'
        BY <1>1, <2>2, <3>1, <3>2, <4>2, CaptureKeeps
      <4>3. ASSUME NEW n \in 0 .. 5, IsAt("unpublish", UnpublishSteps, n),
                   n = 4 => ~nginx.file /\ (op.before => current.published),
                   n <= 3 => RouteShut, n <= 2 => Stopped
            PROVE  (HostTypes /\ InOrder)'
        BY <1>1, <2>2, <3>1, <3>2, <4>3, UnpublishKeeps
      <4>4. ASSUME NEW n \in 0 .. 1, IsAt("abort", <<"stop">>, n) PROVE (HostTypes /\ InOrder)'
        BY <1>1, <2>2, <3>1, <3>2, <4>4, AbortKeeps
      <4>5. ASSUME NEW n \in 0 .. 2, IsAt("install", Shut, n),
                   n = 1 => ~nginx.file /\ (op.before => current.published)
            PROVE  (HostTypes /\ InOrder)'
        BY <1>1, <2>2, <3>1, <3>2, <4>5, InstallKeeps
      <4> QED
        BY <3>2, <4>1, <4>2, <4>3, <4>4, <4>5 DEF OtherInv
    <3>3. ASSUME NEW n \in 0 .. 13, IsAt("publish", PublishSteps, n), PublishInv(n)
          PROVE  (HostTypes /\ InOrder)'
      BY <1>1, <2>2, <3>1, <3>3, PublishKeeps
    <3>4. ASSUME NEW n \in 0 .. 8, IsAt("restore", RestoreOpen, n), RestoreOpenInv(n)
          PROVE  (HostTypes /\ InOrder)'
      BY <1>1, <2>2, <3>1, <3>4, RestoreOpenKeeps
    <3>5. ASSUME NEW n \in 0 .. 4, IsAt("restore", RestoreShut, n), RestoreShutInv(n)
          PROVE  (HostTypes /\ InOrder)'
      BY <1>1, <2>2, <3>1, <3>5, RestoreShutKeeps
    <3> QED
      BY <3>1, <3>2, <3>3, <3>4, <3>5 DEF InOrder
  <2> QED
    BY <2>1, <2>2 DEF HostInv
<1>2. CASE UNCHANGED hostVars
  BY <1>2 DEF hostVars, HostInv, HostTypes, InOrder, AtRest, OtherInv, IsAt, PublishInv,
              RestoreOpenInv, RestoreShutInv, Servable, SavedIsServable, RouteShut, Stopped,
              RunsCandidate, MayServe, Executed, FilesRestored
<1> QED
  BY <1>1, <1>2

LEMMA SafeRoute == HostInv => RouteIsSafe
<1> SUFFICES ASSUME HostInv, ~disturbed
             PROVE  /\ nginx.live /\ listening /\ game # None => game \in isolated
                    /\ op = NoOp => /\ nginx.live => current.published
                                    /\ nginx.live /\ game # None => game = current.snapshot
  BY DEF RouteIsSafe, PublicIsIsolated, ServedIsCurrent
<1>1. HostTypes /\ InOrder
  BY DEF HostInv
<1>2. CASE AtRest /\ OtherInv
  BY <1>2 DEF AtRest, Servable
<1>3. ASSUME NEW n \in 0 .. 13, IsAt("publish", PublishSteps, n), PublishInv(n)
      PROVE  op # NoOp /\ (nginx.live /\ listening /\ game # None => game \in isolated)
  BY <1>3, NoOperation DEF IsAt, PublishInv, AtRest, Servable, RouteShut, RunsCandidate
<1>4. ASSUME NEW n \in 0 .. 8, IsAt("restore", RestoreOpen, n), RestoreOpenInv(n)
      PROVE  op # NoOp /\ (nginx.live /\ listening /\ game # None => game \in isolated)
  BY <1>4, NoOperation DEF IsAt, RestoreOpenInv, MayServe, SavedIsServable, Servable, Stopped
<1>5. ASSUME NEW n \in 0 .. 4, IsAt("restore", RestoreShut, n), RestoreShutInv(n)
      PROVE  op # NoOp /\ (nginx.live /\ listening /\ game # None => game \in isolated)
  BY <1>5, NoOperation DEF IsAt, RestoreShutInv, MayServe, Stopped
<1> QED
  BY <1>1, <1>2, <1>3, <1>4, <1>5 DEF InOrder

(* Whatever raises, exits or restarts, and however many games are published, the    *)
(* public route never reaches a copy whose isolation was not verified, and between   *)
(* operations it serves what current.json records as published, unless a helper was  *)
(* killed or a rollback failed (game_host.py: _publish, restore, nginx_route).        *)
THEOREM RoutesAreSafe == GameSpec => []RouteIsSafe
<1>1. GameSpec => []HostInv
  BY HostBegins, HostStep, PTL DEF GameSpec
<1> QED
  BY <1>1, SafeRoute, PTL

-----------------------------------------------------------------------------
(* Shells and their sessions.  The shells on record are those that a session       *)
(* keeps in its _pty; what runs, and what a descriptor stands for, is one of them.  *)

Number == Descriptor \cup {CHOOSE d \in Descriptor : TRUE}

Terminal == [opened : BOOLEAN, number : Number, bash : BOOLEAN, job : BOOLEAN,
             printed : 0 .. MaxPiece, unread : Seq(1 .. MaxPiece), buf : Seq(Piece),
             total : Nat]

ShellTypes ==
    /\ session \in [SessionId -> [status : {"none", "open", "closed"}, dev : BOOLEAN,
                                  folder : BOOLEAN, pty : Nat]]
    /\ terminal \in [Shell -> Terminal]
    /\ reading \in [Shell -> Nat]
    /\ descriptor \in [Descriptor -> Nat]
    /\ tab \in [phase : {"none", "open", "ended"}, session : SessionId, since : Nat,
                sent : Nat, shown : SUBSET Piece]

\* n is the terminal of session s.
OnRecord(s, n) == session[s].pty = n /\ n # Nobody

\* A terminal on record is open, is its session's alone, and keeps its descriptor.
TerminalsOwned ==
    /\ \A s \in SessionId, n \in Nat : OnRecord(s, n) =>
         /\ n \in Shell /\ session[s].status = "open"
         /\ terminal[n].opened /\ terminal[n].number \in Descriptor
         /\ descriptor[terminal[n].number] = n
    /\ \A s, t \in SessionId, n \in Nat : OnRecord(s, n) /\ OnRecord(t, n) => s = t

\* What runs, and what a descriptor stands for, is on record.
NoStrays ==
    /\ \A n \in Shell : terminal[n].bash => \E s \in SessionId : OnRecord(s, n)
    /\ \A d \in Descriptor : descriptor[d] # Closed =>
         /\ \E s \in SessionId : OnRecord(s, descriptor[d])
         /\ terminal[descriptor[d]].number = d

\* The reader of a terminal on record reads that terminal, so it buffers nothing else.
ReadersFaithful ==
    /\ \A n \in Shell :
         /\ reading[n] # Nobody => reading[n] \in Shell /\ terminal[n].opened
         /\ terminal[n].opened => terminal[n].number \in Descriptor
         /\ ~terminal[n].opened => Len(terminal[n].buf) = 0
         /\ Len(terminal[n].buf) <= terminal[n].total
    /\ \A s \in SessionId, n \in Shell : OnRecord(s, n) =>
         /\ reading[n] \in {n, Nobody}
         /\ \A i \in 1 .. Len(terminal[n].buf) : terminal[n].buf[i][1] = n

\* What the buffer holds up to the stream's offset, the browser was shown.
Covers(sent, displayed, buf, total, n) ==
    /\ sent <= total
    /\ \A p \in displayed : p[1] = n
    /\ \A i \in 1 .. Len(buf) : total - Len(buf) + i <= sent => buf[i] \in displayed

Shown(n) == Covers(tab.sent, tab.shown, terminal[n].buf, terminal[n].total, n)

FollowerShown ==
    /\ tab.phase = "none" => tab.sent = 0 /\ tab.shown = {}
    /\ tab.since # Nobody => tab.since \in Shell /\ terminal[tab.since].opened
    /\ tab.phase # "none" /\ OnRecord(tab.session, tab.since) => Shown(tab.since)

ShellInv == ShellTypes /\ TerminalsOwned /\ NoStrays /\ ReadersFaithful /\ FollowerShown

(* The buffer and what a stream sends of it.                                      *)

LEMMA Sent ==
  ASSUME NEW p \in Seq(Piece), NEW start \in 0 .. Len(p)
  PROVE  /\ From(p, start) \in Seq(Piece) /\ Len(From(p, start)) = Len(p) - start
         /\ \A i \in 1 .. Len(p) - start : From(p, start)[i] = p[start + i]
         /\ \A i \in start + 1 .. Len(p) : p[i] \in Range(From(p, start))
         /\ \A x \in Range(From(p, start)) : \E i \in 1 .. Len(p) : x = p[i]
<1>1. Len(p) \in Nat /\ start \in Nat /\ start + 1 \in 1 .. Len(p) + 1
  BY LenProperties
<1>2. \A i \in start + 1 .. Len(p) : p[i] \in Piece
  BY <1>1, ElementOfSeq
<1>3. /\ SubSeq(p, start + 1, Len(p)) \in Seq(Piece)
      /\ Len(SubSeq(p, start + 1, Len(p)))
           = IF start + 1 <= Len(p) THEN Len(p) - (start + 1) + 1 ELSE 0
      /\ \A i \in 1 .. Len(p) - (start + 1) + 1 :
           SubSeq(p, start + 1, Len(p))[i] = p[start + 1 + i - 1]
  BY <1>1, <1>2, SubSeqProperties
<1> DEFINE q == From(p, start)
<1>4. /\ q \in Seq(Piece) /\ Len(q) = Len(p) - start
      /\ \A i \in 1 .. Len(p) - start : q[i] = p[start + i]
  BY <1>1, <1>3 DEF From
<1>5. DOMAIN q = 1 .. Len(q)
  BY <1>4, LenProperties
<1> HIDE DEF q
<1>6. ASSUME NEW i \in start + 1 .. Len(p) PROVE p[i] \in Range(q)
  <2>1. i - start \in DOMAIN q /\ q[i - start] = p[i]
    BY <1>1, <1>4, <1>5
  <2> QED
    BY <2>1 DEF Range
<1>7. ASSUME NEW x \in Range(q) PROVE \E i \in 1 .. Len(p) : x = p[i]
  <2>1. PICK i \in DOMAIN q : x = q[i]
    BY <1>7 DEF Range
  <2>2. start + i \in 1 .. Len(p) /\ x = p[start + i]
    BY <2>1, <1>1, <1>4, <1>5
  <2> QED
    BY <2>2
<1> QED
  BY <1>4, <1>6, <1>7 DEF q

\* r is b with x at its end, but for what the bound drops from its front.
Retains(r, b, x) ==
    /\ r \in Seq(Piece) /\ Len(r) \in Nat /\ Len(r) <= Len(b) + 1
    /\ \A i \in 1 .. Len(r) :
         \/ i = Len(r) /\ r[i] = x
         \/ /\ Len(b) + 1 - Len(r) + i \in 1 .. Len(b)
            /\ r[i] = b[Len(b) + 1 - Len(r) + i]

LEMMA Retaining ==
  ASSUME NEW b \in Seq(Piece), NEW x \in Piece
  PROVE  Retains(Retain(Append(b, x)), b, x)
<1> SUFFICES ASSUME NEW r, r = Retain(Append(b, x)) PROVE Retains(r, b, x)
  OBVIOUS
<1> DEFINE p == Append(b, x)
<1>1. /\ p \in Seq(Piece) /\ Len(p) = Len(b) + 1 /\ Len(b) \in Nat
      /\ \A i \in 1 .. Len(b) : p[i] = b[i]
      /\ p[Len(b) + 1] = x
  BY AppendProperties, LenProperties
<1> HIDE DEF p
<1>2. Retained \in Nat \ {0}
  BY SessionAssumption
<1>3. CASE Len(p) > Retained
  <2> DEFINE start == Len(p) - Retained
  <2>1. start \in 0 .. Len(p) /\ r = From(p, start)
    BY <1>1, <1>2, <1>3 DEF p, Retain
  <2>2. /\ r \in Seq(Piece) /\ Len(r) = Retained
        /\ \A i \in 1 .. Retained : r[i] = p[start + i]
    <3>1. Len(p) - start = Retained
      BY <1>1, <1>2
    <3>2. start \in 0 .. Len(p)
      BY <2>1
    <3> HIDE DEF start
    <3>3. /\ From(p, start) \in Seq(Piece) /\ Len(From(p, start)) = Len(p) - start
          /\ \A i \in 1 .. Len(p) - start : From(p, start)[i] = p[start + i]
      BY <3>2, <1>1, Sent
    <3> QED
      BY <2>1, <3>1, <3>3
  <2>3. ASSUME NEW i \in 1 .. Len(r)
        PROVE  start + i \in 1 .. Len(b) + 1 /\ Len(b) + 1 - Len(r) + i = start + i
               /\ r[i] = p[start + i] /\ (start + i = Len(b) + 1 => i = Len(r))
    BY <2>2, <1>1, <1>2, <1>3
  <2>4. ASSUME NEW i \in 1 .. Len(r)
        PROVE  \/ i = Len(r) /\ r[i] = x
               \/ /\ Len(b) + 1 - Len(r) + i \in 1 .. Len(b)
                  /\ r[i] = b[Len(b) + 1 - Len(r) + i]
    <3>1. CASE start + i = Len(b) + 1
      BY <2>3, <3>1, <1>1
    <3>2. CASE start + i # Len(b) + 1
      <4>1. start + i \in 1 .. Len(b)
        BY <2>3, <3>2, <1>1
      <4>2. r[i] = b[start + i]
        BY <2>3, <4>1, <1>1
      <4> QED
        BY <2>3, <4>1, <4>2
    <3> QED
      BY <3>1, <3>2
  <2>5. r \in Seq(Piece) /\ Len(r) \in Nat /\ Len(r) <= Len(b) + 1
    BY <2>2, <1>1, <1>2, <1>3
  <2> QED
    BY <2>4, <2>5 DEF Retains
<1>4. CASE ~(Len(p) > Retained)
  <2>1. r = p
    BY <1>4 DEF p, Retain
  <2> QED
    BY <2>1, <1>1 DEF Retains
<1> QED
  BY <1>3, <1>4

\* A terminal that may print has not printed all its pieces.
LEMMA RoomToPrint ==
  ASSUME ShellTypes, NEW n \in Shell, Cardinality(Printed) < MaxPiece
  PROVE  terminal[n].printed + 1 \in 1 .. MaxPiece
<1>1. terminal[n].printed \in 0 .. MaxPiece
  BY DEF ShellTypes, Terminal
<1>2. MaxPiece \in Nat /\ MaxShell \in Nat
  BY SessionAssumption
<1> SUFFICES ASSUME terminal[n].printed = MaxPiece PROVE FALSE
  BY <1>1, <1>2
<1> DEFINE all == 1 .. MaxPiece  own == {n} \X all
<1>3. IsFiniteSet(all) /\ Cardinality(all) = MaxPiece
  BY <1>2, FS_Interval
<1>4. IsFiniteSet(Shell)
  BY <1>2, FS_Interval DEF Shell
<1>5. IsFiniteSet({n}) /\ Cardinality({n}) = 1
  BY FS_Singleton
<1>6. own \subseteq Printed /\ Printed \subseteq Piece
  BY DEF Printed, Piece
<1>7. IsFiniteSet(Piece)
  BY <1>3, <1>4, FS_Product DEF Piece
<1>8. IsFiniteSet(Printed)
  BY <1>6, <1>7, FS_Subset
<1>9. Cardinality(own) = MaxPiece
  <2> HIDE DEF all
  <2>1. Cardinality(own) = Cardinality({n}) * Cardinality(all)
    BY <1>3, <1>5, FS_Product
  <2> QED
    BY <2>1, <1>2, <1>3, <1>5
<1>10. IsFiniteSet(own) /\ Cardinality(own) <= Cardinality(Printed) /\ Cardinality(Printed) \in Nat
  <2> HIDE DEF own
  <2> QED
    BY <1>6, <1>8, FS_Subset, FS_CardinalityType
<1> QED
  BY <1>2, <1>9, <1>10

-----------------------------------------------------------------------------
(* What a step may do to sessions and terminals and keep them in order.            *)

\* What runs on a terminal prints and ends; its buffer is its reader's.
LEMMA TerminalGoes ==
  ASSUME ShellInv, terminal' \in [Shell -> Terminal],
         UNCHANGED <<reading, descriptor>>, tab' = tab,
         session' \in [SessionId -> [status : {"none", "open", "closed"}, dev : BOOLEAN,
                                     folder : BOOLEAN, pty : Nat]],
         \A s \in SessionId : session'[s].pty = session[s].pty
                              /\ (session[s].status = "open" => session'[s].status = "open"),
         \A n \in Shell : /\ terminal'[n].opened = terminal[n].opened
                          /\ terminal'[n].number = terminal[n].number
                          /\ terminal'[n].buf = terminal[n].buf
                          /\ terminal'[n].total = terminal[n].total
                          /\ (terminal'[n].bash => terminal[n].bash)
  PROVE  ShellInv'
<1>1. ShellTypes'
  BY DEF ShellInv, ShellTypes
<1>2. ASSUME NEW s \in SessionId, NEW n PROVE OnRecord(s, n)' <=> OnRecord(s, n)
  BY DEF OnRecord
<1>3. TerminalsOwned'
  BY <1>2 DEF ShellInv, TerminalsOwned
<1>4. NoStrays'
  <2>1. ASSUME NEW d \in Descriptor, descriptor[d] # Closed PROVE descriptor[d] \in Shell
    BY <2>1 DEF ShellInv, NoStrays, TerminalsOwned, ShellTypes
  <2> QED
    BY <1>2, <2>1 DEF ShellInv, NoStrays
<1>5. ReadersFaithful'
  BY <1>2 DEF ShellInv, ReadersFaithful
<1>6. FollowerShown'
  <2>1. tab.session \in SessionId
    BY DEF ShellInv, ShellTypes
  <2>2. ASSUME (tab.phase # "none" /\ OnRecord(tab.session, tab.since))'
        PROVE  Shown(tab.since)'
    <3>1. tab.phase # "none" /\ OnRecord(tab.session, tab.since) /\ tab.since \in Shell
      BY <2>1, <2>2 DEF OnRecord, ShellInv, FollowerShown
    <3>2. Shown(tab.since)
      BY <3>1 DEF ShellInv, FollowerShown
    <3> QED
      BY <3>1, <3>2 DEF Shown
  <2> QED
    BY <2>2 DEF ShellInv, FollowerShown
<1> QED
  BY <1>1, <1>3, <1>4, <1>5, <1>6 DEF ShellInv

\* Closing a session's shell: nothing of it is left, and nothing else is touched.
LEMMA Closes ==
  ASSUME ShellInv, NEW s \in SessionId, NEW c, NEW e,
         c = ShellsClosed(s), e = DescriptorsClosed(s)
  PROVE  /\ c \in [Shell -> Terminal] /\ e \in [Descriptor -> Nat]
         /\ \A n \in Shell :
              /\ c[n].opened = terminal[n].opened /\ c[n].number = terminal[n].number
              /\ c[n].buf = terminal[n].buf /\ c[n].total = terminal[n].total
              /\ c[n].bash => terminal[n].bash /\ ~OnRecord(s, n)
         /\ \A d \in Descriptor :
              /\ e[d] # Closed => e[d] = descriptor[d] /\ ~OnRecord(s, e[d])
              /\ descriptor[d] # Closed /\ ~OnRecord(s, descriptor[d]) => e[d] = descriptor[d]
<1>1. terminal \in [Shell -> Terminal] /\ descriptor \in [Descriptor -> Nat]
  BY DEF ShellInv, ShellTypes
<1>2. CASE session[s].pty = Nobody
  BY <1>1, <1>2 DEF ShellsClosed, DescriptorsClosed, OnRecord
<1>3. CASE session[s].pty # Nobody
  <2> DEFINE k == session[s].pty
  <2>1. OnRecord(s, k) /\ k \in Nat
    BY <1>3 DEF OnRecord, ShellInv, ShellTypes
  <2>2. k \in Shell /\ terminal[k].number \in Descriptor /\ descriptor[terminal[k].number] = k
    BY <2>1 DEF ShellInv, TerminalsOwned
  <2>3. c = [terminal EXCEPT ![k].bash = FALSE]
        /\ e = [descriptor EXCEPT ![terminal[k].number] = Closed]
    BY <1>3 DEF ShellsClosed, DescriptorsClosed
  <2>4. \A n : OnRecord(s, n) => n = k
    BY DEF OnRecord
  <2> HIDE DEF k
  <2>5. /\ c \in [Shell -> Terminal]
        /\ \A n \in Shell :
              /\ c[n].opened = terminal[n].opened /\ c[n].number = terminal[n].number
              /\ c[n].buf = terminal[n].buf /\ c[n].total = terminal[n].total
              /\ c[n].bash => terminal[n].bash /\ n # k
    <3>1. terminal[k] \in Terminal
      BY <1>1, <2>2
    <3>2. /\ c[k] = [terminal[k] EXCEPT !.bash = FALSE]
          /\ \A n \in Shell : n # k => c[n] = terminal[n]
          /\ DOMAIN c = Shell
      BY <1>1, <2>2, <2>3
    <3>3. c[k] \in Terminal /\ ~c[k].bash /\ c[k].opened = terminal[k].opened
          /\ c[k].number = terminal[k].number /\ c[k].buf = terminal[k].buf
          /\ c[k].total = terminal[k].total
      BY <3>1, <3>2 DEF Terminal
    <3>4. c \in [Shell -> Terminal]
      BY <1>1, <2>3, <3>2, <3>3
    <3> QED
      BY <3>2, <3>3, <3>4
  <2>6. /\ e \in [Descriptor -> Nat] /\ e[terminal[k].number] = Closed
        /\ \A d \in Descriptor : d # terminal[k].number => e[d] = descriptor[d]
    BY <1>1, <2>2, <2>3 DEF Closed
  <2>7. ASSUME NEW d \in Descriptor, e[d] # Closed
        PROVE  e[d] = descriptor[d] /\ descriptor[d] # k
    <3>1. d # terminal[k].number /\ e[d] = descriptor[d] /\ descriptor[d] # Closed
      BY <2>6, <2>7
    <3>2. terminal[descriptor[d]].number = d
      BY <3>1 DEF ShellInv, NoStrays
    <3> QED
      BY <3>1, <3>2
  <2>8. ASSUME NEW d \in Descriptor, descriptor[d] # Closed, ~OnRecord(s, descriptor[d])
        PROVE  e[d] = descriptor[d]
    BY <2>1, <2>2, <2>6, <2>8
  <2> QED
    BY <2>1, <2>4, <2>5, <2>6, <2>7, <2>8
<1> QED
  BY <1>2, <1>3

\* A session that gives up its shell, by closing or by opening a folder.
LEMMA ShellLeft ==
  ASSUME ShellInv, NEW s \in SessionId,
         session' \in [SessionId -> [status : {"none", "open", "closed"}, dev : BOOLEAN,
                                     folder : BOOLEAN, pty : Nat]],
         session'[s].pty = Nobody,
         \A t \in SessionId : t # s => session'[t] = session[t],
         terminal' = ShellsClosed(s), descriptor' = DescriptorsClosed(s),
         reading' = reading, tab' = tab
  PROVE  ShellInv'
<1>1. /\ terminal' \in [Shell -> Terminal] /\ descriptor' \in [Descriptor -> Nat]
      /\ \A n \in Shell :
           /\ terminal'[n].opened = terminal[n].opened /\ terminal'[n].number = terminal[n].number
           /\ terminal'[n].buf = terminal[n].buf /\ terminal'[n].total = terminal[n].total
           /\ terminal'[n].bash => terminal[n].bash /\ ~OnRecord(s, n)
      /\ \A d \in Descriptor :
           /\ descriptor'[d] # Closed
                => descriptor'[d] = descriptor[d] /\ ~OnRecord(s, descriptor'[d])
           /\ descriptor[d] # Closed /\ ~OnRecord(s, descriptor[d])
                => descriptor'[d] = descriptor[d]
  BY Closes
<1>2. ASSUME NEW t \in SessionId, NEW n
      PROVE  OnRecord(t, n)' <=> OnRecord(t, n) /\ t # s
  BY DEF OnRecord
<1>3. ShellTypes'
  BY <1>1 DEF ShellInv, ShellTypes
<1>4. TerminalsOwned'
  <2>1. ASSUME NEW t \in SessionId, NEW n \in Nat, OnRecord(t, n)'
        PROVE  /\ n \in Shell /\ session'[t].status = "open" /\ terminal'[n].opened
               /\ terminal'[n].number \in Descriptor
               /\ descriptor'[terminal'[n].number] = n
    <3>1. OnRecord(t, n) /\ t # s /\ session'[t] = session[t]
      BY <1>2, <2>1
    <3>2. ~OnRecord(s, n)
      BY <3>1 DEF ShellInv, TerminalsOwned
    <3>3. /\ n \in Shell /\ session[t].status = "open" /\ terminal[n].opened
          /\ terminal[n].number \in Descriptor /\ descriptor[terminal[n].number] = n
      BY <3>1 DEF ShellInv, TerminalsOwned
    <3>4. n # Closed
      BY <3>1 DEF OnRecord, Closed, Nobody
    <3> QED
      BY <1>1, <3>1, <3>2, <3>3, <3>4
  <2>2. ASSUME NEW t \in SessionId, NEW u \in SessionId, NEW n \in Nat,
               OnRecord(t, n)', OnRecord(u, n)'
        PROVE  t = u
    BY <1>2, <2>2 DEF ShellInv, TerminalsOwned
  <2> QED
    BY <2>1, <2>2 DEF TerminalsOwned
<1>5. NoStrays'
  <2>1. ASSUME NEW n \in Shell, terminal'[n].bash PROVE \E t \in SessionId : OnRecord(t, n)'
    <3>1. terminal[n].bash /\ ~OnRecord(s, n)
      BY <1>1, <2>1
    <3>2. PICK t \in SessionId : OnRecord(t, n)
      BY <3>1 DEF ShellInv, NoStrays
    <3> QED
      BY <1>2, <3>1, <3>2
  <2>2. ASSUME NEW d \in Descriptor, descriptor'[d] # Closed
        PROVE  /\ \E t \in SessionId : OnRecord(t, descriptor[d])'
               /\ terminal'[descriptor'[d]].number = d
    <3>1. descriptor'[d] = descriptor[d] /\ descriptor[d] # Closed /\ ~OnRecord(s, descriptor[d])
      BY <1>1, <2>2
    <3>2. PICK t \in SessionId : OnRecord(t, descriptor[d])
      BY <3>1 DEF ShellInv, NoStrays
    <3>3. descriptor[d] \in Shell /\ terminal[descriptor[d]].number = d
      BY <3>1, <3>2 DEF ShellInv, NoStrays, TerminalsOwned, ShellTypes
    <3>4. OnRecord(t, descriptor[d])'
      BY <3>1, <3>2 DEF OnRecord
    <3> QED
      BY <1>1, <3>1, <3>3, <3>4
  <2> QED
    BY <2>1, <2>2 DEF NoStrays
<1>6. ReadersFaithful'
  <2>1. ASSUME NEW n \in Shell
        PROVE  /\ reading'[n] # Nobody => reading'[n] \in Shell /\ terminal'[n].opened
               /\ terminal'[n].opened => terminal'[n].number \in Descriptor
               /\ ~terminal'[n].opened => Len(terminal'[n].buf) = 0
               /\ Len(terminal'[n].buf) <= terminal'[n].total
    BY <1>1 DEF ShellInv, ReadersFaithful
  <2>2. ASSUME NEW t \in SessionId, NEW n \in Shell, OnRecord(t, n)'
        PROVE  /\ reading'[n] \in {n, Nobody}
               /\ \A i \in 1 .. Len(terminal'[n].buf) : terminal'[n].buf[i][1] = n
    <3>1. OnRecord(t, n)
      BY <1>2, <2>2
    <3> QED
      BY <1>1, <3>1 DEF ShellInv, ReadersFaithful
  <2> QED
    BY <2>1, <2>2 DEF ReadersFaithful
<1>7. FollowerShown'
  <2>1. tab.session \in SessionId
    BY DEF ShellInv, ShellTypes
  <2>2. ASSUME (tab.phase # "none" /\ OnRecord(tab.session, tab.since))'
        PROVE  Shown(tab.since)'
    <3>1. tab.phase # "none" /\ OnRecord(tab.session, tab.since) /\ tab.since \in Shell
      BY <2>1, <2>2 DEF OnRecord, ShellInv, FollowerShown
    <3>2. Shown(tab.since)
      BY <3>1 DEF ShellInv, FollowerShown
    <3> QED
      BY <1>1, <3>1, <3>2 DEF Shown
  <2> QED
    BY <1>1, <2>2 DEF ShellInv, FollowerShown
<1> QED
  BY <1>3, <1>4, <1>5, <1>6, <1>7 DEF ShellInv

\* A terminal that nobody opened before is put on record, and its descriptor with it.
LEMMA PtyOpenKeeps ==
  ASSUME ShellInv, NEW s \in SessionId, PtyOpen(s)
  PROVE  ShellInv'
<1> DEFINE c == ShellsClosed(s)  e == DescriptorsClosed(s)
<1>1. PICK n \in Shell, d \in Descriptor :
         /\ ~terminal[n].opened /\ \A m \in 1 .. n - 1 : terminal[m].opened
         /\ DescriptorsClosed(s)[d] = Closed
         /\ terminal' = [ShellsClosed(s) EXCEPT ![n].opened = TRUE, ![n].number = d,
                                             ![n].bash = TRUE]
         /\ descriptor' = [DescriptorsClosed(s) EXCEPT ![d] = n]
         /\ reading' = [reading EXCEPT ![n] = n]
         /\ session' = [session EXCEPT ![s].pty = n]
  BY DEF PtyOpen
<1>2. /\ c \in [Shell -> Terminal] /\ e \in [Descriptor -> Nat]
      /\ \A m \in Shell :
           /\ c[m].opened = terminal[m].opened /\ c[m].number = terminal[m].number
           /\ c[m].buf = terminal[m].buf /\ c[m].total = terminal[m].total
           /\ c[m].bash => terminal[m].bash /\ ~OnRecord(s, m)
      /\ \A f \in Descriptor :
           /\ e[f] # Closed => e[f] = descriptor[f] /\ ~OnRecord(s, e[f])
           /\ descriptor[f] # Closed /\ ~OnRecord(s, descriptor[f]) => e[f] = descriptor[f]
  BY Closes
<1>3. /\ e[d] = Closed /\ descriptor' = [e EXCEPT ![d] = n]
      /\ terminal' = [c EXCEPT ![n].opened = TRUE, ![n].number = d, ![n].bash = TRUE]
  BY <1>1
<1> HIDE DEF c, e
<1>4. n \in Nat /\ n # Nobody
  BY DEF Shell, Nobody
<1>5. /\ terminal' \in [Shell -> Terminal] /\ terminal'[n].opened /\ terminal'[n].number = d
      /\ terminal'[n].buf = c[n].buf /\ terminal'[n].total = c[n].total
      /\ \A m \in Shell : m # n => terminal'[m] = c[m]
  <2>1. c[n] \in Terminal /\ d \in Number
    BY <1>2 DEF Number
  <2> DEFINE r == [c[n] EXCEPT !.opened = TRUE, !.number = d, !.bash = TRUE]
  <2>2. r \in Terminal /\ r.opened = TRUE /\ r.number = d /\ r.buf = c[n].buf /\ r.total = c[n].total
    BY <2>1 DEF Terminal
  <2>3. terminal' = [c EXCEPT ![n] = r]
    BY <1>2, <1>3
  <2> HIDE DEF r
  <2> QED
    BY <1>2, <2>2, <2>3
<1>6. /\ descriptor' \in [Descriptor -> Nat] /\ descriptor'[d] = n
      /\ \A f \in Descriptor : f # d => descriptor'[f] = e[f]
  BY <1>2, <1>3, <1>4
<1>7. /\ reading' \in [Shell -> Nat] /\ reading'[n] = n
      /\ \A m \in Shell : m # n => reading'[m] = reading[m]
  BY <1>1, <1>4 DEF ShellInv, ShellTypes
<1>8. /\ session' \in [SessionId -> [status : {"none", "open", "closed"}, dev : BOOLEAN,
                                     folder : BOOLEAN, pty : Nat]]
      /\ session'[s].pty = n /\ session'[s].status = session[s].status
      /\ \A t \in SessionId : t # s => session'[t] = session[t]
  BY <1>1, <1>4 DEF ShellInv, ShellTypes
<1>9. session[s].status = "open" /\ tab' = tab
  BY DEF PtyOpen
<1>10. ASSUME NEW t \in SessionId, NEW m
       PROVE  OnRecord(t, m)' <=> (t = s /\ m = n) \/ (t # s /\ OnRecord(t, m))
  BY <1>4, <1>8 DEF OnRecord
<1>11. \A t \in SessionId : ~OnRecord(t, n)
  BY <1>1, <1>4 DEF ShellInv, TerminalsOwned
<1>12. ShellTypes'
  BY <1>5, <1>6, <1>7, <1>8, <1>9 DEF ShellInv, ShellTypes
<1>13. TerminalsOwned'
  <2>1. ASSUME NEW t \in SessionId, NEW m \in Nat, OnRecord(t, m)'
        PROVE  /\ m \in Shell /\ session'[t].status = "open" /\ terminal'[m].opened
               /\ terminal'[m].number \in Descriptor
               /\ descriptor'[terminal'[m].number] = m
    <3>1. CASE t = s /\ m = n
      BY <3>1, <1>5, <1>6, <1>8, <1>9
    <3>2. CASE t # s /\ OnRecord(t, m)
      <4>1. ~OnRecord(s, m) /\ m # Closed /\ m # n
        BY <3>2, <1>11 DEF ShellInv, TerminalsOwned, OnRecord, Closed, Nobody
      <4>2. /\ m \in Shell /\ session[t].status = "open" /\ terminal[m].opened
            /\ terminal[m].number \in Descriptor /\ descriptor[terminal[m].number] = m
        BY <3>2 DEF ShellInv, TerminalsOwned
      <4>3. e[terminal[m].number] = m /\ terminal[m].number # d
        BY <1>2, <1>3, <4>1, <4>2
      <4>4. terminal'[m].opened = terminal[m].opened /\ terminal'[m].number = terminal[m].number
        BY <1>2, <1>5, <4>1, <4>2
      <4> QED
        BY <4>2, <4>3, <4>4, <3>2, <1>6, <1>8
    <3> QED
      BY <2>1, <3>1, <3>2, <1>10
  <2>2. ASSUME NEW t \in SessionId, NEW u \in SessionId, NEW m \in Nat,
               OnRecord(t, m)', OnRecord(u, m)'
        PROVE  t = u
    BY <1>10, <1>11, <2>2 DEF ShellInv, TerminalsOwned
  <2> QED
    BY <2>1, <2>2 DEF TerminalsOwned
<1>14. NoStrays'
  <2>1. ASSUME NEW m \in Shell, terminal'[m].bash PROVE \E t \in SessionId : OnRecord(t, m)'
    <3>1. CASE m = n
      BY <3>1, <1>10
    <3>2. CASE m # n
      <4>1. terminal[m].bash /\ ~OnRecord(s, m)
        BY <1>2, <1>5, <2>1, <3>2
      <4>2. PICK t \in SessionId : OnRecord(t, m)
        BY <4>1 DEF ShellInv, NoStrays
      <4> QED
        BY <1>10, <4>1, <4>2
    <3> QED
      BY <3>1, <3>2
  <2>2. ASSUME NEW f \in Descriptor, descriptor'[f] # Closed
        PROVE  /\ \E t \in SessionId : OnRecord(t, descriptor[f])'
               /\ terminal'[descriptor'[f]].number = f
    <3>1. CASE f = d
      <4>1. OnRecord(s, descriptor[f])'
        BY <3>1, <1>4, <1>6, <1>8 DEF OnRecord
      <4> QED
        BY <3>1, <4>1, <1>5, <1>6
    <3>2. CASE f # d
      <4>1. /\ descriptor'[f] = descriptor[f] /\ descriptor[f] # Closed
            /\ ~OnRecord(s, descriptor[f])
        BY <1>2, <1>6, <2>2, <3>2
      <4>2. PICK t \in SessionId : OnRecord(t, descriptor[f])
        BY <4>1 DEF ShellInv, NoStrays
      <4>3. descriptor[f] \in Shell /\ terminal[descriptor[f]].number = f /\ descriptor[f] # n
        BY <4>1, <4>2, <1>11 DEF ShellInv, NoStrays, TerminalsOwned, ShellTypes
      <4>4. OnRecord(t, descriptor[f])'
        BY <4>1, <4>2, <1>8 DEF OnRecord
      <4> QED
        BY <1>2, <1>5, <4>1, <4>3, <4>4
    <3> QED
      BY <3>1, <3>2
  <2> QED
    BY <2>1, <2>2 DEF NoStrays
<1>15. ReadersFaithful'
  <2>1. ASSUME NEW m \in Shell
        PROVE  /\ reading'[m] # Nobody => reading'[m] \in Shell /\ terminal'[m].opened
               /\ terminal'[m].opened => terminal'[m].number \in Descriptor
               /\ ~terminal'[m].opened => Len(terminal'[m].buf) = 0
               /\ Len(terminal'[m].buf) <= terminal'[m].total
    BY <1>2, <1>5, <1>7 DEF ShellInv, ReadersFaithful
  <2>2. ASSUME NEW t \in SessionId, NEW m \in Shell, OnRecord(t, m)'
        PROVE  /\ reading'[m] \in {m, Nobody}
               /\ \A i \in 1 .. Len(terminal'[m].buf) : terminal'[m].buf[i][1] = m
    <3>1. CASE m = n
      <4>1. Len(terminal'[m].buf) = 0
        BY <3>1, <1>1, <1>2, <1>5 DEF ShellInv, ReadersFaithful
      <4> QED
        BY <3>1, <4>1, <1>7
    <3>2. CASE m # n
      BY <3>2, <2>2, <1>2, <1>5, <1>7, <1>10 DEF ShellInv, ReadersFaithful
    <3> QED
      BY <3>1, <3>2
  <2> QED
    BY <2>1, <2>2 DEF ReadersFaithful
<1>16. FollowerShown'
  <2>1. tab.session \in SessionId
    BY DEF ShellInv, ShellTypes
  <2>2. tab.since # Nobody => tab.since \in Shell /\ tab.since # n /\ terminal'[tab.since].opened
    BY <1>1, <1>2, <1>5 DEF ShellInv, FollowerShown
  <2>3. ASSUME (tab.phase # "none" /\ OnRecord(tab.session, tab.since))'
        PROVE  Shown(tab.since)'
    <3>1. tab.since # Nobody
      BY <2>3, <1>9 DEF OnRecord
    <3>2. tab.phase # "none" /\ OnRecord(tab.session, tab.since)
      BY <2>1, <2>2, <2>3, <3>1, <1>8, <1>9 DEF OnRecord
    <3>3. Shown(tab.since)
      BY <3>2 DEF ShellInv, FollowerShown
    <3> QED
      BY <2>2, <3>1, <3>3, <1>2, <1>5, <1>9 DEF Shown
  <2> QED
    BY <2>2, <2>3, <1>9 DEF ShellInv, FollowerShown
<1> QED
  BY <1>12, <1>13, <1>14, <1>15, <1>16 DEF ShellInv

\* The reader of terminal n takes a piece, and turns to what its number stands for now.
LEMMA ReadMoreKeeps ==
  ASSUME ShellInv, NEW n \in Shell, ReadMore(n)
  PROVE  ShellInv'
<1> DEFINE k == reading[n]
           x == <<k, Head(terminal[k].unread)>>
           r == Retain(Append(terminal[n].buf, x))
<1>1. /\ k # Nobody /\ terminal[k].unread # <<>>
      /\ terminal' = [terminal EXCEPT ![k].unread = Tail(@), ![n].buf = Retain(Append(@, x)),
                                      ![n].total = @ + 1]
      /\ reading' = [reading EXCEPT ![n] = descriptor[terminal[n].number]]
      /\ UNCHANGED <<session, descriptor, tab>>
  BY DEF ReadMore
<1>2. k \in Shell /\ terminal[n].opened /\ terminal[n].number \in Descriptor
  BY <1>1 DEF ShellInv, ReadersFaithful
<1>3. /\ terminal \in [Shell -> Terminal] /\ terminal[k] \in Terminal /\ terminal[n] \in Terminal
      /\ reading \in [Shell -> Nat] /\ descriptor \in [Descriptor -> Nat]
  BY <1>2 DEF ShellInv, ShellTypes
<1>4. terminal[n].buf \in Seq(Piece) /\ terminal[n].total \in Nat
      /\ terminal[k].unread \in Seq(1 .. MaxPiece)
  BY <1>3 DEF Terminal
<1>5. x \in Piece /\ x[1] = k
  <2>1. Head(terminal[k].unread) \in 1 .. MaxPiece
    BY <1>1, <1>4, HeadTailProperties
  <2> QED
    BY <1>2, <2>1 DEF Piece
<1> HIDE DEF x
<1>d. r = Retain(Append(terminal[n].buf, x))
  OBVIOUS
<1> HIDE DEF r
<1>e. Retains(r, terminal[n].buf, x)
  BY <1>4, <1>5, <1>d, Retaining
<1>6. /\ r \in Seq(Piece) /\ Len(r) \in Nat /\ Len(r) <= Len(terminal[n].buf) + 1
      /\ \A i \in 1 .. Len(r) :
           \/ i = Len(r) /\ r[i] = x
           \/ /\ Len(terminal[n].buf) + 1 - Len(r) + i \in 1 .. Len(terminal[n].buf)
              /\ r[i] = terminal[n].buf[Len(terminal[n].buf) + 1 - Len(r) + i]
  BY <1>e DEF Retains
<1>7. Len(terminal[n].buf) \in Nat /\ Len(terminal[n].buf) <= terminal[n].total
  BY <1>4, LenProperties DEF ShellInv, ReadersFaithful
<1>8. /\ terminal' \in [Shell -> Terminal]
      /\ \A m \in Shell :
           /\ terminal'[m].opened = terminal[m].opened /\ terminal'[m].number = terminal[m].number
           /\ terminal'[m].bash => terminal[m].bash
           /\ m # n => terminal'[m].buf = terminal[m].buf /\ terminal'[m].total = terminal[m].total
      /\ terminal'[n].buf = r /\ terminal'[n].total = terminal[n].total + 1
  <2> DEFINE a == [terminal[k] EXCEPT !.unread = Tail(@)]
             t == [terminal EXCEPT ![k] = a]
             b == [t[n] EXCEPT !.buf = r, !.total = terminal[n].total + 1]
  <2>1. Tail(terminal[k].unread) \in Seq(1 .. MaxPiece)
    BY <1>1, <1>4, HeadTailProperties
  <2>2. /\ a \in Terminal /\ a.opened = terminal[k].opened /\ a.number = terminal[k].number
        /\ a.bash = terminal[k].bash /\ a.buf = terminal[k].buf /\ a.total = terminal[k].total
    BY <1>3, <2>1 DEF Terminal
  <2>3. t \in [Shell -> Terminal] /\ t[k] = a /\ \A m \in Shell : m # k => t[m] = terminal[m]
    <3> HIDE DEF a
    <3> QED
      BY <1>2, <1>3, <2>2
  <2>4. terminal' = [t EXCEPT ![n] = b]
    <3>1. t[n].buf = terminal[n].buf /\ t[n].total = terminal[n].total
      BY <2>2, <2>3
    <3>2. terminal' = [t EXCEPT ![n].buf = Retain(Append(@, x)), ![n].total = @ + 1]
      BY <1>1
    <3> HIDE DEF a, t
    <3>3. terminal' = [t EXCEPT ![n] = [t[n] EXCEPT !.buf = Retain(Append(t[n].buf, x)),
                                                    !.total = t[n].total + 1]]
      BY <2>3, <3>2
    <3> QED
      BY <3>1, <3>3, <1>d
  <2> HIDE DEF a, t
  <2>5. t[n] \in Terminal
    BY <2>3
  <2>9. r \in Seq(Piece) /\ terminal[n].total + 1 \in Nat
    BY <1>4, <1>6
  <2>6. /\ b \in Terminal /\ b.buf = r /\ b.total = terminal[n].total + 1
        /\ b.opened = t[n].opened /\ b.number = t[n].number /\ b.bash = t[n].bash
    BY <2>5, <2>9 DEF Terminal
  <2> HIDE DEF b
  <2>7. /\ terminal' \in [Shell -> Terminal] /\ terminal'[n] = b
        /\ \A m \in Shell : m # n => terminal'[m] = t[m]
    BY <2>3, <2>4, <2>6
  <2>8. ASSUME NEW m \in Shell
        PROVE  /\ t[m].opened = terminal[m].opened /\ t[m].number = terminal[m].number
               /\ t[m].bash = terminal[m].bash
               /\ t[m].buf = terminal[m].buf /\ t[m].total = terminal[m].total
    BY <2>2, <2>3
  <2> QED
    BY <2>6, <2>7, <2>8
<1>9. /\ reading' \in [Shell -> Nat] /\ reading'[n] = descriptor[terminal[n].number]
      /\ \A m \in Shell : m # n => reading'[m] = reading[m]
  BY <1>1, <1>2, <1>3
<1>10. ShellTypes'
  BY <1>1, <1>8, <1>9 DEF ShellInv, ShellTypes
<1>11. ASSUME NEW s \in SessionId, NEW m PROVE OnRecord(s, m)' <=> OnRecord(s, m)
  BY <1>1 DEF OnRecord
<1>12. TerminalsOwned'
  <2>1. ASSUME NEW s \in SessionId, NEW m \in Nat, OnRecord(s, m)'
        PROVE  /\ m \in Shell /\ session'[s].status = "open" /\ terminal'[m].opened
               /\ terminal'[m].number \in Descriptor
               /\ descriptor'[terminal'[m].number] = m
    <3>1. OnRecord(s, m)
      BY <1>11, <2>1
    <3>2. /\ m \in Shell /\ session[s].status = "open" /\ terminal[m].opened
          /\ terminal[m].number \in Descriptor /\ descriptor[terminal[m].number] = m
      BY <3>1 DEF ShellInv, TerminalsOwned
    <3>3. terminal'[m].opened = terminal[m].opened /\ terminal'[m].number = terminal[m].number
      BY <3>2, <1>8
    <3> QED
      BY <3>2, <3>3, <1>1
  <2>2. ASSUME NEW s \in SessionId, NEW t \in SessionId, NEW m \in Nat,
               OnRecord(s, m)', OnRecord(t, m)'
        PROVE  s = t
    BY <1>11, <2>2 DEF ShellInv, TerminalsOwned
  <2> QED
    BY <2>1, <2>2 DEF TerminalsOwned
<1>13. NoStrays'
  <2>1. ASSUME NEW d \in Descriptor, descriptor[d] # Closed PROVE descriptor[d] \in Shell
    BY <2>1 DEF ShellInv, NoStrays, TerminalsOwned, ShellTypes
  <2> QED
    BY <1>1, <1>8, <1>11, <2>1 DEF ShellInv, NoStrays
<1>14. ReadersFaithful'
  <2>1. ASSUME NEW m \in Shell
        PROVE  /\ reading'[m] # Nobody => reading'[m] \in Shell /\ terminal'[m].opened
               /\ terminal'[m].opened => terminal'[m].number \in Descriptor
               /\ ~terminal'[m].opened => Len(terminal'[m].buf) = 0
               /\ Len(terminal'[m].buf) <= terminal'[m].total
    <3>1. CASE m = n
      <4>1. descriptor[terminal[n].number] # Nobody => descriptor[terminal[n].number] \in Shell
        BY <1>2, <1>3 DEF ShellInv, NoStrays, TerminalsOwned, Closed, Nobody
      <4> QED
        BY <3>1, <4>1, <1>2, <1>4, <1>6, <1>7, <1>8, <1>9
    <3>2. CASE m # n
      BY <3>2, <1>8, <1>9 DEF ShellInv, ReadersFaithful
    <3> QED
      BY <3>1, <3>2
  <2>2. ASSUME NEW s \in SessionId, NEW m \in Shell, OnRecord(s, m)'
        PROVE  /\ reading'[m] \in {m, Nobody}
               /\ \A i \in 1 .. Len(terminal'[m].buf) : terminal'[m].buf[i][1] = m
    <3>1. OnRecord(s, m) /\ m \in Nat
      BY <1>11, <2>2 DEF Shell
    <3>2. CASE m = n
      <4>1. descriptor[terminal[n].number] = n /\ k = n
        BY <3>1, <3>2, <1>1 DEF ShellInv, TerminalsOwned, ReadersFaithful
      <4>2. \A i \in 1 .. Len(terminal[n].buf) : terminal[n].buf[i][1] = n
        BY <3>1, <3>2 DEF ShellInv, ReadersFaithful
      <4>3. \A i \in 1 .. Len(r) : r[i][1] = n
        BY <4>1, <4>2, <1>5, <1>6
      <4> QED
        BY <3>2, <4>1, <4>3, <1>8, <1>9
    <3>3. CASE m # n
      BY <3>1, <3>3, <1>8, <1>9 DEF ShellInv, ReadersFaithful
    <3> QED
      BY <3>2, <3>3
  <2> QED
    BY <2>1, <2>2 DEF ReadersFaithful
<1>15. FollowerShown'
  <2>1. tab.session \in SessionId /\ tab.sent \in Nat
    BY DEF ShellInv, ShellTypes
  <2>2. ASSUME (tab.phase # "none" /\ OnRecord(tab.session, tab.since))'
        PROVE  Shown(tab.since)'
    <3>1. tab.phase # "none" /\ OnRecord(tab.session, tab.since) /\ tab.since \in Shell
      BY <1>1, <2>1, <2>2 DEF OnRecord, ShellInv, FollowerShown
    <3>2. Shown(tab.since)
      BY <3>1 DEF ShellInv, FollowerShown
    <3>3. CASE tab.since = n
      <4>1. /\ tab.sent <= terminal[n].total /\ \A p \in tab.shown : p[1] = n
            /\ \A i \in 1 .. Len(terminal[n].buf) :
                 terminal[n].total - Len(terminal[n].buf) + i <= tab.sent
                   => terminal[n].buf[i] \in tab.shown
        BY <3>2, <3>3 DEF Shown, Covers
      <4>2. ASSUME NEW i \in 1 .. Len(r), terminal[n].total + 1 - Len(r) + i <= tab.sent
            PROVE  r[i] \in tab.shown
        <5>1. i # Len(r)
          BY <2>1, <4>1, <4>2, <1>4, <1>6
        <5> DEFINE j == Len(terminal[n].buf) + 1 - Len(r) + i
        <5>2. j \in 1 .. Len(terminal[n].buf) /\ r[i] = terminal[n].buf[j]
          BY <5>1, <1>6
        <5>3. terminal[n].total - Len(terminal[n].buf) + j <= tab.sent
          <6>1. PICK a \in Int, b \in Int, c \in Int :
                  a = terminal[n].total /\ b = Len(terminal[n].buf) /\ c = Len(r)
            BY <1>4, <1>6, <1>7
          <6>2. a + 1 - c + i <= tab.sent /\ i \in Int /\ tab.sent \in Int
            BY <2>1, <4>2, <6>1
          <6>3. a - b + (b + 1 - c + i) <= tab.sent
            BY <6>2
          <6> QED
            BY <6>1, <6>3
        <5> QED
          BY <4>1, <5>2, <5>3
      <4>3. tab.sent <= terminal[n].total + 1
        BY <2>1, <4>1, <1>4
      <4>4. /\ tab'.since = n /\ tab'.sent = tab.sent /\ tab'.shown = tab.shown
            /\ terminal'[n].buf = r /\ terminal'[n].total = terminal[n].total + 1
        BY <3>3, <1>1, <1>8
      <4>5. Covers(tab.sent, tab.shown, r, terminal[n].total + 1, n)
        <5> DEFINE total == terminal[n].total + 1
        <5>1. \A i \in 1 .. Len(r) : total - Len(r) + i <= tab.sent => r[i] \in tab.shown
          BY <4>2, <1>4, <1>6, <2>1
        <5>2. tab.sent <= total
          BY <4>3
        <5> HIDE DEF total
        <5>3. Covers(tab.sent, tab.shown, r, total, n)
          BY <4>1, <5>1, <5>2 DEF Covers
        <5> QED
          BY <5>3 DEF total
      <4> QED
        BY <4>4, <4>5 DEF Shown
    <3>4. CASE tab.since # n
      BY <3>1, <3>2, <3>4, <1>1, <1>8 DEF Shown
    <3> QED
      BY <3>3, <3>4
  <2>3. tab.since # Nobody => tab.since \in Shell /\ terminal'[tab.since].opened
    BY <1>8 DEF ShellInv, FollowerShown
  <2> QED
    BY <2>2, <2>3, <1>1 DEF ShellInv, FollowerShown
<1> QED
  BY <1>10, <1>12, <1>13, <1>14, <1>15 DEF ShellInv

LEMMA ReadEndsKeeps ==
  ASSUME ShellInv, NEW n \in Shell, ReadEnds(n)
  PROVE  ShellInv'
<1>1. reading' = [reading EXCEPT ![n] = Nobody]
      /\ UNCHANGED <<session, terminal, descriptor, tab>>
  BY DEF ReadEnds
<1>2. /\ reading' \in [Shell -> Nat] /\ reading'[n] = Nobody
      /\ \A m \in Shell : m # n => reading'[m] = reading[m]
  BY <1>1 DEF ShellInv, ShellTypes, Nobody
<1>3. ShellTypes' /\ TerminalsOwned' /\ NoStrays' /\ FollowerShown'
  BY <1>1, <1>2 DEF ShellInv, ShellTypes, TerminalsOwned, NoStrays, FollowerShown, OnRecord, Shown
<1>4. ReadersFaithful'
  BY <1>1, <1>2 DEF ShellInv, ReadersFaithful, OnRecord
<1> QED
  BY <1>3, <1>4 DEF ShellInv

\* A stream begins with nothing shown, at the first piece.
LEMMA FollowKeeps ==
  ASSUME ShellInv, Follow
  PROVE  ShellInv'
<1>1. /\ tab.phase = "none" /\ UNCHANGED <<session, terminal, reading, descriptor>>
      /\ tab' = [tab EXCEPT !.phase = "open", !.since = session[tab.session].pty]
  BY DEF Follow
<1>2. /\ tab \in [phase : {"none", "open", "ended"}, session : SessionId, since : Nat,
                  sent : Nat, shown : SUBSET Piece]
      /\ session[tab.session].pty \in Nat
  BY DEF ShellInv, ShellTypes
<1>3. /\ tab' \in [phase : {"none", "open", "ended"}, session : SessionId, since : Nat,
                   sent : Nat, shown : SUBSET Piece]
      /\ tab'.phase = "open" /\ tab'.since = session[tab.session].pty
      /\ tab'.sent = tab.sent /\ tab'.shown = tab.shown /\ tab'.session = tab.session
  BY <1>1, <1>2
<1>4. ShellTypes' /\ TerminalsOwned' /\ NoStrays' /\ ReadersFaithful'
  BY <1>1, <1>3 DEF ShellInv, ShellTypes, TerminalsOwned, NoStrays, ReadersFaithful, OnRecord
<1>5. FollowerShown'
  <2> DEFINE n == session[tab.session].pty
  <2>1. n # Nobody => /\ n \in Shell /\ terminal[n].opened
                      /\ Len(terminal[n].buf) <= terminal[n].total
                      /\ Len(terminal[n].buf) \in Nat /\ terminal[n].total \in Nat
    <3>1. ASSUME n # Nobody PROVE n \in Shell /\ terminal[n].opened
      BY <1>2, <3>1 DEF OnRecord, ShellInv, TerminalsOwned
    <3>2. ASSUME n # Nobody
          PROVE  terminal[n].buf \in Seq(Piece) /\ terminal[n].total \in Nat
      BY <3>1, <3>2 DEF ShellInv, ShellTypes, Terminal
    <3>3. ASSUME n # Nobody PROVE Len(terminal[n].buf) \in Nat
      BY <3>2, <3>3, LenProperties
    <3> QED
      BY <3>1, <3>2, <3>3 DEF ShellInv, ReadersFaithful
  <2>2. tab.sent = 0 /\ tab.shown = {}
    BY <1>1 DEF ShellInv, FollowerShown
  <2> HIDE DEF n
  <2>3. ASSUME n # Nobody
        PROVE  Covers(0, {}, terminal[n].buf, terminal[n].total, n)
    BY <2>1, <2>3 DEF Covers
  <2>4. ASSUME n # Nobody PROVE Shown(n)'
    BY <2>2, <2>3, <2>4, <1>1, <1>3 DEF n, Shown
  <2>5. tab'.since = n
    BY <1>3 DEF n
  <2>6. ASSUME OnRecord(tab.session, tab.since)' PROVE Shown(tab.since)'
    <3>1. n # Nobody
      BY <2>5, <2>6 DEF OnRecord
    <3>2. Covers(tab'.sent, tab'.shown, terminal'[tab'.since].buf, terminal'[tab'.since].total,
                 tab'.since)
      BY <2>2, <2>3, <2>5, <3>1, <1>1, <1>3
    <3> QED
      BY <3>2 DEF Shown
  <2> QED
    BY <2>1, <2>5, <2>6, <1>1, <1>3 DEF FollowerShown
<1> QED
  BY <1>4, <1>5 DEF ShellInv

\* A tick sends what the buffer holds beyond the offset.
LEMMA TickCovers ==
  ASSUME NEW buf \in Seq(Piece), NEW total \in Nat, NEW sent \in Nat, NEW displayed, NEW n,
         Covers(sent, displayed, buf, total, n), Len(buf) <= total, total > sent,
         \A i \in 1 .. Len(buf) : buf[i][1] = n,
         NEW start, start = IF sent > total - Len(buf) THEN sent - (total - Len(buf)) ELSE 0
  PROVE  Covers(total, displayed \cup Range(From(buf, start)), buf, total, n)
<1>1. Len(buf) \in Nat
  BY LenProperties
<1>2. start \in 0 .. Len(buf)
  BY <1>1
<1>3. /\ \A i \in start + 1 .. Len(buf) : buf[i] \in Range(From(buf, start))
      /\ \A x \in Range(From(buf, start)) : \E i \in 1 .. Len(buf) : x = buf[i]
  BY <1>2, Sent
<1> DEFINE fresh == Range(From(buf, start))
<1> HIDE DEF fresh
<1>4. ASSUME NEW i \in 1 .. Len(buf) PROVE buf[i] \in displayed \cup fresh
  <2>1. CASE i > start
    BY <2>1, <1>1, <1>2, <1>3 DEF fresh
  <2>2. CASE i <= start
    <3>1. total - Len(buf) + i <= sent
      BY <2>2, <1>1, <1>2
    <3> QED
      BY <3>1 DEF Covers
  <2> QED
    BY <2>1, <2>2, <1>1, <1>2
<1>5. ASSUME NEW p \in displayed \cup fresh PROVE p[1] = n
  BY <1>3 DEF Covers, fresh
<1>6. Covers(total, displayed \cup fresh, buf, total, n)
  BY <1>4, <1>5 DEF Covers
<1> QED
  BY <1>6 DEF fresh

(* A stream that is behind starts within the buffer.                              *)
LEMMA StartsInBuffer ==
    ASSUME NEW sent \in Nat, NEW total \in Nat, NEW held \in Nat,
           held <= total, sent < total
    PROVE  (IF sent > total - held THEN sent - (total - held) ELSE 0) \in 0 .. held
OBVIOUS

LEMMA StreamTickKeeps ==
  ASSUME ShellInv, StreamTick
  PROVE  ShellInv'
<1> DEFINE n == session[tab.session].pty
           start == IF tab.sent > terminal[n].total - Len(terminal[n].buf)
                    THEN tab.sent - (terminal[n].total - Len(terminal[n].buf)) ELSE 0
           fresh == Range(From(terminal[n].buf, start))
<1>1. /\ tab.phase = "open" /\ UNCHANGED <<session, terminal, reading, descriptor>>
      /\ n = Nobody => tab' = [tab EXCEPT !.phase = "ended"]
      /\ n # Nobody =>
           tab' = [tab EXCEPT
                 !.shown = IF terminal[n].total > tab.sent THEN @ \cup fresh ELSE @,
                 !.sent = IF terminal[n].total > @ THEN terminal[n].total ELSE @,
                 !.phase = IF terminal[n].bash THEN @ ELSE "ended"]
  BY DEF StreamTick
<1>2. /\ tab \in [phase : {"none", "open", "ended"}, session : SessionId, since : Nat,
                  sent : Nat, shown : SUBSET Piece]
      /\ n \in Nat
  BY DEF ShellInv, ShellTypes
<1>3. ASSUME n # Nobody
      PROVE  /\ n \in Shell /\ OnRecord(tab.session, n)
             /\ terminal[n].buf \in Seq(Piece) /\ terminal[n].total \in Nat
             /\ Len(terminal[n].buf) \in Nat /\ Len(terminal[n].buf) <= terminal[n].total
             /\ \A i \in 1 .. Len(terminal[n].buf) : terminal[n].buf[i][1] = n
  <2>1. OnRecord(tab.session, n) /\ n \in Shell
    BY <1>2, <1>3 DEF OnRecord, ShellInv, TerminalsOwned
  <2>2. terminal[n].buf \in Seq(Piece) /\ terminal[n].total \in Nat
    BY <2>1 DEF ShellInv, ShellTypes, Terminal
  <2>3. Len(terminal[n].buf) \in Nat
    BY <2>2, LenProperties
  <2> QED
    BY <2>1, <2>2, <2>3, <1>2 DEF ShellInv, ReadersFaithful
<1>4. ASSUME n # Nobody, terminal[n].total > tab.sent PROVE fresh \subseteq Piece
  <2>1. start \in 0 .. Len(terminal[n].buf)
    <3>1. /\ tab.sent \in Nat /\ terminal[n].total \in Nat /\ Len(terminal[n].buf) \in Nat
          /\ Len(terminal[n].buf) <= terminal[n].total /\ tab.sent < terminal[n].total
      BY <1>2, <1>3, <1>4
    <3> QED
      BY <3>1, StartsInBuffer
  <2>2. \A x \in fresh : \E i \in 1 .. Len(terminal[n].buf) : x = terminal[n].buf[i]
    <3> HIDE DEF start
    <3> QED
      BY <2>1, <1>3, <1>4, Sent
  <2>3. \A i \in 1 .. Len(terminal[n].buf) : terminal[n].buf[i] \in Piece
    BY <1>3, <1>4, ElementOfSeq
  <2> HIDE DEF fresh
  <2> QED
    BY <2>2, <2>3
<1>d. start = IF tab.sent > terminal[n].total - Len(terminal[n].buf)
              THEN tab.sent - (terminal[n].total - Len(terminal[n].buf)) ELSE 0
  OBVIOUS
<1> DEFINE displayed == IF n # Nobody /\ terminal[n].total > tab.sent THEN tab.shown \cup fresh
                    ELSE tab.shown
           sent == IF n # Nobody /\ terminal[n].total > tab.sent THEN terminal[n].total
                   ELSE tab.sent
           phase == IF n # Nobody /\ terminal[n].bash THEN tab.phase ELSE "ended"
<1>f. fresh = Range(From(terminal[n].buf, start))
  OBVIOUS
<1>n. n = session[tab.session].pty
  OBVIOUS
<1> HIDE DEF fresh, start, n
<1>5. displayed \in SUBSET Piece /\ sent \in Nat /\ phase \in {"open", "ended"}
  BY <1>1, <1>2, <1>3, <1>4
<1>6. tab' = [tab EXCEPT !.shown = displayed, !.sent = sent, !.phase = phase]
  <2>1. CASE n = Nobody
    <3>1. displayed = tab.shown /\ sent = tab.sent /\ phase = "ended"
      BY <2>1
    <3> HIDE DEF displayed, sent, phase
    <3> QED
      BY <2>1, <3>1, <1>1, <1>2
  <2>2. CASE n # Nobody
    BY <2>2, <1>1
  <2> QED
    BY <2>1, <2>2
<1>s. /\ n # Nobody /\ terminal[n].total > tab.sent
           => displayed = tab.shown \cup fresh /\ sent = terminal[n].total
      /\ ~(n # Nobody /\ terminal[n].total > tab.sent) => displayed = tab.shown /\ sent = tab.sent
  OBVIOUS
<1> HIDE DEF displayed, sent, phase
<1>7. /\ tab' \in [phase : {"none", "open", "ended"}, session : SessionId, since : Nat,
                   sent : Nat, shown : SUBSET Piece]
      /\ tab'.phase = phase /\ tab'.since = tab.since /\ tab'.session = tab.session
      /\ tab'.sent = sent /\ tab'.shown = displayed
  BY <1>2, <1>5, <1>6
<1>8. ShellTypes' /\ TerminalsOwned' /\ NoStrays' /\ ReadersFaithful'
  BY <1>1, <1>7 DEF ShellInv, ShellTypes, TerminalsOwned, NoStrays, ReadersFaithful, OnRecord
<1>9. ASSUME OnRecord(tab.session, tab.since)' PROVE Shown(tab.since)'
  <2>1. n # Nobody /\ tab.since = n
    BY <1>1, <1>7, <1>9, <1>n DEF OnRecord
  <2>2. Shown(n)
    BY <2>1, <1>1, <1>3 DEF ShellInv, FollowerShown
  <2>3. Covers(tab.sent, tab.shown, terminal[n].buf, terminal[n].total, n)
    BY <2>2 DEF Shown
  <2>4. Covers(sent, displayed, terminal[n].buf, terminal[n].total, n)
    <3>1. CASE terminal[n].total > tab.sent
      <4>1. Covers(terminal[n].total, tab.shown \cup Range(From(terminal[n].buf, start)),
                   terminal[n].buf, terminal[n].total, n)
        BY <2>1, <2>3, <3>1, <1>2, <1>3, <1>d, TickCovers
      <4> QED
        BY <2>1, <3>1, <4>1, <1>f, <1>s
    <3>2. CASE ~(terminal[n].total > tab.sent)
      BY <2>3, <3>2, <1>s
    <3> QED
      BY <3>1, <3>2
  <2>5. Covers(tab'.sent, tab'.shown, terminal'[tab'.since].buf, terminal'[tab'.since].total,
               tab'.since)
    BY <2>1, <2>4, <1>1, <1>7
  <2> QED
    BY <2>5 DEF Shown
<1>10. FollowerShown'
  BY <1>1, <1>5, <1>7, <1>9 DEF ShellInv, FollowerShown
<1> QED
  BY <1>8, <1>10 DEF ShellInv

-----------------------------------------------------------------------------

LEMMA ShellBegins == SessionInit => ShellInv
<1> SUFFICES ASSUME SessionInit PROVE ShellInv
  OBVIOUS
<1>1. /\ session \in [SessionId -> [status : {"none", "open", "closed"}, dev : BOOLEAN,
                                    folder : BOOLEAN, pty : Nat]]
      /\ \A s \in SessionId : session[s].pty = Nobody
  <2>1. session \in [SessionId -> {[status |-> "none", dev |-> d, folder |-> TRUE,
                                 pty |-> Nobody] : d \in BOOLEAN}]
    BY DEF SessionInit
  <2>2. ASSUME NEW s \in SessionId
        PROVE  /\ session[s].pty = Nobody
               /\ session[s] \in [status : {"none", "open", "closed"}, dev : BOOLEAN,
                                  folder : BOOLEAN, pty : Nat]
    <3>1. PICK d \in BOOLEAN : session[s] = [status |-> "none", dev |-> d, folder |-> TRUE,
                                             pty |-> Nobody]
      BY <2>1
    <3> QED
      BY <3>1 DEF Nobody
  <2>3. session \in [SessionId -> [status : {"none", "open", "closed"}, dev : BOOLEAN,
                                   folder : BOOLEAN, pty : Nat]]
    BY <2>1, <2>2
  <2> QED
    BY <2>2, <2>3
<1>2. /\ terminal \in [Shell -> Terminal]
      /\ \A n \in Shell : /\ ~terminal[n].opened /\ ~terminal[n].bash
                          /\ terminal[n].buf = <<>> /\ terminal[n].total = 0
  <2> DEFINE fresh == [opened |-> FALSE, number |-> CHOOSE d \in Descriptor : TRUE,
                       bash |-> FALSE, job |-> FALSE, printed |-> 0, unread |-> <<>>,
                       buf |-> <<>>, total |-> 0]
  <2>1. terminal = [n \in Shell |-> fresh]
    BY DEF SessionInit
  <2>2. (CHOOSE d \in Descriptor : TRUE) \in Number /\ 0 \in 0 .. MaxPiece
    BY SessionAssumption DEF Number
  <2>3. <<>> \in Seq(Piece) /\ <<>> \in Seq(1 .. MaxPiece)
    OBVIOUS
  <2>4. fresh \in Terminal
    BY <2>2, <2>3 DEF Terminal
  <2>5. ~fresh.opened /\ ~fresh.bash /\ fresh.buf = <<>> /\ fresh.total = 0
    OBVIOUS
  <2> HIDE DEF fresh
  <2> QED
    BY <2>1, <2>4, <2>5
<1>3. /\ reading \in [Shell -> Nat] /\ \A n \in Shell : reading[n] = Nobody
      /\ descriptor \in [Descriptor -> Nat] /\ \A d \in Descriptor : descriptor[d] = Closed
  BY DEF SessionInit, Nobody, Closed
<1>4. PICK s \in SessionId : tab = [phase |-> "none", session |-> s, since |-> Nobody,
                                 sent |-> 0, shown |-> {}]
  BY DEF SessionInit
<1>5. ShellTypes
  BY <1>1, <1>2, <1>3, <1>4 DEF ShellTypes, Nobody
<1>6. TerminalsOwned /\ NoStrays
  BY <1>1, <1>2, <1>3 DEF TerminalsOwned, NoStrays, OnRecord
<1>7. ReadersFaithful
  <2>1. \A n \in Shell : Len(terminal[n].buf) = 0
    BY <1>2
  <2> QED
    BY <2>1, <1>1, <1>2, <1>3 DEF ReadersFaithful, OnRecord
<1>8. FollowerShown
  BY <1>4 DEF FollowerShown
<1> QED
  BY <1>5, <1>6, <1>7, <1>8 DEF ShellInv

LEMMA ShellStep == ShellInv /\ [SessionNext]_sessionVars => ShellInv'
<1> SUFFICES ASSUME ShellInv, [SessionNext]_sessionVars PROVE ShellInv'
  OBVIOUS
<1>t. /\ session \in [SessionId -> [status : {"none", "open", "closed"}, dev : BOOLEAN,
                                    folder : BOOLEAN, pty : Nat]]
      /\ terminal \in [Shell -> Terminal]
  BY DEF ShellInv, ShellTypes
<1>1. ASSUME NEW s \in SessionId, NewSession(s) PROVE ShellInv'
  <2>1. /\ session' = [session EXCEPT ![s].status = "open"]
        /\ UNCHANGED <<terminal, reading, descriptor, tab>>
    BY <1>1 DEF NewSession
  <2>2. /\ session' \in [SessionId -> [status : {"none", "open", "closed"}, dev : BOOLEAN,
                                       folder : BOOLEAN, pty : Nat]]
        /\ \A u \in SessionId : session'[u].pty = session[u].pty
                                /\ (session[u].status = "open" => session'[u].status = "open")
    BY <1>t, <2>1
  <2> QED
    BY <1>t, <2>1, <2>2, TerminalGoes
<1>2. ASSUME NEW s \in SessionId, OpenFolder(s) \/ CloseSession(s) PROVE ShellInv'
  <2>1. /\ \/ \E f \in BOOLEAN : session' = [session EXCEPT ![s].folder = f, ![s].pty = Nobody]
           \/ session' = [session EXCEPT ![s].status = "closed", ![s].pty = Nobody]
        /\ terminal' = ShellsClosed(s) /\ descriptor' = DescriptorsClosed(s)
        /\ reading' = reading /\ tab' = tab
    BY <1>2 DEF OpenFolder, CloseSession
  <2>2. /\ session' \in [SessionId -> [status : {"none", "open", "closed"}, dev : BOOLEAN,
                                       folder : BOOLEAN, pty : Nat]]
        /\ session'[s].pty = Nobody
        /\ \A u \in SessionId : u # s => session'[u] = session[u]
    <3>1. session[s] \in [status : {"none", "open", "closed"}, dev : BOOLEAN,
                          folder : BOOLEAN, pty : Nat]
      BY <1>t
    <3>2. PICK r \in [status : {"none", "open", "closed"}, dev : BOOLEAN,
                      folder : BOOLEAN, pty : Nat] :
            session' = [session EXCEPT ![s] = r] /\ r.pty = Nobody
      <4>1. ASSUME NEW f \in BOOLEAN,
                   session' = [session EXCEPT ![s].folder = f, ![s].pty = Nobody]
            PROVE  \E r \in [status : {"none", "open", "closed"}, dev : BOOLEAN,
                             folder : BOOLEAN, pty : Nat] :
                     session' = [session EXCEPT ![s] = r] /\ r.pty = Nobody
        <5> DEFINE r == [session[s] EXCEPT !.folder = f, !.pty = Nobody]
        <5>1. r \in [status : {"none", "open", "closed"}, dev : BOOLEAN, folder : BOOLEAN,
                     pty : Nat] /\ r.pty = Nobody
          BY <3>1 DEF Nobody
        <5>2. session' = [session EXCEPT ![s] = r]
          BY <1>t, <4>1
        <5> HIDE DEF r
        <5> QED
          BY <5>1, <5>2
      <4>2. ASSUME session' = [session EXCEPT ![s].status = "closed", ![s].pty = Nobody]
            PROVE  \E r \in [status : {"none", "open", "closed"}, dev : BOOLEAN,
                             folder : BOOLEAN, pty : Nat] :
                     session' = [session EXCEPT ![s] = r] /\ r.pty = Nobody
        <5> DEFINE r == [session[s] EXCEPT !.status = "closed", !.pty = Nobody]
        <5>1. r \in [status : {"none", "open", "closed"}, dev : BOOLEAN, folder : BOOLEAN,
                     pty : Nat] /\ r.pty = Nobody
          BY <3>1 DEF Nobody
        <5>2. session' = [session EXCEPT ![s] = r]
          BY <1>t, <4>2
        <5> HIDE DEF r
        <5> QED
          BY <5>1, <5>2
      <4> QED
        BY <2>1, <4>1, <4>2
    <3> QED
      BY <1>t, <3>2
  <2> QED
    BY <2>1, <2>2, ShellLeft
<1>3. ASSUME NEW n \in Shell, Prints(n) \/ StartJob(n) \/ EndJob(n) \/ ExitBash(n)
      PROVE  ShellInv'
  <2>1. UNCHANGED <<session, reading, descriptor, tab>>
    BY <1>3 DEF Prints, StartJob, EndJob, ExitBash
  <2>2. \E r \in Terminal :
          /\ terminal' = [terminal EXCEPT ![n] = r]
          /\ r.opened = terminal[n].opened /\ r.number = terminal[n].number
          /\ r.buf = terminal[n].buf /\ r.total = terminal[n].total
          /\ r.bash => terminal[n].bash
    <3>1. terminal[n] \in Terminal
      BY <1>t
    <3>2. CASE Prints(n)
      <4> DEFINE k == terminal[n].printed + 1
                 q == Append(terminal[n].unread, k)
                 r == [terminal[n] EXCEPT !.printed = k, !.unread = q]
      <4>1. k \in 1 .. MaxPiece /\ MaxPiece \in Nat
        BY <3>2, RoomToPrint, SessionAssumption DEF Prints, ShellInv
      <4>2. q \in Seq(1 .. MaxPiece)
        BY <3>1, <4>1, AppendProperties DEF Terminal
      <4>3. terminal' = [terminal EXCEPT ![n] = r]
        BY <3>2, <1>t DEF Prints
      <4> HIDE DEF q
      <4>4. k \in 0 .. MaxPiece
        BY <4>1
      <4> HIDE DEF k
      <4>5. /\ r \in Terminal /\ r.opened = terminal[n].opened /\ r.number = terminal[n].number
            /\ r.buf = terminal[n].buf /\ r.total = terminal[n].total
            /\ r.bash = terminal[n].bash
        BY <3>1, <4>2, <4>4 DEF Terminal
      <4> HIDE DEF r
      <4> QED
        BY <4>3, <4>5
    <3>3. ASSUME NEW b \in BOOLEAN, NEW j \in BOOLEAN, b => terminal[n].bash,
                 terminal' = [terminal EXCEPT ![n] = [terminal[n] EXCEPT !.bash = b, !.job = j]]
          PROVE  \E r \in Terminal :
                   /\ terminal' = [terminal EXCEPT ![n] = r]
                   /\ r.opened = terminal[n].opened /\ r.number = terminal[n].number
                   /\ r.buf = terminal[n].buf /\ r.total = terminal[n].total
                   /\ r.bash => terminal[n].bash
      <4> DEFINE r == [terminal[n] EXCEPT !.bash = b, !.job = j]
      <4>1. /\ r \in Terminal /\ r.opened = terminal[n].opened /\ r.number = terminal[n].number
            /\ r.buf = terminal[n].buf /\ r.total = terminal[n].total /\ r.bash = b
        BY <3>1 DEF Terminal
      <4>2. terminal' = [terminal EXCEPT ![n] = r]
        BY <3>3
      <4> HIDE DEF r
      <4> QED
        BY <3>3, <4>1, <4>2
    <3>4. CASE StartJob(n) \/ EndJob(n) \/ ExitBash(n)
      <4>1. \E b \in BOOLEAN, j \in BOOLEAN :
              /\ b => terminal[n].bash
              /\ terminal' = [terminal EXCEPT ![n] = [terminal[n] EXCEPT !.bash = b, !.job = j]]
        <5>1. terminal[n].bash \in BOOLEAN /\ terminal[n].job \in BOOLEAN
          BY <3>1 DEF Terminal
        <5>2. CASE StartJob(n)
          <6>1. terminal' = [terminal EXCEPT ![n] = [terminal[n] EXCEPT !.bash = terminal[n].bash,
                                                                        !.job = TRUE]]
            BY <5>2, <3>1, <1>t DEF StartJob, Terminal
          <6> QED
            BY <5>1, <6>1
        <5>3. CASE EndJob(n)
          <6>1. terminal' = [terminal EXCEPT ![n] = [terminal[n] EXCEPT !.bash = terminal[n].bash,
                                                                        !.job = FALSE]]
            BY <5>3, <3>1, <1>t DEF EndJob, Terminal
          <6> QED
            BY <5>1, <6>1
        <5>4. CASE ExitBash(n)
          <6>1. terminal' = [terminal EXCEPT ![n] = [terminal[n] EXCEPT !.bash = FALSE,
                                                                        !.job = terminal[n].job]]
            BY <5>4, <3>1, <1>t DEF ExitBash, Terminal
          <6> QED
            BY <5>1, <6>1
        <5> QED
          BY <3>4, <5>2, <5>3, <5>4
      <4> QED
        BY <3>3, <4>1
    <3> QED
      BY <1>3, <3>2, <3>4
  <2>3. PICK r \in Terminal :
          /\ terminal' = [terminal EXCEPT ![n] = r]
          /\ r.opened = terminal[n].opened /\ r.number = terminal[n].number
          /\ r.buf = terminal[n].buf /\ r.total = terminal[n].total
          /\ r.bash => terminal[n].bash
    BY <2>2
  <2>4. /\ terminal' \in [Shell -> Terminal] /\ terminal'[n] = r
        /\ \A m \in Shell : m # n => terminal'[m] = terminal[m]
    BY <1>t, <2>3
  <2>5. \A m \in Shell : /\ terminal'[m].opened = terminal[m].opened
                         /\ terminal'[m].number = terminal[m].number
                         /\ terminal'[m].buf = terminal[m].buf
                         /\ terminal'[m].total = terminal[m].total
                         /\ terminal'[m].bash => terminal[m].bash
    BY <2>3, <2>4
  <2> QED
    BY <1>t, <2>1, <2>4, <2>5, TerminalGoes
<1>4. CASE UNCHANGED sessionVars
  BY <1>4, <1>t, TerminalGoes DEF sessionVars
<1> QED
  BY <1>1, <1>2, <1>3, <1>4, PtyOpenKeeps, ReadMoreKeeps, ReadEndsKeeps, FollowKeeps,
     StreamTickKeeps DEF SessionNext

LEMMA FollowedShells == ShellInv => ShellsAreFollowed
<1> SUFFICES ASSUME ShellInv PROVE ShellsHaveSessions /\ FollowerMissesNothing
  BY DEF ShellsAreFollowed
<1>1. ASSUME NEW s \in SessionId, NEW n, OnRecord(s, n)
      PROVE  n \in Shell /\ session[s].status = "open" /\ session[s].pty = n
  <2>1. n \in Nat /\ session[s].pty = n
    BY <1>1 DEF OnRecord, ShellInv, ShellTypes
  <2> QED
    BY <1>1, <2>1 DEF ShellInv, TerminalsOwned
<1>2. ShellsHaveSessions
  BY <1>1 DEF ShellInv, NoStrays, ShellsHaveSessions
<1>3. FollowerMissesNothing
  <2> DEFINE n == session[tab.session].pty
  <2>1. SUFFICES ASSUME tab.phase # "none", n # Nobody, tab.since = n
                 PROVE  /\ tab.sent = terminal[n].total => Range(terminal[n].buf) \subseteq tab.shown
                        /\ tab.shown \subseteq {p \in Piece : p[1] = n}
    BY DEF FollowerMissesNothing
  <2>2. tab.session \in SessionId /\ tab.shown \subseteq Piece /\ tab.sent \in Nat
    BY DEF ShellInv, ShellTypes
  <2>3. OnRecord(tab.session, tab.since) /\ n \in Shell
    BY <2>1, <2>2, <1>1 DEF OnRecord
  <2>4. Covers(tab.sent, tab.shown, terminal[n].buf, terminal[n].total, n)
    BY <2>1, <2>3 DEF ShellInv, FollowerShown, Shown
  <2>5. terminal[n].buf \in Seq(Piece) /\ terminal[n].total \in Nat
    BY <2>3 DEF ShellInv, ShellTypes, Terminal
  <2> DEFINE buf == terminal[n].buf
  <2>6. Len(buf) \in Nat /\ DOMAIN buf = 1 .. Len(buf)
    BY <2>5, LenProperties
  <2> HIDE DEF buf
  <2>7. ASSUME tab.sent = terminal[n].total, NEW x \in Range(buf) PROVE x \in tab.shown
    <3>1. PICK i \in 1 .. Len(buf) : x = buf[i]
      BY <2>6, <2>7 DEF Range
    <3>2. terminal[n].total - Len(buf) + i <= tab.sent
      BY <2>5, <2>6, <2>7, <3>1
    <3> QED
      BY <2>4, <3>1, <3>2 DEF Covers, buf
  <2>8. \A p \in tab.shown : p[1] = n
    BY <2>4 DEF Covers
  <2> QED
    BY <2>2, <2>7, <2>8 DEF buf
<1> QED
  BY <1>2, <1>3

(* However many terminals are opened, jobs outlive them and descriptor numbers are    *)
(* given again: every shell that runs belongs to an open session, and the browser     *)
(* that follows one has seen all its buffer holds and nothing of another             *)
(* (interactive_api.py: _pty_open, _pty_close, _pty_tick, pty_stream_async).         *)
THEOREM ShellsStayFollowed == SessionSpec => []ShellsAreFollowed
<1>1. SessionSpec => []ShellInv
  BY ShellBegins, ShellStep, PTL DEF SessionSpec
<1> QED
  BY <1>1, FollowedShells, PTL

-----------------------------------------------------------------------------
(* Types.  A host that was disturbed keeps no promise but its variables' types, so they *)
(* have an induction of their own: whatever it runs, mounts, saved or verified is a     *)
(* snapshot that was taken, and a snapshot is taken only by an operation that began     *)
(* below the bound.                                                             *)

LaterStep == Step \ {"capture"}
Taken(n) == [current : [snapshot : 0 .. n, published : BOOLEAN], launch : 0 .. n, units : 0 .. n,
             route : BOOLEAN]
Held(o, n) ==
    /\ o \in [kind : OpKind, todo : Seq(Step), saved : Taken(n), before : BOOLEAN]
    /\ o.kind = "none" => o = NoOp
    /\ o.kind = "capture" => o.todo = <<"capture">> /\ n < MaxSnapshot
    /\ o.kind # "capture" => o.todo \in Seq(LaterStep)
HostBounds ==
    /\ captured \in 0 .. MaxSnapshot
    /\ current \in [snapshot : 0 .. captured, published : BOOLEAN]
    /\ launch \in 0 .. captured /\ units \in 0 .. captured /\ game \in 0 .. captured
    /\ nginx \in [file : BOOLEAN, live : BOOLEAN]
    /\ listening \in BOOLEAN /\ disturbed \in BOOLEAN /\ isolated \subseteq 1 .. captured
    /\ Held(op, captured)
    /\ report \in {"none", "published", "stopped", "restored", "failed"}

LEMMA LaterPrograms ==
  /\ \A on \in BOOLEAN : Opening(on) \in Seq(LaterStep) /\ RestoreSteps(on) \in Seq(LaterStep)
  /\ PublishSteps \in Seq(LaterStep) /\ UnpublishSteps \in Seq(LaterStep)
  /\ CloseSteps \in Seq(LaterStep) /\ <<"stop">> \in Seq(LaterStep) /\ <<>> \in Seq(LaterStep)
<1>1. /\ <<"start", "ready", "verify">> \in Seq(LaterStep) /\ <<"origin">> \in Seq(LaterStep)
      /\ <<"stop", "launch", "units">> \in Seq(LaterStep) /\ <<"record", "answer">> \in Seq(LaterStep)
      /\ <<"stop", "files">> \in Seq(LaterStep) /\ <<"stop">> \in Seq(LaterStep)
      /\ <<"stop", "withdraw", "answer">> \in Seq(LaterStep) /\ <<>> \in Seq(LaterStep)
      /\ <<"write_on", "load_on">> \in Seq(LaterStep) /\ <<"write_off", "load_off">> \in Seq(LaterStep)
  BY DEF LaterStep, Step
<1>2. \A on \in BOOLEAN : Opening(on) \in Seq(LaterStep)
  BY <1>1 DEF Opening
<1>3. \A s, t \in Seq(LaterStep) : s \o t \in Seq(LaterStep)
  BY ConcatProperties
<1>4. Starting \in Seq(LaterStep)
  <2>1. <<"start", "ready", "verify">> \o Opening(TRUE) \in Seq(LaterStep)
    BY <1>1, <1>2, <1>3
  <2> QED
    BY <1>1, <1>3, <2>1 DEF Starting
<1>5. \A on \in BOOLEAN : RestoreSteps(on) \in Seq(LaterStep)
  BY <1>1, <1>2, <1>3, <1>4 DEF RestoreSteps
<1>6. PublishSteps \in Seq(LaterStep)
  <2>1. Opening(FALSE) \o <<"stop", "launch", "units">> \in Seq(LaterStep)
    BY <1>1, <1>2, <1>3
  <2>2. (Opening(FALSE) \o <<"stop", "launch", "units">>) \o Starting \in Seq(LaterStep)
    BY <1>3, <1>4, <2>1
  <2> QED
    BY <1>1, <1>3, <2>2 DEF PublishSteps
<1>7. UnpublishSteps \in Seq(LaterStep) /\ CloseSteps \in Seq(LaterStep)
  BY <1>1, <1>2, <1>3 DEF UnpublishSteps, CloseSteps
<1> QED
  BY <1>1, <1>2, <1>5, <1>6, <1>7

LEMMA HeldParts ==
  ASSUME NEW n \in Nat, NEW o, Held(o, n)
  PROVE  /\ o.kind \in OpKind /\ o.todo \in Seq(Step) /\ o.saved \in Taken(n) /\ o.before \in BOOLEAN
         /\ o = [kind |-> o.kind, todo |-> o.todo, saved |-> o.saved, before |-> o.before]
BY DEF Held

LEMMA HeldBuilt ==
  ASSUME NEW n \in Nat, NEW k \in OpKind \ {"none", "capture"}, NEW t \in Seq(LaterStep),
         NEW s \in Taken(n), NEW b \in BOOLEAN
  PROVE  Held([kind |-> k, todo |-> t, saved |-> s, before |-> b], n)
<1>1. t \in Seq(Step)
  BY DEF LaterStep
<1> QED
  BY <1>1 DEF Held

LEMMA NothingHeld ==
  ASSUME NEW n \in Nat PROVE Held(NoOp, n)
<1>1. <<>> \in Seq(Step) /\ <<>> \in Seq(LaterStep)
  OBVIOUS
<1>2. Nothing \in Taken(n)
  BY DEF Nothing, Taken, None
<1> QED
  BY <1>1, <1>2 DEF Held, NoOp, OpKind

\* A later step of an operation leaves the rest of it to go.
LEMMA OnwardHeld ==
  ASSUME HostBounds, NEW x \in LaterStep, StepIs(x)
  PROVE  /\ op.kind \notin {"none", "capture"} /\ Held(Onward, captured)
         /\ \A b \in BOOLEAN : Held([Onward EXCEPT !.before = b], captured)
<1>1. /\ captured \in Nat /\ Held(op, captured) /\ op.kind \in OpKind /\ op.todo \in Seq(Step)
      /\ op.saved \in Taken(captured) /\ op.before \in BOOLEAN
      /\ op = [kind |-> op.kind, todo |-> op.todo, saved |-> op.saved, before |-> op.before]
  BY GameAssumption, HeldParts DEF HostBounds
<1>2. op.todo # <<>> /\ Head(op.todo) = x /\ x # "capture"
  BY DEF StepIs, LaterStep
<1>3. op.kind # "none"
  BY <1>1, <1>2 DEF Held, NoOp
<1>4. op.kind # "capture"
  BY <1>1, <1>2 DEF Held
<1>5. op.todo \in Seq(LaterStep) /\ Tail(op.todo) \in Seq(LaterStep)
  BY <1>1, <1>2, <1>4 DEF Held
<1>6. op.kind \in OpKind \ {"none", "capture"}
  BY <1>1, <1>3, <1>4
<1>7. ASSUME NEW b \in BOOLEAN
      PROVE  Held(Onward, captured) /\ Held([Onward EXCEPT !.before = b], captured)
  <2> DEFINE o == [op EXCEPT !.todo = Tail(op.todo)]
             c == [o EXCEPT !.before = b]
             Form == [kind : OpKind, todo : Seq(Step), saved : Taken(captured), before : BOOLEAN]
  <2>1. op \in Form /\ Tail(op.todo) \in Seq(Step)
    BY <1>1, <1>2 DEF Held
  <2>2. o \in Form /\ o.kind = op.kind /\ o.todo = Tail(op.todo)
    BY <2>1
  <2> HIDE DEF o
  <2>3. c \in Form /\ c.kind = o.kind /\ c.todo = o.todo
    BY <2>2
  <2> HIDE DEF c
  <2>4. Held(o, captured) /\ Held(c, captured)
    BY <1>5, <1>6, <2>2, <2>3 DEF Held
  <2> QED
    BY <2>4 DEF o, c, Onward
<1> QED
  BY <1>6, <1>7

LEMMA HandlerHeld ==
  ASSUME HostBounds, op.todo # <<>>
  PROVE  Held(Handler, captured)
<1>1. /\ captured \in Nat /\ Held(op, captured) /\ op.kind \in OpKind /\ op.todo \in Seq(Step)
      /\ op.saved \in Taken(captured) /\ op.before \in BOOLEAN
      /\ op = [kind |-> op.kind, todo |-> op.todo, saved |-> op.saved, before |-> op.before]
  BY GameAssumption, HeldParts DEF HostBounds
<1>2. op.saved.current.published \in BOOLEAN
  BY <1>1 DEF Taken
<1> DEFINE Becomes(k, t) == [kind |-> k, todo |-> t, saved |-> op.saved, before |-> op.before]
<1>3. PICK k \in {"restore", "close", "abort"}, t \in Seq(LaterStep) : Handler = Becomes(k, t)
  <2>1. CASE op.kind = "publish"
    <3>1. Handler = Becomes("restore", RestoreSteps(op.saved.current.published))
      BY <1>1, <2>1 DEF Handler
    <3> QED
      BY <1>2, <3>1, LaterPrograms
  <2>2. CASE op.kind = "restore"
    <3>1. Handler = Becomes("close", CloseSteps)
      BY <1>1, <2>2 DEF Handler
    <3> QED
      BY <3>1, LaterPrograms
  <2>3. CASE op.kind = "close" /\ StepIs("stop")
    <3>1. Handler = Becomes("close", Opening(FALSE))
      BY <1>1, <2>3 DEF Handler
    <3> QED
      BY <3>1, LaterPrograms
  <2>4. CASE op.kind = "unpublish" /\ Len(op.todo) > 3
    <3>1. Handler = Becomes("abort", <<"stop">>)
      BY <1>1, <2>4 DEF Handler
    <3> QED
      BY <3>1, LaterPrograms
  <2>5. CASE /\ op.kind \notin {"publish", "restore"} /\ ~(op.kind = "close" /\ StepIs("stop"))
             /\ ~(op.kind = "unpublish" /\ Len(op.todo) > 3)
    <3>1. Handler = Becomes("abort", <<>>)
      BY <1>1, <2>5 DEF Handler
    <3> QED
      BY <3>1, LaterPrograms
  <2> QED
    BY <2>1, <2>2, <2>3, <2>4, <2>5
<1>4. k \in OpKind \ {"none", "capture"}
  BY DEF OpKind
<1> QED
  BY <1>1, <1>3, <1>4, HeldBuilt

(* What a step that takes no snapshot may change, and how.                          *)
LEMMA BoundsKept ==
  ASSUME HostBounds, captured' = captured,
         current' \in [snapshot : 0 .. captured, published : BOOLEAN],
         launch' \in 0 .. captured, units' \in 0 .. captured, game' \in 0 .. captured,
         nginx' \in [file : BOOLEAN, live : BOOLEAN],
         listening' \in BOOLEAN, disturbed' \in BOOLEAN, isolated' \subseteq 1 .. captured,
         Held(op', captured),
         report' \in {"none", "published", "stopped", "restored", "failed"}
  PROVE  HostBounds'
BY DEF HostBounds, Held, Taken

LEMMA HostBoundsKept == HostBounds /\ [GameNext]_hostVars => HostBounds'
<1> SUFFICES ASSUME HostBounds, [GameNext]_hostVars PROVE HostBounds'
  OBVIOUS
<1>1. /\ captured \in Nat /\ captured <= MaxSnapshot /\ MaxSnapshot \in Nat
      /\ current \in [snapshot : 0 .. captured, published : BOOLEAN]
      /\ launch \in 0 .. captured /\ units \in 0 .. captured /\ game \in 0 .. captured
      /\ nginx \in [file : BOOLEAN, live : BOOLEAN] /\ nginx.file \in BOOLEAN /\ nginx.live \in BOOLEAN
      /\ listening \in BOOLEAN /\ disturbed \in BOOLEAN /\ isolated \subseteq 1 .. captured
      /\ Held(op, captured) /\ op.kind \in OpKind /\ op.saved \in Taken(captured)
      /\ op.before \in BOOLEAN /\ op.todo \in Seq(Step)
      /\ op = [kind |-> op.kind, todo |-> op.todo, saved |-> op.saved, before |-> op.before]
      /\ report \in {"none", "published", "stopped", "restored", "failed"}
  BY GameAssumption, HeldParts DEF HostBounds
<1>2. Held(NoOp, captured) /\ 0 \in 0 .. captured
  BY <1>1, NothingHeld
<1>3. CASE UNCHANGED hostVars
  BY <1>1, <1>3, BoundsKept DEF hostVars
<1>4. CASE Publish \/ Unpublish \/ Install
  <2>1. /\ op = NoOp /\ report' = "none"
        /\ UNCHANGED <<captured, current, launch, units, nginx, game, listening, isolated, disturbed>>
    BY <1>4 DEF Publish, Unpublish, Install, Begins, managed, running
  <2>2. Held(op', captured)
    <3>1. /\ NoOp = [kind |-> "none", todo |-> <<>>, saved |-> Nothing, before |-> FALSE]
          /\ Nothing \in Taken(captured)
      BY <1>1 DEF NoOp, Nothing, Taken, None
    <3>2. CASE Publish
      <4>1. op' = [kind |-> "capture", todo |-> <<"capture">>, saved |-> Nothing, before |-> FALSE]
        BY <3>1, <3>2 DEF Publish, Begins
      <4>2. <<"capture">> \in Seq(Step) /\ captured < MaxSnapshot
        BY <3>2 DEF Publish, Step
      <4> QED
        BY <3>1, <4>1, <4>2 DEF Held, OpKind
    <3>3. CASE Unpublish
      <4>1. op' = [kind |-> "unpublish", todo |-> UnpublishSteps, saved |-> Nothing, before |-> FALSE]
        BY <3>1, <3>3 DEF Unpublish, Begins
      <4> QED
        BY <1>1, <3>1, <4>1, LaterPrograms, HeldBuilt DEF OpKind
    <3>4. CASE Install
      <4>1. op' = [kind |-> "install", todo |-> Opening(FALSE), saved |-> Nothing, before |-> FALSE]
        BY <3>1, <3>4 DEF Install, Begins
      <4> QED
        BY <1>1, <3>1, <4>1, LaterPrograms, HeldBuilt DEF OpKind
    <3> QED
      BY <1>4, <3>2, <3>3, <3>4
  <2> QED
    BY <1>1, <2>1, <2>2, BoundsKept
<1>5. CASE Capture
  <2>1. /\ captured' = captured + 1 /\ Head(op.todo) = "capture" /\ op.todo # <<>>
        /\ op' = [op EXCEPT !.kind = "publish", !.todo = PublishSteps, !.saved = OwnedConfiguration]
        /\ UNCHANGED <<current, launch, units, nginx, game, listening, isolated, report, disturbed>>
    BY <1>5 DEF Capture, StepIs, managed, running
  <2>2. op.kind = "capture" /\ captured < MaxSnapshot
    <3>1. CASE op.kind # "capture"
      <4>1. op.todo \in Seq(LaterStep)
        BY <1>1, <3>1 DEF Held
      <4>2. Head(op.todo) \in LaterStep
        BY <2>1, <4>1
      <4> QED
        BY <2>1, <4>2 DEF LaterStep
    <3> QED
      BY <1>1, <3>1 DEF Held
  <2>3. /\ OwnedConfiguration \in Taken(captured + 1) /\ captured + 1 \in Nat
        /\ 0 .. captured \subseteq 0 .. captured + 1 /\ 1 .. captured \subseteq 1 .. captured + 1
    BY <1>1 DEF OwnedConfiguration, Taken
  <2>4. op' = [kind |-> "publish", todo |-> PublishSteps, saved |-> OwnedConfiguration, before |-> op.before]
    BY <1>1, <2>1
  <2>5. Held(op', captured + 1)
    BY <1>1, <2>3, <2>4, LaterPrograms, HeldBuilt DEF OpKind
  <2>6. /\ captured' \in 0 .. MaxSnapshot /\ launch' \in 0 .. captured' /\ units' \in 0 .. captured'
        /\ game' \in 0 .. captured' /\ isolated' \subseteq 1 .. captured' /\ Held(op', captured')
        /\ current' \in [snapshot : 0 .. captured', published : BOOLEAN]
    BY <1>1, <2>1, <2>2, <2>3, <2>5
  <2> QED
    BY <1>1, <2>1, <2>6 DEF HostBounds, Held, Taken
<1>6. CASE WriteRoute
  <2>1. PICK on \in BOOLEAN : StepIs(Opening(on)[1]) /\ nginx' = [nginx EXCEPT !.file = on]
    BY <1>6 DEF WriteRoute
  <2>2. Opening(on)[1] \in LaterStep
    BY DEF Opening, LaterStep, Step
  <2>3. Held(op', captured)
    BY <1>1, <1>6, <2>1, <2>2, OnwardHeld DEF WriteRoute
  <2> QED
    BY <1>1, <1>6, <2>1, <2>3, BoundsKept DEF WriteRoute, running
<1>7. CASE LoadRoute
  <2>1. PICK on \in BOOLEAN : StepIs(Opening(on)[2])
    BY <1>7 DEF LoadRoute
  <2>2. Opening(on)[2] \in LaterStep
    BY DEF Opening, LaterStep, Step
  <2>3. Held(op', captured)
    BY <1>7, <2>1, <2>2, OnwardHeld DEF LoadRoute
  <2> QED
    BY <1>1, <1>7, <2>3, BoundsKept DEF LoadRoute, running
<1>8. ASSUME NEW x \in LaterStep, StepIs(x), op' = Onward PROVE Held(op', captured)
  BY <1>8, OnwardHeld
<1>9. {"stop", "launch", "units", "start", "ready", "verify", "origin", "record", "withdraw", "files",
       "answer"} \subseteq LaterStep
  BY DEF LaterStep, Step
<1>10. Executed \in 0 .. captured
  BY <1>1, <1>2 DEF Executed, None
<1>11. CASE Stop \/ WriteLaunch \/ WriteUnits \/ Start \/ Ready \/ StatusAnswers
  <2>1. Held(op', captured)
    BY <1>8, <1>9, <1>11 DEF Stop, WriteLaunch, WriteUnits, Start, Ready, StatusAnswers
  <2>2. /\ captured' = captured /\ UNCHANGED <<current, nginx, isolated, report, disturbed>>
        /\ launch' \in {launch, captured} /\ units' \in {units, captured}
        /\ game' \in {game, None, Executed} /\ (listening' = listening \/ listening' = TRUE \/ listening' = FALSE)
    BY <1>11 DEF Stop, WriteLaunch, WriteUnits, Start, Ready, StatusAnswers, managed, running
  <2>3. captured \in 0 .. captured /\ None \in 0 .. captured
    BY <1>1 DEF None
  <2>4. launch' \in 0 .. captured /\ units' \in 0 .. captured /\ game' \in 0 .. captured
    BY <1>1, <1>10, <2>2, <2>3
  <2>5. listening' \in BOOLEAN
    BY <1>1, <2>2
  <2> QED
    BY <1>1, <2>1, <2>2, <2>4, <2>5, BoundsKept
<1>12. CASE Verify
  <2>1. Held(op', captured) /\ game \in 1 .. captured
    BY <1>1, <1>8, <1>9, <1>12 DEF Verify, None
  <2> QED
    BY <1>1, <1>12, <2>1, BoundsKept DEF Verify, managed, running
<1>13. CASE RecordCurrent
  <2>1. Held(op', captured)
    BY <1>8, <1>9, <1>13 DEF RecordCurrent
  <2>2. current' \in [snapshot : 0 .. captured, published : BOOLEAN]
    <3>1. captured \in 0 .. captured
      BY <1>1
    <3> DEFINE Records == [snapshot : 0 .. captured, published : BOOLEAN]
    <3>2. [snapshot |-> captured, published |-> TRUE] \in Records
      BY <3>1
    <3>3. [current EXCEPT !.published = FALSE] \in Records
      BY <1>1
    <3> QED
      BY <1>13, <3>2, <3>3 DEF RecordCurrent
  <2> QED
    BY <1>1, <1>13, <2>1, <2>2, BoundsKept DEF RecordCurrent, running
<1>14. CASE RestoreFiles
  <2>1. /\ op.saved.launch \in 0 .. captured /\ op.saved.units \in 0 .. captured
        /\ op.saved.current \in [snapshot : 0 .. captured, published : BOOLEAN]
        /\ op.saved.route \in BOOLEAN
    BY <1>1 DEF Taken
  <2>2. StepIs("files") /\ Held(Onward, captured)
    BY <1>9, <1>14, OnwardHeld DEF RestoreFiles
  <2>3. /\ launch' = op.saved.launch /\ (current' = op.saved.current \/ current' = current)
        /\ (nginx' = [nginx EXCEPT !.file = op.saved.route] \/ nginx' = nginx)
        /\ (units' = op.saved.units \/ units' = units) /\ (op' = Onward \/ op' = op)
        /\ UNCHANGED <<captured, game, listening, isolated, report, disturbed>>
    BY <1>14 DEF RestoreFiles, running
  <2> QED
    BY <1>1, <2>1, <2>2, <2>3, BoundsKept
<1>15. CASE Finish \/ Escape \/ Killed
  <2>1. /\ op' = NoOp /\ report' \in {report, "published", "stopped", "restored", "failed"}
        /\ UNCHANGED <<captured, current, launch, units, nginx, game, listening, isolated>>
        /\ (disturbed' = disturbed \/ disturbed' = TRUE)
    BY <1>15 DEF Finish, Escape, Killed, Outcome, managed, running
  <2> QED
    BY <1>1, <1>2, <2>1, BoundsKept
<1>16. CASE Raise
  <2>1. /\ Held(op', captured) /\ UNCHANGED <<captured, current, launch, units, game, isolated, report>>
    BY <1>16, HandlerHeld DEF Raise
  <2>2. /\ nginx' \in [file : BOOLEAN, live : BOOLEAN] /\ listening' \in BOOLEAN /\ disturbed' \in BOOLEAN
    BY <1>1, <1>16 DEF Raise
  <2> QED
    BY <1>1, <2>1, <2>2, BoundsKept
<1>17. CASE Reboot
  <2>1. /\ nginx' \in [file : BOOLEAN, live : BOOLEAN] /\ disturbed' \in BOOLEAN
    BY <1>1, <1>17 DEF Reboot
  <2> QED
    BY <1>1, <1>2, <1>17, <2>1, BoundsKept DEF Reboot, None
<1>18. CASE GameExits \/ Visit
  BY <1>1, <1>2, <1>10, <1>18, BoundsKept DEF GameExits, Visit, None, managed
<1> QED
  BY <1>3, <1>4, <1>5, <1>6, <1>7, <1>11, <1>12, <1>13, <1>14, <1>15, <1>16, <1>17, <1>18 DEF GameNext

LEMMA GameTyped == GameSpec => []GameTypeOK
<1>1. GameInit => HostBounds
  <2> SUFFICES ASSUME GameInit PROVE HostBounds
    OBVIOUS
  <2>1. captured = 0 /\ 0 \in Nat /\ Held(NoOp, 0)
    BY NothingHeld DEF GameInit
  <2>2. Nothing.current = [snapshot |-> 0, published |-> FALSE]
    BY DEF Nothing, None
  <2>3. current \in [snapshot : 0 .. 0, published : BOOLEAN]
    BY <2>2 DEF GameInit
  <2>5. /\ nginx \in [file : BOOLEAN, live : BOOLEAN] /\ listening \in BOOLEAN /\ disturbed \in BOOLEAN
    BY DEF GameInit
  <2>6. launch \in 0 .. 0 /\ units \in 0 .. 0 /\ game \in 0 .. 0 /\ isolated = {} /\ report = "none"
    BY DEF GameInit, None
  <2>4. captured \in 0 .. MaxSnapshot /\ Held(op, captured)
    BY <2>1, GameAssumption DEF GameInit
  <2> QED
    BY <2>1, <2>3, <2>4, <2>5, <2>6 DEF HostBounds
<1>2. HostBounds => GameTypeOK
  <2> SUFFICES ASSUME HostBounds PROVE GameTypeOK
    OBVIOUS
  <2>1. /\ captured \in Nat /\ captured <= MaxSnapshot /\ op.kind \in OpKind
        /\ op.saved \in Taken(captured) /\ op.before \in BOOLEAN /\ MaxSnapshot \in Nat
    BY GameAssumption, HeldParts DEF HostBounds
  <2>2. \A n \in 0 .. captured : n \in Opt
    BY <2>1 DEF Opt, None, Snapshot
  <2>3. op.saved \in Saved
    BY <2>1, <2>2 DEF Taken, Saved, Publication
  <2>4. current \in Publication /\ launch \in Opt /\ units \in Opt /\ game \in Opt
    BY <2>2 DEF HostBounds, Publication
  <2>5. {listening, disturbed} \subseteq BOOLEAN
    BY DEF HostBounds
  <2> QED
    BY <2>1, <2>3, <2>4, <2>5 DEF HostBounds, Held, GameTypeOK
<1> QED
  BY <1>1, <1>2, HostBoundsKept, PTL DEF GameSpec

(* The sessions' types.  What a reader's buffer counts it took from some shell's output, *)
(* each piece once: there are as many counted pieces as pieces taken, and no more of     *)
(* those than were printed.                                                     *)

Took(n) == terminal[n].printed - Len(terminal[n].unread)
CountedPieces == {p \in Shell \X Nat : 1 <= p[2] /\ p[2] <= terminal[p[1]].total}
TakenPieces == {p \in Shell \X Nat : 1 <= p[2] /\ p[2] <= Took(p[1])}
Balanced ==
    /\ \A n \in Shell : Len(terminal[n].unread) <= terminal[n].printed
    /\ IsFiniteSet(CountedPieces) /\ Cardinality(CountedPieces) = Cardinality(TakenPieces)
ShellBounds == workspace \subseteq SessionId /\ tab.sent <= MaxShell * MaxPiece /\ Balanced

LEMMA TerminalNumbers ==
  ASSUME ShellTypes, NEW n \in Shell
  PROVE  /\ terminal[n] \in Terminal /\ terminal[n].printed \in 0 .. MaxPiece
         /\ terminal[n].total \in Nat /\ terminal[n].unread \in Seq(1 .. MaxPiece)
         /\ Len(terminal[n].unread) \in Nat /\ Took(n) \in Int /\ Took(n) <= MaxPiece
<1>1. /\ terminal[n] \in Terminal /\ terminal[n].printed \in 0 .. MaxPiece
      /\ terminal[n].total \in Nat /\ terminal[n].unread \in Seq(1 .. MaxPiece)
  BY DEF ShellTypes, Terminal
<1>2. Len(terminal[n].unread) \in Nat
  BY <1>1, LenProperties
<1> QED
  BY <1>1, <1>2, SessionAssumption DEF Took

LEMMA PiecesTaken ==
  ASSUME ShellTypes
  PROVE  IsFiniteSet(TakenPieces) /\ Cardinality(TakenPieces) <= MaxShell * MaxPiece
         /\ Cardinality(TakenPieces) \in Nat /\ MaxShell * MaxPiece \in Nat
<1>1. MaxShell \in Nat /\ MaxPiece \in Nat
  BY SessionAssumption
<1> DEFINE all == 1 .. MaxPiece
<1>2. IsFiniteSet(all) /\ Cardinality(all) = MaxPiece /\ IsFiniteSet(Shell) /\ Cardinality(Shell) = MaxShell
  BY <1>1, FS_Interval DEF Shell
<1>3. TakenPieces \subseteq Shell \X all
  <2>1. ASSUME NEW p \in TakenPieces PROVE p \in Shell \X all
    <3>1. p \in Shell \X Nat /\ p[1] \in Shell /\ 1 <= p[2] /\ p[2] <= Took(p[1]) /\ p[2] \in Nat
      BY <2>1 DEF TakenPieces
    <3>2. Took(p[1]) \in Int /\ Took(p[1]) <= MaxPiece
      BY <3>1, TerminalNumbers
    <3>3. p[2] \in all
      BY <1>1, <3>1, <3>2
    <3> HIDE DEF all
    <3> QED
      BY <3>1, <3>3
  <2> QED
    BY <2>1
<1> HIDE DEF all
<1>4. IsFiniteSet(Shell \X all) /\ Cardinality(Shell \X all) = MaxShell * MaxPiece
  BY <1>2, FS_Product
<1>5. MaxShell * MaxPiece \in Nat
  BY <1>1
<1> QED
  BY <1>3, <1>4, <1>5, FS_Subset, FS_CardinalityType

LEMMA TotalsBounded ==
  ASSUME ShellTypes, Balanced, NEW n \in Shell
  PROVE  terminal[n].total <= MaxShell * MaxPiece
<1>1. PICK t \in Nat : t = terminal[n].total
  BY TerminalNumbers
<1> DEFINE mine == 1 .. t
           own == {n} \X mine
<1>2. IsFiniteSet(mine) /\ Cardinality(mine) = t
  <2>1. 1 \in Int /\ t \in Int /\ t >= 0
    OBVIOUS
  <2>2. IsFiniteSet(1 .. t) /\ Cardinality(1 .. t) = IF 1 > t THEN 0 ELSE t - 1 + 1
    BY <2>1, FS_Interval
  <2> QED
    BY <2>1, <2>2
<1>3. own \subseteq CountedPieces
  BY <1>1 DEF CountedPieces
<1>4. Cardinality(own) = t
  <2> HIDE DEF mine
  <2>1. Cardinality(own) = Cardinality({n}) * Cardinality(mine)
    BY <1>2, FS_Singleton, FS_Product
  <2>2. Cardinality({n}) = 1
    BY FS_Singleton
  <2> QED
    BY <1>2, <2>1, <2>2
<1> HIDE DEF own
<1>5. Cardinality(own) <= Cardinality(CountedPieces)
  BY <1>3, FS_Subset DEF Balanced
<1> QED
  BY <1>1, <1>4, <1>5, PiecesTaken DEF Balanced

(* A step that takes nothing: what it prints is still to be taken.                  *)
LEMMA BalanceKept ==
  ASSUME ShellTypes, Balanced,
         \A m \in Shell : /\ terminal'[m].total = terminal[m].total /\ Took(m)' = Took(m)
                          /\ Len(terminal'[m].unread) <= terminal'[m].printed
  PROVE  Balanced'
<1>1. CountedPieces' = CountedPieces
  BY DEF CountedPieces
<1>2. TakenPieces' = TakenPieces
  BY DEF TakenPieces
<1> QED
  BY <1>1, <1>2 DEF Balanced

(* A piece that is read is taken from one shell and counted by one buffer.           *)
LEMMA BalanceMoves ==
  ASSUME ShellTypes, Balanced, NEW n \in Shell, NEW k \in Shell,
         \A m \in Shell :
           /\ terminal'[m].total = IF m = n THEN terminal[m].total + 1 ELSE terminal[m].total
           /\ Took(m)' = IF m = k THEN Took(m) + 1 ELSE Took(m)
           /\ Len(terminal'[m].unread) <= terminal'[m].printed
  PROVE  Balanced'
<1>1. \A m \in Shell : terminal[m].total \in Nat /\ Took(m) \in Nat
  <2> SUFFICES ASSUME NEW m \in Shell PROVE terminal[m].total \in Nat /\ Took(m) \in Nat
    OBVIOUS
  <2>1. /\ terminal[m].printed \in 0 .. MaxPiece /\ terminal[m].total \in Nat
        /\ Len(terminal[m].unread) \in Nat /\ Len(terminal[m].unread) <= terminal[m].printed
    BY TerminalNumbers DEF Balanced
  <2> QED
    BY <2>1 DEF Took
<1> DEFINE x == <<n, terminal[n].total + 1>>
           y == <<k, Took(k) + 1>>
<1>2. CountedPieces' = CountedPieces \cup {x} /\ x \notin CountedPieces
  <2>1. ASSUME NEW p \in Shell \X Nat
        PROVE  p \in CountedPieces' <=> (p \in CountedPieces \/ p = x)
    <3>1. p[1] \in Shell /\ p[2] \in Nat /\ p = <<p[1], p[2]>> /\ terminal[p[1]].total \in Nat
      BY <1>1
    <3>2. CASE p[1] = n
      BY <3>1, <3>2 DEF CountedPieces
    <3>3. CASE p[1] # n
      BY <3>1, <3>3 DEF CountedPieces
    <3> QED
      BY <3>2, <3>3
  <2>2. x \in Shell \X Nat /\ CountedPieces \subseteq Shell \X Nat /\ CountedPieces' \subseteq Shell \X Nat
    BY <1>1 DEF CountedPieces
  <2>3. x \notin CountedPieces
    BY <1>1 DEF CountedPieces
  <2> HIDE DEF x
  <2> QED
    BY <2>1, <2>2, <2>3
<1>3. TakenPieces' = TakenPieces \cup {y} /\ y \notin TakenPieces
  <2>1. ASSUME NEW p \in Shell \X Nat
        PROVE  p \in TakenPieces' <=> (p \in TakenPieces \/ p = y)
    <3>1. /\ p[1] \in Shell /\ p[2] \in Nat /\ p = <<p[1], p[2]>> /\ Took(p[1]) \in Nat
          /\ Took(p[1])' = IF p[1] = k THEN Took(p[1]) + 1 ELSE Took(p[1])
      BY <1>1
    <3>2. CASE p[1] = k
      BY <3>1, <3>2 DEF TakenPieces
    <3>3. CASE p[1] # k
      BY <3>1, <3>3 DEF TakenPieces
    <3> QED
      BY <3>2, <3>3
  <2>2. y \in Shell \X Nat /\ TakenPieces \subseteq Shell \X Nat /\ TakenPieces' \subseteq Shell \X Nat
    BY <1>1 DEF TakenPieces
  <2>3. y \notin TakenPieces
    BY <1>1 DEF TakenPieces
  <2> HIDE DEF y
  <2> QED
    BY <2>1, <2>2, <2>3
<1> HIDE DEF x, y
<1>4. /\ IsFiniteSet(CountedPieces') /\ Cardinality(CountedPieces') = Cardinality(CountedPieces) + 1
      /\ Cardinality(TakenPieces') = Cardinality(TakenPieces) + 1
  BY <1>2, <1>3, PiecesTaken, FS_AddElement DEF Balanced
<1> QED
  BY <1>4 DEF Balanced

(* A step that neither prints nor reads.                                        *)
LEMMA BalanceStays ==
  ASSUME ShellTypes, Balanced,
         \A m \in Shell : /\ terminal'[m].printed = terminal[m].printed
                          /\ terminal'[m].unread = terminal[m].unread
                          /\ terminal'[m].total = terminal[m].total
  PROVE  Balanced'
<1>1. \A m \in Shell : /\ terminal'[m].total = terminal[m].total /\ Took(m)' = Took(m)
                       /\ Len(terminal'[m].unread) <= terminal'[m].printed
  BY DEF Took, Balanced
<1> QED
  BY <1>1, BalanceKept

\* Closing a shell takes nothing from its output.
LEMMA ClosedUnread ==
  ASSUME ShellInv, NEW s \in SessionId, NEW c, c = ShellsClosed(s), NEW m \in Shell
  PROVE  /\ c \in [Shell -> Terminal] /\ c[m].printed = terminal[m].printed
         /\ c[m].unread = terminal[m].unread /\ c[m].total = terminal[m].total
<1>1. terminal \in [Shell -> Terminal] /\ terminal[m] \in Terminal
  BY DEF ShellInv, ShellTypes
<1>2. c \in [Shell -> Terminal]
  BY Closes
<1>3. CASE session[s].pty = Nobody
  BY <1>1, <1>2, <1>3 DEF ShellsClosed
<1>4. CASE session[s].pty # Nobody
  <2> DEFINE k == session[s].pty
  <2>1. c = [terminal EXCEPT ![k].bash = FALSE]
    BY <1>4 DEF ShellsClosed
  <2> HIDE DEF k
  <2>2. c[m] = IF m = k THEN [terminal[m] EXCEPT !.bash = FALSE] ELSE terminal[m]
    BY <1>1, <2>1
  <2> QED
    BY <1>1, <1>2, <2>2 DEF Terminal
<1> QED
  BY <1>3, <1>4

LEMMA OpenedUnread ==
  ASSUME ShellInv, NEW s \in SessionId, PtyOpen(s), NEW m \in Shell
  PROVE  /\ terminal'[m].printed = terminal[m].printed
         /\ terminal'[m].unread = terminal[m].unread /\ terminal'[m].total = terminal[m].total
<1> DEFINE c == ShellsClosed(s)
<1>1. PICK n \in Shell, d \in Descriptor :
         terminal' = [c EXCEPT ![n].opened = TRUE, ![n].number = d, ![n].bash = TRUE]
  BY DEF PtyOpen
<1>2. /\ c \in [Shell -> Terminal] /\ c[m].printed = terminal[m].printed
      /\ c[m].unread = terminal[m].unread /\ c[m].total = terminal[m].total
  BY ClosedUnread
<1> HIDE DEF c
<1>3. /\ c[m] \in Terminal
      /\ terminal'[m] = IF m = n THEN [c[m] EXCEPT !.opened = TRUE, !.number = d, !.bash = TRUE]
                        ELSE c[m]
  BY <1>1, <1>2
<1> QED
  BY <1>2, <1>3 DEF Terminal

\* What is printed waits to be read.
LEMMA PrintedUnread ==
  ASSUME ShellInv, ShellBounds, NEW n \in Shell, Prints(n)
  PROVE  Balanced'
<1>1. /\ terminal \in [Shell -> Terminal]
      /\ terminal' = [terminal EXCEPT ![n].printed = @ + 1,
                                      ![n].unread = Append(@, terminal[n].printed + 1)]
  BY DEF ShellInv, ShellTypes, Prints
<1>2. ASSUME NEW m \in Shell
      PROVE  /\ terminal'[m].total = terminal[m].total /\ Took(m)' = Took(m)
             /\ Len(terminal'[m].unread) <= terminal'[m].printed
  <2>1. /\ terminal[m] \in Terminal /\ terminal[m].printed \in 0 .. MaxPiece
        /\ terminal[m].unread \in Seq(1 .. MaxPiece) /\ Len(terminal[m].unread) \in Nat
        /\ Len(terminal[m].unread) <= terminal[m].printed
    BY TerminalNumbers DEF ShellInv, ShellBounds, Balanced
  <2>2. CASE m # n
    <3>1. terminal'[m] = terminal[m]
      BY <1>1, <2>2
    <3> QED
      BY <2>1, <3>1 DEF Took
  <2>3. CASE m = n
    <3> DEFINE k == terminal[n].printed + 1
    <3>1. k \in 1 .. MaxPiece
      BY RoomToPrint DEF Prints, ShellInv
    <3> DEFINE q == Append(terminal[n].unread, k)
    <3>2. Len(q) = Len(terminal[n].unread) + 1
      BY <2>1, <2>3, <3>1, AppendProperties
    <3>3. terminal'[n] = [terminal[n] EXCEPT !.printed = k, !.unread = q]
      BY <1>1
    <3> HIDE DEF q
    <3>4. terminal'[n].printed = k /\ terminal'[n].unread = q /\ terminal'[n].total = terminal[n].total
      BY <2>1, <2>3, <3>3 DEF Terminal
    <3>5. PICK p \in Int, l \in Int : p = terminal[m].printed /\ l = Len(terminal[m].unread)
      BY <2>1, SessionAssumption
    <3>6. /\ terminal'[m].printed = p + 1 /\ Len(terminal'[m].unread) = l + 1
          /\ terminal'[m].total = terminal[m].total /\ l <= p
      BY <2>1, <2>3, <3>2, <3>4, <3>5
    <3>7. Took(m) = p - l /\ Took(m)' = (p + 1) - (l + 1)
      BY <3>5, <3>6 DEF Took
    <3> QED
      BY <3>5, <3>6, <3>7
  <2> QED
    BY <2>2, <2>3
<1> QED
  BY <1>2, BalanceKept DEF ShellInv, ShellBounds

\* A piece that is read is taken and counted.
LEMMA ReadTaken ==
  ASSUME ShellInv, ShellBounds, NEW n \in Shell, ReadMore(n)
  PROVE  Balanced'
<1>1. PICK k \in Shell : k = reading[n]
  BY DEF ReadMore, ShellInv, ReadersFaithful
<1>2. terminal[k].unread # <<>>
  BY <1>1 DEF ReadMore
<1>3. terminal \in [Shell -> Terminal] /\ terminal[n] \in Terminal /\ terminal[k] \in Terminal
  BY DEF ShellInv, ShellTypes
<1>4. PICK b : b = Retain(Append(terminal[n].buf, <<k, Head(terminal[k].unread)>>))
  OBVIOUS
<1> DEFINE x == <<k, Head(terminal[k].unread)>>
           a == [terminal[k] EXCEPT !.unread = Tail(@)]
           t == [terminal EXCEPT ![k] = a]
<1>5. t[n].buf = terminal[n].buf /\ t[n].total = terminal[n].total
  BY <1>3 DEF Terminal
<1>6. terminal' = [t EXCEPT ![n].buf = Retain(Append(@, x)), ![n].total = @ + 1]
  BY <1>1 DEF ReadMore
<1>7. t \in [Shell -> Terminal]
  <2>1. terminal[k].unread \in Seq(1 .. MaxPiece)
    BY <1>3 DEF Terminal
  <2>2. Tail(terminal[k].unread) \in Seq(1 .. MaxPiece)
    BY <1>2, <2>1, HeadTailProperties
  <2>3. a \in Terminal
    BY <1>3, <2>2 DEF Terminal
  <2> HIDE DEF a
  <2> QED
    BY <1>3, <2>3
<1>8. \A m \in Shell : terminal'[m] = IF m = n THEN [t[n] EXCEPT !.buf = b, !.total = terminal[n].total + 1]
                                      ELSE t[m]
  <2> HIDE DEF t
  <2>1. terminal' = [t EXCEPT ![n] = [t[n] EXCEPT !.buf = Retain(Append(t[n].buf, x)),
                                                  !.total = t[n].total + 1]]
    BY <1>6, <1>7
  <2> QED
    BY <1>4, <1>5, <1>7, <2>1
<1>9. \A m \in Shell : t[m] = IF m = k THEN a ELSE terminal[m]
  BY <1>3
<1>10. /\ a.unread = Tail(terminal[k].unread) /\ a.printed = terminal[k].printed
       /\ a.total = terminal[k].total
  BY <1>3 DEF Terminal
<1>t. \A m \in Shell : t[m] \in Terminal
  BY <1>7
<1> HIDE DEF a, t, x
<1>11. ASSUME NEW m \in Shell
       PROVE  /\ terminal'[m].total = IF m = n THEN terminal[m].total + 1 ELSE terminal[m].total
              /\ terminal'[m].printed = terminal[m].printed
              /\ terminal'[m].unread = IF m = k THEN Tail(terminal[m].unread) ELSE terminal[m].unread
  <2>1. /\ t[m].total = terminal[m].total /\ t[m].printed = terminal[m].printed
        /\ t[m].unread = IF m = k THEN Tail(terminal[m].unread) ELSE terminal[m].unread
    BY <1>9, <1>10
  <2>2. CASE m # n
    BY <1>8, <2>1, <2>2
  <2>3. CASE m = n
    <3>1. terminal'[m] = [t[m] EXCEPT !.buf = b, !.total = terminal[m].total + 1]
      BY <1>8, <2>3
    <3>2. /\ terminal'[m].total = terminal[m].total + 1 /\ terminal'[m].printed = t[m].printed
          /\ terminal'[m].unread = t[m].unread
      BY <1>t, <3>1 DEF Terminal
    <3> QED
      BY <2>1, <2>3, <3>2
  <2> QED
    BY <2>2, <2>3
<1>12. ASSUME NEW m \in Shell
       PROVE  /\ Took(m)' = IF m = k THEN Took(m) + 1 ELSE Took(m)
              /\ Len(terminal'[m].unread) <= terminal'[m].printed
  <2>1. /\ terminal[m].printed \in 0 .. MaxPiece /\ Len(terminal[m].unread) \in Nat
        /\ terminal[m].unread \in Seq(1 .. MaxPiece)
        /\ Len(terminal[m].unread) <= terminal[m].printed
    BY TerminalNumbers DEF ShellInv, ShellBounds, Balanced
  <2>2. m = k => Len(Tail(terminal[m].unread)) = Len(terminal[m].unread) - 1
    BY <1>2, <2>1, HeadTailProperties
  <2>3. Len(terminal'[m].unread) = IF m = k THEN Len(terminal[m].unread) - 1
                                   ELSE Len(terminal[m].unread)
    BY <1>11, <2>2
  <2>4. terminal'[m].printed = terminal[m].printed
    BY <1>11
  <2>5. MaxPiece \in Nat
    BY SessionAssumption
  <2> QED
    BY <2>1, <2>3, <2>4, <2>5 DEF Took
<1> QED
  BY <1>11, <1>12, BalanceMoves DEF ShellInv, ShellBounds

LEMMA ShellBoundsKept == ShellInv /\ ShellBounds /\ [SessionNext]_sessionVars => ShellBounds'
<1> SUFFICES ASSUME ShellInv, ShellBounds, [SessionNext]_sessionVars PROVE ShellBounds'
  OBVIOUS
<1>t. /\ ShellTypes /\ Balanced /\ terminal \in [Shell -> Terminal]
      /\ workspace \subseteq SessionId /\ tab.sent <= MaxShell * MaxPiece
  BY DEF ShellInv, ShellTypes, ShellBounds
<1>1. ASSUME NEW s \in SessionId, NewSession(s) PROVE ShellBounds'
  BY <1>t, <1>1, BalanceStays DEF NewSession, ShellBounds
<1>2. ASSUME NEW s \in SessionId, OpenFolder(s) \/ CloseSession(s) PROVE ShellBounds'
  <2>1. terminal' = ShellsClosed(s) /\ workspace' = workspace /\ tab' = tab
    BY <1>2 DEF OpenFolder, CloseSession
  <2>2. Balanced'
    BY <1>t, <2>1, ClosedUnread, BalanceStays
  <2> QED
    BY <1>t, <2>1, <2>2 DEF ShellBounds
<1>3. ASSUME NEW s \in SessionId, PtyOpen(s) PROVE ShellBounds'
  <2>1. workspace' = workspace /\ tab' = tab
    BY <1>3 DEF PtyOpen
  <2>2. Balanced'
    BY <1>t, <1>3, OpenedUnread, BalanceStays
  <2> QED
    BY <1>t, <2>1, <2>2 DEF ShellBounds
<1>4. ASSUME NEW n \in Shell, Prints(n) \/ ReadMore(n) PROVE ShellBounds'
  <2>1. workspace' = workspace /\ tab' = tab
    BY <1>4 DEF Prints, ReadMore
  <2>2. Balanced'
    BY <1>4, PrintedUnread, ReadTaken
  <2> QED
    BY <1>t, <2>1, <2>2 DEF ShellBounds
<1>5. ASSUME NEW n \in Shell, StartJob(n) \/ EndJob(n) \/ ExitBash(n) PROVE ShellBounds'
  <2>1. workspace' = workspace /\ tab' = tab
    BY <1>5 DEF StartJob, EndJob, ExitBash
  <2>2. ASSUME NEW m \in Shell
        PROVE  /\ terminal'[m].printed = terminal[m].printed
               /\ terminal'[m].unread = terminal[m].unread
               /\ terminal'[m].total = terminal[m].total
    <3>1. terminal[m] \in Terminal
      BY <1>t
    <3>2. PICK b \in BOOLEAN :
            \/ terminal' = [terminal EXCEPT ![n].job = b]
            \/ terminal' = [terminal EXCEPT ![n].bash = b]
      BY <1>5 DEF StartJob, EndJob, ExitBash
    <3>3. terminal'[m] \in {terminal[m], [terminal[m] EXCEPT !.job = b],
                            [terminal[m] EXCEPT !.bash = b]}
      BY <1>t, <3>2
    <3> QED
      BY <3>1, <3>3 DEF Terminal
  <2>3. Balanced'
    BY <1>t, <2>2, BalanceStays
  <2> QED
    BY <1>t, <2>1, <2>3 DEF ShellBounds
<1>6. ASSUME UNCHANGED <<workspace, terminal, tab>> PROVE ShellBounds'
  BY <1>t, <1>6, BalanceStays DEF ShellBounds
<1>7. ASSUME UNCHANGED <<workspace, terminal>>, tab'.sent <= MaxShell * MaxPiece PROVE ShellBounds'
  BY <1>t, <1>7, BalanceStays DEF ShellBounds
<1>8. CASE Follow
  <2>1. tab \in [phase : {"none", "open", "ended"}, session : SessionId, since : Nat,
                 sent : Nat, shown : SUBSET Piece]
    BY <1>t DEF ShellTypes
  <2>2. UNCHANGED <<workspace, terminal>> /\ tab'.sent = tab.sent
    BY <1>8, <2>1 DEF Follow
  <2> QED
    BY <1>t, <1>7, <2>2
<1>9. CASE StreamTick
  <2> DEFINE n == session[tab.session].pty
  <2>1. tab \in [phase : {"none", "open", "ended"}, session : SessionId, since : Nat,
                 sent : Nat, shown : SUBSET Piece]
    BY <1>t DEF ShellTypes
  <2>2. UNCHANGED <<workspace, terminal>>
    BY <1>9 DEF StreamTick
  <2>3. CASE n = Nobody
    <3>1. tab' = [tab EXCEPT !.phase = "ended"]
      BY <1>9, <2>3 DEF StreamTick
    <3>2. tab'.sent = tab.sent
      BY <2>1, <3>1
    <3> QED
      BY <1>t, <1>7, <2>2, <3>2
  <2>4. CASE n # Nobody
    <3>1. n \in Shell
      BY <2>1, <2>4 DEF OnRecord, ShellInv, ShellTypes, TerminalsOwned
    <3>2. terminal[n].total <= MaxShell * MaxPiece
      BY <1>t, <3>1, TotalsBounded
    <3>3. tab'.sent = IF terminal[n].total > tab.sent THEN terminal[n].total ELSE tab.sent
      <4>1. \E displayed, phase :
              tab' = [tab EXCEPT !.shown = displayed,
                                 !.sent = IF terminal[n].total > @ THEN terminal[n].total ELSE @,
                                 !.phase = phase]
        BY <1>9, <2>4 DEF StreamTick
      <4> QED
        BY <2>1, <4>1
    <3> QED
      BY <1>t, <1>7, <2>2, <3>2, <3>3
  <2> QED
    BY <2>3, <2>4
<1>10. ASSUME NEW n \in Shell, ReadEnds(n) PROVE ShellBounds'
  BY <1>6, <1>10 DEF ReadEnds
<1>11. CASE UNCHANGED sessionVars
  BY <1>6, <1>11 DEF sessionVars
<1> QED
  BY <1>1, <1>2, <1>3, <1>4, <1>5, <1>8, <1>9, <1>10, <1>11 DEF SessionNext

LEMMA SessionTyped == SessionSpec => []SessionTypeOK
<1>1. SessionInit => ShellBounds
  <2> SUFFICES ASSUME SessionInit PROVE ShellBounds
    OBVIOUS
  <2>1. workspace = {} /\ tab.sent = 0
    BY DEF SessionInit
  <2>2. \A n \in Shell : /\ terminal[n].printed = 0 /\ terminal[n].unread = <<>>
                         /\ terminal[n].total = 0
    BY DEF SessionInit
  <2>3. CountedPieces = {} /\ TakenPieces = {}
    BY <2>2 DEF CountedPieces, TakenPieces, Took
  <2>4. Balanced
    BY <2>2, <2>3, FS_EmptySet DEF Balanced
  <2>5. 0 <= MaxShell * MaxPiece
    BY SessionAssumption
  <2> QED
    BY <2>1, <2>4, <2>5 DEF ShellBounds
<1>2. ShellInv /\ ShellBounds => SessionTypeOK
  <2> SUFFICES ASSUME ShellInv, ShellBounds PROVE SessionTypeOK
    OBVIOUS
  <2>1. session \in [SessionId -> [status : {"none", "open", "closed"}, dev : BOOLEAN,
                                   folder : BOOLEAN, pty : {Nobody} \cup Shell]]
    <3>1. session \in [SessionId -> [status : {"none", "open", "closed"}, dev : BOOLEAN,
                                     folder : BOOLEAN, pty : Nat]]
      BY DEF ShellInv, ShellTypes
    <3>2. ASSUME NEW s \in SessionId
          PROVE  session[s] \in [status : {"none", "open", "closed"}, dev : BOOLEAN,
                                 folder : BOOLEAN, pty : {Nobody} \cup Shell]
      <4>1. session[s].pty \in Nat
        BY <3>1
      <4>2. session[s].pty # Nobody => session[s].pty \in Shell
        BY <4>1 DEF OnRecord, ShellInv, TerminalsOwned
      <4> QED
        BY <3>1, <4>2
    <3> QED
      BY <3>1, <3>2
  <2>2. terminal \in [Shell -> [opened : BOOLEAN, number : Descriptor, bash : BOOLEAN,
                            job : BOOLEAN, printed : 0 .. MaxPiece,
                            unread : Seq(1 .. MaxPiece), buf : Seq(Piece),
                            total : 0 .. MaxShell * MaxPiece]]
    <3>1. terminal \in [Shell -> Terminal]
      BY DEF ShellInv, ShellTypes
    <3>2. ASSUME NEW n \in Shell
          PROVE  terminal[n].total \in 0 .. MaxShell * MaxPiece /\ terminal[n].number \in Descriptor
      <4>1. terminal[n] \in Terminal /\ terminal[n].total \in Nat
        BY <3>1, TerminalNumbers DEF ShellInv
      <4>2. terminal[n].number \in Descriptor
        BY <4>1, SessionAssumption DEF Terminal, Number
      <4>3. terminal[n].total <= MaxShell * MaxPiece /\ MaxShell * MaxPiece \in Nat
        BY TotalsBounded, PiecesTaken DEF ShellInv, ShellBounds
      <4> QED
        BY <4>1, <4>2, <4>3
    <3> QED
      BY <3>1, <3>2 DEF Terminal
  <2>3. reading \in [Shell -> {Nobody} \cup Shell]
    BY DEF ShellInv, ShellTypes, ReadersFaithful
  <2>4. descriptor \in [Descriptor -> {Closed} \cup Shell]
    BY DEF ShellInv, ShellTypes, NoStrays, TerminalsOwned
  <2>5. /\ tab.phase \in {"none", "open", "ended"} /\ tab.session \in SessionId
        /\ tab.since \in {Nobody} \cup Shell /\ tab.shown \subseteq Piece
        /\ tab.sent \in 0 .. MaxShell * MaxPiece
    BY PiecesTaken DEF ShellInv, ShellTypes, FollowerShown, ShellBounds
  <2> QED
    BY <2>1, <2>2, <2>3, <2>4, <2>5 DEF SessionTypeOK, ShellBounds
<1> QED
  BY <1>1, <1>2, ShellBegins, ShellStep, ShellBoundsKept, PTL DEF SessionSpec

(* Whatever the components around the builders' work do, each from its own first  *)
(* state and in any order of their steps, the variables of each keep their types:  *)
(* windows, attempts, buffers, snapshots and records stay within their bounds.    *)
THEOREM ServicesTyped ==
    EventSpec /\ ActivitySpec /\ GameSpec /\ TerminalSpec /\ ConversationSpec
    /\ SessionSpec /\ SetupSpec => []ServicesTypeOK
<1>1. /\ EventTypeOK /\ ActivityTypeOK /\ GameTypeOK /\ TerminalTypeOK
      /\ ConversationTypeOK /\ SessionTypeOK /\ SetupTypeOK
      => ServicesTypeOK
  BY DEF ServicesTypeOK
<1> QED
  BY <1>1, EventTyped, ActivityTyped, GameTyped, TerminalTyped, ConversationTyped,
     SessionTyped, SetupTyped, PTL
==============================================================================
