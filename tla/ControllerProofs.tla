--------------------------- MODULE ControllerProofs ---------------------------
(***************************************************************************)
(* Theorems about the charging controller, for any number of callers, any  *)
(* requested values, any telemetry and any combination of failures.        *)
(***************************************************************************)
EXTENDS Controller, TLAPS

(***************************************************************************)
(* The inductive invariant.                                                *)
(***************************************************************************)

\* Steps that dispatch a write to 0x3001 are planned only with a current.
CurrentSteps == {"cur", "rcur"}
Plain == Steps \ CurrentSteps
StepsFor(w) == IF w.c = None THEN Plain ELSE Steps

\* The operation in progress: what it will write without looking at the intent
\* again is never positive.
OpOK(o) == /\ o \in Ops
           /\ o.todo \in Seq(StepsFor(o.wire))
           /\ ~o.check => o.wire.p <= 0 /\ o.wire.c = None

\* The commands in progress: a read maximum is a value for 0x3002.
CmdOK(m) == /\ m \in Cmds
            /\ m.pc = "read" => m.val \in Power
            /\ Latching(m.before)

MemoryOK ==
    /\ phase \in {"down", "init", "first", "up"}
    /\ protect \subseteq {"telemetry", "safety"}
    /\ released \in BOOLEAN /\ awaitPlug \in BOOLEAN /\ maxp \in {DeviceMax, None}
    /\ mismatches \in {0, 1, 2}
    /\ pending \in BOOLEAN /\ persisted \in BOOLEAN
    /\ spawned \in BOOLEAN /\ correction \in {"none", "queued", "running"}
    /\ held \in {"no", "pause", "late"}

IntentOK == /\ intent \in Intent /\ Latching(intent)
            /\ offered \in Intent /\ Latching(offered)
            /\ durable \in Intent \cup {FirstInstall}

CommandsOK == cmd \in [Callers -> Cmds] /\ \A c \in Callers : CmdOK(cmd[c])

\* A standing pause: not enabled, not released, and on disk while down.
PauseStands ==
    held = "pause" =>
        /\ ~intent.enabled /\ ~released
        /\ phase = "down" => durable # FirstInstall /\ ~durable.enabled

WireOK == /\ cap \in Power
          /\ sent \in [reg : {"none", "power", "current", "stop"},
                       val : Power \cup Current \cup {2}]
          /\ OnlyTheLatestWire

IInv == MemoryOK /\ IntentOK /\ OpOK(op) /\ CommandsOK /\ PauseStands /\ WireOK

(***************************************************************************)
(* Lemmas about the building blocks.                                       *)
(***************************************************************************)

\* Every value a command, a read or a restart can bring in is an integer.
LEMMA ValuesAreIntegers ==
    /\ Power \subseteq Int /\ Current \subseteq Int
    /\ None \in Power /\ None \in Current /\ 0 \in Power /\ DeviceMax \in Power
BY PowersAssumption, CurrentsAssumption, MaxAssumption DEF Power, Current, None

\* Replacing the step in progress by planned steps keeps a plan a plan
\* (the continuation list of an operation, Then).
LEMMA Prepending ==
    ASSUME NEW S, NEW s \in Seq(S), s # <<>>, NEW t \in Seq(S)
    PROVE  t \o Tail(s) \in Seq(S)
OBVIOUS

\* Seq is monotone.
LEMMA LargerAlphabet ==
    ASSUME NEW S, NEW T, S \subseteq T, NEW s \in Seq(S)
    PROVE  s \in Seq(T)
OBVIOUS

\* A plan without current writes is a plan whatever the wire is.
LEMMA PlainPlans ==
    ASSUME NEW w, NEW t \in Seq(Plain)
    PROVE  t \in Seq(StepsFor(w))
<1>1. Plain \subseteq StepsFor(w)
  BY DEF Plain, StepsFor
<1> QED
  BY <1>1, LargerAlphabet

\* The plan of an operation after plain steps t replace the one in progress.
LEMMA Replanned ==
    ASSUME OpOK(op), op.todo # <<>>, NEW t \in Seq(Plain)
    PROVE  t \o Tail(op.todo) \in Seq(StepsFor(op.wire)) \cap Seq(Steps)
<1>1. op.todo \in Seq(StepsFor(op.wire)) /\ t \in Seq(StepsFor(op.wire))
  BY PlainPlans DEF OpOK
<1>2. t \o Tail(op.todo) \in Seq(StepsFor(op.wire))
  BY <1>1, Prepending
<1>3. StepsFor(op.wire) \subseteq Steps
  BY DEF StepsFor, Plain
<1> QED
  BY <1>2, <1>3, LargerAlphabet

\* Then: an operation that goes on to plain steps is still well formed.
LEMMA ThenOK ==
    ASSUME OpOK(op), op.todo # <<>>, NEW t \in Seq(Plain), Then(t)
    PROVE  OpOK(op')
BY Replanned DEF OpOK, Then, Ops

\* Another round of a retry loop.
LEMMA AnotherRoundOK ==
    ASSUME OpOK(op), op.todo # <<>>, NEW t \in Seq(Plain)
    PROVE  OpOK([op EXCEPT !.todo = t \o Tail(@), !.tries = @ + 1])
<1> DEFINE rest == t \o Tail(op.todo)
           n == op.tries + 1
           new == [op EXCEPT !.todo = rest, !.tries = n]
<1>1. rest \in Seq(StepsFor(op.wire)) /\ rest \in Seq(Steps)
  BY Replanned
<1>2. op \in Ops /\ n \in Nat
  BY DEF OpOK, Ops
<1> HIDE DEF rest, n
<1>3. new \in Ops /\ new.todo = rest /\ new.wire = op.wire /\ new.check = op.check
  BY <1>1, <1>2 DEF Ops
<1>4. OpOK(new)
  BY <1>1, <1>3 DEF OpOK
<1> QED
  BY <1>4 DEF rest, n

\* The evidence an operation collects does not matter to its form.
LEMMA EvidenceOK ==
    ASSUME NEW o, OpOK(o), NEW b \in BOOLEAN, NEW f \in Frame
    PROVE  /\ OpOK([o EXCEPT !.seen = b, !.stopEv = f])
           /\ OpOK([o EXCEPT !.seen = b, !.ev = f])
           /\ OpOK([o EXCEPT !.ev = f])
BY DEF OpOK, Ops

\* A complete new plan of plain steps.
LEMMA PlanOK ==
    ASSUME OpOK(op), NEW t \in Seq(Plain)
    PROVE  OpOK([op EXCEPT !.todo = t])
<1>1. t \in Seq(StepsFor(op.wire))
  BY PlainPlans
<1>2. t \in Seq(Steps)
  BY LargerAlphabet DEF Plain
<1> QED
  BY <1>1, <1>2 DEF OpOK, Ops

\* End: an operation that gives up the rest of its plan is well formed.
LEMMA EndOK ==
    ASSUME OpOK(op), NEW r \in Results, End(r)
    PROVE  OpOK(op')
<1>1. <<"done">> \in Seq(Plain)
  BY DEF Plain, Steps, CurrentSteps, SyncSteps
<1>2. <<"done">> \in Seq(StepsFor(op'.wire)) /\ <<"done">> \in Seq(Steps)
  BY <1>1, PlainPlans, LargerAlphabet DEF Plain
<1>3. NoOp.wire \in [p : Power, c : Current] /\ NoOp.wire = [p |-> None, c |-> None]
  BY ValuesAreIntegers DEF NoOp
<1>4. NoFrame \in Frame
  BY DEF NoFrame, Frame
<1>5. op \in Ops
  BY DEF OpOK
<1>6. op' \in Ops
  BY <1>2, <1>3, <1>4, <1>5 DEF End, Ops
<1>7. op'.todo = <<"done">> /\ op'.wire = NoOp.wire
  BY <1>5 DEF End, Ops
<1> QED
  BY <1>2, <1>3, <1>6, <1>7 DEF OpOK, None

\* A step that dispatches nothing cannot break what holds of a dispatch.
LEMMA QuietOK ==
    ASSUME WireOK, Quiet
    PROVE  WireOK'
BY ValuesAreIntegers DEF WireOK, Quiet, NoWrite, OnlyTheLatestWire

\* A step of the operation alone only has to leave it well formed.
LEMMA OnlyOpOK ==
    ASSUME IInv, OnlyOp, OpOK(op')
    PROVE  IInv'
<1>1. WireOK'
  BY QuietOK DEF IInv, OnlyOp
<1> QED
  BY <1>1 DEF IInv, OnlyOp, MemoryOK, IntentOK, CommandsOK, PauseStands, memory, saving, queues,
              CmdOK, Latching

\* Every captured revision is old: the commands are otherwise as they were.
LEMMA OutdatedOK ==
    ASSUME CommandsOK
    PROVE  Outdated \in [Callers -> Cmds] /\ \A c \in Callers : CmdOK(Outdated[c])
BY DEF CommandsOK, Outdated, CmdOK, Cmds

(***************************************************************************)
(* Every action of the operation that holds the lock keeps the invariant.  *)
(***************************************************************************)

\* Wait keeps the invariant.
LEMMA WaitOK == ASSUME IInv, Wait PROVE IInv'
<1>1. <<>> \in Seq(Plain)
  OBVIOUS
<1>2. OpOK(op')
  BY <1>1, ThenOK DEF Wait, At, IInv
<1> QED
  BY <1>2, OnlyOpOK DEF Wait

\* A status read keeps the invariant: it changes evidence and protection only.
LEMMA ReadStepOK ==
    ASSUME IInv, NEW step, NEW f \in Frame, NEW t \in Seq(Plain), ReadStep(step, f, t)
    PROVE  IInv'
<1>1. t \o Tail(op.todo) \in Seq(StepsFor(op.wire)) \cap Seq(Steps)
  BY Replanned DEF ReadStep, At, IInv
<1>2. op \in Ops
  BY DEF IInv, OpOK
<1>3. /\ op' \in Ops /\ op'.todo = t \o Tail(op.todo)
      /\ op'.wire = op.wire /\ op'.check = op.check
  <2>1. CASE step = "stopObs"
    BY <1>1, <1>2, <2>1 DEF ReadStep, Ops
  <2>2. CASE step # "stopObs"
    BY <1>1, <1>2, <2>2 DEF ReadStep, Ops
  <2> QED
    BY <2>1, <2>2
<1>4. OpOK(op')
  BY <1>1, <1>3 DEF OpOK, IInv
<1>5. protect' \subseteq {"telemetry", "safety"}
  BY DEF ReadStep, NoteTelemetry, IInv, MemoryOK
<1>6. MemoryOK'
  BY <1>5 DEF ReadStep, IInv, MemoryOK, saving, queues
<1>7. WireOK'
  BY QuietOK DEF ReadStep, IInv
<1> QED
  BY <1>4, <1>6, <1>7 DEF ReadStep, IInv, IntentOK, CommandsOK, PauseStands, saving, CmdOK, Latching

\* Every read of a status frame keeps the invariant.
LEMMA ObserveOK == ASSUME IInv, Observe PROVE IInv'
<1>1. PICK f \in Frames :
         \/ ReadStep("preRead", f, <<"fault", "preJudge">>)
         \/ ReadStep("pausedRead", f, <<"fault", "pausedJudge">>)
         \/ ReadStep("confRead", f, <<"fault", "confJudge">>)
         \/ ReadStep("stopObs", f, <<"stopFault", "stopJudge">>)
         \/ ReadStep("obsRead", f, <<"fault", "session", "done">>)
         \/ ReadStep("pollRead", f, <<"fault", "session", "starting", "unplug", "done">>)
         \/ ReadStep("refRead", f, <<"fault", "session", "starting", "unplug", "wait", "decide">>)
  BY DEF Observe
<1>2. f \in Frame
  BY FramesAssumption
<1>3. /\ <<"fault", "preJudge">> \in Seq(Plain)
      /\ <<"fault", "pausedJudge">> \in Seq(Plain)
      /\ <<"fault", "confJudge">> \in Seq(Plain)
      /\ <<"stopFault", "stopJudge">> \in Seq(Plain)
      /\ <<"fault", "session", "done">> \in Seq(Plain)
      /\ <<"fault", "session", "starting", "unplug", "done">> \in Seq(Plain)
      /\ <<"fault", "session", "starting", "unplug", "wait", "decide">> \in Seq(Plain)
  BY DEF Plain, Steps, AwaitSteps, SyncSteps, CurrentSteps
<1> QED
  BY <1>1, <1>2, <1>3, ReadStepOK

\* _latch_fault: a comms cause is stored only together with the latch.
LEMMA LatchFaultOK ==
    ASSUME IInv, op.todo # <<>>, NEW comms \in BOOLEAN, LatchFault(comms)
    PROVE  /\ OpOK(op')
           /\ intent' \in Intent /\ Latching(intent') /\ intent'.enabled = intent.enabled
           /\ CommandsOK'
<1>1. intent \in Intent /\ Latching(intent) /\ OpOK(op) /\ CommandsOK
  BY DEF IInv, IntentOK
<1>2. intent' \in Intent /\ Latching(intent') /\ intent'.enabled = intent.enabled
  BY <1>1 DEF LatchFault, Cause, Latching, Intent
<1>3. CommandsOK'
  BY <1>1, OutdatedOK DEF LatchFault, CommandsOK, CmdOK, Latching
<1>4. /\ <<>> \o <<>> \in Seq(Plain) /\ <<"zero">> \o <<>> \in Seq(Plain)
      /\ <<>> \o <<"offer", "save">> \in Seq(Plain)
      /\ <<"zero">> \o <<"offer", "save">> \in Seq(Plain)
  BY DEF Plain, Steps, AwaitSteps, SyncSteps, CurrentSteps
<1>5. OpOK(op')
  BY <1>1, <1>4, ThenOK DEF LatchFault
<1> QED
  BY <1>2, <1>3, <1>5

\* What is common to the steps that change intent and commands under the lock
\* (Update, LatchFault): the rest of the invariant follows.
LEMMA IntentStepOK ==
    ASSUME IInv, Quiet, OpOK(op'), CommandsOK', IntentOK', MemoryOK', PauseStands'
    PROVE  IInv'
BY QuietOK DEF IInv

\* _note_fault keeps the invariant.
LEMMA NoteFaultOK == ASSUME IInv, NoteFault PROVE IInv'
<1>1. op.todo # <<>> /\ OpOK(op)
  BY DEF NoteFault, At, IInv
<1>2. /\ OpOK(op')
      /\ intent' \in Intent /\ Latching(intent') /\ intent'.enabled = intent.enabled
      /\ CommandsOK'
  <2>1. CASE LatchFault(FALSE)
    BY <1>1, <2>1, LatchFaultOK
  <2>2. CASE Then(<<>>) /\ UNCHANGED <<intent, cmd>>
    <3>1. <<>> \in Seq(Plain)
      OBVIOUS
    <3> QED
      BY <1>1, <2>2, <3>1, ThenOK DEF IInv, IntentOK, CommandsOK, CmdOK, Latching
  <2> QED
    BY <2>1, <2>2 DEF NoteFault
<1>3. MemoryOK' /\ IntentOK' /\ PauseStands'
  BY <1>2 DEF NoteFault, IInv, MemoryOK, IntentOK, PauseStands, saving, queues, Latching
<1> QED
  BY <1>2, <1>3, IntentStepOK DEF NoteFault

\* _latch_fault(comms=True) keeps the invariant.
LEMMA LatchCommsOK == ASSUME IInv, LatchComms PROVE IInv'
<1>1. op.todo # <<>> /\ OpOK(op)
  BY DEF LatchComms, At, IInv
<1>2. /\ OpOK(op')
      /\ intent' \in Intent /\ Latching(intent') /\ intent'.enabled = intent.enabled
      /\ CommandsOK'
  BY <1>1, LatchFaultOK DEF LatchComms
<1>3. MemoryOK' /\ IntentOK' /\ PauseStands'
  BY <1>2 DEF LatchComms, IInv, MemoryOK, IntentOK, PauseStands, saving, queues, Latching
<1> QED
  BY <1>2, <1>3, IntentStepOK DEF LatchComms

\* A write of v to 0x3002 that leaves the memory alone: it must be the wire of
\* the latest intent, or not positive.
LEMMA WritePowerOK ==
    ASSUME IInv, NEW v \in Power, NEW good \in BOOLEAN, WritePower(v, good),
           v > 0 => v = Wire.p,
           OpOK(op'), UNCHANGED <<phase, memory, saving, queues, cmd, held>>
    PROVE  IInv'
<1>1. cap' \in Power
  BY DEF WritePower, IInv, WireOK
<1>2. sent' = [reg |-> "power", val |-> v]
  BY DEF WritePower
<1>3. v > 0 => /\ ~ExplicitZero /\ ~intent.stopfb /\ ~released /\ protect = {}
               /\ v = intent.power
  BY DEF Wire, None
<1>4. OnlyTheLatestWire'
  BY <1>2, <1>3 DEF OnlyTheLatestWire, memory, ExplicitZero
<1>5. WireOK'
  BY <1>1, <1>2, <1>4 DEF WireOK
<1> QED
  BY <1>5 DEF IInv, MemoryOK, IntentOK, CommandsOK, PauseStands, memory, saving, queues,
              CmdOK, Latching

\* A write of v to 0x3001 that leaves the memory alone.
LEMMA WriteCurrentOK ==
    ASSUME IInv, NEW v \in Current, NEW good \in BOOLEAN, WriteCurrent(v, good),
           v = Wire.c, v # None,
           OpOK(op'), UNCHANGED <<phase, memory, saving, queues, cmd, held>>
    PROVE  IInv'
<1>1. cap' \in Power
  BY DEF WriteCurrent, IInv, WireOK
<1>2. sent' = [reg |-> "current", val |-> v]
  BY DEF WriteCurrent
<1>3. /\ ~ExplicitZero /\ ~intent.stopfb /\ ~released /\ protect = {}
      /\ v = intent.current
  BY DEF Wire
<1>4. OnlyTheLatestWire'
  BY <1>2, <1>3 DEF OnlyTheLatestWire, memory, ExplicitZero
<1>5. WireOK'
  BY <1>1, <1>2, <1>4 DEF WireOK
<1> QED
  BY <1>5 DEF IInv, MemoryOK, IntentOK, CommandsOK, PauseStands, memory, saving, queues,
              CmdOK, Latching

\* The protective zero keeps the invariant.
LEMMA ProtectiveZeroOK == ASSUME IInv, ProtectiveZero PROVE IInv'
<1>1. <<"wait">> \in Seq(Plain)
  BY DEF Plain, Steps, AwaitSteps, CurrentSteps
<1>2. OpOK(op')
  BY <1>1, ThenOK DEF ProtectiveZero, At, IInv
<1>3. PICK good \in BOOLEAN : WritePower(0, good)
  BY DEF ProtectiveZero
<1> QED
  BY <1>2, <1>3, WritePowerOK, ValuesAreIntegers DEF ProtectiveZero

\* The export of the latest intent keeps the invariant.
LEMMA OfferOK == ASSUME IInv, Offer PROVE IInv'
<1>1. OpOK(op')
  <2>1. <<>> \in Seq(Plain)
    OBVIOUS
  <2> QED
    BY <2>1, ThenOK DEF Offer, At, IInv
<1>2. MemoryOK' /\ IntentOK' /\ PauseStands' /\ CommandsOK'
  BY DEF Offer, IInv, MemoryOK, IntentOK, PauseStands, CommandsOK, memory, queues, CmdOK, Latching
<1> QED
  BY <1>1, <1>2, IntentStepOK DEF Offer

\* The end of a save keeps what holds of the records.
LEMMA SaveEndsOK ==
    ASSUME IntentOK, NEW ok \in BOOLEAN, SaveEnds(ok)
    PROVE  /\ offered' = offered /\ durable' \in Intent \cup {FirstInstall}
           /\ pending' \in BOOLEAN
BY DEF IntentOK, SaveEnds

\* A save inside an operation keeps the invariant: the program is running, so
\* nothing is claimed of the record on disk.
LEMMA SaveStepOK == ASSUME IInv, SaveStep PROVE IInv'
<1>1. PICK ok \in BOOLEAN :
         /\ At("save") \/ At("resave")
         /\ SaveEnds(ok)
         /\ persisted' = IF At("save") THEN ok ELSE persisted
         /\ Then(<<>>)
         /\ Quiet
         /\ UNCHANGED <<phase, memory, queues, cmd, held>>
  BY DEF SaveStep
<1>2. OpOK(op')
  <2>1. <<>> \in Seq(Plain)
    OBVIOUS
  <2> QED
    BY <1>1, <2>1, ThenOK DEF At, IInv
<1>3. offered' = offered /\ durable' \in Intent \cup {FirstInstall} /\ pending' \in BOOLEAN
  BY <1>1, SaveEndsOK DEF IInv
<1>4. phase # "down"
  BY <1>1 DEF At
<1>5. MemoryOK' /\ IntentOK' /\ PauseStands' /\ CommandsOK'
  BY <1>1, <1>3, <1>4 DEF IInv, MemoryOK, IntentOK, PauseStands, CommandsOK, memory, queues,
                          CmdOK, Latching
<1> QED
  BY <1>1, <1>2, <1>5, IntentStepOK

\* _update by the holder of the lock: any well-formed intent in which a pause
\* still stands is a good one.
LEMMA UpdateOK ==
    ASSUME IInv, NEW new \in Intent, Latching(new), Update(new)
    PROVE  IntentOK' /\ CommandsOK'
<1>1. CommandsOK'
  BY OutdatedOK DEF IInv, Update, CommandsOK
<1> QED
  BY <1>1 DEF IInv, IntentOK, Update

\* _revoke keeps the invariant.
LEMMA RevokeOK == ASSUME IInv, Revoke PROVE IInv'
<1> DEFINE new == [intent EXCEPT !.enabled = FALSE]
<1>1. new \in Intent /\ Latching(new)
  BY DEF IInv, IntentOK, Intent, Latching
<1>2. IntentOK' /\ CommandsOK'
  BY <1>1, UpdateOK DEF Revoke
<1>3. <<"save", "rzero">> \in Seq(Plain)
  BY DEF Plain, Steps, AwaitSteps, SyncSteps, CurrentSteps
<1>4. <<"save", "rzero">> \o Tail(op.todo) \in Seq(StepsFor(op.wire)) \cap Seq(Steps)
  BY <1>3, Replanned DEF Revoke, At, IInv
<1>5. OpOK(op')
  BY <1>4 DEF IInv, OpOK, Ops, Revoke
<1>6. ~intent'.enabled
  BY DEF Revoke, Update, IInv, IntentOK, Intent
<1>7. MemoryOK' /\ PauseStands'
  BY <1>6 DEF Revoke, Update, IInv, MemoryOK, PauseStands, queues
<1> QED
  BY <1>2, <1>5, <1>7, IntentStepOK DEF Revoke

\* The confirmed zero of _revoke keeps the invariant.
LEMMA RevokeZeroOK == ASSUME IInv, RevokeZero PROVE IInv'
<1>1. PICK good \in BOOLEAN :
         /\ WritePower(0, good)
         /\ \/ good /\ op' = [op EXCEPT !.todo = <<"wait">> \o Tail(@), !.tries = 0]
            \/ ~good /\ op.tries < MaxTries
               /\ op' = [op EXCEPT !.todo = <<"wait", "rzero">> \o Tail(@), !.tries = @ + 1]
            \/ ~good /\ Then(<<"wait", "latch", "stopIf">>)
  BY DEF RevokeZero
<1>2. /\ <<"wait">> \in Seq(Plain) /\ <<"wait", "rzero">> \in Seq(Plain)
      /\ <<"wait", "latch", "stopIf">> \in Seq(Plain)
  BY DEF Plain, Steps, AwaitSteps, SyncSteps, CurrentSteps
<1>3. op.todo # <<>> /\ OpOK(op) /\ op \in Ops
  BY DEF RevokeZero, At, IInv, OpOK
<1>4. OpOK(op')
  <2>1. CASE op' = [op EXCEPT !.todo = <<"wait">> \o Tail(@), !.tries = 0]
    BY <1>2, <1>3, <2>1, Replanned DEF OpOK, Ops
  <2>2. CASE op' = [op EXCEPT !.todo = <<"wait", "rzero">> \o Tail(@), !.tries = @ + 1]
    BY <1>2, <1>3, <2>2, AnotherRoundOK
  <2>3. CASE Then(<<"wait", "latch", "stopIf">>)
    BY <1>2, <1>3, <2>3, ThenOK
  <2> QED
    BY <1>1, <2>1, <2>2, <2>3
<1> QED
  BY <1>1, <1>4, WritePowerOK, ValuesAreIntegers DEF RevokeZero

\* _stop_if_drawing keeps the invariant.
LEMMA StopIfDrawingOK == ASSUME IInv, StopIfDrawing PROVE IInv'
<1>1. /\ <<>> \in Seq(Plain) /\ <<"stopIfRead">> \in Seq(Plain)
      /\ <<"stop">> \in Seq(Plain)
  BY DEF Plain, Steps, AwaitSteps, SyncSteps, CurrentSteps
<1>2. op.todo # <<>> /\ OpOK(op) /\ op \in Ops
  BY DEF StopIfDrawing, At, IInv, OpOK
<1>3. OpOK(op')
  <2>1. CASE At("stopIf") /\ Then(IF intent.stopfb THEN <<>> ELSE <<"stopIfRead">>)
    BY <1>1, <1>2, <2>1, ThenOK
  <2>2. CASE \E f \in Frames :
               op' = [op EXCEPT !.todo = (IF Drawing(f) THEN <<"stop">> ELSE <<>>) \o Tail(@),
                                !.tries = 0]
    <3>1. PICK t \in Seq(Plain) : op' = [op EXCEPT !.todo = t \o Tail(@), !.tries = 0]
      BY <1>1, <2>2
    <3> QED
      BY <1>2, <3>1, Replanned DEF OpOK, Ops
  <2> QED
    BY <2>1, <2>2 DEF StopIfDrawing
<1> QED
  BY <1>3, OnlyOpOK DEF StopIfDrawing

\* The dispatch of a Stop keeps the invariant.
LEMMA StopSendOK == ASSUME IInv, StopSend PROVE IInv'
<1>1. op.todo # <<>> /\ OpOK(op) /\ op \in Ops
  BY DEF StopSend, At, IInv, OpOK
<1>2. OpOK(op')
  <2>1. CASE op' = [op EXCEPT !.todo = <<"stopObs">> \o Tail(@), !.seen = FALSE]
    <3>1. <<"stopObs">> \in Seq(Plain)
      BY DEF Plain, Steps, AwaitSteps, SyncSteps, CurrentSteps
    <3> QED
      BY <1>1, <2>1, <3>1, Replanned DEF OpOK, Ops
  <2>2. CASE End("superseded")
    BY <1>1, <2>2, EndOK DEF Results
  <2> QED
    BY <2>1, <2>2 DEF StopSend
<1>3. WireOK'
  BY ValuesAreIntegers DEF StopSend, IInv, WireOK, OnlyTheLatestWire, NoWrite
<1> QED
  BY <1>2, <1>3 DEF StopSend, IInv, MemoryOK, IntentOK, CommandsOK, PauseStands, memory, saving,
                    queues, CmdOK, Latching

\* A round of the Stop sequence keeps the invariant.
LEMMA StopJudgeOK == ASSUME IInv, StopJudge PROVE IInv'
<1> DEFINE stopped == Valid(op.stopEv) /\ op.stopEv.status \in STOPPED_STATUS /\ op.stopEv.pw = 0
           Round(todo, seen) == /\ op.tries < MaxTries
                                /\ op' = [op EXCEPT !.todo = todo \o Tail(@), !.seen = seen,
                                                    !.tries = @ + 1, !.stopEv = NoFrame]
                                /\ UNCHANGED <<intent, saving, cmd>>
           fallback == [intent EXCEPT !.stopfb = TRUE, !.comms = FALSE]
           fault == [intent EXCEPT !.latched = TRUE, !.comms = FALSE]
<1>1. op.todo # <<>> /\ OpOK(op) /\ op \in Ops /\ NoFrame \in Frame
  BY DEF StopJudge, At, IInv, OpOK, NoFrame, Frame
<1>2. /\ <<"save">> \in Seq(Plain) /\ <<"wait", "stopObs">> \in Seq(Plain)
      /\ <<"stop">> \in Seq(Plain) /\ <<"save", "fail">> \in Seq(Plain)
  BY DEF Plain, Steps, AwaitSteps, SyncSteps, CurrentSteps
<1>3. /\ fallback \in Intent /\ Latching(fallback) /\ fallback.enabled = intent.enabled
      /\ fault \in Intent /\ Latching(fault) /\ fault.enabled = intent.enabled
  BY DEF IInv, IntentOK, Intent, Latching
<1>4. OpOK(op') /\ IntentOK' /\ CommandsOK' /\ intent'.enabled = intent.enabled
      /\ UNCHANGED <<pending, persisted, durable>>
  <2>1. CASE /\ Update(fallback)
             /\ op' = [op EXCEPT !.todo = <<"save">> \o Tail(@), !.seen = FALSE, !.tries = 0,
                                 !.stopEv = NoFrame]
    <3>1. OpOK(op')
      BY <1>1, <1>2, <2>1, Replanned DEF OpOK, Ops
    <3> QED
      BY <1>3, <2>1, <3>1, UpdateOK DEF Update
  <2>2. ASSUME NEW t \in Seq(Plain), NEW seen \in BOOLEAN, Round(t, seen)
        PROVE OpOK(op') /\ IntentOK' /\ CommandsOK' /\ intent'.enabled = intent.enabled
              /\ UNCHANGED <<pending, persisted, durable>>
    <3>1. OpOK([op EXCEPT !.todo = t \o Tail(@), !.tries = @ + 1])
      BY <1>1, AnotherRoundOK
    <3>2. op' = [[op EXCEPT !.todo = t \o Tail(@), !.tries = @ + 1]
                   EXCEPT !.seen = seen, !.stopEv = NoFrame]
      BY <1>1, <2>2 DEF Ops
    <3>3. OpOK(op')
      BY <1>1, <3>1, <3>2, EvidenceOK
    <3> QED
      BY <2>2, <3>3 DEF saving, IInv, IntentOK, CommandsOK, CmdOK, Latching
  <2>3. CASE /\ Update(fault)
             /\ op' = [op EXCEPT !.todo = <<"save", "fail">>]
    <3>1. OpOK(op')
      BY <1>1, <1>2, <2>3, PlanOK
    <3> QED
      BY <1>3, <2>3, <3>1, UpdateOK DEF Update
  <2>4. stopped \in BOOLEAN
    BY DEF Valid
  <2> QED
    BY <1>2, <2>1, <2>2, <2>3, <2>4 DEF StopJudge
<1>5. MemoryOK' /\ PauseStands'
  BY <1>4 DEF StopJudge, IInv, MemoryOK, PauseStands, queues
<1> QED
  BY <1>4, <1>5, IntentStepOK DEF StopJudge

\* _wire is a pair of register values.
LEMMA WireTyped ==
    ASSUME IntentOK
    PROVE  Wire \in [p : Power, c : Current]
BY ValuesAreIntegers DEF IntentOK, Intent, Wire

\* The start of _op_apply: the plan holds a current write only with a current.
LEMMA StartApplyOK ==
    ASSUME IInv, NEW who \in Callers \cup {"nobody", "correction"}, StartApply(who)
    PROVE  /\ OpOK(op') /\ WireOK' /\ IntentOK' /\ CommandsOK' /\ PauseStands'
           /\ UNCHANGED <<phase, memory, saving, held>>
<1> DEFINE w == Wire
           pre == IF w.p > 0 THEN <<"pre">> ELSE <<>>
           cur == IF w.c # None THEN <<"cur">> ELSE <<>>
           pow == IF w.p # None THEN <<"pow">> ELSE <<>>
           todo == IF intent.stopfb THEN <<"stopIfRead", "ok">>
                   ELSE pre \o cur \o pow \o <<"applied">>
<1>1. w \in [p : Power, c : Current]
  BY WireTyped DEF IInv
<1>2. /\ {"pre", "pow", "applied", "stopIfRead", "ok"} \subseteq StepsFor(w)
      /\ w.c # None => "cur" \in StepsFor(w)
      /\ StepsFor(w) \subseteq Steps
  BY DEF StepsFor, Plain, Steps, AwaitSteps, SyncSteps, CurrentSteps
<1>3. todo \in Seq(StepsFor(w))
  <2>1. /\ pre \in Seq(StepsFor(w)) /\ cur \in Seq(StepsFor(w)) /\ pow \in Seq(StepsFor(w))
        /\ <<"applied">> \in Seq(StepsFor(w)) /\ <<"stopIfRead", "ok">> \in Seq(StepsFor(w))
    BY <1>2
  <2> HIDE DEF pre, cur, pow
  <2> QED
    BY <2>1
<1>4. todo \in Seq(Steps)
  BY <1>2, <1>3, LargerAlphabet
<1>5. op' = [NoOp EXCEPT !.kind = "apply", !.by = who, !.todo = todo, !.wire = w,
                         !.check = TRUE, !.over = who \in Callers /\ ~cmd[who].fresh]
  BY DEF StartApply
<1> HIDE DEF todo, w
<1>6. /\ op' \in Ops /\ op'.todo = todo /\ op'.wire = w /\ op'.check
  BY <1>1, <1>4, <1>5, ValuesAreIntegers DEF NoOp, NoFrame, Frame, Ops, Results
<1>7. OpOK(op')
  BY <1>3, <1>6 DEF OpOK
<1>8. WireOK'
  BY QuietOK DEF StartApply, IInv
<1> QED
  BY <1>7, <1>8 DEF StartApply, IInv, IntentOK, CommandsOK, PauseStands, memory, saving,
                    CmdOK, Latching

\* The lock is given to the apply of a command.
LEMMA ApplyForCallerOK == ASSUME IInv, NEW c \in Callers, ApplyForCaller(c) PROVE IInv'
<1>1. /\ OpOK(op') /\ WireOK' /\ IntentOK' /\ CommandsOK' /\ PauseStands'
      /\ UNCHANGED <<phase, memory, saving, held>>
  BY StartApplyOK DEF ApplyForCaller
<1>2. MemoryOK'
  BY <1>1 DEF ApplyForCaller, IInv, MemoryOK, memory, saving, queues
<1> QED
  BY <1>1, <1>2 DEF IInv

\* The lock is given to a spawned apply.
LEMMA ApplySpawnedOK == ASSUME IInv, ApplySpawned PROVE IInv'
<1>1. /\ OpOK(op') /\ WireOK' /\ IntentOK' /\ CommandsOK' /\ PauseStands'
      /\ UNCHANGED <<phase, memory, saving, held>>
  BY StartApplyOK DEF ApplySpawned
<1>2. MemoryOK'
  BY <1>1 DEF ApplySpawned, IInv, MemoryOK, memory, saving, queues
<1> QED
  BY <1>1, <1>2 DEF IInv

\* The lock is given to a correction.
LEMMA ApplyCorrectionOK == ASSUME IInv, ApplyCorrection PROVE IInv'
<1>1. /\ OpOK(op') /\ WireOK' /\ IntentOK' /\ CommandsOK' /\ PauseStands'
      /\ UNCHANGED <<phase, memory, saving, held>>
  BY StartApplyOK DEF ApplyCorrection
<1>2. MemoryOK'
  BY <1>1 DEF ApplyCorrection, IInv, MemoryOK, memory, saving, queues
<1> QED
  BY <1>1, <1>2 DEF IInv

\* _check keeps the invariant.
LEMMA CheckWireOK == ASSUME IInv, CheckWire PROVE IInv'
<1>1. op.todo # <<>> /\ OpOK(op)
  BY DEF CheckWire, At, IInv
<1>2. /\ <<"preRead">> \in Seq(Plain) /\ <<"pausedRead">> \in Seq(Plain)
      /\ <<"confRead">> \in Seq(Plain) /\ "superseded" \in Results
  BY DEF Plain, Steps, AwaitSteps, SyncSteps, CurrentSteps, Results
<1>3. OpOK(op')
  BY <1>1, <1>2, ThenOK, EndOK DEF CheckWire
<1> QED
  BY <1>3, OnlyOpOK DEF CheckWire

\* A loop of an apply goes round or withdraws the authorisation.
LEMMA AgainOK ==
    ASSUME OpOK(op), op.todo # <<>>, NEW step \in StepsFor(op.wire), Again(step)
    PROVE  OpOK(op')
<1> DEFINE t == <<"wait", step>>
           rest == t \o Tail(op.todo)
           n == op.tries + 1
<1>1. "wait" \in StepsFor(op.wire) /\ StepsFor(op.wire) \subseteq Steps
  BY DEF StepsFor, Plain, Steps, AwaitSteps, CurrentSteps
<1>2. t \in Seq(StepsFor(op.wire)) /\ op.todo \in Seq(StepsFor(op.wire))
  BY <1>1 DEF OpOK
<1>3. rest \in Seq(StepsFor(op.wire)) /\ rest \in Seq(Steps)
  <2>1. rest \in Seq(StepsFor(op.wire))
    BY <1>2, Prepending
  <2> QED
    BY <1>1, <2>1, LargerAlphabet
<1>4. op \in Ops /\ n \in Nat /\ NoFrame \in Frame
  BY DEF OpOK, Ops, NoFrame, Frame
<1>5. op' = [op EXCEPT !.todo = rest, !.tries = n, !.ev = NoFrame]
  BY DEF Again
<1> HIDE DEF rest, n
<1>6. op' \in Ops /\ op'.todo = rest /\ op'.wire = op.wire /\ op'.check = op.check
  BY <1>3, <1>4, <1>5 DEF Ops
<1> QED
  BY <1>3, <1>6 DEF OpOK

\* An operation that withdraws the authorisation is well formed.
LEMMA WithdrawOK ==
    ASSUME OpOK(op), Withdraw
    PROVE  OpOK(op')
<1>1. <<"revoke", "fail">> \in Seq(Plain) /\ NoFrame \in Frame
  BY DEF Plain, Steps, SyncSteps, CurrentSteps, NoFrame, Frame
<1>2. OpOK([op EXCEPT !.todo = <<"revoke", "fail">>])
  BY <1>1, PlanOK
<1>3. op' = [[op EXCEPT !.todo = <<"revoke", "fail">>] EXCEPT !.ev = NoFrame]
  BY DEF Withdraw, OpOK, Ops
<1> QED
  BY <1>1, <1>2, <1>3, EvidenceOK

\* _preflight keeps the invariant.
LEMMA PreflightJudgeOK == ASSUME IInv, PreflightJudge PROVE IInv'
<1>1. op.todo # <<>> /\ OpOK(op) /\ op \in Ops /\ NoFrame \in Frame
  BY DEF PreflightJudge, At, IInv, OpOK, NoFrame, Frame
<1>2. "pre" \in StepsFor(op.wire)
  BY DEF StepsFor, Plain, Steps, SyncSteps, CurrentSteps
<1>3. OpOK(op')
  <2>1. CASE op' = [op EXCEPT !.todo = Tail(@), !.tries = 0, !.ev = NoFrame]
    <3>1. Tail(op.todo) \in Seq(StepsFor(op.wire)) /\ Tail(op.todo) \in Seq(Steps)
      BY <1>1 DEF OpOK, Ops
    <3> QED
      BY <1>1, <2>1, <3>1 DEF OpOK, Ops
  <2> QED
    BY <1>1, <1>2, <2>1, AgainOK, WithdrawOK DEF PreflightJudge
<1> QED
  BY <1>3, OnlyOpOK DEF PreflightJudge

\* A current write in progress has a current to write.
LEMMA CurrentPlanned ==
    ASSUME OpOK(op), op.todo # <<>>, Head(op.todo) \in CurrentSteps
    PROVE  op.wire.c # None
<1>1. Head(op.todo) \in StepsFor(op.wire)
  BY DEF OpOK
<1> QED
  BY <1>1 DEF StepsFor, Plain

\* _write_confirmed(0x3001) keeps the invariant.
LEMMA ApplyCurrentOK == ASSUME IInv, ApplyCurrent PROVE IInv'
<1>1. op.todo # <<>> /\ Head(op.todo) = "cur" /\ OpOK(op) /\ op \in Ops
  BY DEF ApplyCurrent, At, IInv, OpOK
<1>2. CASE Superseded
  <2>1. OpOK(op') /\ Quiet
    BY <1>1, <1>2, EndOK DEF ApplyCurrent, Results
  <2>2. OnlyOp
    BY <2>1 DEF ApplyCurrent, OnlyOp
  <2> QED
    BY <2>1, <2>2, OnlyOpOK
<1>3. CASE ~Superseded
  <2>1. PICK good \in BOOLEAN :
          /\ WriteCurrent(op.wire.c, good)
          /\ \/ good /\ op' = [op EXCEPT !.todo = <<"wait">> \o Tail(@), !.tries = 0]
             \/ ~good /\ Again("cur")
             \/ ~good /\ op' = [op EXCEPT !.todo = <<"wait", "latch", "fail">>]
    BY <1>3 DEF ApplyCurrent
  <2>2. op.wire.c \in Current /\ op.wire.c # None
    BY <1>1, CurrentPlanned DEF Ops, CurrentSteps
  <2>3. /\ <<"wait">> \in Seq(Plain) /\ <<"wait", "latch", "fail">> \in Seq(Plain)
        /\ "cur" \in StepsFor(op.wire)
    BY <2>2 DEF StepsFor, Plain, Steps, AwaitSteps, SyncSteps, CurrentSteps
  <2>4. OpOK(op')
    <3>1. CASE op' = [op EXCEPT !.todo = <<"wait">> \o Tail(@), !.tries = 0]
      BY <1>1, <2>3, <3>1, Replanned DEF OpOK, Ops
    <3> QED
      BY <1>1, <2>1, <2>3, <3>1, AgainOK, PlanOK
  <2> QED
    BY <1>3, <2>1, <2>2, <2>4, WriteCurrentOK DEF ApplyCurrent, Superseded
<1> QED
  BY <1>2, <1>3

\* _write_confirmed(0x3002) keeps the invariant.
LEMMA ApplyPowerOK == ASSUME IInv, ApplyPower PROVE IInv'
<1>1. op.todo # <<>> /\ OpOK(op) /\ op \in Ops
  BY DEF ApplyPower, At, IInv, OpOK
<1>2. CASE Superseded
  <2>1. OpOK(op') /\ Quiet
    BY <1>1, <1>2, EndOK DEF ApplyPower, Results
  <2>2. OnlyOp
    BY <2>1 DEF ApplyPower, OnlyOp
  <2> QED
    BY <2>1, <2>2, OnlyOpOK
<1>3. CASE ~Superseded
  <2> DEFINE bad == <<"wait", "latch">> \o (IF op.wire.p = 0 THEN <<"stopIf">> ELSE <<>>)
                      \o <<"fail">>
  <2>1. PICK good \in BOOLEAN :
          /\ WritePower(op.wire.p, good)
          /\ \/ good /\ op' = [op EXCEPT !.todo = <<"wait">> \o Tail(@), !.tries = 0,
                                         !.wrote = op.wire.p]
             \/ ~good /\ Again("pow")
             \/ ~good /\ op' = [op EXCEPT !.todo = bad]
    BY <1>3 DEF ApplyPower
  <2>2. op.wire.p \in Power
    BY <1>1 DEF Ops
  <2>3. /\ <<"wait">> \in Seq(Plain) /\ "pow" \in StepsFor(op.wire)
        /\ <<"wait", "latch">> \in Seq(Plain)
        /\ <<"stopIf">> \in Seq(Plain) /\ <<"fail">> \in Seq(Plain)
    BY DEF StepsFor, Plain, Steps, AwaitSteps, SyncSteps, CurrentSteps
  <2>4. bad \in Seq(Plain)
    BY <2>3
  <2> HIDE DEF bad
  <2>5. OpOK(op')
    <3>1. CASE op' = [op EXCEPT !.todo = <<"wait">> \o Tail(@), !.tries = 0,
                                !.wrote = op.wire.p]
      BY <1>1, <2>2, <2>3, <3>1, Replanned DEF OpOK, Ops
    <3> QED
      BY <1>1, <2>1, <2>3, <2>4, <3>1, AgainOK, PlanOK
  <2> QED
    BY <1>3, <2>1, <2>2, <2>5, WritePowerOK DEF ApplyPower, Superseded
<1> QED
  BY <1>2, <1>3

\* The end of the writes keeps the invariant.
LEMMA AppliedOK == ASSUME IInv, Applied PROVE IInv'
<1>1. op.todo # <<>> /\ OpOK(op)
  BY DEF Applied, At, IInv
<1>2. <<"paused">> \in Seq(Plain) /\ <<"conf">> \in Seq(Plain) /\ "confirmed" \in Results
  BY DEF Plain, Steps, SyncSteps, CurrentSteps, Results
<1>3. OpOK(op')
  BY <1>1, <1>2, ThenOK, EndOK DEF Applied
<1> QED
  BY <1>3, OnlyOpOK DEF Applied

\* _await_evidence of a pause keeps the invariant.
LEMMA PausedJudgeOK == ASSUME IInv, PausedJudge PROVE IInv'
<1> DEFINE ok == Valid(op.ev) /\ op.ev.status \in PAUSED_STATUS /\ op.ev.pw = 0
<1>1. OpOK(op) /\ op \in Ops /\ NoFrame \in Frame /\ ok \in BOOLEAN
  BY DEF IInv, OpOK, NoFrame, Frame, Valid
<1>2. <<"wait", "paused">> \in Seq(Plain) /\ <<"stop", "ok">> \in Seq(Plain)
  BY DEF Plain, Steps, AwaitSteps, SyncSteps, CurrentSteps
<1>3. OpOK(op')
  <2>1. CASE End("confirmed")
    BY <1>1, <2>1, EndOK DEF Results
  <2>2. CASE op' = [op EXCEPT !.todo = <<"wait", "paused">>, !.seen = ok, !.tries = @ + 1,
                              !.ev = NoFrame]
    <3> DEFINE n == op.tries + 1
    <3>1. n \in Nat /\ op' = [op EXCEPT !.todo = <<"wait", "paused">>, !.seen = ok,
                                        !.tries = n, !.ev = NoFrame]
      BY <1>1, <2>2 DEF Ops
    <3>2. OpOK([op EXCEPT !.todo = <<"wait", "paused">>])
      BY <1>1, <1>2, PlanOK
    <3> HIDE DEF n, ok
    <3> QED
      BY <1>1, <3>1, <3>2 DEF OpOK, Ops
  <2>3. CASE op' = [op EXCEPT !.todo = <<"stop", "ok">>, !.seen = FALSE, !.tries = 0,
                              !.ev = NoFrame]
    <3>1. OpOK([op EXCEPT !.todo = <<"stop", "ok">>])
      BY <1>1, <1>2, PlanOK
    <3> QED
      BY <1>1, <2>3, <3>1 DEF OpOK, Ops
  <2> QED
    BY <2>1, <2>2, <2>3 DEF PausedJudge
<1> QED
  BY <1>3, OnlyOpOK DEF PausedJudge

\* _confirm_session keeps the invariant.
LEMMA ConfirmJudgeOK == ASSUME IInv, ConfirmJudge PROVE IInv'
<1>1. op.todo # <<>> /\ OpOK(op)
  BY DEF ConfirmJudge, At, IInv
<1>2. /\ "conf" \in StepsFor(op.wire)
      /\ "staged" \in Results /\ "confirmed" \in Results
  BY DEF StepsFor, Plain, Steps, SyncSteps, CurrentSteps, Results
<1>3. OpOK(op') /\ awaitPlug' \in BOOLEAN
  BY <1>1, <1>2, AgainOK, WithdrawOK, EndOK DEF ConfirmJudge, IInv, MemoryOK
<1>4. MemoryOK' /\ IntentOK' /\ PauseStands' /\ CommandsOK'
  BY <1>3 DEF ConfirmJudge, IInv, MemoryOK, IntentOK, PauseStands, CommandsOK, saving, queues,
              CmdOK, Latching
<1> QED
  BY <1>3, <1>4, IntentStepOK DEF ConfirmJudge

\* Leaving an operation keeps the invariant.
LEMMA LeaveOK == ASSUME IInv, Leave PROVE IInv'
<1>1. OpOK(op')
  BY EndOK DEF Leave, IInv, Results
<1> QED
  BY <1>1, OnlyOpOK DEF Leave

\* An operation starts with nothing to write.
LEMMA NewOpOK ==
    ASSUME NEW k \in {"init", "refresh", "poll", "observe", "read"},
           NEW who \in Callers \cup {"nobody", "correction"}, NEW t \in Seq(Plain),
           NEW o, \/ o = [NoOp EXCEPT !.kind = k, !.by = who, !.todo = t]
                  \/ o = [NoOp EXCEPT !.kind = k, !.todo = t]
    PROVE  OpOK(o)
<1>1. t \in Seq(Steps)
  BY LargerAlphabet DEF Plain
<1>2. /\ o \in Ops /\ o.todo = t /\ ~o.check
      /\ o.wire = [p |-> None, c |-> None]
  <2>1. CASE o = [NoOp EXCEPT !.kind = k, !.by = who, !.todo = t]
    BY <1>1, <2>1, ValuesAreIntegers DEF NoOp, NoFrame, Frame, Ops, Results
  <2>2. CASE o = [NoOp EXCEPT !.kind = k, !.todo = t]
    BY <1>1, <2>2, ValuesAreIntegers DEF NoOp, NoFrame, Frame, Ops, Results
  <2> QED
    BY <2>1, <2>2
<1>3. t \in Seq(StepsFor(o.wire))
  BY PlainPlans
<1> QED
  BY <1>2, <1>3 DEF OpOK, None

\* A free lock is well formed.
LEMMA NoOpOK == OpOK(NoOp)
BY ValuesAreIntegers DEF OpOK, NoOp, NoFrame, Frame, Ops, Results, None

\* The start of _op_refresh keeps the invariant.
LEMMA StartRefreshOK == ASSUME IInv, StartRefresh PROVE IInv'
<1>1. PICK due \in BOOLEAN :
         op' = [NoOp EXCEPT !.kind = "refresh",
                            !.todo = (IF pending THEN <<"resave">> ELSE <<>>)
                                     \o (IF due THEN <<"safety">> ELSE <<>>)
                                     \o <<"refRead">>]
  BY DEF StartRefresh
<1> DEFINE t == (IF pending THEN <<"resave">> ELSE <<>>)
                  \o (IF due THEN <<"safety">> ELSE <<>>) \o <<"refRead">>
<1>2. t \in Seq(Plain)
  <2>1. {"resave", "safety", "refRead"} \subseteq Plain
    BY DEF Plain, Steps, AwaitSteps, CurrentSteps
  <2>2. /\ (IF pending THEN <<"resave">> ELSE <<>>) \in Seq(Plain)
        /\ (IF due THEN <<"safety">> ELSE <<>>) \in Seq(Plain)
        /\ <<"refRead">> \in Seq(Plain)
    BY <2>1
  <2> QED
    BY <2>2
<1>3. op' = [NoOp EXCEPT !.kind = "refresh", !.todo = t]
  BY <1>1
<1> HIDE DEF t
<1>4. OpOK(op')
  BY <1>2, <1>3, NewOpOK
<1>5. MemoryOK' /\ IntentOK' /\ PauseStands' /\ CommandsOK'
  BY DEF StartRefresh, IInv, MemoryOK, IntentOK, PauseStands, CommandsOK, memory, queues,
         CmdOK, Latching
<1> QED
  BY <1>4, <1>5, IntentStepOK DEF StartRefresh

\* The start of _op_poll keeps the invariant.
LEMMA StartPollOK == ASSUME IInv, StartPoll PROVE IInv'
<1>1. <<"pollRead">> \in Seq(Plain)
  BY DEF Plain, Steps, AwaitSteps, CurrentSteps
<1>2. OpOK(op')
  BY <1>1, NewOpOK DEF StartPoll
<1> QED
  BY <1>2, OnlyOpOK DEF StartPoll

\* The start of _op_observe and of _locked_read keeps the invariant.
LEMMA StartObserveOK == ASSUME IInv, NEW c \in Callers, StartObserve(c) PROVE IInv'
<1>1. <<"obsRead">> \in Seq(Plain) /\ <<"maxRead">> \in Seq(Plain)
  BY DEF Plain, Steps, AwaitSteps, CurrentSteps
<1>2. OpOK(op')
  BY <1>1, NewOpOK DEF StartObserve
<1> QED
  BY <1>2, OnlyOpOK DEF StartObserve

\* The read of 0x1011 keeps the invariant.
LEMMA ReadMaxPowerOK == ASSUME IInv, ReadMaxPower PROVE IInv'
<1>1. OpOK(op) /\ op \in Ops
  BY DEF IInv, OpOK
<1>2. <<"done">> \in Seq(Plain)
  BY DEF Plain, Steps, SyncSteps, CurrentSteps
<1>3. PICK v \in Power : op' = [op EXCEPT !.todo = <<"done">>, !.wrote = v]
  BY ValuesAreIntegers DEF ReadMaxPower
<1>4. OpOK([op EXCEPT !.todo = <<"done">>])
  BY <1>1, <1>2, PlanOK
<1>5. OpOK(op')
  BY <1>1, <1>3, <1>4 DEF OpOK, Ops
<1> QED
  BY <1>5, OnlyOpOK DEF ReadMaxPower

\* _configure_safety keeps the invariant.
LEMMA ConfigureSafetyOK == ASSUME IInv, ConfigureSafety PROVE IInv'
<1>1. <<>> \in Seq(Plain)
  OBVIOUS
<1>2. OpOK(op')
  BY <1>1, ThenOK DEF ConfigureSafety, At, IInv
<1>3. protect' \subseteq {"telemetry", "safety"}
  BY DEF ConfigureSafety, IInv, MemoryOK
<1>4. MemoryOK' /\ IntentOK' /\ PauseStands' /\ CommandsOK'
  BY <1>3 DEF ConfigureSafety, IInv, MemoryOK, IntentOK, PauseStands, CommandsOK, saving, queues,
         CmdOK, Latching
<1> QED
  BY <1>2, <1>4, IntentStepOK DEF ConfigureSafety

\* _note_session keeps the invariant: it can only take an enable away.
LEMMA NoteSessionOK == ASSUME IInv, NoteSession PROVE IInv'
<1> DEFINE new == [intent EXCEPT !.enabled = FALSE]
<1>1. op.todo # <<>> /\ OpOK(op)
  BY DEF NoteSession, At, IInv
<1>2. <<>> \in Seq(Plain) /\ <<"save">> \in Seq(Plain)
  BY DEF Plain, Steps, AwaitSteps, CurrentSteps
<1>3. OpOK(op')
  BY <1>1, <1>2, ThenOK DEF NoteSession
<1>4. new \in Intent /\ Latching(new) /\ ~new.enabled
  BY DEF IInv, IntentOK, Intent, Latching
<1>5. CASE Update(new) /\ UNCHANGED <<awaitPlug, spawned>>
  <2>1. IntentOK' /\ CommandsOK'
    BY <1>4, <1>5, UpdateOK
  <2>2. MemoryOK' /\ PauseStands'
    BY <1>4, <1>5 DEF NoteSession, Update, IInv, MemoryOK, PauseStands
  <2> QED
    BY <1>3, <2>1, <2>2, IntentStepOK DEF NoteSession
<1>6. CASE UNCHANGED <<intent, saving, cmd>> /\ awaitPlug' \in BOOLEAN /\ spawned' \in BOOLEAN
  <2>1. MemoryOK' /\ PauseStands' /\ IntentOK' /\ CommandsOK'
    BY <1>6 DEF NoteSession, IInv, MemoryOK, PauseStands, IntentOK, CommandsOK, saving,
                CmdOK, Latching
  <2> QED
    BY <1>3, <2>1, IntentStepOK DEF NoteSession
<1>7. \/ Update(new) /\ UNCHANGED <<awaitPlug, spawned>>
      \/ UNCHANGED <<intent, saving, cmd>> /\ awaitPlug' \in BOOLEAN /\ spawned' \in BOOLEAN
  BY DEF NoteSession, IInv, MemoryOK
<1> QED
  BY <1>5, <1>6, <1>7

\* _note_starting keeps the invariant.
LEMMA NoteStartingOK == ASSUME IInv, NoteStarting PROVE IInv'
<1>1. <<>> \in Seq(Plain) /\ <<"revoke">> \in Seq(Plain)
  BY DEF Plain, Steps, SyncSteps, CurrentSteps
<1>2. OpOK(op')
  BY <1>1, ThenOK DEF NoteStarting, At, IInv
<1> QED
  BY <1>2, OnlyOpOK DEF NoteStarting

\* _track_unplug keeps the invariant: it enables only what was released, and a
\* release ends the pause.
LEMMA TrackUnplugOK == ASSUME IInv, TrackUnplug PROVE IInv'
<1> DEFINE new == [intent EXCEPT !.enabled = TRUE]
<1>1. op.todo # <<>> /\ OpOK(op)
  BY DEF TrackUnplug, At, IInv
<1>2. <<>> \in Seq(Plain) /\ <<"save">> \in Seq(Plain)
  BY DEF Plain, Steps, AwaitSteps, CurrentSteps
<1>3. OpOK(op')
  BY <1>1, <1>2, ThenOK DEF TrackUnplug
<1>4. new \in Intent /\ Latching(new)
  BY DEF IInv, IntentOK, Intent, Latching
<1>5. CASE released /\ released' = FALSE /\ spawned' = TRUE /\ Update(new) /\ UNCHANGED held
  <2>1. IntentOK' /\ CommandsOK'
    BY <1>4, <1>5, UpdateOK
  <2>2. MemoryOK' /\ PauseStands'
    BY <1>5 DEF TrackUnplug, Update, IInv, MemoryOK, PauseStands
  <2> QED
    BY <1>3, <2>1, <2>2, IntentStepOK DEF TrackUnplug
<1>6. CASE /\ UNCHANGED <<intent, saving, cmd, spawned>> /\ released' \in BOOLEAN
           /\ \/ released' = FALSE /\ held' = held
              \/ released' = released /\ held' = held
              \/ held' = "no"
  <2>1. MemoryOK' /\ PauseStands' /\ IntentOK' /\ CommandsOK'
    BY <1>6 DEF TrackUnplug, IInv, MemoryOK, PauseStands, IntentOK, CommandsOK, saving,
                CmdOK, Latching
  <2> QED
    BY <1>3, <2>1, IntentStepOK DEF TrackUnplug
<1>7. \/ released /\ released' = FALSE /\ spawned' = TRUE /\ Update(new) /\ UNCHANGED held
      \/ /\ UNCHANGED <<intent, saving, cmd, spawned>> /\ released' \in BOOLEAN
         /\ \/ released' = FALSE /\ held' = held
            \/ released' = released /\ held' = held
            \/ held' = "no"
  BY DEF TrackUnplug, Adopts, IInv, MemoryOK
<1> QED
  BY <1>5, <1>6, <1>7

\* What a refresh decides to write keeps the invariant: unchecked only zero or
\* nothing.
LEMMA DecideOK == ASSUME IInv, Decide PROVE IInv'
<1> DEFINE w == Wire
           Plan(p, c) == (IF c # None THEN <<"rcur">> ELSE <<>>)
                         \o (IF p # None THEN <<"rpow">> ELSE <<>>) \o <<"refEnd">>
           Write(p, c, check) == op' = [op EXCEPT !.todo = Plan(p, c),
                                                  !.wire = [p |-> p, c |-> c], !.check = check]
<1>1. op \in Ops /\ w \in [p : Power, c : Current]
  BY WireTyped DEF IInv, OpOK
<1>2. ASSUME NEW p \in Power, NEW c \in Current, NEW check \in BOOLEAN, Write(p, c, check),
             ~check => p <= 0 /\ c = None
      PROVE  OpOK(op')
  <2> DEFINE wire == [p |-> p, c |-> c]
             rcur == IF c # None THEN <<"rcur">> ELSE <<>>
             rpow == IF p # None THEN <<"rpow">> ELSE <<>>
             S == StepsFor(wire)
  <2>1. "rpow" \in S /\ "refEnd" \in S /\ (c # None => "rcur" \in S) /\ S \subseteq Steps
    BY DEF StepsFor, Plain, Steps, AwaitSteps, SyncSteps, CurrentSteps
  <2> HIDE DEF S
  <2>2. rcur \in Seq(S) /\ rpow \in Seq(S) /\ <<"refEnd">> \in Seq(S)
    BY <2>1
  <2>3. rcur \o rpow \o <<"refEnd">> \in Seq(S)
    <3> HIDE DEF rcur, rpow
    <3> QED
      BY <2>2
  <2>4. Plan(p, c) \in Seq(S) /\ Plan(p, c) \in Seq(Steps)
    BY <2>1, <2>3, LargerAlphabet
  <2> HIDE DEF Plan
  <2>5. /\ op' \in Ops /\ op'.todo = Plan(p, c) /\ op'.wire = wire /\ op'.check = check
    BY <1>1, <1>2, <2>4 DEF Ops
  <2> QED
    BY <1>2, <2>4, <2>5 DEF OpOK, S
<1>3. w.p \in Power /\ w.c \in Current /\ None \in Power /\ None \in Current /\ 0 \in Power
  BY <1>1, ValuesAreIntegers
<1>4. \/ Write(w.p, w.c, TRUE) \/ Write(None, None, FALSE) \/ Write(0, None, FALSE)
  BY DEF Decide
<1>5. OpOK(op')
  <2> HIDE DEF Write, w
  <2>0. None <= 0 /\ 0 <= 0
    BY DEF None
  <2>1. CASE Write(w.p, w.c, TRUE)
    BY <1>2, <1>3, <2>1
  <2>2. CASE Write(None, None, FALSE)
    BY <1>2, <1>3, <2>2, <2>0, Zenon
  <2>3. CASE Write(0, None, FALSE)
    BY <1>2, <1>3, <2>3, <2>0, Zenon
  <2> QED
    BY <1>4, <2>1, <2>2, <2>3
<1> QED
  BY <1>5, OnlyOpOK DEF Decide

\* The writes of a refresh keep the invariant.
LEMMA RefreshWriteOK == ASSUME IInv, RefreshWrite PROVE IInv'
<1>1. op.todo # <<>> /\ OpOK(op) /\ op \in Ops
  BY DEF RefreshWrite, At, IInv, OpOK
<1>2. CASE op.check /\ Superseded
  <2>1. op' = [op EXCEPT !.todo = <<"refEnd">>, !.seen = FALSE] /\ Quiet
    BY <1>2 DEF RefreshWrite
  <2>2. <<"refEnd">> \in Seq(Plain)
    BY DEF Plain, Steps, SyncSteps, CurrentSteps
  <2>3. OpOK([op EXCEPT !.todo = <<"refEnd">>])
    BY <1>1, <2>2, PlanOK
  <2>4. OpOK(op')
    BY <1>1, <2>1, <2>3 DEF OpOK, Ops
  <2>5. OnlyOp
    BY <2>1 DEF RefreshWrite, OnlyOp
  <2> QED
    BY <2>4, <2>5, OnlyOpOK
<1>3. CASE ~(op.check /\ Superseded)
  <2>1. PICK good \in BOOLEAN :
          /\ IF At("rcur") THEN WriteCurrent(op.wire.c, good) ELSE WritePower(op.wire.p, good)
          /\ op' = [op EXCEPT !.todo = <<"wait">> \o Tail(@), !.seen = TRUE,
                              !.bad = @ \/ ~good,
                              !.zero = At("rpow") /\ op.wire.p = 0 /\ good]
    BY <1>3 DEF RefreshWrite
  <2>2. OpOK(op')
    <3> DEFINE rest == <<"wait">> \o Tail(op.todo)
               bad == op.bad \/ ~good
               zero == At("rpow") /\ op.wire.p = 0 /\ good
    <3>1. <<"wait">> \in Seq(Plain)
      BY DEF Plain, Steps, AwaitSteps, CurrentSteps
    <3>2. rest \in Seq(StepsFor(op.wire)) /\ rest \in Seq(Steps)
      BY <1>1, <3>1, Replanned
    <3>3. bad \in BOOLEAN /\ zero \in BOOLEAN
      BY DEF At
    <3>4. op' = [op EXCEPT !.todo = rest, !.seen = TRUE, !.bad = bad, !.zero = zero]
      BY <2>1
    <3> HIDE DEF rest, bad, zero
    <3>5. /\ op' \in Ops /\ op'.todo = rest /\ op'.wire = op.wire /\ op'.check = op.check
      BY <1>1, <3>2, <3>3, <3>4 DEF Ops
    <3> QED
      BY <1>1, <3>2, <3>5 DEF OpOK
  <2>3. UNCHANGED <<phase, memory, saving, queues, cmd, held>>
    BY DEF RefreshWrite
  <2>4. CASE At("rcur")
    <3>1. op.wire.c # None /\ op.wire.c \in Current
      BY <1>1, <2>4, CurrentPlanned DEF At, CurrentSteps, Ops
    <3>2. op.wire = Wire
      BY <1>1, <1>3, <3>1 DEF OpOK, Superseded
    <3> QED
      BY <2>1, <2>2, <2>3, <2>4, <3>1, <3>2, WriteCurrentOK
  <2>5. CASE ~At("rcur")
    <3>1. op.wire.p \in Power
      BY <1>1 DEF Ops
    <3>2. op.wire.p \in Int
      BY <3>1, ValuesAreIntegers
    <3>3. op.wire.p > 0 => op.wire.p = Wire.p
      BY <1>1, <1>3, <3>2 DEF OpOK, Superseded
    <3> QED
      BY <2>1, <2>2, <2>3, <2>5, <3>1, <3>3, WritePowerOK
  <2> QED
    BY <2>4, <2>5
<1> QED
  BY <1>2, <1>3

\* The end of a refresh keeps the invariant.
LEMMA RefreshEndOK == ASSUME IInv, RefreshEnd PROVE IInv'
<1>1. <<"health", "done">> \in Seq(Plain) /\ <<"latch", "health", "done">> \in Seq(Plain)
  BY DEF Plain, Steps, SyncSteps, CurrentSteps
<1>2. OpOK(op')
  BY <1>1, ThenOK DEF RefreshEnd, At, IInv
<1>3. mismatches' \in {0, 1, 2}
  BY DEF RefreshEnd, IInv, MemoryOK
<1>4. MemoryOK' /\ IntentOK' /\ PauseStands' /\ CommandsOK'
  BY <1>3 DEF RefreshEnd, IInv, MemoryOK, IntentOK, PauseStands, CommandsOK, saving, queues,
              CmdOK, Latching
<1> QED
  BY <1>2, <1>4, IntentStepOK DEF RefreshEnd

\* _note_link_health keeps the invariant: a released latch leaves a pause.
LEMMA NoteLinkHealthOK == ASSUME IInv, NoteLinkHealth PROVE IInv'
<1> DEFINE new == [intent EXCEPT !.enabled = FALSE, !.latched = FALSE, !.comms = FALSE]
<1>1. op.todo # <<>> /\ OpOK(op)
  BY DEF NoteLinkHealth, At, IInv
<1>2. <<>> \in Seq(Plain) /\ <<"save">> \in Seq(Plain)
  BY DEF Plain, Steps, AwaitSteps, CurrentSteps
<1>3. OpOK(op')
  BY <1>1, <1>2, ThenOK DEF NoteLinkHealth
<1>4. new \in Intent /\ Latching(new) /\ ~new.enabled
  BY DEF IInv, IntentOK, Intent, Latching
<1>5. IntentOK' /\ CommandsOK' /\ UNCHANGED <<pending, persisted, durable>>
      /\ (intent'.enabled => intent.enabled)
  <2>1. CASE UNCHANGED <<intent, saving, cmd>>
    BY <2>1 DEF IInv, IntentOK, CommandsOK, CmdOK, Latching, saving
  <2>2. CASE Update(new)
    BY <1>4, <2>2, UpdateOK DEF Update
  <2> QED
    BY <2>1, <2>2 DEF NoteLinkHealth
<1>6. MemoryOK' /\ PauseStands'
  BY <1>5 DEF NoteLinkHealth, IInv, MemoryOK, PauseStands, queues
<1> QED
  BY <1>3, <1>5, <1>6, IntentStepOK DEF NoteLinkHealth

\* The release of the lock keeps the invariant: the caller gets a result, a
\* frame's verdict or a value for 0x3002.
LEMMA DoneOK == ASSUME IInv, Done PROVE IInv'
<1>1. OpOK(op')
  BY NoOpOK DEF Done
<1>2. ASSUME NEW c \in Callers
      PROVE  Delivered(c) \in Cmds /\ CmdOK(Delivered(c))
  <2>1. cmd[c] \in Cmds /\ CmdOK(cmd[c]) /\ op \in Ops
    BY DEF IInv, CommandsOK, OpOK
  <2>2. CASE op.kind = "apply"
    BY <2>1, <2>2 DEF Delivered, Cmds, CmdOK, Ops, Results
  <2>3. CASE op.kind = "observe"
    BY <2>1, <2>3 DEF Delivered, Cmds, CmdOK
  <2>4. CASE op.kind \notin {"apply", "observe"}
    <3>1. Delivered(c) = [cmd[c] EXCEPT !.pc = "read", !.val = op.wrote]
      BY <2>4 DEF Delivered
    <3> QED
      BY <2>1, <3>1 DEF Cmds, CmdOK, Ops
  <2> QED
    BY <2>2, <2>3, <2>4
<1>3. CommandsOK'
  BY <1>2 DEF Done, IInv, CommandsOK
<1>4. MemoryOK' /\ IntentOK' /\ PauseStands'
  BY DEF Done, IInv, MemoryOK, IntentOK, PauseStands, memory, saving, Latching
<1> QED
  BY <1>1, <1>3, <1>4, IntentStepOK DEF Done

(***************************************************************************)
(* Every step of a user command keeps the invariant.                       *)
(***************************************************************************)

\* An idle task and the defaults of the intent are well formed.
LEMMA NoCmdOK == NoCmd \in Cmds /\ CmdOK(NoCmd) /\ Paused \in Intent /\ Latching(Paused)
<1>1. Paused \in Intent /\ Latching(Paused) /\ ~Paused.comms
  BY ValuesAreIntegers DEF Paused, Intent, Latching
<1>2. NoCmd \in Cmds /\ NoCmd.pc = "idle" /\ NoCmd.before = Paused
  BY <1>1, ValuesAreIntegers DEF NoCmd, Cmds, Results
<1> QED
  BY <1>1, <1>2 DEF CmdOK

\* The start of _update for a command: any well-formed new intent is a good
\* one, provided no pause stands if it is enabled.
LEMMA CommandUpdateOK ==
    ASSUME IInv, NEW c \in Callers, NEW kind \in {"enable", "power", "current"},
           NEW v \in Power \cup Current, NEW new \in Intent, Latching(new),
           CommandUpdate(c, kind, v, new),
           held' \in {"no", "pause", "late"},
           held' = "pause" => held = "pause" /\ (new.enabled => intent.enabled)
    PROVE  IInv'
<1> DEFINE mine == [NoCmd EXCEPT !.kind = kind, !.val = v, !.pc = "saving",
                                 !.before = intent, !.late = cmd[c].late]
<1>1. CommandsOK /\ intent \in Intent /\ Latching(intent) /\ OpOK(op)
  BY DEF IInv, IntentOK
<1>2. mine \in Cmds /\ CmdOK(mine)
  <2>1. cmd[c].late \in BOOLEAN
    BY <1>1 DEF CommandsOK, Cmds
  <2>2. mine \in Cmds /\ mine.pc = "saving" /\ mine.before = intent
    BY <1>1, <2>1, NoCmdOK DEF Cmds
  <2> QED
    BY <1>1, <2>2 DEF CmdOK
<1>3. cmd' = [Outdated EXCEPT ![c] = mine]
  BY DEF CommandUpdate
<1> HIDE DEF mine
<1>4. CommandsOK'
  BY <1>1, <1>2, <1>3, OutdatedOK DEF CommandsOK
<1>5. IntentOK'
  BY DEF CommandUpdate, IInv, IntentOK
<1>6. MemoryOK' /\ PauseStands'
  BY DEF CommandUpdate, IInv, MemoryOK, PauseStands, queues
<1>7. OpOK(op')
  BY <1>1 DEF CommandUpdate
<1> QED
  BY <1>4, <1>5, <1>6, <1>7, IntentStepOK DEF CommandUpdate

\* async_pause keeps the invariant and makes the pause stand.
LEMMA PauseOK == ASSUME IInv, NEW c \in Callers, Pause(c) PROVE IInv'
<1> DEFINE mine == [NoCmd EXCEPT !.kind = "pause", !.pc = "saving"]
           theirs(d) == [Outdated[d] EXCEPT !.late = @ \/ cmd[d].pc \in {"reading", "read"}]
<1>1. CommandsOK /\ intent \in Intent /\ Latching(intent) /\ OpOK(op)
  BY DEF IInv, IntentOK
<1>2. mine \in Cmds /\ CmdOK(mine)
  <2>1. mine \in Cmds /\ mine.pc = "saving" /\ mine.before = Paused
    BY NoCmdOK DEF Cmds, NoCmd
  <2> QED
    BY <2>1, NoCmdOK DEF CmdOK
<1>3. ASSUME NEW d \in Callers PROVE theirs(d) \in Cmds /\ CmdOK(theirs(d))
  BY <1>1, OutdatedOK DEF Cmds, CmdOK
<1>4. cmd' = [d \in Callers |-> IF d = c THEN mine ELSE theirs(d)]
  BY DEF Pause
<1> HIDE DEF mine, theirs
<1>5. CommandsOK'
  BY <1>2, <1>3, <1>4 DEF CommandsOK
<1>6. intent' \in Intent /\ Latching(intent') /\ ~intent'.enabled
  BY <1>1 DEF Pause, Intent, Latching
<1>7. IntentOK'
  BY <1>6 DEF Pause, IInv, IntentOK
<1>8. MemoryOK' /\ PauseStands'
  BY <1>6 DEF Pause, Idle, IInv, MemoryOK, PauseStands, queues
<1>9. OpOK(op')
  BY <1>1 DEF Pause
<1> QED
  BY <1>5, <1>7, <1>8, <1>9, IntentStepOK DEF Pause

\* An accepted enable has no latch left.
LEMMA EnablingOK ==
    ASSUME IInv, NEW v \in Power
    PROVE  Enabling(v) \in Intent /\ Latching(Enabling(v))
BY DEF IInv, IntentOK, Enabling, Intent, Latching

\* A step of a command that changes its own record only.
LEMMA OwnStepOK ==
    ASSUME IInv, NEW c \in Callers, NEW m \in Cmds, CmdOK(m), cmd' = [cmd EXCEPT ![c] = m],
           Quiet, UNCHANGED <<phase, memory, saving, queues, op, held>>
    PROVE  IInv'
<1>1. CommandsOK'
  BY DEF IInv, CommandsOK
<1>2. MemoryOK' /\ IntentOK' /\ PauseStands' /\ OpOK(op')
  BY DEF IInv, MemoryOK, IntentOK, PauseStands, memory, saving, queues, Latching
<1> QED
  BY <1>1, <1>2, IntentStepOK

\* async_enable keeps the invariant.
LEMMA EnableOK == ASSUME IInv, NEW c \in Callers, Enable(c) PROVE IInv'
<1>1. intent.power \in Power
  BY DEF IInv, IntentOK, Intent
<1>2. CASE CommandUpdate(c, "enable", intent.power, Enabling(intent.power)) /\ held' = "no"
  BY <1>1, <1>2, EnablingOK, CommandUpdateOK
<1>3. CASE /\ cmd' = [cmd EXCEPT ![c] = [NoCmd EXCEPT !.kind = "enable", !.pc = "reading"]]
           /\ Quiet
           /\ UNCHANGED <<phase, memory, saving, queues, op, held>>
  <2> DEFINE m == [NoCmd EXCEPT !.kind = "enable", !.pc = "reading"]
  <2>1. m \in Cmds /\ m.pc = "reading" /\ m.before = Paused
    BY NoCmdOK DEF Cmds, NoCmd
  <2>2. CmdOK(m)
    BY <2>1, NoCmdOK DEF CmdOK
  <2> QED
    BY <1>3, <2>1, <2>2, OwnStepOK
<1> QED
  BY <1>2, <1>3 DEF Enable

\* async_enable, once the maximum was read, keeps the invariant.
LEMMA EnableAtMaxOK == ASSUME IInv, NEW c \in Callers, EnableAtMax(c) PROVE IInv'
<1>1. cmd[c] \in Cmds /\ CmdOK(cmd[c]) /\ cmd[c].pc = "read"
  BY DEF IInv, CommandsOK, EnableAtMax, Resumes
<1>2. cmd[c].val \in Power
  BY <1>1 DEF CmdOK
<1>3. CASE CommandUpdate(c, "enable", cmd[c].val, Enabling(cmd[c].val)) /\ held' = "no"
  BY <1>2, <1>3, EnablingOK, CommandUpdateOK
<1>4. CASE /\ cmd' = [cmd EXCEPT ![c].pc = "done", ![c].res = "error"]
           /\ Quiet
           /\ UNCHANGED <<phase, memory, saving, queues, op, held>>
  <2> DEFINE m == [cmd[c] EXCEPT !.pc = "done", !.res = "error"]
  <2>1. m \in Cmds /\ m.pc = "done" /\ m.before = cmd[c].before
    BY <1>1 DEF Cmds, Results
  <2>2. CmdOK(m)
    BY <1>1, <2>1 DEF CmdOK
  <2>3. cmd' = [cmd EXCEPT ![c] = m]
    BY <1>4 DEF IInv, CommandsOK
  <2> QED
    BY <1>4, <2>1, <2>2, <2>3, OwnStepOK
<1> QED
  BY <1>3, <1>4 DEF EnableAtMax

\* async_set_power keeps the invariant.
LEMMA SetPowerOK == ASSUME IInv, NEW c \in Callers, SetPower(c) PROVE IInv'
<1>1. PICK v \in Powers : /\ CommandUpdate(c, "power", v, [intent EXCEPT !.power = v])
                          /\ UNCHANGED held
  BY DEF SetPower
<1> DEFINE new == [intent EXCEPT !.power = v]
<1>2. v \in Power /\ new \in Intent /\ Latching(new) /\ new.enabled = intent.enabled
  BY DEF Power, IInv, IntentOK, Intent, Latching
<1>3. held' \in {"no", "pause", "late"} /\ held' = held
  BY <1>1 DEF IInv, MemoryOK
<1> HIDE DEF new
<1> QED
  BY <1>1, <1>2, <1>3, CommandUpdateOK DEF new

\* async_set_current keeps the invariant.
LEMMA SetCurrentOK == ASSUME IInv, NEW c \in Callers, SetCurrent(c) PROVE IInv'
<1>1. PICK v \in Currents : /\ CommandUpdate(c, "current", v, [intent EXCEPT !.current = v])
                            /\ UNCHANGED held
  BY DEF SetCurrent
<1> DEFINE new == [intent EXCEPT !.current = v]
<1>2. v \in Current /\ new \in Intent /\ Latching(new) /\ new.enabled = intent.enabled
  BY DEF Current, IInv, IntentOK, Intent, Latching
<1>3. held' \in {"no", "pause", "late"} /\ held' = held
  BY <1>1 DEF IInv, MemoryOK
<1> HIDE DEF new
<1> QED
  BY <1>1, <1>2, <1>3, CommandUpdateOK DEF new

\* Undoing an unsaved rise puts back well-formed fields, a comms cause only
\* with its latch, and never enables an intent that is paused now.
LEMMA UndoneOK ==
    ASSUME IInv, NEW c \in Callers
    PROVE  /\ Undone(c) \in Intent /\ Latching(Undone(c))
           /\ Undone(c).enabled => intent.enabled
<1>1. /\ intent \in Intent /\ Latching(intent)
      /\ cmd[c].before \in Intent /\ Latching(cmd[c].before)
  BY DEF IInv, IntentOK, CommandsOK, CmdOK, Cmds
<1>2. CASE cmd[c].kind = "enable"
  BY <1>1, <1>2 DEF Undone, PutBack, Intent, Latching
<1>3. CASE cmd[c].kind = "power"
  BY <1>1, <1>3 DEF Undone, PutBack, Intent, Latching
<1>4. CASE cmd[c].kind \notin {"enable", "power"}
  <2>1. Undone(c) = [intent EXCEPT !.current = PutBack(@, cmd[c].val, cmd[c].before.current)]
    BY <1>4 DEF Undone
  <2> QED
    BY <1>1, <2>1 DEF PutBack, Intent, Latching
<1> QED
  BY <1>2, <1>3, <1>4

\* Where a command goes after its save.
LEMMA AfterSaveOK ==
    ASSUME IInv, NEW c \in Callers, NEW ok \in BOOLEAN
    PROVE  AfterSave(c, ok) \in Cmds /\ CmdOK(AfterSave(c, ok))
<1>1. cmd[c] \in Cmds /\ Paused \in Intent /\ Latching(Paused)
  BY NoCmdOK DEF IInv, CommandsOK
<1>2. PICK pc \in {"apply", "observe", "done"}, r \in Results :
        AfterSave(c, ok) = [cmd[c] EXCEPT !.pc = pc, !.res = r, !.fresh = TRUE, !.before = Paused]
  BY DEF AfterSave, Results
<1>3. /\ AfterSave(c, ok) \in Cmds /\ AfterSave(c, ok).pc = pc
      /\ AfterSave(c, ok).before = Paused
  BY <1>1, <1>2 DEF Cmds
<1> QED
  BY <1>1, <1>3 DEF CmdOK

\* The end of a command's save keeps the invariant.
LEMMA CommandSavedOK == ASSUME IInv, NEW c \in Callers, CommandSaved(c) PROVE IInv'
<1>1. PICK ok \in BOOLEAN :
        /\ Resumes(c, "saving") /\ SaveEnds(ok) /\ persisted' = ok /\ Quiet
        /\ \/ /\ intent' = Undone(c)
              /\ cmd' = [Outdated EXCEPT ![c] = [cmd[c] EXCEPT !.pc = "done", !.res = "error"]]
           \/ /\ intent' = intent
              /\ cmd' = [cmd EXCEPT ![c] = AfterSave(c, ok)]
        /\ UNCHANGED <<phase, protect, released, awaitPlug, maxp, mismatches, queues, op, held>>
  BY DEF CommandSaved
<1>2. /\ offered' = offered /\ durable' \in Intent \cup {FirstInstall}
      /\ pending' \in BOOLEAN /\ phase # "down"
  BY <1>1, SaveEndsOK DEF IInv, Resumes
<1>3. CommandsOK' /\ intent' \in Intent /\ Latching(intent') /\ (intent'.enabled => intent.enabled)
  <2>1. CASE /\ intent' = Undone(c)
             /\ cmd' = [Outdated EXCEPT ![c] = [cmd[c] EXCEPT !.pc = "done", !.res = "error"]]
    <3> DEFINE m == [cmd[c] EXCEPT !.pc = "done", !.res = "error"]
    <3>1. m \in Cmds /\ m.pc = "done" /\ m.before = cmd[c].before
      BY DEF IInv, CommandsOK, Cmds, Results
    <3>2. CmdOK(m)
      BY <3>1 DEF IInv, CommandsOK, CmdOK
    <3> HIDE DEF m
    <3>3. cmd' = [Outdated EXCEPT ![c] = m]
      BY <2>1 DEF m
    <3>4. CommandsOK'
      BY <3>1, <3>2, <3>3, OutdatedOK DEF IInv, CommandsOK
    <3> QED
      BY <2>1, <3>4, UndoneOK
  <2>2. CASE /\ intent' = intent
             /\ cmd' = [cmd EXCEPT ![c] = AfterSave(c, ok)]
    <3>1. CommandsOK'
      BY <2>2, AfterSaveOK DEF IInv, CommandsOK
    <3> QED
      BY <2>2, <3>1 DEF IInv, IntentOK
  <2> QED
    BY <1>1, <2>1, <2>2
<1>4. IntentOK' /\ MemoryOK' /\ PauseStands'
  BY <1>1, <1>2, <1>3 DEF IInv, IntentOK, MemoryOK, PauseStands, queues
<1>5. OpOK(op')
  BY <1>1 DEF IInv
<1> QED
  BY <1>1, <1>3, <1>4, <1>5, IntentStepOK

\* The result of a staged value keeps the invariant.
LEMMA StageOK == ASSUME IInv, NEW c \in Callers, Stage(c) PROVE IInv'
<1> DEFINE r == IF intent.latched \/ ~persisted THEN "error" ELSE "staged"
           m == [cmd[c] EXCEPT !.pc = "done", !.res = r]
<1>1. m \in Cmds /\ m.pc = "done" /\ m.before = cmd[c].before
  BY DEF IInv, CommandsOK, Cmds, Results
<1>2. CmdOK(m)
  BY <1>1 DEF IInv, CommandsOK, CmdOK
<1>3. cmd' = [cmd EXCEPT ![c] = m]
  BY DEF Stage, IInv, CommandsOK
<1> HIDE DEF m
<1> QED
  BY <1>1, <1>2, <1>3, OwnStepOK DEF Stage

\* The return of a command keeps the invariant.
LEMMA ReturnOK == ASSUME IInv, NEW c \in Callers, Return(c) PROVE IInv'
BY NoCmdOK, OwnStepOK DEF Return

\* A cancelled caller: the work it left behind keeps the invariant.
LEMMA CancelOK == ASSUME IInv, NEW c \in Callers, Cancel(c) PROVE IInv'
<1>1. OpOK(op')
  BY DEF Cancel, IInv, OpOK, Ops
<1>2. CommandsOK'
  BY NoCmdOK DEF Cancel, IInv, CommandsOK
<1>3. durable' \in Intent \cup {FirstInstall}
  BY DEF Cancel, IInv, IntentOK
<1>4. spawned' \in BOOLEAN
  BY DEF Cancel, IInv, MemoryOK
<1>5. phase # "down"
  BY DEF Cancel
<1>6. IntentOK' /\ MemoryOK' /\ PauseStands'
  BY <1>3, <1>4, <1>5 DEF Cancel, IInv, IntentOK, MemoryOK, PauseStands, memory
<1> QED
  BY <1>1, <1>2, <1>6, IntentStepOK DEF Cancel

(***************************************************************************)
(* Start, crash, charger.                                                  *)
(***************************************************************************)

\* The restored intent is well formed, drops a cause without a latch, and is
\* enabled only if the record was, or if there never was one.
LEMMA RestoredOK ==
    ASSUME NEW rec \in Intent \cup {FirstInstall}, NEW f \in Frame,
           NEW live \in Power, NEW max \in {DeviceMax, None}
    PROVE  /\ Restored(rec, f, live, max) \in Intent
           /\ Latching(Restored(rec, f, live, max))
           /\ rec # FirstInstall /\ ~rec.enabled => ~Restored(rec, f, live, max).enabled
<1> DEFINE first == rec = FirstInstall
           power == IF ~first THEN rec.power
                    ELSE IF ~SessionActive(f) THEN None
                    ELSE IF max # None /\ MIN_ENABLE_POWER_RAW <= live /\ live <= max
                           THEN live ELSE 0
           kept == IF first THEN SessionActive(f)
                   ELSE /\ rec.enabled /\ rec.power # None /\ SessionActive(f)
                        /\ ~(rec.power >= MIN_ENABLE_POWER_RAW /\ live = 0)
           base == IF first THEN Paused ELSE [rec EXCEPT !.comms = @ /\ rec.latched]
<1>1. power \in Power
  BY ValuesAreIntegers DEF Intent
<1>2. kept \in BOOLEAN /\ (~first /\ ~rec.enabled => ~kept)
  BY DEF Intent, SessionActive, Valid
<1>3. base \in Intent /\ Latching(base)
  <2>1. CASE first
    BY <2>1, NoCmdOK
  <2>2. CASE ~first
    BY <2>2 DEF Intent, Latching
  <2> QED
    BY <2>1, <2>2
<1>4. Restored(rec, f, live, max) = IF max # None /\ power > max
                                     THEN [base EXCEPT !.enabled = FALSE, !.power = None]
                                     ELSE [base EXCEPT !.enabled = kept, !.power = power]
  BY DEF Restored
<1> HIDE DEF first, power, kept, base
<1>5. /\ Restored(rec, f, live, max) \in Intent
      /\ Latching(Restored(rec, f, live, max))
      /\ Restored(rec, f, live, max).enabled => kept
  BY <1>1, <1>2, <1>3, <1>4, ValuesAreIntegers DEF Intent, Latching
<1> QED
  BY <1>2, <1>5 DEF first

\* async_initialize keeps the invariant: a pause on disk is restored as one.
LEMMA InitializeOK == ASSUME IInv, Initialize PROVE IInv'
<1>1. PICK f \in Frames, live \in {cap, None}, max \in {DeviceMax, None}, safe \in BOOLEAN :
        /\ phase = "down" /\ phase' = "init" /\ maxp' = max
        /\ protect' = IF safe THEN {} ELSE {"safety"}
        /\ intent' = Restored(durable, f, live, max) /\ offered' = intent'
        /\ op' = [NoOp EXCEPT !.kind = "init", !.todo = <<"save", "done">>]
        /\ Quiet
        /\ UNCHANGED <<released, awaitPlug, mismatches, pending, persisted, durable, queues, cmd,
                       held>>
  BY DEF Initialize
<1>2. f \in Frame /\ live \in Power /\ durable \in Intent \cup {FirstInstall}
  BY <1>1, FramesAssumption, ValuesAreIntegers DEF IInv, WireOK, IntentOK
<1>3. /\ intent' \in Intent /\ Latching(intent')
      /\ durable # FirstInstall /\ ~durable.enabled => ~intent'.enabled
  BY <1>1, <1>2, RestoredOK
<1>4. <<"save", "done">> \in Seq(Plain)
  BY DEF Plain, Steps, AwaitSteps, SyncSteps, CurrentSteps
<1>5. OpOK(op')
  BY <1>1, <1>4, NewOpOK
<1>6. IntentOK' /\ CommandsOK'
  BY <1>1, <1>2, <1>3 DEF IInv, IntentOK, CommandsOK, CmdOK, Latching
<1>7. MemoryOK' /\ PauseStands'
  BY <1>1, <1>3 DEF IInv, MemoryOK, PauseStands, queues
<1> QED
  BY <1>1, <1>5, <1>6, <1>7, IntentStepOK

\* The end of async_initialize keeps the invariant.
LEMMA InitializeEndsOK == ASSUME IInv, InitializeEnds PROVE IInv'
<1>1. MemoryOK' /\ IntentOK' /\ PauseStands' /\ CommandsOK' /\ OpOK(op')
  BY DEF InitializeEnds, IInv, MemoryOK, IntentOK, PauseStands, CommandsOK, memory, saving,
         queues, CmdOK, Latching
<1> QED
  BY <1>1, IntentStepOK DEF InitializeEnds

\* A crash keeps the invariant: only a pause on disk stands over it.
LEMMA CrashOK == ASSUME IInv, Crash PROVE IInv'
<1>1. OpOK(op')
  BY NoOpOK DEF Crash
<1>2. CommandsOK'
  BY NoCmdOK DEF Crash, CommandsOK
<1>3. durable' \in Intent \cup {FirstInstall}
  BY DEF Crash, IInv, IntentOK
<1>4. IntentOK'
  BY <1>3, NoCmdOK DEF Crash, IntentOK
<1>5. MemoryOK'
  BY DEF Crash, IInv, MemoryOK
<1>6. PauseStands'
  BY DEF Crash, PauseStands, Paused
<1> QED
  BY <1>1, <1>2, <1>4, <1>5, <1>6, IntentStepOK DEF Crash

\* The expiry of a cap in the charger keeps the invariant.
LEMMA CapExpiresOK == ASSUME IInv, CapExpires PROVE IInv'
<1>1. WireOK'
  BY ValuesAreIntegers DEF CapExpires, WireOK, NoWrite, OnlyTheLatestWire
<1>2. MemoryOK' /\ IntentOK' /\ PauseStands' /\ CommandsOK' /\ OpOK(op')
  BY DEF CapExpires, IInv, MemoryOK, IntentOK, PauseStands, CommandsOK, memory, saving,
         queues, CmdOK, Latching
<1> QED
  BY <1>1, <1>2 DEF IInv

(***************************************************************************)
(* The theorems.                                                           *)
(***************************************************************************)

\* The initial states satisfy the invariant.
LEMMA InitOK == Init => IInv
<1> SUFFICES ASSUME Init PROVE IInv
  OBVIOUS
<1>1. durable \in Intent \cup {FirstInstall}
  BY SavedAssumption DEF Init
<1>2. OpOK(op) /\ CommandsOK
  BY NoOpOK, NoCmdOK DEF Init, CommandsOK
<1>3. MemoryOK /\ IntentOK /\ PauseStands
  BY <1>1, NoCmdOK DEF Init, MemoryOK, IntentOK, PauseStands
<1>4. WireOK
  BY ValuesAreIntegers DEF Init, WireOK, NoWrite, OnlyTheLatestWire
<1> QED
  BY <1>2, <1>3, <1>4 DEF IInv

\* Every step of the controller, of its callers and of its surroundings keeps
\* the invariant.
LEMMA NextOK == IInv /\ [Next]_vars => IInv'
<1> SUFFICES ASSUME IInv, [Next]_vars PROVE IInv'
  OBVIOUS
<1>1. CASE OpStep
  BY <1>1, WaitOK, ObserveOK, NoteFaultOK, LatchCommsOK, ProtectiveZeroOK, OfferOK, SaveStepOK,
     RevokeOK, RevokeZeroOK, StopIfDrawingOK, StopSendOK, StopJudgeOK, CheckWireOK,
     PreflightJudgeOK, ApplyCurrentOK, ApplyPowerOK, AppliedOK, PausedJudgeOK, ConfirmJudgeOK,
     LeaveOK, ReadMaxPowerOK, ConfigureSafetyOK, NoteSessionOK, NoteStartingOK, TrackUnplugOK,
     DecideOK, RefreshWriteOK, RefreshEndOK, NoteLinkHealthOK, DoneOK
     DEF OpStep
<1>2. CASE StartStep
  BY <1>2, StartRefreshOK, StartPollOK, ApplySpawnedOK, ApplyCorrectionOK, ApplyForCallerOK,
     StartObserveOK DEF StartStep
<1>3. ASSUME NEW c \in Callers, CommandStep(c) PROVE IInv'
  BY <1>3, PauseOK, EnableOK, EnableAtMaxOK, SetPowerOK, SetCurrentOK, CommandSavedOK, StageOK,
     ReturnOK, CancelOK DEF CommandStep
<1>4. CASE Initialize \/ InitializeEnds \/ Crash \/ CapExpires
  BY <1>4, InitializeOK, InitializeEndsOK, CrashOK, CapExpiresOK
<1>5. CASE UNCHANGED vars
  BY <1>5 DEF vars, IInv, MemoryOK, IntentOK, OpOK, CommandsOK, CmdOK, PauseStands, WireOK,
              OnlyTheLatestWire, ExplicitZero, memory, saving, queues, Latching
<1> QED
  BY <1>1, <1>2, <1>3, <1>4, <1>5 DEF Next

\* The invariant holds of every behaviour of the controller.
THEOREM Invariance == Spec => []IInv
<1> QED
  BY InitOK, NextOK, PTL DEF Spec

\* Type correctness: every variable keeps the shape ChargingController gives it.
THEOREM TypeCorrect == Spec => []TypeOK
<1>1. IInv => TypeOK
  BY DEF IInv, MemoryOK, IntentOK, OpOK, CommandsOK, WireOK, TypeOK
<1> QED
  BY <1>1, Invariance, PTL

\* A latch has a comms cause only while it is a latch: no hard fault inherits a
\* cause that a healthy link releases (_latch_fault, _update_positive).
THEOREM CauseTheorem == Spec => []CommsCauseIsALatch
<1>1. IInv => CommsCauseIsALatch
  BY DEF IInv, IntentOK, CommandsOK, CmdOK, CommsCauseIsALatch
<1> QED
  BY <1>1, Invariance, PTL

\* A user pause holds, over concurrent commands, failed saves and restarts:
\* nothing but an accepted enable or a confirmed unplug lets the intent be
\* enabled or a positive cap be dispatched (async_pause, _send, _track_unplug).
THEOREM PauseTheorem == Spec => []PauseHolds
<1>1. IInv => PauseHolds
  BY DEF IInv, PauseStands, WireOK, OnlyTheLatestWire, PauseHolds, ExplicitZero, AsksZero
<1> QED
  BY <1>1, Invariance, PTL

\* Whatever is dispatched is what the latest intent asks for at that moment.
THEOREM WireTheorem == Spec => []OnlyTheLatestWire
<1>1. IInv => OnlyTheLatestWire
  BY DEF IInv, WireOK
<1> QED
  BY <1>1, Invariance, PTL
=============================================================================
