------------------------------ MODULE FaultProofs ------------------------------
(***************************************************************************)
(* Theorems about what a fault leaves behind in the controller: the latch, *)
(* the Stop fallback and the record of a pause.  They hold for any number  *)
(* of callers, any values and any telemetry; two of them exclude one kind  *)
(* of failure, with which they are false.                                  *)
(***************************************************************************)
EXTENDS ControllerProofs

(***************************************************************************)
(* The inductive invariants, beside IInv.                                  *)
(***************************************************************************)

\* A process that is down remembers nothing.
DownOK == phase = "down" => intent = Paused

\* Only the holder of the lock has something to do.
FreeOK == op.kind = "none" => op.todo = <<>>

\* The holder of the lock works for a command that waits for it.
ByOK == op.by \in Callers => cmd[op.by].pc \in {"apply", "observe", "reading"}

Base == DownOK /\ FreeOK /\ ByOK

\* Steps that write a cap, or lead to one that writes a cap without looking at
\* the intent.
WriteSteps == {"pre", "preRead", "preJudge", "cur", "pow", "applied", "conf", "confRead",
               "confJudge", "zero", "revoke", "rzero", "rcur", "rpow"}

\* Steps on the way to the Stop fallback.
StopSteps == {"pollRead", "refRead", "starting", "revoke", "rzero", "stopIf", "stopIfRead",
              "stop", "stopObs", "stopFault", "stopJudge"}

Silent  == Steps \ WriteSteps
Early   == Steps \ StopSteps
Neutral == Silent \cap Early

\* Nothing is planned to write after a step that may latch the Stop fallback.
StopsLast(s) == \A i, j \in 1..Len(s) : i < j /\ s[i] \in StopSteps => s[j] \notin WriteSteps

PlanFor(i, s) == StopsLast(s) /\ (i.stopfb => s \in Seq(Silent))

StopInv == PlanFor(intent, op.todo) /\ StopFallbackIsSilent

\* A standing pause is the record last handed over, and on disk unless its save
\* is under way or remembered as pending.
DurableInv ==
    held = "pause" =>
        /\ ~offered.enabled
        /\ \/ pending \/ SaveInFlight
           \/ durable # FirstInstall /\ ~durable.enabled

(***************************************************************************)
(* What the steps of an operation leave alone.                             *)
(***************************************************************************)

\* The latch of i is still there in j, with no weaker cause, or was a comms latch
\* and left charging paused.
Sticky(i, j) == i.latched => \/ j.latched /\ (j.comms => i.comms)
                             \/ i.comms /\ ~j.enabled

\* The operation goes on with its plan.
GoesOn == op'.kind = op.kind /\ op'.by = op.by

\* A step of an operation that neither saves nor ends it.
OpFrame ==
    /\ phase # "down" /\ phase' = phase
    /\ op.todo # <<>> /\ Head(op.todo) \notin {"save", "resave"} /\ GoesOn
    /\ \A c \in Callers : cmd'[c].pc = cmd[c].pc
    /\ durable' = durable /\ pending' = pending /\ offered' \in {offered, intent'}
    /\ held' \in {held, "no"}
    /\ Sticky(intent, intent')

\* Going on, leaving and changing the plan keep the kind of the operation.
LEMMA PlansGoOn ==
    ASSUME IInv
    PROVE  /\ \A t : Then(t) => GoesOn
           /\ \A r : End(r) => GoesOn
           /\ Withdraw => GoesOn
           /\ \A x : Again(x) => GoesOn
BY DEF IInv, OpOK, Ops, Then, End, Withdraw, Again, GoesOn

\* Nothing but the operation changes.
LEMMA OnlyOpFrame ==
    ASSUME IInv, OnlyOp, GoesOn, op.todo # <<>>, phase # "down",
           Head(op.todo) \notin {"save", "resave"}
    PROVE  OpFrame
BY DEF OnlyOp, OpFrame, memory, saving, queues, Sticky

\* The steps that only go on with the plan.
LEMMA PlanFrames ==
    ASSUME IInv,
           \/ Wait \/ StopIfDrawing \/ CheckWire \/ PreflightJudge \/ Applied \/ PausedJudge
           \/ Leave \/ ReadMaxPower \/ NoteStarting \/ Decide
    PROVE  OpFrame
<1>0. op \in Ops
  BY DEF IInv, OpOK
<1>1. OnlyOp
  BY DEF Wait, StopIfDrawing, CheckWire, PreflightJudge, Applied, PausedJudge, Leave,
         ReadMaxPower, NoteStarting, Decide
<1>2. op.todo # <<>> /\ phase # "down" /\ Head(op.todo) \notin {"save", "resave"}
  BY DEF Wait, StopIfDrawing, CheckWire, PreflightJudge, Applied, PausedJudge, Leave,
         ReadMaxPower, NoteStarting, Decide, At
<1>3. CASE Wait \/ CheckWire \/ Applied \/ Leave \/ NoteStarting
  BY <1>1, <1>2, <1>3, PlansGoOn, OnlyOpFrame DEF Wait, CheckWire, Applied, Leave, NoteStarting
<1>4. CASE StopIfDrawing
  <2>1. GoesOn
    BY <1>0, <1>4, PlansGoOn DEF StopIfDrawing, GoesOn, Ops
  <2> QED
    BY <2>1, <1>1, <1>2, OnlyOpFrame
<1>5. CASE PreflightJudge
  <2>1. GoesOn
    BY <1>0, <1>5, PlansGoOn DEF PreflightJudge, GoesOn, Ops
  <2> QED
    BY <2>1, <1>1, <1>2, OnlyOpFrame
<1>6. CASE PausedJudge \/ ReadMaxPower \/ Decide
  <2>1. GoesOn
    BY <1>0, <1>6, PlansGoOn DEF PausedJudge, ReadMaxPower, Decide, GoesOn, Ops
  <2> QED
    BY <2>1, <1>1, <1>2, OnlyOpFrame
<1> QED
  BY <1>3, <1>4, <1>5, <1>6

\* The steps that read, write or count and leave the intent alone.
LEMMA WriteFrames ==
    ASSUME IInv,
           \/ Observe \/ ProtectiveZero \/ Offer \/ RevokeZero \/ StopSend \/ ApplyCurrent
           \/ ApplyPower \/ ConfirmJudge \/ ConfigureSafety \/ RefreshWrite \/ RefreshEnd
    PROVE  OpFrame
<1>0. op \in Ops
  BY DEF IInv, OpOK
<1>1. op.todo # <<>> /\ phase # "down" /\ Head(op.todo) \notin {"save", "resave"}
  BY DEF Observe, ReadStep, ProtectiveZero, Offer, RevokeZero, StopSend, ApplyCurrent,
         ApplyPower, ConfirmJudge, ConfigureSafety, RefreshWrite, RefreshEnd, At
<1>2. /\ phase' = phase /\ intent' = intent /\ cmd' = cmd /\ held' = held
      /\ pending' = pending /\ durable' = durable /\ offered' \in {offered, intent}
  BY DEF Observe, ReadStep, ProtectiveZero, Offer, RevokeZero, StopSend, ApplyCurrent,
         ApplyPower, ConfirmJudge, ConfigureSafety, RefreshWrite, RefreshEnd, memory, saving
<1>3. ProtectiveZero \/ Offer \/ ConfigureSafety \/ RefreshEnd => GoesOn
  BY PlansGoOn DEF ProtectiveZero, Offer, ConfigureSafety, RefreshEnd
<1>4. Observe => GoesOn
  BY <1>0 DEF Observe, ReadStep, GoesOn, Ops
<1>5. RevokeZero \/ StopSend => GoesOn
  BY <1>0, PlansGoOn DEF RevokeZero, StopSend, GoesOn, Ops
<1>6. ApplyCurrent \/ ApplyPower => GoesOn
  BY <1>0, PlansGoOn DEF ApplyCurrent, ApplyPower, GoesOn, Ops
<1>7. ConfirmJudge \/ RefreshWrite => GoesOn
  BY <1>0, PlansGoOn DEF ConfirmJudge, RefreshWrite, GoesOn, Ops
<1>8. GoesOn
  BY <1>3, <1>4, <1>5, <1>6, <1>7
<1> QED
  BY <1>1, <1>2, <1>8 DEF OpFrame, Sticky

\* _latch_fault never weakens a latch and changes no command's progress.
LEMMA LatchFaultFrame ==
    ASSUME IInv, NEW b \in BOOLEAN, LatchFault(b)
    PROVE  /\ GoesOn
           /\ Sticky(intent, intent')
           /\ \A c \in Callers : cmd'[c].pc = cmd[c].pc
<1>1. intent \in Intent /\ intent.latched \in BOOLEAN /\ intent.comms \in BOOLEAN
  BY DEF IInv, IntentOK, Intent
<1>2. cmd \in [Callers -> Cmds]
  BY DEF IInv, CommandsOK
<1>3. GoesOn
  BY PlansGoOn DEF LatchFault
<1>4. \A c \in Callers : cmd'[c].pc = cmd[c].pc
  BY <1>2 DEF LatchFault, Outdated, Cmds
<1>5. Sticky(intent, intent')
  BY <1>1 DEF LatchFault, Sticky, Cause, Intent
<1> QED
  BY <1>3, <1>4, <1>5

\* _update by the holder of the lock changes no command's progress.
LEMMA UpdateFrame ==
    ASSUME IInv, NEW new, Update(new)
    PROVE  /\ intent' = new /\ offered' = intent'
           /\ durable' = durable /\ pending' = pending
           /\ \A c \in Callers : cmd'[c].pc = cmd[c].pc
<1>1. cmd \in [Callers -> Cmds]
  BY DEF IInv, CommandsOK
<1>2. \A c \in Callers : cmd'[c].pc = cmd[c].pc
  BY <1>1 DEF Update, Outdated, Cmds
<1> QED
  BY <1>2 DEF Update

\* What the operations do to an intent.
LEMMA StickyChanges ==
    ASSUME NEW i \in Intent
    PROVE  /\ Sticky(i, [i EXCEPT !.stopfb = TRUE, !.comms = FALSE])
           /\ Sticky(i, [i EXCEPT !.latched = TRUE, !.comms = FALSE])
           /\ i.comms => Sticky(i, [i EXCEPT !.enabled = FALSE, !.latched = FALSE, !.comms = FALSE])
<1>1. Sticky(i, [i EXCEPT !.stopfb = TRUE, !.comms = FALSE])
  BY DEF Sticky, Intent
<1>2. Sticky(i, [i EXCEPT !.latched = TRUE, !.comms = FALSE])
  BY DEF Sticky, Intent
<1>3. i.comms => Sticky(i, [i EXCEPT !.enabled = FALSE, !.latched = FALSE, !.comms = FALSE])
  BY DEF Sticky, Intent
<1> QED
  BY <1>1, <1>2, <1>3

\* The steps that change the intent.
LEMMA IntentFrames ==
    ASSUME IInv,
           \/ NoteFault \/ LatchComms \/ Revoke \/ StopJudge \/ NoteSession \/ TrackUnplug
           \/ NoteLinkHealth
    PROVE  OpFrame
<1>0. op \in Ops /\ intent \in Intent
  BY DEF IInv, OpOK, IntentOK
<1>1. op.todo # <<>> /\ phase # "down" /\ Head(op.todo) \notin {"save", "resave"}
  BY DEF NoteFault, LatchComms, Revoke, StopJudge, NoteSession, TrackUnplug, NoteLinkHealth, At
<1>2. phase' = phase /\ held' \in {held, "no"}
  BY DEF NoteFault, LatchComms, Revoke, StopJudge, NoteSession, TrackUnplug, NoteLinkHealth
<1> DEFINE Rest == /\ GoesOn /\ Sticky(intent, intent')
                   /\ durable' = durable /\ pending' = pending
                   /\ offered' \in {offered, intent'}
                   /\ \A c \in Callers : cmd'[c].pc = cmd[c].pc
<1> SUFFICES Rest
  BY <1>1, <1>2 DEF OpFrame
<1>3. CASE NoteFault
  BY <1>3, LatchFaultFrame, PlansGoOn DEF NoteFault, Sticky, saving
<1>4. CASE LatchComms
  BY <1>4, LatchFaultFrame DEF LatchComms, saving
<1>5. CASE Revoke
  <2>1. Update([intent EXCEPT !.enabled = FALSE]) /\ GoesOn
    BY <1>0, <1>5 DEF Revoke, GoesOn, Ops
  <2> QED
    BY <1>0, <2>1, UpdateFrame DEF Sticky, Intent
<1>6. CASE StopJudge
  <2>1. GoesOn
    BY <1>0, <1>6 DEF StopJudge, GoesOn, Ops
  <2>2. \/ Update([intent EXCEPT !.stopfb = TRUE, !.comms = FALSE])
        \/ Update([intent EXCEPT !.latched = TRUE, !.comms = FALSE])
        \/ UNCHANGED <<intent, saving, cmd>>
    BY <1>6 DEF StopJudge
  <2>3. CASE Update([intent EXCEPT !.stopfb = TRUE, !.comms = FALSE])
    BY <1>0, <2>1, <2>3, UpdateFrame, StickyChanges
  <2>4. CASE Update([intent EXCEPT !.latched = TRUE, !.comms = FALSE])
    BY <1>0, <2>1, <2>4, UpdateFrame, StickyChanges
  <2>5. CASE UNCHANGED <<intent, saving, cmd>>
    BY <2>1, <2>5 DEF Sticky, saving
  <2> QED
    BY <2>2, <2>3, <2>4, <2>5
<1>7. CASE NoteSession
  <2>1. GoesOn
    BY <1>7, PlansGoOn DEF NoteSession
  <2>2. Update([intent EXCEPT !.enabled = FALSE]) \/ UNCHANGED <<intent, saving, cmd>>
    BY <1>7 DEF NoteSession
  <2> QED
    BY <1>0, <2>1, <2>2, UpdateFrame DEF Sticky, Intent, saving
<1>8. CASE TrackUnplug
  <2>1. GoesOn
    BY <1>8, PlansGoOn DEF TrackUnplug
  <2>2. Update([intent EXCEPT !.enabled = TRUE]) \/ UNCHANGED <<intent, saving, cmd>>
    BY <1>8 DEF TrackUnplug
  <2> QED
    BY <1>0, <2>1, <2>2, UpdateFrame DEF Sticky, Intent, saving
<1>9. CASE NoteLinkHealth
  <2>1. GoesOn
    BY <1>9, PlansGoOn DEF NoteLinkHealth
  <2>2. \/ /\ intent.latched /\ intent.comms
           /\ Update([intent EXCEPT !.enabled = FALSE, !.latched = FALSE, !.comms = FALSE])
        \/ UNCHANGED <<intent, saving, cmd>>
    BY <1>9 DEF NoteLinkHealth
  <2>3. CASE /\ intent.latched /\ intent.comms
             /\ Update([intent EXCEPT !.enabled = FALSE, !.latched = FALSE, !.comms = FALSE])
    <3> DEFINE new == [intent EXCEPT !.enabled = FALSE, !.latched = FALSE, !.comms = FALSE]
    <3>1. Sticky(intent, new)
      BY <1>0, <2>3, StickyChanges
    <3>2. Update(new)
      BY <2>3
    <3> HIDE DEF new
    <3> QED
      BY <2>1, <3>1, <3>2, UpdateFrame
  <2>4. CASE UNCHANGED <<intent, saving, cmd>>
    BY <2>1, <2>4 DEF Sticky, saving
  <2> QED
    BY <2>2, <2>3, <2>4
<1> QED
  BY <1>3, <1>4, <1>5, <1>6, <1>7, <1>8, <1>9

\* Every step of an operation.
LEMMA OpFrames == ASSUME IInv, OpStep PROVE OpFrame \/ SaveStep \/ Done
BY PlanFrames, WriteFrames, IntentFrames DEF OpStep

(***************************************************************************)
(* Memory is lost with the process, and the lock has one holder.           *)
(***************************************************************************)

\* A caller's name is none of the other holders'.
LEMMA NobodyIsNoCaller == "nobody" \notin Callers /\ "correction" \notin Callers
BY CallersAssumption

\* A step of an operation keeps the invariant.
LEMMA BaseOp == ASSUME IInv, Base, OpStep PROVE Base'
<1>0. op \in Ops /\ cmd \in [Callers -> Cmds]
  BY DEF IInv, OpOK, CommandsOK
<1>1. CASE OpFrame
  BY <1>1 DEF OpFrame, GoesOn, Base, DownOK, FreeOK, ByOK
<1>2. CASE SaveStep
  <2>1. GoesOn /\ op.todo # <<>> /\ phase # "down"
    BY <1>2, PlansGoOn DEF SaveStep, At
  <2>2. phase' = phase /\ cmd' = cmd
    BY <1>2 DEF SaveStep
  <2> QED
    BY <2>1, <2>2 DEF GoesOn, Base, DownOK, FreeOK, ByOK
<1>3. CASE Done
  <2>1. op' = NoOp /\ phase # "down" /\ phase' = phase
    BY <1>3 DEF Done, At
  <2> QED
    BY <2>1, NobodyIsNoCaller DEF NoOp, Base, DownOK, FreeOK, ByOK
<1> QED
  BY <1>1, <1>2, <1>3, OpFrames

\* An operation that takes the lock.
LEMMA BaseStart == ASSUME IInv, Base, StartStep PROVE Base'
<1>1. phase # "down" /\ phase' # "down" /\ cmd' = cmd
  BY DEF StartStep, StartRefresh, StartPoll, ApplySpawned, ApplyCorrection, ApplyForCaller,
         StartObserve, StartApply, OnlyOp
<1>2. op'.kind # "none"
  BY DEF StartStep, StartRefresh, StartPoll, ApplySpawned, ApplyCorrection, ApplyForCaller,
         StartObserve, StartApply, NoOp
<1>3. op'.by \in Callers => cmd[op'.by].pc \in {"apply", "observe", "reading"}
  BY NobodyIsNoCaller
     DEF StartStep, StartRefresh, StartPoll, ApplySpawned, ApplyCorrection, ApplyForCaller,
         StartObserve, StartApply, NoOp
<1> QED
  BY <1>1, <1>2, <1>3 DEF Base, DownOK, FreeOK, ByOK

\* A command moves on only when nobody works for it, or it is cancelled.
LEMMA BaseCommand == ASSUME IInv, Base, NEW c \in Callers, CommandStep(c) PROVE Base'
<1>0. op \in Ops /\ cmd \in [Callers -> Cmds]
  BY DEF IInv, OpOK, CommandsOK
<1>1. phase # "down" /\ phase' = phase
  BY DEF CommandStep, Pause, Enable, EnableAtMax, SetPower, SetCurrent, CommandUpdate,
         CommandSaved, Stage, Return, Cancel, Idle, Resumes
<1>2. CASE Cancel(c)
  <2>1. op'.kind = op.kind /\ op'.todo = op.todo /\ op'.by \in {op.by, "nobody"} /\ op'.by # c
    BY <1>0, <1>2, NobodyIsNoCaller DEF Cancel, Ops
  <2>2. \A d \in Callers \ {c} : cmd'[d] = cmd[d]
    BY <1>0, <1>2 DEF Cancel
  <2> QED
    BY <1>1, <2>1, <2>2, NobodyIsNoCaller DEF Base, DownOK, FreeOK, ByOK
<1>3. CASE ~Cancel(c)
  <2>1. op' = op
    BY <1>3 DEF CommandStep, Pause, Enable, EnableAtMax, SetPower, SetCurrent, CommandUpdate,
         CommandSaved, Stage, Return
  <2>2. cmd[c].pc \notin {"apply", "observe", "reading"}
    BY <1>3 DEF CommandStep, Pause, Enable, EnableAtMax, SetPower, SetCurrent, CommandUpdate,
         CommandSaved, Stage, Return, Idle, Resumes
  <2>3. \A d \in Callers \ {c} : cmd'[d].pc = cmd[d].pc
    <3>1. CASE Pause(c)
      BY <1>0, <3>1 DEF Pause, Outdated, Cmds
    <3>2. CASE Enable(c) \/ EnableAtMax(c) \/ SetPower(c) \/ SetCurrent(c)
      <4>1. \A kind, v, new : CommandUpdate(c, kind, v, new) =>
              \A d \in Callers \ {c} : cmd'[d].pc = cmd[d].pc
        BY <1>0 DEF CommandUpdate, Outdated, Cmds
      <4> QED
        BY <1>0, <3>2, <4>1 DEF Enable, EnableAtMax, SetPower, SetCurrent
    <3>3. CASE CommandSaved(c) \/ Stage(c) \/ Return(c)
      BY <1>0, <3>3 DEF CommandSaved, Stage, Return, Outdated, Cmds
    <3> QED
      BY <1>3, <3>1, <3>2, <3>3 DEF CommandStep
  <2> QED
    BY <1>1, <2>1, <2>2, <2>3 DEF Base, DownOK, FreeOK, ByOK
<1> QED
  BY <1>2, <1>3

\* The invariant holds of every behaviour.
LEMMA BaseHolds == Spec => []Base
<1>1. Init => Base
  BY NobodyIsNoCaller DEF Init, Base, DownOK, FreeOK, ByOK, NoOp
<1>2. IInv /\ Base /\ [Next]_vars => Base'
  <2> SUFFICES ASSUME IInv, Base, [Next]_vars PROVE Base'
    OBVIOUS
  <2>1. CASE Initialize
    BY <2>1, NobodyIsNoCaller DEF Initialize, NoOp, Base, DownOK, FreeOK, ByOK
  <2>2. CASE InitializeEnds \/ CapExpires \/ UNCHANGED vars
    BY <2>2 DEF InitializeEnds, CapExpires, vars, memory, Base, DownOK, FreeOK, ByOK
  <2>3. CASE Crash
    BY <2>3, NobodyIsNoCaller DEF Crash, NoOp, Base, DownOK, FreeOK, ByOK
  <2> QED
    BY <2>1, <2>2, <2>3, BaseOp, BaseStart, BaseCommand DEF Next
<1> QED
  BY <1>1, <1>2, Invariance, PTL DEF Spec

(***************************************************************************)
(* The fault latch.                                                        *)
(***************************************************************************)

LatchStep == intent.latched /\ ~EnableAccepted /\ phase' # "down" =>
                \/ intent'.latched /\ (intent'.comms => intent.comms)
                \/ intent.comms /\ ~intent'.enabled

\* A save that failed is undone only over an intent that permits charging: a
\* latch that came meanwhile stays (_raises_output).
LEMMA RaisedMeansPermitted ==
    ASSUME NEW i \in Intent, NEW j \in Intent, RaisesOutput(i, j)
    PROVE  ~j.latched /\ ~j.stopfb
<1>1. i.power \in Int /\ j.power \in Int
  BY ValuesAreIntegers DEF Intent
<1>2. Allowed(i) >= 0
  BY <1>1 DEF Allowed, MIN_ENABLE_POWER_RAW
<1>3. Allowed(j) > 0
  BY <1>1, <1>2 DEF RaisesOutput, Allowed
<1> QED
  BY <1>3 DEF Allowed

\* A command leaves a latch only by accepting an enable.
LEMMA StickyCommand == ASSUME IInv, NEW c \in Callers, CommandStep(c) PROVE LatchStep
<1>0. intent \in Intent /\ cmd \in [Callers -> Cmds] /\ cmd[c].before \in Intent
  BY DEF IInv, IntentOK, CommandsOK, Cmds
<1>1. CASE Pause(c)
  BY <1>0, <1>1 DEF Pause, LatchStep, Intent
<1>2. CASE Enable(c) \/ EnableAtMax(c)
  <2>1. \A v, new : CommandUpdate(c, "enable", v, new) =>
           cmd'[c].kind = "enable" /\ cmd'[c].pc = "saving"
    BY <1>0 DEF CommandUpdate, Outdated, NoCmd
  <2>2. cmd[c].pc # "saving"
    BY <1>2 DEF Enable, EnableAtMax, Idle, Resumes
  <2>3. EnableAccepted \/ intent' = intent
    BY <1>2, <2>1, <2>2 DEF Enable, EnableAtMax, EnableAccepted, memory
  <2> QED
    BY <2>3 DEF LatchStep
<1>3. CASE SetPower(c) \/ SetCurrent(c)
  <2>1. \/ \E v : intent' = [intent EXCEPT !.power = v]
        \/ \E v : intent' = [intent EXCEPT !.current = v]
    BY <1>3 DEF SetPower, SetCurrent, CommandUpdate
  <2>2. intent'.latched = intent.latched /\ intent'.comms = intent.comms
    BY <1>0, <2>1 DEF Intent
  <2> QED
    BY <2>2 DEF LatchStep
<1>4. CASE CommandSaved(c)
  <2>1. intent' = intent \/ RaisesOutput(cmd[c].before, intent)
    BY <1>4 DEF CommandSaved
  <2>2. intent' = intent \/ ~intent.latched
    BY <1>0, <2>1, RaisedMeansPermitted
  <2> QED
    BY <2>2 DEF LatchStep
<1>5. CASE Stage(c) \/ Return(c) \/ Cancel(c)
  BY <1>5 DEF Stage, Return, Cancel, memory, LatchStep
<1> QED
  BY <1>1, <1>2, <1>3, <1>4, <1>5 DEF CommandStep

\* A permanent fault latch is left only by an explicit enable or with the process,
\* and is never weakened; one that a healthy link releases leaves charging paused,
\* over any commands, undone saves and operations (_latch_fault, _note_link_health,
\* _update_positive).
THEOREM StickyTheorem == Spec => FaultLatchIsSticky
<1>1. IInv /\ Base /\ [Next]_vars => [LatchStep]_vars
  <2> SUFFICES ASSUME IInv, Base, Next PROVE LatchStep
    BY DEF LatchStep
  <2>1. CASE OpStep
    <3>1. OpFrame => LatchStep
      BY DEF OpFrame, Sticky, LatchStep
    <3>2. SaveStep \/ Done => LatchStep
      BY DEF SaveStep, Done, memory, LatchStep
    <3> QED
      BY <2>1, <3>1, <3>2, OpFrames
  <2>2. CASE StartStep
    <3>1. intent' = intent
      BY <2>2 DEF StartStep, StartRefresh, StartPoll, ApplySpawned, ApplyCorrection,
                  ApplyForCaller, StartObserve, StartApply, OnlyOp, memory
    <3> QED
      BY <3>1 DEF LatchStep
  <2>3. CASE Initialize
    BY <2>3 DEF Initialize, Base, DownOK, Paused, LatchStep
  <2>4. CASE InitializeEnds \/ CapExpires
    BY <2>4 DEF InitializeEnds, CapExpires, memory, LatchStep
  <2>5. CASE Crash
    BY <2>5 DEF Crash, LatchStep
  <2> QED
    BY <2>1, <2>2, <2>3, <2>4, <2>5, StickyCommand DEF Next
<1> QED
  BY <1>1, Invariance, BaseHolds, PTL DEF Spec, FaultLatchIsSticky, LatchStep

(***************************************************************************)
(* The record of a pause.                                                  *)
(***************************************************************************)

\* A record is not the absence of one.
LEMMA RecordsExist == ASSUME NEW i \in Intent PROVE i # FirstInstall
<1>1. DOMAIN i = {"enabled", "power", "current", "latched", "stopfb", "comms"}
  BY DEF Intent
<1>2. DOMAIN FirstInstall = {"first"}
  BY DEF FirstInstall
<1> QED
  BY <1>1, <1>2

OnDisk == durable # FirstInstall /\ ~durable.enabled

\* The end of a save puts the record handed over on disk, or is remembered.
LEMMA SaveKeepsRecord ==
    ASSUME IInv, ~offered.enabled, NEW ok \in BOOLEAN, SaveEnds(ok)
    PROVE  ~offered'.enabled /\ (pending' \/ OnDisk')
<1>1. offered # FirstInstall
  BY RecordsExist DEF IInv, IntentOK
<1> QED
  BY <1>1 DEF SaveEnds, OnDisk

\* A step that saves nothing, and neither starts nor gives up a save.
LEMMA RecordKept ==
    ASSUME IInv', DurableInv, held' \in {held, "no"}, offered' \in {offered, intent'},
           pending' = pending, durable' = durable, SaveInFlight => SaveInFlight'
    PROVE  DurableInv'
<1> SUFFICES ASSUME held' = "pause" PROVE ~offered'.enabled /\ (pending' \/ SaveInFlight' \/ OnDisk')
  BY DEF DurableInv, OnDisk
<1>1. ~intent'.enabled
  BY DEF IInv, PauseStands
<1>2. ~offered.enabled /\ (pending \/ SaveInFlight \/ OnDisk)
  BY DEF DurableInv, OnDisk
<1>3. ~offered'.enabled
  BY <1>1, <1>2
<1>4. OnDisk => OnDisk'
  BY DEF OnDisk
<1> QED
  BY <1>2, <1>3, <1>4

\* A step of an operation keeps the record.
LEMMA DurableOp == ASSUME IInv, IInv', Base, DurableInv, OpStep PROVE DurableInv'
<1>0. op \in Ops /\ cmd \in [Callers -> Cmds]
  BY DEF IInv, OpOK, CommandsOK
<1>1. CASE OpFrame
  <2>1. SaveInFlight => SaveInFlight'
    BY <1>1 DEF OpFrame, SaveInFlight, At
  <2> QED
    BY <1>1, <2>1, RecordKept DEF OpFrame
<1>2. CASE SaveStep
  <2>1. PICK ok \in BOOLEAN : SaveEnds(ok)
    BY <1>2 DEF SaveStep
  <2>2. held' = held
    BY <1>2 DEF SaveStep
  <2> QED
    BY <2>1, <2>2, SaveKeepsRecord DEF DurableInv, OnDisk
<1>3. CASE Done
  <2>1. ~At("save") /\ ~At("resave")
    BY <1>3 DEF Done, At
  <2>2. \A c \in Callers : cmd[c].pc = "saving" => cmd'[c].pc = "saving"
    BY <1>3 DEF Done, Base, ByOK
  <2>3. SaveInFlight => SaveInFlight'
    BY <2>1, <2>2 DEF SaveInFlight
  <2>4. held' = held /\ offered' = offered /\ pending' = pending /\ durable' = durable
    BY <1>3 DEF Done, saving
  <2> QED
    BY <2>3, <2>4, RecordKept
<1> QED
  BY <1>1, <1>2, <1>3, OpFrames

\* Taking the lock gives up no save.
LEMMA DurableStart == ASSUME IInv, IInv', Base, DurableInv, StartStep PROVE DurableInv'
<1>1. /\ cmd' = cmd /\ held' = held /\ pending' = pending /\ durable' = durable
      /\ offered' \in {offered, intent'}
  BY DEF StartStep, StartRefresh, StartPoll, ApplySpawned, ApplyCorrection, ApplyForCaller,
         StartObserve, StartApply, OnlyOp, memory, saving
<1>2. Free
  BY DEF StartStep, StartRefresh, StartPoll, ApplySpawned, ApplyCorrection, ApplyForCaller,
         StartObserve, StartApply
<1>3. SaveInFlight => SaveInFlight'
  BY <1>1, <1>2 DEF Free, Base, FreeOK, SaveInFlight, At
<1> QED
  BY <1>1, <1>3, RecordKept

\* A command saves, or gives up no save.
LEMMA DurableCommand ==
    ASSUME IInv, IInv', Base, DurableInv, "cancel" \notin Faults,
           NEW c \in Callers, CommandStep(c)
    PROVE  DurableInv'
<1>0. cmd \in [Callers -> Cmds]
  BY DEF IInv, CommandsOK
<1>1. CASE Pause(c)
  <2>1. cmd'[c].pc = "saving" /\ offered' = intent'
    BY <1>0, <1>1 DEF Pause, NoCmd
  <2> QED
    BY <2>1 DEF DurableInv, SaveInFlight, IInv, PauseStands
<1>2. CASE \E kind, v, new : CommandUpdate(c, kind, v, new)
  <2>1. cmd'[c].pc = "saving" /\ offered' = intent'
    BY <1>0, <1>2 DEF CommandUpdate, NoCmd, Outdated
  <2> QED
    BY <2>1 DEF DurableInv, SaveInFlight, IInv, PauseStands
<1>3. CASE CommandSaved(c)
  <2>1. PICK ok \in BOOLEAN : SaveEnds(ok)
    BY <1>3 DEF CommandSaved
  <2>2. held' = held
    BY <1>3 DEF CommandSaved
  <2> QED
    BY <2>1, <2>2, SaveKeepsRecord DEF DurableInv, OnDisk
<1>4. CASE /\ cmd[c].pc # "saving" /\ \A d \in Callers \ {c} : cmd'[d] = cmd[d]
           /\ UNCHANGED <<phase, op, saving, held>>
  <2>1. SaveInFlight => SaveInFlight'
    BY <1>4 DEF SaveInFlight, At
  <2> QED
    BY <1>4, <2>1, RecordKept DEF saving
<1>5. CASE Stage(c) \/ Return(c)
  BY <1>0, <1>4, <1>5 DEF Stage, Return, Resumes
<1>6. CASE Enable(c)
  BY <1>0, <1>2, <1>4, <1>6 DEF Enable, Idle
<1>7. CASE EnableAtMax(c)
  BY <1>0, <1>2, <1>4, <1>7 DEF EnableAtMax, Resumes
<1>8. CASE SetPower(c) \/ SetCurrent(c)
  BY <1>2, <1>8 DEF SetPower, SetCurrent
<1>9. ~Cancel(c)
  BY DEF Cancel
<1> QED
  BY <1>1, <1>3, <1>5, <1>6, <1>7, <1>8, <1>9 DEF CommandStep

\* A standing pause whose save is neither pending nor in flight is what a restart
\* would load, over failed saves, crashes and overlapping saves, as long as no
\* caller is cancelled in the middle of its save (async_pause, _save_intent,
\* _op_refresh).
THEOREM DurableTheorem == ASSUME "cancel" \notin Faults PROVE Spec => []PauseIsDurable
<1>1. Init => DurableInv
  BY DEF Init, DurableInv
<1>2. IInv /\ IInv' /\ Base /\ DurableInv /\ [Next]_vars => DurableInv'
  <2> SUFFICES ASSUME IInv, IInv', Base, DurableInv, [Next]_vars PROVE DurableInv'
    OBVIOUS
  <2>1. CASE Initialize
    <3>1. At("save")' /\ offered' = intent'
      BY <2>1 DEF Initialize, At, NoOp
    <3> QED
      BY <3>1 DEF DurableInv, SaveInFlight, IInv, PauseStands
  <2>2. CASE InitializeEnds \/ CapExpires
    <3>1. op' = op /\ cmd' = cmd /\ (phase' = phase \/ (phase # "down" /\ phase' # "down"))
      BY <2>2 DEF InitializeEnds, CapExpires
    <3>2. SaveInFlight => SaveInFlight'
      BY <3>1 DEF SaveInFlight, At
    <3> QED
      BY <2>2, <3>2, RecordKept DEF InitializeEnds, CapExpires, saving
  <2>3. CASE Crash
    BY <2>3 DEF Crash, DurableInv, Paused
  <2>4. CASE UNCHANGED vars
    BY <2>4 DEF vars, saving, DurableInv, SaveInFlight, At
  <2> QED
    BY <2>1, <2>2, <2>3, <2>4, DurableOp, DurableStart, DurableCommand DEF Next
<1>3. DurableInv => PauseIsDurable
  BY DEF DurableInv, PauseIsDurable
<1> QED
  BY <1>1, <1>2, <1>3, Invariance, BaseHolds, PTL DEF Spec

(***************************************************************************)
(* The Stop fallback: lemmas about plans.                                  *)
(***************************************************************************)

\* A plan of silent steps is good for any intent.
LEMMA SilentPlan == ASSUME NEW s \in Seq(Silent) PROVE \A i : PlanFor(i, s)
<1>1. \A k \in 1..Len(s) : s[k] \in Silent
  OBVIOUS
<1> QED
  BY <1>1 DEF PlanFor, StopsLast, Silent

\* A plan with no stop step is good for an intent without the Stop fallback.
LEMMA EarlyPlan ==
    ASSUME NEW s \in Seq(Early), NEW i, ~i.stopfb
    PROVE  PlanFor(i, s)
<1>1. \A k \in 1..Len(s) : s[k] \in Early
  OBVIOUS
<1> QED
  BY <1>1 DEF PlanFor, StopsLast, Early

\* What is planned after a stop step is silent.
LEMMA RestIsSilent ==
    ASSUME NEW s \in Seq(Steps), StopsLast(s), s # <<>>, Head(s) \in StopSteps
    PROVE  Tail(s) \in Seq(Silent)
<1> DEFINE u == Tail(s)
<1>1. u \in Seq(Steps) /\ Len(u) = Len(s) - 1 /\ \A k \in 1..Len(u) : u[k] = s[k + 1]
  OBVIOUS
<1>2. s[1] \in StopSteps /\ Len(s) \in Nat /\ 1 \in 1..Len(s)
  OBVIOUS
<1>3. \A k \in 1..Len(u) : u[k] \in Silent
  <2> SUFFICES ASSUME NEW k \in 1..Len(u) PROVE u[k] \in Silent
    OBVIOUS
  <2>1. k + 1 \in 1..Len(s) /\ 1 < k + 1 /\ u[k] = s[k + 1]
    BY <1>1, <1>2
  <2>2. s[k + 1] \notin WriteSteps
    BY <1>2, <2>1 DEF StopsLast
  <2>3. u[k] \in Steps
    BY <1>1
  <2> QED
    BY <2>1, <2>2, <2>3 DEF Silent
<1> HIDE DEF u
<1>4. u \in Seq(Silent)
  BY <1>1, <1>3
<1> QED
  BY <1>4 DEF u

\* Going on with a plan after steps t that are no stop steps.
LEMMA StopsStayLast ==
    ASSUME NEW s \in Seq(Steps), StopsLast(s), s # <<>>, NEW t \in Seq(Early)
    PROVE  StopsLast(t \o Tail(s))
<1> DEFINE u == Tail(s)
           r == t \o u
           n == Len(t)
<1>1. u \in Seq(Steps) /\ Len(u) = Len(s) - 1 /\ \A k \in 1..Len(u) : u[k] = s[k + 1]
  OBVIOUS
<1>2. n \in Nat /\ Len(s) \in Nat /\ Len(u) \in Nat /\ \A k \in 1..n : t[k] \in Early
  OBVIOUS
<1>3. /\ Len(r) = n + Len(u)
      /\ \A k \in 1..Len(r) : r[k] = IF k <= n THEN t[k] ELSE u[k - n]
  BY <1>1
<1> HIDE DEF u, r, n
<1>4. StopsLast(r)
  <2> SUFFICES ASSUME NEW i \in 1..Len(r), NEW j \in 1..Len(r), i < j, r[i] \in StopSteps
               PROVE  r[j] \notin WriteSteps
    BY DEF StopsLast
  <2>1. i > n
    BY <1>2, <1>3 DEF Early
  <2>2. /\ i - n \in 1..Len(u) /\ j - n \in 1..Len(u)
        /\ r[i] = s[i - n + 1] /\ r[j] = s[j - n + 1]
    <3>1. i - n \in 1..Len(u) /\ j - n \in 1..Len(u) /\ ~(i <= n) /\ ~(j <= n)
      BY <1>2, <1>3, <2>1
    <3>2. r[i] = u[i - n] /\ r[j] = u[j - n]
      BY <1>3, <3>1
    <3> QED
      BY <1>1, <3>1, <3>2
  <2>3. i - n + 1 \in 1..Len(s) /\ j - n + 1 \in 1..Len(s) /\ i - n + 1 < j - n + 1
    BY <1>1, <1>2, <2>2
  <2> QED
    BY <2>2, <2>3 DEF StopsLast
<1> QED
  BY <1>4 DEF r, u

\* One stop step at the end of t, and silent steps after it.
LEMMA OneStop ==
    ASSUME NEW t \in Seq(Steps), NEW u \in Seq(Silent),
           \A k \in 1..Len(t) : k < Len(t) => t[k] \notin StopSteps
    PROVE  StopsLast(t \o u)
<1> DEFINE r == t \o u
           n == Len(t)
<1>2. n \in Nat /\ Len(u) \in Nat /\ \A k \in 1..Len(u) : u[k] \in Silent
  OBVIOUS
<1>3. /\ Len(r) = n + Len(u)
      /\ \A k \in 1..Len(r) : r[k] = IF k <= n THEN t[k] ELSE u[k - n]
  OBVIOUS
<1>4. \A k \in 1..n : k < n => t[k] \notin StopSteps
  OBVIOUS
<1> HIDE DEF r, n
<1>5. StopsLast(r)
  <2> SUFFICES ASSUME NEW i \in 1..Len(r), NEW j \in 1..Len(r), i < j, r[i] \in StopSteps
               PROVE  r[j] \notin WriteSteps
    BY DEF StopsLast
  <2>1. i >= n
    BY <1>2, <1>3, <1>4
  <2>2. j - n \in 1..Len(u) /\ r[j] = u[j - n]
    BY <1>2, <1>3, <2>1
  <2> QED
    BY <1>2, <2>2 DEF Silent
<1> QED
  BY <1>5 DEF r

\* Which steps write and which stop.
LEMMA StepKinds ==
    /\ {"wait", "save", "resave", "pausedRead", "safety", "obsRead", "maxRead", "paused",
        "pausedJudge", "fault", "offer", "latch", "session", "unplug", "decide", "refEnd",
        "health", "ok", "fail", "done"} \subseteq Neutral
    /\ {"pre", "preRead", "preJudge", "cur", "pow", "applied", "conf", "confRead", "confJudge",
        "zero", "rcur", "rpow"} \subseteq Early
    /\ {"pollRead", "refRead", "starting", "stopIf", "stopIfRead", "stop", "stopObs",
        "stopFault", "stopJudge"} \subseteq Silent
    /\ Neutral \subseteq Early /\ Neutral \subseteq Silent
    /\ Early \subseteq Steps /\ Silent \subseteq Steps
BY DEF Neutral, Early, Silent, Steps, AwaitSteps, SyncSteps, WriteSteps, StopSteps

\* The operation goes on with steps that neither write nor stop.
LEMMA NeutralOn ==
    ASSUME IInv, StopInv, op.todo # <<>>, NEW t \in Seq(Neutral),
           op'.todo = t \o Tail(op.todo), intent'.stopfb => intent.stopfb
    PROVE  PlanFor(intent', op'.todo)
<1>0. op.todo \in Seq(Steps) /\ StopsLast(op.todo)
  BY DEF IInv, OpOK, Ops, StopInv, PlanFor
<1>1. t \in Seq(Early) /\ t \in Seq(Silent)
  BY StepKinds, LargerAlphabet
<1>2. StopsLast(op'.todo)
  BY <1>0, <1>1, StopsStayLast
<1>3. ASSUME intent'.stopfb PROVE op'.todo \in Seq(Silent)
  <2>1. op.todo \in Seq(Silent)
    BY <1>3 DEF StopInv, PlanFor
  <2> QED
    BY <1>1, <2>1, Prepending
<1> QED
  BY <1>2, <1>3 DEF PlanFor

\* The operation goes on with steps that write, without the Stop fallback.
LEMMA WriteOn ==
    ASSUME IInv, StopInv, op.todo # <<>>, NEW t \in Seq(Early),
           op'.todo = t \o Tail(op.todo), ~intent'.stopfb
    PROVE  PlanFor(intent', op'.todo)
<1>0. op.todo \in Seq(Steps) /\ StopsLast(op.todo)
  BY DEF IInv, OpOK, Ops, StopInv, PlanFor
<1> QED
  BY <1>0, StopsStayLast DEF PlanFor

\* The operation goes on with steps that stop, after one of them.
LEMMA StopOn ==
    ASSUME IInv, StopInv, op.todo # <<>>, Head(op.todo) \in StopSteps, NEW t \in Seq(Silent),
           op'.todo = t \o Tail(op.todo)
    PROVE  PlanFor(intent', op'.todo)
<1>0. op.todo \in Seq(Steps) /\ StopsLast(op.todo)
  BY DEF IInv, OpOK, Ops, StopInv, PlanFor
<1>1. Tail(op.todo) \in Seq(Silent)
  BY <1>0, RestIsSilent
<1>2. op'.todo \in Seq(Silent)
  BY <1>1
<1> QED
  BY <1>2, SilentPlan

\* The operation revokes: a zero, then nothing that writes.
LEMMA RevokeOn ==
    ASSUME IInv, StopInv, op.todo # <<>>, Head(op.todo) \in StopSteps, ~intent'.stopfb,
           \E t \in {<<"revoke">>, <<"save", "rzero">>, <<"wait", "rzero">>} :
             op'.todo = t \o Tail(op.todo)
    PROVE  PlanFor(intent', op'.todo)
<1>0. op.todo \in Seq(Steps) /\ StopsLast(op.todo)
  BY DEF IInv, OpOK, Ops, StopInv, PlanFor
<1>1. Tail(op.todo) \in Seq(Silent)
  BY <1>0, RestIsSilent
<1>2. /\ {"revoke", "save", "rzero", "wait"} \subseteq Steps
      /\ "save" \notin StopSteps /\ "wait" \notin StopSteps
  BY DEF Steps, AwaitSteps, SyncSteps, StopSteps
<1>3. StopsLast(<<"revoke">> \o Tail(op.todo))
  <2>1. <<"revoke">> \in Seq(Steps)
    BY <1>2
  <2>2. \A k \in 1..Len(<<"revoke">>) :
           k < Len(<<"revoke">>) => <<"revoke">>[k] \notin StopSteps
    OBVIOUS
  <2> QED
    BY <1>1, <2>1, <2>2, OneStop
<1>4. StopsLast(<<"save", "rzero">> \o Tail(op.todo))
  <2>1. <<"save", "rzero">> \in Seq(Steps)
    BY <1>2
  <2>2. \A k \in 1..Len(<<"save", "rzero">>) :
           k < Len(<<"save", "rzero">>) => <<"save", "rzero">>[k] \notin StopSteps
    BY <1>2
  <2> QED
    BY <1>1, <2>1, <2>2, OneStop
<1>5. StopsLast(<<"wait", "rzero">> \o Tail(op.todo))
  <2>1. <<"wait", "rzero">> \in Seq(Steps)
    BY <1>2
  <2>2. \A k \in 1..Len(<<"wait", "rzero">>) :
           k < Len(<<"wait", "rzero">>) => <<"wait", "rzero">>[k] \notin StopSteps
    BY <1>2
  <2> QED
    BY <1>1, <2>1, <2>2, OneStop
<1> QED
  BY <1>3, <1>4, <1>5 DEF PlanFor

\* The authorisation is withdrawn.
LEMMA WithdrawnPlan ==
    ASSUME IInv, Withdraw, ~intent'.stopfb
    PROVE  PlanFor(intent', op'.todo)
<1>1. op'.todo = <<"revoke", "fail">>
  BY DEF Withdraw, IInv, OpOK, Ops
<1>2. StopsLast(<<"revoke", "fail">>)
  BY DEF StopsLast, WriteSteps
<1> QED
  BY <1>1, <1>2 DEF PlanFor

\* Another plan, of silent steps.
LEMMA SilentOn ==
    ASSUME NEW t \in Seq(Silent), op'.todo = t
    PROVE  PlanFor(intent', op'.todo)
BY SilentPlan

\* The operation ends.
LEMMA EndOn == ASSUME IInv, NEW r, End(r) PROVE PlanFor(intent', op'.todo)
<1>1. op'.todo = <<"done">>
  BY DEF End, IInv, OpOK, Ops
<1>2. <<"done">> \in Seq(Silent)
  BY StepKinds
<1> QED
  BY <1>1, <1>2, SilentOn

\* Then, in terms of the plan.
LEMMA ThenPlan == ASSUME IInv, NEW t, Then(t) PROVE op'.todo = t \o Tail(op.todo)
BY DEF Then, IInv, OpOK, Ops

\* No writing step is in progress under the Stop fallback.
LEMMA NoFallbackAt ==
    ASSUME IInv, StopInv, op.todo # <<>>, Head(op.todo) \in WriteSteps
    PROVE  ~intent.stopfb
<1>1. op.todo \in Seq(Silent) => Head(op.todo) \in Silent
  OBVIOUS
<1> QED
  BY <1>1 DEF StopInv, PlanFor, Silent

\* Silence: nothing is dispatched, or there is no Stop fallback.
LEMMA SilenceKept ==
    ASSUME PlanFor(intent', op'.todo), sent'.reg \in {"none", "stop"} \/ ~intent'.stopfb
    PROVE  StopInv'
BY DEF StopInv, StopFallbackIsSilent

(***************************************************************************)
(* The Stop fallback: every step keeps the invariant.                      *)
(***************************************************************************)

\* The step in progress.
LEMMA AtStep == ASSUME NEW x, At(x) PROVE op.todo # <<>> /\ Head(op.todo) = x
BY DEF At

\* An await that decides nothing, a handed-over record, a save, a safety
\* configuration.
LEMMA SilentSteps ==
    ASSUME IInv, StopInv, Wait \/ Offer \/ SaveStep \/ ConfigureSafety
    PROVE  StopInv'
<1>1. Then(<<>>) /\ op.todo # <<>> /\ intent' = intent /\ sent' = NoWrite
  BY DEF Wait, Offer, SaveStep, ConfigureSafety, At, OnlyOp, Quiet, memory
<1>2. <<>> \in Seq(Neutral)
  OBVIOUS
<1>3. PlanFor(intent', op'.todo)
  BY <1>1, <1>2, ThenPlan, NeutralOn
<1> QED
  BY <1>1, <1>3, SilenceKept DEF NoWrite

\* A fresh frame.
LEMMA StopObserve == ASSUME IInv, StopInv, Observe PROVE StopInv'
<1>0. op.todo # <<>> /\ intent' = intent /\ sent' = NoWrite
  BY DEF Observe, ReadStep, At, Quiet
<1>1. \A step, f, todo : ReadStep(step, f, todo) => op'.todo = todo \o Tail(op.todo)
  BY DEF ReadStep, IInv, OpOK, Ops
<1>2. PlanFor(intent', op'.todo)
  <2>1. ASSUME NEW f, ReadStep("preRead", f, <<"fault", "preJudge">>)
        PROVE  PlanFor(intent', op'.todo)
    <3>1. ~intent.stopfb
      BY <2>1, <1>0, NoFallbackAt, AtStep DEF ReadStep, WriteSteps
    <3>2. <<"fault", "preJudge">> \in Seq(Early)
      BY StepKinds
    <3> QED
      BY <1>0, <1>1, <2>1, <3>1, <3>2, WriteOn
  <2>2. ASSUME NEW f, ReadStep("pausedRead", f, <<"fault", "pausedJudge">>)
        PROVE  PlanFor(intent', op'.todo)
    <3>1. <<"fault", "pausedJudge">> \in Seq(Neutral)
      BY StepKinds
    <3> QED
      BY <1>0, <1>1, <2>2, <3>1, NeutralOn
  <2>3. ASSUME NEW f, ReadStep("confRead", f, <<"fault", "confJudge">>)
        PROVE  PlanFor(intent', op'.todo)
    <3>1. ~intent.stopfb
      BY <2>3, <1>0, NoFallbackAt, AtStep DEF ReadStep, WriteSteps
    <3>2. <<"fault", "confJudge">> \in Seq(Early)
      BY StepKinds
    <3> QED
      BY <1>0, <1>1, <2>3, <3>1, <3>2, WriteOn
  <2>4. ASSUME NEW f, ReadStep("stopObs", f, <<"stopFault", "stopJudge">>)
        PROVE  PlanFor(intent', op'.todo)
    <3>1. <<"stopFault", "stopJudge">> \in Seq(Silent)
      BY StepKinds
    <3>2. Head(op.todo) \in StopSteps
      BY <2>4, AtStep DEF ReadStep, StopSteps
    <3> QED
      BY <1>0, <1>1, <2>4, <3>1, <3>2, StopOn
  <2>5. ASSUME NEW f, ReadStep("obsRead", f, <<"fault", "session", "done">>)
        PROVE  PlanFor(intent', op'.todo)
    <3>1. <<"fault", "session", "done">> \in Seq(Neutral)
      BY StepKinds
    <3> QED
      BY <1>0, <1>1, <2>5, <3>1, NeutralOn
  <2>6. ASSUME NEW f,
               ReadStep("pollRead", f, <<"fault", "session", "starting", "unplug", "done">>)
        PROVE  PlanFor(intent', op'.todo)
    <3>1. <<"fault", "session", "starting", "unplug", "done">> \in Seq(Silent)
      BY StepKinds
    <3>2. Head(op.todo) \in StopSteps
      BY <2>6, AtStep DEF ReadStep, StopSteps
    <3> QED
      BY <1>0, <1>1, <2>6, <3>1, <3>2, StopOn
  <2>7. ASSUME NEW f, ReadStep("refRead", f, <<"fault", "session", "starting", "unplug",
                                              "wait", "decide">>)
        PROVE  PlanFor(intent', op'.todo)
    <3>1. <<"fault", "session", "starting", "unplug", "wait", "decide">> \in Seq(Silent)
      BY StepKinds
    <3>2. Head(op.todo) \in StopSteps
      BY <2>7, AtStep DEF ReadStep, StopSteps
    <3> QED
      BY <1>0, <1>1, <2>7, <3>1, <3>2, StopOn
  <2> QED
    BY <2>1, <2>2, <2>3, <2>4, <2>5, <2>6, <2>7 DEF Observe
<1> QED
  BY <1>0, <1>2, SilenceKept DEF NoWrite

\* A latch plans its zero only without the Stop fallback.
LEMMA StopLatch ==
    ASSUME IInv, StopInv, op.todo # <<>>, NEW b \in BOOLEAN, LatchFault(b)
    PROVE  PlanFor(intent', op'.todo)
<1>0. intent'.stopfb = intent.stopfb
  BY DEF LatchFault, IInv, IntentOK, Intent
<1>1. CASE intent.stopfb
  <2>1. Then(<<>>) \/ Then(<<"offer", "save">>)
    BY <1>1 DEF LatchFault
  <2>2. <<>> \in Seq(Neutral) /\ <<"offer", "save">> \in Seq(Neutral)
    BY StepKinds
  <2> QED
    BY <1>0, <2>1, <2>2, ThenPlan, NeutralOn
<1>2. CASE ~intent.stopfb
  <2>1. Then(<<"zero">> \o <<>>) \/ Then(<<"zero">> \o <<"offer", "save">>)
    BY <1>2 DEF LatchFault
  <2>2. <<"zero">> \o <<>> \in Seq(Early) /\ <<"zero">> \o <<"offer", "save">> \in Seq(Early)
    BY StepKinds
  <2> QED
    BY <1>0, <1>2, <2>1, <2>2, ThenPlan, WriteOn
<1> QED
  BY <1>1, <1>2

\* _note_fault and the latch of a lost link.
LEMMA StopNoteFault == ASSUME IInv, StopInv, NoteFault \/ LatchComms PROVE StopInv'
<1>1. op.todo # <<>> /\ sent' = NoWrite
  BY DEF NoteFault, LatchComms, At, Quiet
<1>2. LatchFault(FALSE) \/ LatchFault(TRUE) \/ (Then(<<>>) /\ intent' = intent)
  BY DEF NoteFault, LatchComms
<1>3. <<>> \in Seq(Neutral)
  OBVIOUS
<1>4. Then(<<>>) /\ intent' = intent => PlanFor(intent', op'.todo)
  BY <1>1, <1>3, ThenPlan, NeutralOn
<1>5. PlanFor(intent', op'.todo)
  BY <1>1, <1>2, <1>4, StopLatch
<1> QED
  BY <1>1, <1>5, SilenceKept DEF NoWrite

\* The protective zero of a latch.
LEMMA StopProtectiveZero == ASSUME IInv, StopInv, ProtectiveZero PROVE StopInv'
<1>1. op.todo # <<>> /\ intent' = intent /\ Then(<<"wait">>) /\ ~intent.stopfb
  BY NoFallbackAt DEF ProtectiveZero, At, memory, WriteSteps
<1>2. <<"wait">> \in Seq(Neutral)
  BY StepKinds
<1> QED
  BY <1>1, <1>2, ThenPlan, NeutralOn, SilenceKept

\* _revoke withdraws the authorisation.
LEMMA StopRevoke == ASSUME IInv, StopInv, Revoke PROVE StopInv'
<1>1. op.todo # <<>> /\ Head(op.todo) \in StopSteps \cap WriteSteps /\ sent' = NoWrite
  BY DEF Revoke, At, Quiet, StopSteps, WriteSteps
<1>2. ~intent'.stopfb
  BY <1>1, NoFallbackAt DEF Revoke, Update, IInv, IntentOK, Intent
<1>3. op'.todo = <<"save", "rzero">> \o Tail(op.todo)
  BY DEF Revoke, IInv, OpOK, Ops
<1> QED
  BY <1>1, <1>2, <1>3, RevokeOn, SilenceKept

\* The confirmed zero of _revoke.
LEMMA StopRevokeZero == ASSUME IInv, StopInv, RevokeZero PROVE StopInv'
<1>1. op.todo # <<>> /\ Head(op.todo) \in StopSteps \cap WriteSteps
  BY DEF RevokeZero, At, StopSteps, WriteSteps
<1>2. ~intent'.stopfb /\ intent' = intent
  BY <1>1, NoFallbackAt DEF RevokeZero, memory
<1>3. \/ op'.todo = <<"wait">> \o Tail(op.todo)
      \/ op'.todo = <<"wait", "rzero">> \o Tail(op.todo)
      \/ op'.todo = <<"wait", "latch", "stopIf">> \o Tail(op.todo)
  BY DEF RevokeZero, Then, IInv, OpOK, Ops
<1>4. <<"wait">> \in Seq(Silent) /\ <<"wait", "latch", "stopIf">> \in Seq(Silent)
  BY StepKinds
<1>5. PlanFor(intent', op'.todo)
  BY <1>1, <1>2, <1>3, <1>4, RevokeOn, StopOn
<1> QED
  BY <1>2, <1>5, SilenceKept

\* _stop_if_drawing and the dispatch of a Stop.
LEMMA StopStopIf == ASSUME IInv, StopInv, StopIfDrawing \/ StopSend PROVE StopInv'
<1>1. op.todo # <<>> /\ Head(op.todo) \in StopSteps
  BY DEF StopIfDrawing, StopSend, At, StopSteps
<1>2. intent' = intent /\ sent'.reg \in {"none", "stop"}
  <2>1. CASE StopIfDrawing
    <3>1. OnlyOp
      BY <2>1 DEF StopIfDrawing
    <3> QED
      BY <3>1 DEF OnlyOp, Quiet, memory, NoWrite
  <2>2. CASE StopSend
    BY <2>2 DEF StopSend, memory, NoWrite
  <2> QED
    BY <2>1, <2>2
<1>3. \/ \E t \in {<<>>, <<"stopIfRead">>, <<"stop">>, <<"stopObs">>} : op'.todo = t \o Tail(op.todo)
      \/ End("superseded")
  BY DEF StopIfDrawing, StopSend, Then, IInv, OpOK, Ops
<1>4. {<<>>, <<"stopIfRead">>, <<"stop">>, <<"stopObs">>} \subseteq Seq(Silent)
  BY StepKinds
<1>5. PlanFor(intent', op'.todo)
  BY <1>1, <1>3, <1>4, StopOn, EndOn
<1> QED
  BY <1>2, <1>5, SilenceKept

\* A round of the Stop sequence: what comes after the fallback is silent.
LEMMA StopStopJudge == ASSUME IInv, StopInv, StopJudge PROVE StopInv'
<1>1. op.todo # <<>> /\ Head(op.todo) \in StopSteps /\ sent' = NoWrite
  BY DEF StopJudge, At, StopSteps, Quiet
<1>2. \/ \E t \in {<<"save">>, <<"wait", "stopObs">>, <<"stop">>} : op'.todo = t \o Tail(op.todo)
      \/ op'.todo = <<"save", "fail">>
  BY DEF StopJudge, IInv, OpOK, Ops
<1>3. /\ {<<"save">>, <<"wait", "stopObs">>, <<"stop">>} \subseteq Seq(Silent)
      /\ <<"save", "fail">> \in Seq(Silent)
  BY StepKinds
<1>4. PlanFor(intent', op'.todo)
  BY <1>1, <1>2, <1>3, StopOn, SilentOn
<1> QED
  BY <1>1, <1>4, SilenceKept DEF NoWrite

\* _check before a round.
LEMMA StopCheckWire == ASSUME IInv, StopInv, CheckWire PROVE StopInv'
<1>1. op.todo # <<>> /\ sent' = NoWrite /\ intent' = intent
  BY DEF CheckWire, At, OnlyOp, Quiet, memory
<1>2. \/ End("superseded")
      \/ ~intent.stopfb /\ (Then(<<"preRead">>) \/ Then(<<"confRead">>))
      \/ Then(<<"pausedRead">>)
  BY <1>1, NoFallbackAt DEF CheckWire, At, WriteSteps
<1>3. /\ <<"preRead">> \in Seq(Early) /\ <<"confRead">> \in Seq(Early)
      /\ <<"pausedRead">> \in Seq(Neutral)
  BY StepKinds
<1>4. PlanFor(intent', op'.todo)
  BY <1>1, <1>2, <1>3, EndOn, WriteOn, NeutralOn, ThenPlan
<1> QED
  BY <1>1, <1>4, SilenceKept DEF NoWrite

\* _preflight and _confirm_session after a frame.
LEMMA StopJudges == ASSUME IInv, StopInv, PreflightJudge \/ ConfirmJudge PROVE StopInv'
<1>1. /\ op.todo # <<>> /\ Head(op.todo) \in WriteSteps
      /\ sent' = NoWrite /\ intent' = intent
  BY DEF PreflightJudge, ConfirmJudge, At, OnlyOp, Quiet, memory, WriteSteps
<1>2. ~intent'.stopfb
  BY <1>1, NoFallbackAt
<1>3. \/ Withdraw
      \/ End("staged") \/ End("confirmed")
      \/ op'.todo = Tail(op.todo)
      \/ op'.todo = <<"wait", "pre">> \o Tail(op.todo)
      \/ op'.todo = <<"wait", "conf">> \o Tail(op.todo)
  BY DEF PreflightJudge, ConfirmJudge, Again, IInv, OpOK, Ops
<1>4. op.todo \in Seq(Steps)
  BY DEF IInv, OpOK, Ops
<1>5. <<>> \in Seq(Early) /\ <<>> \o Tail(op.todo) = Tail(op.todo)
  BY <1>1, <1>4
<1>6. <<"wait", "pre">> \in Seq(Early) /\ <<"wait", "conf">> \in Seq(Early)
  BY StepKinds
<1>7. PlanFor(intent', op'.todo)
  BY <1>1, <1>2, <1>3, <1>5, <1>6, EndOn, WithdrawnPlan, WriteOn
<1> QED
  BY <1>1, <1>7, SilenceKept DEF NoWrite

\* The writes of a command.
LEMMA StopApply == ASSUME IInv, StopInv, ApplyCurrent \/ ApplyPower PROVE StopInv'
<1>1. /\ op.todo # <<>> /\ Head(op.todo) \in WriteSteps /\ intent' = intent
  BY DEF ApplyCurrent, ApplyPower, At, memory, WriteSteps
<1>2. ~intent'.stopfb
  BY <1>1, NoFallbackAt
<1>3. \/ End("superseded")
      \/ \E t \in {<<"wait">>, <<"wait", "cur">>, <<"wait", "pow">>} : op'.todo = t \o Tail(op.todo)
      \/ op'.todo = <<"wait", "latch", "fail">>
      \/ op'.todo = <<"wait", "latch">> \o (IF op.wire.p = 0 THEN <<"stopIf">> ELSE <<>>)
                                       \o <<"fail">>
  BY DEF ApplyCurrent, ApplyPower, Again, IInv, OpOK, Ops
<1>4. {<<"wait">>, <<"wait", "cur">>, <<"wait", "pow">>} \subseteq Seq(Early)
  BY StepKinds
<1>5. /\ <<"wait", "latch", "fail">> \in Seq(Silent)
      /\ <<"wait", "latch">> \o (IF op.wire.p = 0 THEN <<"stopIf">> ELSE <<>>) \o <<"fail">>
            \in Seq(Silent)
  BY StepKinds
<1>6. PlanFor(intent', op'.todo)
  BY <1>1, <1>2, <1>3, <1>4, <1>5, EndOn, WriteOn, SilentOn
<1> QED
  BY <1>2, <1>6, SilenceKept

\* The writes are confirmed.
LEMMA StopApplied == ASSUME IInv, StopInv, Applied PROVE StopInv'
<1>1. /\ op.todo # <<>> /\ Head(op.todo) \in WriteSteps
      /\ sent' = NoWrite /\ intent' = intent
  BY DEF Applied, At, OnlyOp, Quiet, memory, WriteSteps
<1>2. ~intent'.stopfb
  BY <1>1, NoFallbackAt
<1>3. Then(<<"paused">>) \/ Then(<<"conf">>) \/ End("confirmed")
  BY DEF Applied
<1>4. <<"paused">> \in Seq(Early) /\ <<"conf">> \in Seq(Early)
  BY StepKinds
<1>5. PlanFor(intent', op'.todo)
  BY <1>1, <1>2, <1>3, <1>4, EndOn, WriteOn, ThenPlan
<1> QED
  BY <1>2, <1>5, SilenceKept

\* The evidence of a pause; the end of an operation; the maximum.
LEMMA StopPausedJudge == ASSUME IInv, StopInv, PausedJudge \/ Leave \/ ReadMaxPower PROVE StopInv'
<1>1. sent' = NoWrite
  BY DEF PausedJudge, Leave, ReadMaxPower, OnlyOp, Quiet
<1>2. \/ End("confirmed") \/ End("error")
      \/ op'.todo \in {<<"wait", "paused">>, <<"stop", "ok">>, <<"done">>}
  BY DEF PausedJudge, Leave, ReadMaxPower, IInv, OpOK, Ops
<1>3. {<<"wait", "paused">>, <<"stop", "ok">>, <<"done">>} \subseteq Seq(Silent)
  BY StepKinds
<1>4. PlanFor(intent', op'.todo)
  BY <1>2, <1>3, EndOn, SilentOn
<1> QED
  BY <1>1, <1>4, SilenceKept DEF NoWrite

\* The steps of a refresh or poll that may change the intent, and save it.
LEMMA StopNotes ==
    ASSUME IInv, StopInv, NoteSession \/ TrackUnplug \/ NoteLinkHealth \/ RefreshEnd
    PROVE  StopInv'
<1>1. op.todo # <<>> /\ sent' = NoWrite
  BY DEF NoteSession, TrackUnplug, NoteLinkHealth, RefreshEnd, At, Quiet
<1>2. \E t \in {<<>>, <<"save">>, <<"health", "done">>, <<"latch", "health", "done">>} : Then(t)
  BY DEF NoteSession, TrackUnplug, NoteLinkHealth, RefreshEnd
<1>3. {<<>>, <<"save">>, <<"health", "done">>, <<"latch", "health", "done">>} \subseteq Seq(Neutral)
  BY StepKinds
<1>4. intent'.stopfb = intent.stopfb
  BY DEF NoteSession, TrackUnplug, NoteLinkHealth, RefreshEnd, Update, IInv, IntentOK, Intent
<1>5. PlanFor(intent', op'.todo)
  BY <1>1, <1>2, <1>3, <1>4, NeutralOn, ThenPlan
<1> QED
  BY <1>1, <1>5, SilenceKept DEF NoWrite

\* A session stuck in its start is revoked only without the Stop fallback.
LEMMA StopNoteStarting == ASSUME IInv, StopInv, NoteStarting PROVE StopInv'
<1>1. /\ op.todo # <<>> /\ Head(op.todo) \in StopSteps
      /\ sent' = NoWrite /\ intent' = intent
  BY DEF NoteStarting, At, OnlyOp, Quiet, memory, StopSteps
<1>2. Then(<<>>) \/ (~intent.stopfb /\ Then(<<"revoke">>))
  BY DEF NoteStarting
<1>3. <<>> \in Seq(Silent)
  OBVIOUS
<1>4. PlanFor(intent', op'.todo)
  BY <1>1, <1>2, <1>3, StopOn, RevokeOn, ThenPlan
<1> QED
  BY <1>1, <1>4, SilenceKept DEF NoWrite

\* A refresh plans no write under the Stop fallback.
LEMMA StopDecide == ASSUME IInv, StopInv, Decide PROVE StopInv'
<1>1. sent' = NoWrite /\ intent' = intent
  BY DEF Decide, OnlyOp, Quiet, memory
<1>2. \E p, c : /\ op'.todo = (IF c # None THEN <<"rcur">> ELSE <<>>)
                               \o (IF p # None THEN <<"rpow">> ELSE <<>>) \o <<"refEnd">>
                /\ intent.stopfb => p = None /\ c = None
  <2>1. intent.stopfb => Wire.p = None /\ Wire.c = None
    BY DEF Wire
  <2>2. ~(None > 0)
    BY DEF None
  <2> QED
    BY <2>1, <2>2 DEF Decide, IInv, OpOK, Ops
<1>3. PICK p, c : /\ op'.todo = (IF c # None THEN <<"rcur">> ELSE <<>>)
                                 \o (IF p # None THEN <<"rpow">> ELSE <<>>) \o <<"refEnd">>
                  /\ intent.stopfb => p = None /\ c = None
  BY <1>2
<1>4. op'.todo \in Seq(Early)
  BY <1>3, StepKinds
<1>5. intent.stopfb => op'.todo \in Seq(Silent)
  BY <1>3, StepKinds
<1>6. PlanFor(intent', op'.todo)
  BY <1>1, <1>4, <1>5, EarlyPlan, SilentOn
<1> QED
  BY <1>1, <1>6, SilenceKept DEF NoWrite

\* The writes of a refresh.
LEMMA StopRefreshWrite == ASSUME IInv, StopInv, RefreshWrite PROVE StopInv'
<1>1. /\ op.todo # <<>> /\ Head(op.todo) \in WriteSteps /\ intent' = intent
  BY DEF RefreshWrite, At, memory, WriteSteps
<1>2. ~intent'.stopfb
  BY <1>1, NoFallbackAt
<1>3. op'.todo = <<"refEnd">> \/ op'.todo = <<"wait">> \o Tail(op.todo)
  BY DEF RefreshWrite, IInv, OpOK, Ops
<1>4. <<"refEnd">> \in Seq(Silent) /\ <<"wait">> \in Seq(Early)
  BY StepKinds
<1>5. PlanFor(intent', op'.todo)
  BY <1>1, <1>2, <1>3, <1>4, WriteOn, SilentOn
<1> QED
  BY <1>2, <1>5, SilenceKept

\* The lock is released.
LEMMA StopDone == ASSUME StopInv, Done PROVE StopInv'
<1>1. op'.todo = <<>> /\ sent' = NoWrite
  BY DEF Done, NoOp, Quiet
<1>2. <<>> \in Seq(Silent)
  OBVIOUS
<1> QED
  BY <1>1, <1>2, SilentOn, SilenceKept DEF NoWrite

\* Every step of an operation.
LEMMA StopOp == ASSUME IInv, StopInv, OpStep PROVE StopInv'
BY SilentSteps, StopObserve, StopNoteFault, StopProtectiveZero, StopRevoke, StopRevokeZero,
   StopStopIf, StopStopJudge, StopCheckWire, StopJudges, StopApply, StopApplied,
   StopPausedJudge, StopNotes, StopNoteStarting, StopDecide, StopRefreshWrite, StopDone
   DEF OpStep

\* An apply under the Stop fallback only looks whether the charger draws.
LEMMA StopStartApply ==
    ASSUME IInv, NEW who, StartApply(who)
    PROVE  StopInv'
<1>1. sent' = NoWrite /\ intent' = intent
  BY DEF StartApply, Quiet, memory
<1>2. CASE intent.stopfb
  <2>1. op'.todo = <<"stopIfRead", "ok">>
    BY <1>2 DEF StartApply, NoOp
  <2>2. <<"stopIfRead", "ok">> \in Seq(Silent)
    BY StepKinds
  <2> QED
    BY <1>1, <2>1, <2>2, SilentOn, SilenceKept DEF NoWrite
<1>3. CASE ~intent.stopfb
  <2>1. op'.todo = (IF Wire.p > 0 THEN <<"pre">> ELSE <<>>)
                   \o (IF Wire.c # None THEN <<"cur">> ELSE <<>>)
                   \o (IF Wire.p # None THEN <<"pow">> ELSE <<>>)
                   \o <<"applied">>
    BY <1>3 DEF StartApply, NoOp
  <2>2. op'.todo \in Seq(Early)
    BY <2>1, StepKinds
  <2>3. PlanFor(intent', op'.todo)
    BY <1>1, <1>3, <2>2, EarlyPlan
  <2> QED
    BY <1>1, <2>3, SilenceKept DEF NoWrite
<1> QED
  BY <1>2, <1>3

\* An operation that takes the lock.
LEMMA StopStart == ASSUME IInv, StopInv, StartStep PROVE StopInv'
<1>1. CASE ApplySpawned \/ ApplyCorrection \/ \E c \in Callers : ApplyForCaller(c)
  BY <1>1, StopStartApply DEF ApplySpawned, ApplyCorrection, ApplyForCaller
<1>2. CASE StartRefresh
  <2>1. op'.todo \in Seq(Silent)
    BY <1>2, StepKinds DEF StartRefresh, NoOp
  <2>2. sent' = NoWrite
    BY <1>2 DEF StartRefresh, Quiet
  <2> QED
    BY <2>1, <2>2, SilentOn, SilenceKept DEF NoWrite
<1>3. CASE StartPoll \/ \E c \in Callers : StartObserve(c)
  <2>1. op'.todo \in {<<"pollRead">>, <<"obsRead">>, <<"maxRead">>}
    BY <1>3 DEF StartPoll, StartObserve, NoOp
  <2>2. {<<"pollRead">>, <<"obsRead">>, <<"maxRead">>} \subseteq Seq(Silent)
    BY StepKinds
  <2>3. sent' = NoWrite
    BY <1>3 DEF StartPoll, StartObserve, OnlyOp, Quiet
  <2> QED
    BY <2>1, <2>2, <2>3, SilentOn, SilenceKept DEF NoWrite
<1> QED
  BY <1>1, <1>2, <1>3 DEF StartStep

\* A command writes nothing and, if no save fails, sets no Stop fallback.
LEMMA StopCommand ==
    ASSUME IInv, StopInv, "save" \notin Faults, NEW c \in Callers, CommandStep(c)
    PROVE  StopInv'
<1>0. op \in Ops /\ intent \in Intent
  BY DEF IInv, OpOK, IntentOK
<1>1. sent' = NoWrite
  BY DEF CommandStep, Pause, Enable, EnableAtMax, SetPower, SetCurrent, CommandUpdate,
         CommandSaved, Stage, Return, Cancel, Quiet
<1>2. op'.todo = op.todo
  BY <1>0 DEF CommandStep, Pause, Enable, EnableAtMax, SetPower, SetCurrent, CommandUpdate,
         CommandSaved, Stage, Return, Cancel, Ops
<1>3. intent'.stopfb => intent.stopfb
  <2>1. CASE Pause(c) \/ SetPower(c) \/ SetCurrent(c)
    BY <1>0, <2>1 DEF Pause, SetPower, SetCurrent, CommandUpdate, Intent
  <2>2. CASE Enable(c) \/ EnableAtMax(c)
    BY <1>0, <2>2 DEF Enable, EnableAtMax, CommandUpdate, Enabling, Intent, memory
  <2>3. CASE CommandSaved(c)
    BY <2>3 DEF CommandSaved, SaveEnds
  <2>4. CASE Stage(c) \/ Return(c) \/ Cancel(c)
    BY <2>4 DEF Stage, Return, Cancel, memory
  <2> QED
    BY <2>1, <2>2, <2>3, <2>4 DEF CommandStep
<1>4. PlanFor(intent', op'.todo)
  BY <1>2, <1>3 DEF StopInv, PlanFor
<1> QED
  BY <1>1, <1>4, SilenceKept DEF NoWrite

\* After a Stop fallback no cap and no current is dispatched until an explicit
\* enable, whatever path it comes from, as long as no save fails: an undone enable
\* would bring the fallback back under a running apply (_wire, _check, _revoke,
\* _latch_fault, _stop_sequence).
THEOREM SilentTheorem == ASSUME "save" \notin Faults PROVE Spec => []StopFallbackIsSilent
<1>1. Init => StopInv
  <2>1. <<>> \in Seq(Silent)
    OBVIOUS
  <2>2. ASSUME Init PROVE op.todo = <<>> /\ sent.reg = "none"
    BY <2>2 DEF Init, NoOp, NoWrite
  <2> QED
    BY <2>1, <2>2, SilentPlan DEF StopInv, StopFallbackIsSilent
<1>2. IInv /\ StopInv /\ [Next]_vars => StopInv'
  <2> SUFFICES ASSUME IInv, StopInv, [Next]_vars PROVE StopInv'
    OBVIOUS
  <2>1. CASE Initialize
    <3>1. op'.todo = <<"save", "done">> /\ sent' = NoWrite
      BY <2>1 DEF Initialize, NoOp, Quiet
    <3>2. <<"save", "done">> \in Seq(Silent)
      BY StepKinds
    <3> QED
      BY <3>1, <3>2, SilentOn, SilenceKept DEF NoWrite
  <2>2. CASE InitializeEnds \/ CapExpires
    <3>1. intent' = intent /\ op' = op /\ sent' = NoWrite
      BY <2>2 DEF InitializeEnds, CapExpires, Quiet, memory
    <3> QED
      BY <3>1 DEF StopInv, StopFallbackIsSilent, NoWrite
  <2>3. CASE Crash
    <3>1. op'.todo = <<>> /\ sent' = NoWrite
      BY <2>3 DEF Crash, NoOp, Quiet
    <3>2. <<>> \in Seq(Silent)
      OBVIOUS
    <3> QED
      BY <3>1, <3>2, SilentOn, SilenceKept DEF NoWrite
  <2>4. CASE UNCHANGED vars
    BY <2>4 DEF vars, memory, StopInv, StopFallbackIsSilent
  <2> QED
    BY <2>1, <2>2, <2>3, <2>4, StopOp, StopStart, StopCommand DEF Next
<1>3. StopInv => StopFallbackIsSilent
  BY DEF StopInv
<1> QED
  BY <1>1, <1>2, <1>3, Invariance, PTL DEF Spec
=============================================================================
