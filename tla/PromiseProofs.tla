----------------------------- MODULE PromiseProofs -----------------------------
(***************************************************************************)
(* The charging controller implements ChargeAuthority, for any number of   *)
(* callers, any requested values, any telemetry and any failures.  Rests   *)
(* on the invariant IInv of ControllerProofs.                              *)
(***************************************************************************)
EXTENDS ControllerProofs

(***************************************************************************)
(* What a step may do to the state that the promise is about.              *)
(***************************************************************************)

\* A write to 0x3002 is a step of its own.
WritesAlone == sent'.reg = "power" => UNCHANGED <<phase, intent, protect, released, held, cmd>>

\* An intent becomes enabled by a command, after a release or at a start.
EnabledHow == ~intent.enabled /\ intent'.enabled => Asked' \/ released \/ phase = "down"

\* An accepted enable makes the intent enabled in the same step.
AskedHow == Asked' /\ ~Asked => intent'.enabled /\ held' = "no" /\ phase' # "down"

\* A standing pause ends with an enable, a release or the process.
PauseEnds == held = "pause" /\ held' # "pause" =>
                intent'.enabled \/ released' \/ phase' = "down"

PauseBegins == held # "pause" /\ held' = "pause" => ~released /\ phase # "down"

\* The memory is empty while the process is down.
Dies == phase' = "down" =>
            (intent' = Paused /\ ~released') \/ UNCHANGED <<phase, intent, released>>

Restarts == phase = "down" => UNCHANGED <<released, held>>

Moves == WritesAlone /\ EnabledHow /\ AskedHow /\ PauseEnds /\ PauseBegins /\ Dies /\ Restarts

(***************************************************************************)
(* Kinds of steps.                                                         *)
(***************************************************************************)

\* A step that leaves the intent, the commands and the phase alone.
LEMMA SteadyMoves ==
    ASSUME UNCHANGED <<phase, intent, released, held, cmd>>,
           protect' = protect \/ sent'.reg # "power"
    PROVE  Moves
<1>1. Asked' = Asked
  BY DEF Asked
<1> QED
  BY <1>1 DEF Moves, WritesAlone, EnabledHow, AskedHow, PauseEnds, PauseBegins, Dies, Restarts

\* A step of the running program that writes nothing and enables nothing.
LEMMA LoweringMoves ==
    ASSUME UNCHANGED <<released, held>>, phase # "down", phase' # "down",
           sent'.reg # "power", Asked' => Asked, intent'.enabled => intent.enabled
    PROVE  Moves
BY DEF Moves, WritesAlone, EnabledHow, AskedHow, PauseEnds, PauseBegins, Dies, Restarts

\* An outdated revision changes neither the kind nor the place of a command.
LEMMA OutdatedAsks ==
    ASSUME IInv, cmd' = Outdated
    PROVE  Asked' => Asked
BY DEF IInv, CommandsOK, Cmds, Outdated, Asked

\* A command that is not an enable, or is not at its save, asks for nothing new.
LEMMA LeavingAsks ==
    ASSUME IInv, NEW c \in Callers, NEW m, m.pc # "saving" \/ m.kind # "enable",
           cmd' = [cmd EXCEPT ![c] = m] \/ cmd' = [Outdated EXCEPT ![c] = m]
    PROVE  Asked' => Asked
BY DEF IInv, CommandsOK, Cmds, Outdated, Asked

(***************************************************************************)
(* The steps of the operation that holds the lock.                         *)
(***************************************************************************)

\* Operations whose steps only write, read or go on (_write_confirmed, _check).
LEMMA PlainStepsMove ==
    ASSUME \/ Wait \/ Observe \/ ProtectiveZero \/ Offer \/ SaveStep \/ RevokeZero \/ StopIfDrawing
           \/ StopSend \/ CheckWire \/ PreflightJudge \/ ApplyCurrent \/ ApplyPower \/ Applied
           \/ PausedJudge \/ ConfirmJudge \/ Leave \/ ReadMaxPower \/ ConfigureSafety
           \/ NoteStarting \/ Decide \/ RefreshWrite \/ RefreshEnd
    PROVE  Moves
<1>1. CASE Wait \/ StopIfDrawing \/ CheckWire \/ PreflightJudge \/ Applied \/ PausedJudge \/ Leave
           \/ ReadMaxPower \/ NoteStarting \/ Decide
  BY <1>1, SteadyMoves DEF Wait, StopIfDrawing, CheckWire, PreflightJudge, Applied, PausedJudge,
     Leave, ReadMaxPower, NoteStarting, Decide, OnlyOp, Quiet, NoWrite, memory
<1>2. CASE Observe
  <2>1. UNCHANGED <<phase, intent, released, held, cmd>> /\ sent' = NoWrite
    BY <1>2 DEF Observe, ReadStep, Quiet
  <2> QED
    BY <2>1, SteadyMoves DEF NoWrite
<1>3. CASE ProtectiveZero \/ RevokeZero \/ StopSend
  BY <1>3, SteadyMoves DEF ProtectiveZero, RevokeZero, StopSend, memory
<1>4. CASE Offer \/ SaveStep
  BY <1>4, SteadyMoves DEF Offer, SaveStep, Quiet, NoWrite, memory
<1>5. CASE ApplyCurrent \/ ApplyPower \/ RefreshWrite
  BY <1>5, SteadyMoves DEF ApplyCurrent, ApplyPower, RefreshWrite, memory
<1>6. CASE ConfirmJudge \/ ConfigureSafety \/ RefreshEnd
  BY <1>6, SteadyMoves DEF ConfirmJudge, ConfigureSafety, RefreshEnd, Quiet, NoWrite
<1> QED
  BY <1>1, <1>2, <1>3, <1>4, <1>5, <1>6

\* Fault latches, withdrawals and the Stop fallback enable nothing (_latch_fault, _revoke,
\* _stop_sequence, _note_session, _note_link_health).
LEMMA ProtectiveStepsMove ==
    ASSUME IInv, NoteFault \/ LatchComms \/ Revoke \/ StopJudge \/ NoteSession \/ NoteLinkHealth
    PROVE  Moves
<1>1. intent \in Intent /\ phase # "down" /\ phase' = phase /\ sent'.reg # "power"
      /\ UNCHANGED <<released, held>>
  <2>1. intent \in Intent
    BY DEF IInv, IntentOK
  <2>2. phase # "down"
    BY DEF NoteFault, LatchComms, Revoke, StopJudge, NoteSession, NoteLinkHealth, At
  <2>3. phase' = phase /\ sent' = NoWrite /\ UNCHANGED <<released, held>>
    BY DEF NoteFault, LatchComms, Revoke, StopJudge, NoteSession, NoteLinkHealth, Quiet
  <2> QED
    BY <2>1, <2>2, <2>3 DEF NoWrite
<1>2. cmd' = cmd \/ cmd' = Outdated
  BY DEF NoteFault, LatchComms, LatchFault, Revoke, StopJudge, NoteSession, NoteLinkHealth, Update
<1>3. Asked' => Asked
  BY <1>2, OutdatedAsks DEF Asked
<1>4. intent'.enabled => intent.enabled
  <2>1. CASE NoteFault \/ LatchComms
    BY <2>1, <1>1 DEF NoteFault, LatchComms, LatchFault, Intent
  <2>2. CASE Revoke \/ NoteSession \/ NoteLinkHealth
    BY <2>2, <1>1 DEF Revoke, NoteSession, NoteLinkHealth, Update, Intent
  <2>3. CASE StopJudge
    BY <2>3, <1>1 DEF StopJudge, Update, Intent
  <2> QED
    BY <2>1, <2>2, <2>3
<1> QED
  BY <1>1, <1>3, <1>4, LoweringMoves

\* Only a session after a release is adopted (_track_unplug).
LEMMA TrackUnplugMoves == ASSUME IInv, TrackUnplug PROVE Moves
<1>1. phase # "down" /\ phase' = phase /\ sent' = NoWrite
  BY DEF TrackUnplug, At, Quiet
<1>2. cmd' = cmd \/ cmd' = Outdated
  BY DEF TrackUnplug, Update
<1>3. Asked' => Asked
  BY <1>2, OutdatedAsks DEF Asked
<1>4. /\ ~intent.enabled /\ intent'.enabled => released
      /\ held' = held \/ (held' = "no" /\ released')
  BY DEF TrackUnplug, Adopts, Update
<1> QED
  BY <1>1, <1>3, <1>4
     DEF Moves, WritesAlone, EnabledHow, AskedHow, PauseEnds, PauseBegins, Dies, Restarts, NoWrite

\* The result an operation hands over is no new enable.
LEMMA DoneMoves == ASSUME IInv, Done PROVE Moves
<1>1. /\ UNCHANGED <<phase, intent, protect, released, held>>
      /\ phase # "down" /\ sent' = NoWrite
  BY DEF Done, At, Quiet, memory
<1>2. ASSUME NEW c \in Callers PROVE Delivered(c).pc # "saving"
  BY DEF Delivered, IInv, CommandsOK, Cmds
<1>3. cmd' = [c \in Callers |-> IF c = op.by THEN Delivered(c) ELSE cmd[c]]
  BY DEF Done
<1>4. Asked' => Asked
  BY <1>2, <1>3 DEF Asked
<1> QED
  BY <1>1, <1>4, LoweringMoves DEF NoWrite

(***************************************************************************)
(* The steps of the commands and of the surroundings.                      *)
(***************************************************************************)

\* Taking the lock changes nothing the promise is about.
LEMMA StartStepMoves == ASSUME IInv, StartStep PROVE Moves
<1>1. CASE StartRefresh
  <2>1. /\ UNCHANGED <<intent, released, held, cmd>>
        /\ phase # "down" /\ phase' # "down" /\ sent' = NoWrite
    BY <1>1 DEF StartRefresh, Quiet, memory
  <2> QED
    BY <2>1, LoweringMoves DEF NoWrite, Asked
<1>2. CASE ~StartRefresh
  BY <1>2, SteadyMoves
     DEF StartStep, StartPoll, ApplySpawned, ApplyCorrection, ApplyForCaller, StartApply,
         StartObserve, OnlyOp, Quiet, NoWrite, memory
<1> QED
  BY <1>1, <1>2

\* A command: only an accepted enable asks, and only a pause with no released one
\* before it stands (async_pause, async_enable, _update_positive).
LEMMA CommandMoves == ASSUME IInv, NEW c \in Callers, CommandStep(c) PROVE Moves
<1>0. intent \in Intent /\ cmd[c] \in Cmds
  BY DEF IInv, IntentOK, CommandsOK
<1>1. CASE Pause(c)
  <2>1. /\ phase = "up" /\ phase' = phase /\ sent' = NoWrite /\ released' = released
        /\ ~intent'.enabled /\ held' = IF released THEN "late" ELSE "pause"
    BY <1>0, <1>1 DEF Pause, Idle, Quiet, Intent
  <2>2. Asked' => Asked
    BY <1>1 DEF Pause, Asked, NoCmd, Outdated, IInv, CommandsOK, Cmds
  <2>3. held = "pause" => ~released
    BY DEF IInv, PauseStands
  <2> QED
    BY <2>1, <2>2, <2>3
       DEF Moves, WritesAlone, EnabledHow, AskedHow, PauseEnds, PauseBegins, Dies, Restarts, NoWrite
<1>2. ASSUME NEW v, CommandUpdate(c, "enable", v, Enabling(v)), held' = "no", phase # "down"
      PROVE  Moves
  <2>1. intent'.enabled /\ phase' = phase /\ sent' = NoWrite /\ released' = released
    BY <1>0, <1>2 DEF CommandUpdate, Enabling, Intent, Quiet
  <2>2. Asked'
    <3>1. cmd'[c].kind = "enable" /\ cmd'[c].pc = "saving"
      BY <1>2 DEF CommandUpdate, NoCmd, Outdated
    <3> QED
      BY <3>1 DEF Asked
  <2> QED
    BY <1>2, <2>1, <2>2
       DEF Moves, WritesAlone, EnabledHow, AskedHow, PauseEnds, PauseBegins, Dies, Restarts, NoWrite
<1>3. CASE Enable(c) \/ EnableAtMax(c)
  <2>0. phase # "down"
    BY <1>3 DEF Enable, EnableAtMax, Idle, Resumes
  <2>1. CASE \E v : CommandUpdate(c, "enable", v, Enabling(v)) /\ held' = "no"
    BY <1>2, <2>0, <2>1
  <2>2. CASE /\ UNCHANGED <<phase, memory, held>> /\ Quiet
             /\ \/ cmd' = [cmd EXCEPT ![c] = [NoCmd EXCEPT !.kind = "enable", !.pc = "reading"]]
                \/ cmd' = [cmd EXCEPT ![c].pc = "done", ![c].res = "error"]
    <3>1. Asked' => Asked
      BY <1>0, <2>2 DEF Asked, NoCmd, Cmds, IInv, CommandsOK
    <3> QED
      BY <2>0, <2>2, <3>1, LoweringMoves DEF Quiet, NoWrite, memory
  <2> QED
    BY <1>3, <2>1, <2>2 DEF Enable, EnableAtMax
<1>4. CASE SetPower(c) \/ SetCurrent(c)
  <2>1. /\ phase # "down" /\ phase' = phase /\ sent' = NoWrite /\ UNCHANGED <<released, held>>
        /\ intent'.enabled = intent.enabled
    BY <1>0, <1>4 DEF SetPower, SetCurrent, CommandUpdate, Idle, Quiet, Intent
  <2>2. Asked' => Asked
    <3>1. PICK kind \in {"power", "current"} : \E v, new : CommandUpdate(c, kind, v, new)
      BY <1>4 DEF SetPower, SetCurrent
    <3>2. PICK v, new : CommandUpdate(c, kind, v, new)
      BY <3>1
    <3> DEFINE m == [NoCmd EXCEPT !.kind = kind, !.val = v, !.pc = "saving",
                                  !.before = IF kind = "pause" THEN Paused ELSE intent,
                                  !.late = cmd[c].late]
    <3>3. m.kind # "enable" /\ cmd' = [Outdated EXCEPT ![c] = m]
      BY <3>2 DEF CommandUpdate, NoCmd
    <3> HIDE DEF m
    <3> QED
      BY <3>3, LeavingAsks
  <2> QED
    BY <2>1, <2>2, LoweringMoves DEF NoWrite
<1>5. CASE CommandSaved(c)
  <2>1. /\ phase # "down" /\ phase' = phase /\ sent' = NoWrite /\ UNCHANGED <<released, held>>
    BY <1>5 DEF CommandSaved, Resumes, Quiet
  <2>2. intent'.enabled => intent.enabled
    <3>1. CASE intent' = intent
      BY <3>1
    <3>2. CASE intent' = Undone(c)
      BY <1>0, <3>2 DEF Undone, PutBack, Intent
    <3> QED
      BY <1>5, <3>1, <3>2 DEF CommandSaved
  <2>3. PICK m : /\ m.pc # "saving"
                 /\ cmd' = [cmd EXCEPT ![c] = m] \/ cmd' = [Outdated EXCEPT ![c] = m]
    <3>1. \A ok \in BOOLEAN : AfterSave(c, ok).pc # "saving"
      BY <1>0 DEF AfterSave, Cmds
    <3>2. [cmd[c] EXCEPT !.pc = "done", !.res = "error"].pc # "saving"
      BY <1>0 DEF Cmds
    <3> QED
      BY <1>5, <3>1, <3>2 DEF CommandSaved
  <2>4. Asked' => Asked
    BY <2>3, LeavingAsks
  <2> QED
    BY <2>1, <2>2, <2>4, LoweringMoves DEF NoWrite
<1>6. CASE Stage(c) \/ Return(c) \/ Cancel(c)
  <2>1. /\ phase # "down" /\ phase' = phase /\ sent' = NoWrite /\ UNCHANGED <<released, held, intent>>
    BY <1>6 DEF Stage, Return, Cancel, Resumes, Quiet, memory
  <2>2. Asked' => Asked
    BY <1>0, <1>6 DEF Stage, Return, Cancel, NoCmd, Asked, Cmds, IInv, CommandsOK
  <2> QED
    BY <2>1, <2>2, LoweringMoves DEF NoWrite
<1> QED
  BY <1>1, <1>3, <1>4, <1>5, <1>6 DEF CommandStep

\* Start, crash and expiry (async_initialize).
LEMMA SurroundingsMove ==
    ASSUME Initialize \/ InitializeEnds \/ Crash \/ CapExpires
    PROVE  Moves
<1>1. CASE Initialize
  <2>1. Asked' = Asked
    BY <1>1 DEF Initialize, Asked
  <2> QED
    BY <1>1, <2>1
       DEF Initialize, Quiet, NoWrite, Moves, WritesAlone, EnabledHow, AskedHow, PauseEnds,
           PauseBegins, Dies, Restarts
<1>2. CASE InitializeEnds
  BY <1>2, LoweringMoves DEF InitializeEnds, Quiet, NoWrite, memory, Asked
<1>3. CASE Crash
  <2>1. ~Asked'
    BY <1>3 DEF Crash, Asked, NoCmd
  <2>2. held' = "pause" => held = "pause"
    BY <1>3 DEF Crash
  <2> QED
    BY <1>3, <2>1, <2>2
       DEF Crash, Quiet, NoWrite, Paused, Moves, WritesAlone, EnabledHow, AskedHow, PauseEnds,
           PauseBegins, Dies, Restarts
<1>4. CASE CapExpires
  BY <1>4, SteadyMoves DEF CapExpires, NoWrite, memory
<1> QED
  BY <1>1, <1>2, <1>3, <1>4

\* Every step of the controller keeps to Moves.
LEMMA NextMoves == ASSUME IInv, [Next]_vars PROVE Moves
<1>1. CASE OpStep
  BY <1>1, PlainStepsMove, ProtectiveStepsMove, TrackUnplugMoves, DoneMoves DEF OpStep
<1>2. CASE UNCHANGED vars
  BY <1>2, SteadyMoves DEF vars, memory
<1> QED
  BY <1>1, <1>2, StartStepMoves, CommandMoves, SurroundingsMove DEF Next
(***************************************************************************)
(* The refinement.                                                         *)
(***************************************************************************)

\* While the process is down its memory is empty.
DownIsEmpty == phase = "down" => intent = Paused /\ ~released

\* The inductive invariant of the refinement.
PInv == IInv /\ DownIsEmpty

\* The invariant of the refinement holds of every behaviour of the controller.
LEMMA PInvHolds == Spec => []PInv
<1>1. Init => DownIsEmpty
  BY DEF Init, DownIsEmpty
<1>2. PInv /\ [Next]_vars => DownIsEmpty'
  <2> SUFFICES ASSUME PInv, [Next]_vars PROVE DownIsEmpty'
    OBVIOUS
  <2>1. Dies
    BY NextMoves DEF PInv, Moves
  <2> QED
    BY <2>1 DEF Dies, DownIsEmpty, PInv
<1> QED
  BY <1>1, <1>2, InitOK, NextOK, PTL DEF Spec, PInv

\* What the invariant says about the abstract state: a level is authorised only while the
\* authority is on, and it is one of the levels.
LEMMA AbstractState ==
    ASSUME PInv
    PROVE  /\ Level \in Powers \cup {0, DeviceMax}
           /\ Authority # "on" => Level = 0
           /\ Asked \in BOOLEAN
           /\ sent.reg = "power" /\ sent.val > 0 => Authority = "on" /\ Level = sent.val
<1>1. intent \in Intent /\ (held = "pause" => ~intent.enabled)
  BY DEF PInv, IInv, IntentOK, PauseStands
<1>2. phase = "down" => ~intent.enabled
  BY DEF PInv, DownIsEmpty, Paused
<1>3. Level \in Powers \cup {0, DeviceMax}
  BY <1>1 DEF Level, Intent, Power
<1>4. ~intent.enabled => Level = 0
  BY DEF Level, ExplicitZero, AsksZero
<1>5. Authority = "on" <=> intent.enabled
  BY <1>1, <1>2 DEF Authority
<1>6. sent.reg = "power" /\ sent.val > 0 => intent.enabled /\ Level = sent.val
  <2> SUFFICES ASSUME sent.reg = "power", sent.val > 0 PROVE intent.enabled /\ Level = sent.val
    OBVIOUS
  <2>1. ~ExplicitZero /\ ~intent.stopfb /\ ~released /\ protect = {} /\ sent.val = intent.power
    BY DEF PInv, IInv, WireOK, OnlyTheLatestWire
  <2>2. intent.power # None
    BY <2>1 DEF None
  <2> QED
    BY <2>1, <2>2 DEF Level, ExplicitZero, AsksZero
<1> QED
  BY <1>3, <1>4, <1>5, <1>6 DEF Asked

\* The initial states of the controller are initial states of the promise.
LEMMA InitPromised == Init => Promise!Init
<1> SUFFICES ASSUME Init PROVE Promise!Init
  OBVIOUS
<1>1. ~Asked
  BY DEF Init, Asked, NoCmd
<1>2. Authority = "down" /\ Level = 0
  BY DEF Init, Authority, Level, ExplicitZero, AsksZero, Paused
<1> QED
  BY <1>1, <1>2 DEF Init, NoWrite, Promise!Init

\* Every step of the controller is a step of the promise, or one it does not see.
LEMMA StepPromised ==
    ASSUME PInv, PInv', [Next]_vars
    PROVE  [Promise!Next]_(Promise!vars)
<1> DEFINE gives(s) == IF s.reg = "power" /\ s.val > 0 THEN s.val ELSE 0
           L == Powers \cup {0, DeviceMax}
<1>1. Moves
  BY NextMoves DEF PInv
<1>2. /\ Level \in L /\ (Authority # "on" => Level = 0) /\ Asked \in BOOLEAN
      /\ sent.reg = "power" /\ sent.val > 0 => Authority = "on" /\ Level = sent.val
  BY AbstractState
<1>3. /\ Level' \in L /\ (Authority' # "on" => Level' = 0) /\ Asked' \in BOOLEAN
      /\ sent'.reg = "power" /\ sent'.val > 0 => Authority' = "on" /\ Level' = sent'.val
  <2>1. (PInv => /\ Level \in L /\ (Authority # "on" => Level = 0) /\ Asked \in BOOLEAN
                 /\ sent.reg = "power" /\ sent.val > 0 => Authority = "on" /\ Level = sent.val)'
    BY AbstractState, PTL
  <2> QED
    BY <2>1
<1>4. CASE sent'.reg = "power" /\ sent'.val > 0
  <2>1. UNCHANGED <<phase, intent, protect, released, held, cmd>>
    BY <1>1, <1>4 DEF Moves, WritesAlone
  <2>2. UNCHANGED <<Authority, Level, Asked>>
    BY <2>1 DEF Authority, Level, ExplicitZero, Asked
  <2> QED
    BY <1>3, <1>4, <2>2 DEF Promise!Next, Promise!Give
<1>5. CASE ~(sent'.reg = "power" /\ sent'.val > 0)
  <2>1. gives(sent') = 0
    BY <1>5
  <2>2. Asked' /\ ~Asked => Authority' = "on"
    BY <1>1 DEF Moves, AskedHow, Authority
  <2>3. CASE Authority' = "on" /\ Asked'
    BY <1>3, <2>1, <2>3 DEF Promise!Next, Promise!TurnOn, Promise!Becomes
  <2>4. CASE Authority' = "on" /\ ~Asked'
    <3>1. Authority \in {"on", "free", "down"}
      <4>1. ~intent.enabled => released \/ phase = "down"
        BY <1>1, <2>4 DEF Moves, EnabledHow, Authority
      <4>2. held = "pause" => ~intent.enabled /\ ~released
        BY DEF PInv, IInv, PauseStands
      <4>3. held = "pause" /\ phase = "down" => FALSE
        BY <1>1, <2>4 DEF Moves, Restarts, Authority
      <4> QED
        BY <4>1, <4>2, <4>3 DEF Authority
    <3>2. Asked' \in {Asked, FALSE}
      BY <1>3, <2>4
    <3> QED
      BY <1>3, <2>1, <2>4, <3>1, <3>2
         DEF Promise!Next, Promise!Adjust, Promise!Adopt, Promise!Start, Promise!Becomes,
             Promise!NotAsked
  <2>5. CASE Authority' # "on"
    <3>1. Level' = 0 /\ Asked' \in {Asked, FALSE}
      BY <1>2, <1>3, <2>2, <2>5
    <3>2. CASE Authority' = Authority
      BY <1>2, <2>1, <2>5, <3>1, <3>2
         DEF Promise!Next, Promise!Settle, Promise!Becomes, Promise!NotAsked
    <3>3. CASE Authority' = "down"
      BY <2>1, <3>1, <3>3 DEF Promise!Next, Promise!Die, Promise!Becomes, Promise!NotAsked
    <3>4. CASE Authority' = "off" /\ Authority # "off"
      <4>1. Authority \in {"none", "on"}
        BY <1>1, <3>4 DEF Moves, PauseBegins, Authority
      <4> QED
        BY <2>1, <3>1, <3>4, <4>1
           DEF Promise!Next, Promise!TurnOff, Promise!Becomes, Promise!NotAsked
    <3>5. CASE Authority' = "free" /\ Authority # "free"
      <4>1. Authority \in {"off", "none", "on"}
        <5>1. Authority # "down"
          BY <1>1, <3>5 DEF Moves, Restarts, Authority, PInv, DownIsEmpty
        <5> QED
          BY <3>5, <5>1 DEF Authority
      <4> QED
        BY <2>1, <3>1, <3>5, <4>1
           DEF Promise!Next, Promise!Unplug, Promise!Withdraw, Promise!Becomes, Promise!NotAsked
    <3>6. CASE Authority' = "none" /\ Authority # "none"
      <4>1. Authority \in {"free", "on", "down"}
        <5>1. Authority # "off"
          BY <1>1, <3>6 DEF Moves, PauseEnds, Authority
        <5> QED
          BY <3>6, <5>1 DEF Authority
      <4> QED
        BY <2>1, <3>1, <3>6, <4>1
           DEF Promise!Next, Promise!Rearm, Promise!Withdraw, Promise!Start, Promise!Becomes,
               Promise!NotAsked
    <3>7. Authority' \in {"down", "off", "free", "none"}
      BY <2>5 DEF Authority
    <3> QED
      BY <3>2, <3>3, <3>4, <3>5, <3>6, <3>7
  <2> QED
    BY <2>3, <2>4, <2>5
<1> QED
  BY <1>4, <1>5

\* The controller implements ChargeAuthority: over concurrent commands, failed saves, lost
\* writes, expired caps and crashes, authority is gained only by an accepted enable, by a
\* session after an unplug or by what a start restores, and the charger is given no cap but
\* the one authorised at that moment (async_enable, async_pause, _track_unplug, _send).
THEOREM PromiseTheorem == Spec => KeepsThePromise
<1>1. PInv /\ PInv' /\ [Next]_vars => [Promise!Next]_(Promise!vars)
  BY StepPromised
<1> QED
  BY <1>1, InitPromised, PInvHolds, PTL DEF Spec, Promise!Spec, KeepsThePromise
================================================================================
