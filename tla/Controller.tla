------------------------------ MODULE Controller ------------------------------
(***************************************************************************)
(* The charging controller (controller.py, class ChargingController): the  *)
(* only writer of the charger.                                             *)
(*                                                                         *)
(* The controller is asyncio code.  A coroutine keeps the event loop until *)
(* it awaits, so an action of this module is the code between two awaits,  *)
(* or a named piece of it that nobody can interrupt (see Suspended).  One  *)
(* asyncio lock serialises the operations (_op_apply, _op_refresh,         *)
(* _op_poll, _op_observe, _locked_read); the user commands change the      *)
(* intent OUTSIDE the lock, at any await of the operation that holds it.   *)
(*                                                                         *)
(* Abstractions                                                            *)
(*  - The revision is only ever compared for equality with the current     *)
(*    one, so a command carries the flag "the revision I captured is still *)
(*    the current one" (cmd[c].fresh) and every change of the intent       *)
(*    clears it.                                                           *)
(*  - Clock comparisons are choices: a deadline may have passed at any     *)
(*    round, and has passed after MaxTries rounds.                         *)
(*  - A dispatched write takes effect, or is lost, in the dispatching step:*)
(*    the lock keeps every other write out until it has returned, and no   *)
(*    command reads the charger without the lock.                          *)
(*  - The saved record lives in the storage: offered is the record last    *)
(*    handed to it (ChargerStorage._controller), durable the one on disk.  *)
(***************************************************************************)
EXTENDS Integers, Sequences, FiniteSets

CONSTANTS
    Callers,      \* tasks that issue user commands (switch, number, services)
    Powers,       \* raw values a user may ask for in 0x3002
    Currents,     \* raw values a user may ask for in 0x3001
    DeviceMax,    \* capability register 0x1011
    Frames,       \* status frames the charger can answer, unreadable ones too
    Saved,        \* records the storage may hold when the program starts
    Faults,       \* what may go wrong: a subset of FaultKinds
    MaxTries      \* rounds of a retry loop before its deadline has passed

None == -1                      \* Python None in a register value
MIN_ENABLE_POWER_RAW == 14

VALID_STATUS    == {0, 1, 2, 3, 4, 5, 6, 8, 9}
PAUSED_STATUS   == {0, 1, 4, 5}
STOPPED_STATUS  == {0, 1, 5}
SESSION_STATUS  == {2, 3, 4, 9}
DRAWING_STATUS  == {2, 3}
REFUSING_STATUS == {6, 8}
FAULT_STATUS    == 6

FaultKinds == {"save", "write", "crash", "cancel", "expiry", "safety", "maxread"}

\* _Evidence.  pw: measured power, -1 unreadable, 0 at most LOW_POWER_RAW, 2
\* above it.  fault: the fault code, -1 unknown, 0 none, 1 a known fault.
Frame == [status : VALID_STATUS \cup {None}, cc : {None, 0, 1},
          pw : {None, 0, 2}, fault : {None, 0, 1}]

NoFrame == [status |-> None, cc |-> None, pw |-> None, fault |-> None]

Power   == Powers \cup {0, DeviceMax, None}
Current == Currents \cup {None}
Intent  == [enabled : BOOLEAN, power : Power, current : Current,
            latched : BOOLEAN, stopfb : BOOLEAN, comms : BOOLEAN]

\* Intent(): the dataclass defaults.
Paused == [enabled |-> FALSE, power |-> None, current |-> None,
           latched |-> FALSE, stopfb |-> FALSE, comms |-> FALSE]

\* saved is None: nothing was ever stored for this entry.
FirstInstall == [first |-> TRUE]

ASSUME CallersAssumption  == Callers \cap {"nobody", "correction"} = {}
ASSUME PowersAssumption   == Powers \subseteq Nat
ASSUME CurrentsAssumption == Currents \subseteq Nat
ASSUME MaxAssumption      == DeviceMax \in Nat /\ DeviceMax >= MIN_ENABLE_POWER_RAW
ASSUME FramesAssumption   == Frames \subseteq Frame
ASSUME SavedAssumption    == Saved \subseteq Intent \cup {FirstInstall}
ASSUME FaultsAssumption   == Faults \subseteq FaultKinds
ASSUME TriesAssumption    == MaxTries \in Nat

VARIABLES
    phase,       \* "down", "init" (async_initialize saves), "first" (its refresh
                 \* runs) or "up"
    intent,      \* _intent
    protect,     \* _protect: reasons forcing wire zero
    released,    \* _released: pause released by a confirmed unplug
    awaitPlug,   \* _await_plug: explicit enable staged while unplugged
    maxp,        \* _max_power
    mismatches,  \* _mismatch_count, not counted beyond 2
    pending,     \* _persist_pending
    persisted,   \* _persisted
    spawned,     \* an _op_apply nobody waits for is queued on the lock
    correction,  \* _correction: "none", "queued" or "running"
    op,          \* the operation that holds the lock
    cmd,         \* cmd[c]: the user command that task c executes
    offered,     \* record last handed to the storage
    durable,     \* record on disk
    cap,         \* register 0x3002 of the charger
    sent,        \* the write dispatched by the step just taken
    held         \* history: "no", or a user pause stands: no enable was accepted
                 \* and no unplug confirmed since ("late": it came after a release)

memory  == <<intent, protect, released, awaitPlug, maxp, mismatches>>
saving  == <<pending, persisted, offered, durable>>
queues  == <<spawned, correction>>
vars    == <<phase, memory, saving, queues, op, cmd, cap, sent, held>>

(***************************************************************************)
(* Evidence and derived values.                                            *)
(***************************************************************************)

\* _Evidence.valid
Valid(f) == /\ f.status \in VALID_STATUS
            /\ f.cc \in {0, 1}
            /\ f.pw # None
            /\ f.fault # None

\* _Evidence.drawing
Drawing(f) == Valid(f) /\ (f.status \in DRAWING_STATUS \/ f.pw = 2)

\* _session_active
SessionActive(f) == Valid(f) /\ f.cc = 1 /\ f.status \in SESSION_STATUS

\* _note_fault: fault evidence stands on its own, in an invalid frame too.
Faulted(f) == f.status = FAULT_STATUS \/ f.fault = 1

\* _explicit_zero
AsksZero(i) == \/ ~i.enabled
               \/ i.latched
               \/ i.power # None /\ i.power < MIN_ENABLE_POWER_RAW

ExplicitZero == AsksZero(intent)

\* Mutant: the Stop fallback is forgotten.
WireDespiteStop == IF released THEN [p |-> None, c |-> None]
                   ELSE IF ExplicitZero \/ protect # {} THEN [p |-> 0, c |-> None]
                   ELSE [p |-> intent.power, c |-> intent.current]

\* Mutant: a pause asks for nothing instead of zero.
WireWithoutZero == IF intent.stopfb \/ released \/ ExplicitZero \/ protect # {}
                     THEN [p |-> None, c |-> None]
                     ELSE [p |-> intent.power, c |-> intent.current]

\* _wire: (power, current) the latest intent wants on the wire.
Wire == IF intent.stopfb \/ released
          THEN [p |-> None, c |-> None]
          ELSE IF ExplicitZero \/ protect # {}
            THEN [p |-> 0, c |-> None]
            ELSE [p |-> intent.power, c |-> intent.current]

\* Mutant: the latest intent is not looked at again.
NeverSuperseded == FALSE

\* _check: the latest intent asks for something else than the operation is
\* about to write.
Superseded == op.wire # Wire

\* _raises_output
Allowed(i) == IF i.enabled /\ ~i.latched /\ ~i.stopfb /\ i.power >= MIN_ENABLE_POWER_RAW
                THEN i.power ELSE 0

RaisesOutput(before, after) ==
    \/ Allowed(after) > Allowed(before)
    \/ /\ Allowed(after) > 0
       /\ before.current # None /\ after.current > before.current

(***************************************************************************)
(* The event loop and the lock.                                            *)
(***************************************************************************)

\* Steps at which the holder of the lock is suspended in an await.
AwaitSteps == {"wait", "save", "resave", "preRead", "pausedRead",
               "confRead", "stopObs", "stopIfRead", "safety", "refRead",
               "pollRead", "obsRead", "maxRead"}

\* Steps that follow the previous one with no await in between.
SyncSteps == {"pre", "preJudge", "cur", "pow", "applied", "paused", "pausedJudge",
              "conf", "confJudge", "fault", "stopFault", "offer", "latch", "zero", "revoke",
              "rzero", "stop", "stopJudge", "stopIf", "session", "starting", "unplug", "decide",
              "rcur", "rpow", "refEnd", "health", "ok", "fail", "done"}

Steps == AwaitSteps \cup SyncSteps

\* Nobody holds the event loop: another task may run.
Suspended == op.todo # <<>> => Head(op.todo) \in AwaitSteps

Free == op.kind = "none"

At(step) == phase # "down" /\ op.todo # <<>> /\ Head(op.todo) = step

Results == {"none", "confirmed", "staged", "superseded", "error"}

NoWrite  == [reg |-> "none", val |-> None]

NoOp == [kind |-> "none", by |-> "nobody", todo |-> <<>>, wire |-> [p |-> None, c |-> None],
         check |-> FALSE, ev |-> NoFrame, stopEv |-> NoFrame, seen |-> FALSE, bad |-> FALSE,
         zero |-> FALSE, tries |-> 0, over |-> FALSE, wrote |-> None, res |-> "none"]

NoCmd == [kind |-> "none", val |-> None, pc |-> "idle", before |-> Paused,
          fresh |-> FALSE, late |-> FALSE, wrote |-> None, res |-> "none"]

\* Replace the step in progress by the steps todo.
Then(todo) == op' = [op EXCEPT !.todo = todo \o Tail(@)]

\* Leave the operation with result r, whatever is still to be done.
End(r) == op' = [op EXCEPT !.todo = <<"done">>, !.res = r, !.wire = NoOp.wire, !.ev = NoFrame,
                           !.stopEv = NoFrame, !.seen = FALSE, !.tries = 0]

\* Every change of the intent bumps its revision: captured revisions are old.
Outdated == [c \in Callers |-> [cmd[c] EXCEPT !.fresh = FALSE]]

\* _commands > 0: an explicit enable is in flight.
CommandInFlight ==
    \E c \in Callers : cmd[c].kind = "enable" /\ cmd[c].pc \in {"saving", "apply", "done"}

\* The step dispatches no write.
Quiet == sent' = NoWrite /\ cap' = cap

\* The step is about the operation in progress alone.
OnlyOp == Quiet /\ UNCHANGED <<phase, memory, saving, queues, cmd, held>>

\* io.write(0x3002, v) and the read-back of it: good if the register was read
\* and shows v.  A write that is not confirmed may have been applied or lost.
WritePower(v, good) == /\ sent' = [reg |-> "power", val |-> v]
                       /\ IF good THEN cap' = v
                                  ELSE "write" \in Faults /\ cap' \in {cap, v}

WriteCurrent(v, good) == /\ sent' = [reg |-> "current", val |-> v]
                         /\ cap' = cap
                         /\ good \/ "write" \in Faults

\* _update(**changes) by the holder of the lock: memory first, then the save.
Update(new) == /\ intent' = new
               /\ offered' = new
               /\ cmd' = Outdated
               /\ UNCHANGED <<pending, persisted, durable>>

(***************************************************************************)
(* Building blocks of the operations (the lock is held).                   *)
(***************************************************************************)

\* An await that decides nothing: a sleep, an acknowledgement, a read whose
\* answer only moves a timer.
Wait == /\ At("wait")
        /\ Then(<<>>)
        /\ OnlyOp

\* A fresh status frame; _note_telemetry.  The reason is added at the end of
\* the telemetry grace and removed by the second of two agreeing frames.
NoteTelemetry(f) ==
    \/ protect' = protect
    \/ ~Valid(f) /\ protect' = protect \cup {"telemetry"}
    \/ Valid(f) /\ protect' = protect \ {"telemetry"}

\* _observe up to _note_fault, and the reads of refresh, poll and observe.
ReadStep(step, f, todo) ==
    /\ At(step)
    /\ NoteTelemetry(f)
    /\ op' = IF step = "stopObs" THEN [op EXCEPT !.todo = todo \o Tail(@), !.stopEv = f]
                                  ELSE [op EXCEPT !.todo = todo \o Tail(@), !.ev = f]
    /\ Quiet
    /\ UNCHANGED <<phase, intent, released, awaitPlug, maxp, mismatches, saving, queues, cmd, held>>

Observe == \E f \in Frames :
    \/ ReadStep("preRead", f, <<"fault", "preJudge">>)
    \/ ReadStep("pausedRead", f, <<"fault", "pausedJudge">>)
    \/ ReadStep("confRead", f, <<"fault", "confJudge">>)
    \/ ReadStep("stopObs", f, <<"stopFault", "stopJudge">>)
    \/ ReadStep("obsRead", f, <<"fault", "session", "done">>)
    \/ ReadStep("pollRead", f, <<"fault", "session", "starting", "unplug", "done">>)
    \/ ReadStep("refRead", f, <<"fault", "session", "starting", "unplug", "wait", "decide">>)

\* Mutant: the newest cause wins.
NewestCause(comms) == comms

\* _latch_fault: a communication loss never weakens a permanent latch.
Cause(comms) == comms /\ (~intent.latched \/ intent.comms)

\* _latch_fault(comms): memory first, then one zero, then the save.
LatchFault(comms) ==
    LET keep  == Cause(comms)
        newly == ~intent.latched \/ keep # intent.comms
    IN  /\ intent' = IF newly THEN [intent EXCEPT !.latched = TRUE, !.comms = keep] ELSE intent
        /\ cmd' = IF newly THEN Outdated ELSE cmd
        /\ Then((IF intent.stopfb THEN <<>> ELSE <<"zero">>)
                \o (IF newly THEN <<"offer", "save">> ELSE <<>>))

\* _note_fault
NoteFault ==
    /\ At("fault") \/ At("stopFault")
    /\ IF Faulted(IF At("fault") THEN op.ev ELSE op.stopEv) /\ ~(intent.latched /\ ~intent.comms)
         THEN LatchFault(FALSE)
         ELSE Then(<<>>) /\ UNCHANGED <<intent, cmd>>
    /\ Quiet
    /\ UNCHANGED <<phase, protect, released, awaitPlug, maxp, mismatches, saving, queues, held>>

\* _latch_fault(comms=True)
LatchComms ==
    /\ At("latch")
    /\ LatchFault(TRUE)
    /\ Quiet
    /\ UNCHANGED <<phase, protect, released, awaitPlug, maxp, mismatches, saving, queues, held>>

\* The protective zero of _latch_fault: sent once, unchecked.
ProtectiveZero ==
    /\ At("zero")
    /\ \E good \in BOOLEAN : WritePower(0, good)
    /\ Then(<<"wait">>)
    /\ UNCHANGED <<phase, memory, saving, queues, cmd, held>>

\* _save_intent exports the intent of this moment.
Offer ==
    /\ At("offer")
    /\ offered' = intent
    /\ Then(<<>>)
    /\ Quiet
    /\ UNCHANGED <<phase, memory, pending, persisted, durable, queues, cmd, held>>

\* Mutant: a failed save is not remembered.
SaveEndsUnnoticed(ok) ==
    /\ ok \/ "save" \in Faults
    /\ durable' \in IF ok THEN {offered} ELSE {durable, offered}
    /\ pending' = FALSE
    /\ offered' = offered

\* The end of the await in _save_intent.  A save that failed or timed out may
\* have reached the disk all the same.
SaveEnds(ok) ==
    /\ ok \/ "save" \in Faults
    /\ durable' \in IF ok THEN {offered} ELSE {durable, offered}
    /\ pending' = ~ok
    /\ offered' = offered

\* The save inside an operation: of an _update or a latch ("save"), or the
\* retry at the start of a refresh ("resave").
SaveStep == \E ok \in BOOLEAN :
    /\ At("save") \/ At("resave")
    /\ SaveEnds(ok)
    /\ persisted' = IF At("save") THEN ok ELSE persisted
    /\ Then(<<>>)
    /\ Quiet
    /\ UNCHANGED <<phase, memory, queues, cmd, held>>

\* _revoke: withdraw the authorisation, then a confirmed zero.
Revoke ==
    /\ At("revoke")
    /\ Update([intent EXCEPT !.enabled = FALSE])
    /\ op' = [op EXCEPT !.todo = <<"save", "rzero">> \o Tail(@), !.tries = 0]
    /\ Quiet
    /\ UNCHANGED <<phase, protect, released, awaitPlug, maxp, mismatches, queues, held>>

\* One round of the unchecked _write_confirmed(0x3002, 0) of _revoke.
RevokeZero ==
    /\ At("rzero")
    /\ \E good \in BOOLEAN :
         /\ WritePower(0, good)
         /\ \/ good /\ op' = [op EXCEPT !.todo = <<"wait">> \o Tail(@), !.tries = 0]
            \/ ~good /\ op.tries < MaxTries
               /\ op' = [op EXCEPT !.todo = <<"wait", "rzero">> \o Tail(@), !.tries = @ + 1]
            \/ ~good /\ Then(<<"wait", "latch", "stopIf">>)
    /\ UNCHANGED <<phase, memory, saving, queues, cmd, held>>

\* _stop_if_drawing
StopIfDrawing ==
    \/ /\ At("stopIf")
       /\ Then(IF intent.stopfb THEN <<>> ELSE <<"stopIfRead">>)
       /\ OnlyOp
    \/ /\ At("stopIfRead")
       /\ \E f \in Frames :
            op' = [op EXCEPT !.todo = (IF Drawing(f) THEN <<"stop">> ELSE <<>>) \o Tail(@),
                             !.tries = 0]
       /\ OnlyOp

\* _stop_sequence, one round: 0x4001 Stop unless the user re-enabled meanwhile.
StopSend ==
    /\ At("stop")
    /\ IF ExplicitZero
         THEN /\ sent' = [reg |-> "stop", val |-> 2]
              /\ op' = [op EXCEPT !.todo = <<"stopObs">> \o Tail(@), !.seen = FALSE]
         ELSE /\ sent' = NoWrite
              /\ End("superseded")
    /\ UNCHANGED <<phase, memory, saving, queues, cmd, cap, held>>

\* _stop_sequence, after a frame: two agreeing stopped frames latch the Stop
\* fallback; the end of the overall deadline latches a permanent fault.
StopJudge ==
    LET stopped == Valid(op.stopEv) /\ op.stopEv.status \in STOPPED_STATUS /\ op.stopEv.pw = 0
        Round(todo, seen) == /\ op.tries < MaxTries
                             /\ op' = [op EXCEPT !.todo = todo \o Tail(@), !.seen = seen,
                                                 !.tries = @ + 1, !.stopEv = NoFrame]
                             /\ UNCHANGED <<intent, saving, cmd>>
    IN  /\ At("stopJudge")
        /\ \/ /\ stopped /\ op.seen
              /\ Update([intent EXCEPT !.stopfb = TRUE, !.comms = FALSE])
              /\ op' = [op EXCEPT !.todo = <<"save">> \o Tail(@), !.seen = FALSE, !.tries = 0,
                                  !.stopEv = NoFrame]
           \/ Round(<<"wait", "stopObs">>, stopped)
           \/ Round(<<"stop">>, FALSE)
           \/ /\ Update([intent EXCEPT !.latched = TRUE, !.comms = FALSE])
              /\ op' = [op EXCEPT !.todo = <<"save", "fail">>]
        /\ Quiet
        /\ UNCHANGED <<phase, protect, released, awaitPlug, maxp, mismatches, queues, held>>

(***************************************************************************)
(* _op_apply: put the latest intent on the wire and confirm it.            *)
(***************************************************************************)

\* The lock is acquired; _apply_locked reads the intent and derives the wire.
\* who: the caller that passed its revision, a spawned task or a correction.
StartApply(who) ==
    LET w == Wire
        todo == IF intent.stopfb THEN <<"stopIfRead", "ok">>
                ELSE (IF w.p > 0 THEN <<"pre">> ELSE <<>>)
                     \o (IF w.c # None THEN <<"cur">> ELSE <<>>)
                     \o (IF w.p # None THEN <<"pow">> ELSE <<>>)
                     \o <<"applied">>
    IN  /\ Free /\ phase # "down"
        /\ op' = [NoOp EXCEPT !.kind = "apply", !.by = who, !.todo = todo, !.wire = w,
                              !.check = TRUE, !.over = who \in Callers /\ ~cmd[who].fresh]
        /\ Quiet
        /\ UNCHANGED <<phase, memory, saving, cmd, held>>

ApplyForCaller(c) == /\ cmd[c].pc = "apply"
                     /\ StartApply(c)
                     /\ UNCHANGED queues

ApplySpawned == /\ spawned
                /\ StartApply("nobody")
                /\ spawned' = FALSE
                /\ UNCHANGED correction

ApplyCorrection == /\ correction = "queued"
                   /\ StartApply("correction")
                   /\ correction' = "running"
                   /\ UNCHANGED spawned

\* _check(wire): the loops of a command look at the latest intent before
\* every round and drop their work if it asks for something else.
CheckWire ==
    /\ \/ At("pre") /\ (IF Superseded THEN End("superseded") ELSE Then(<<"preRead">>))
       \/ At("paused") /\ (IF Superseded THEN End("superseded") ELSE Then(<<"pausedRead">>))
       \/ At("conf") /\ (IF Superseded THEN End("superseded") ELSE Then(<<"confRead">>))
    /\ OnlyOp

\* _abort_if_unsafe and the refusing statuses
Unsafe == \/ intent.latched
          \/ "telemetry" \in protect
          \/ Valid(op.ev) /\ op.ev.status \in REFUSING_STATUS

Withdraw == op' = [op EXCEPT !.todo = <<"revoke", "fail">>, !.ev = NoFrame]

Again(step) == /\ op.tries < MaxTries
               /\ op' = [op EXCEPT !.todo = <<"wait", step>> \o Tail(@), !.tries = @ + 1,
                                !.ev = NoFrame]

\* _preflight, after a frame
PreflightJudge ==
    /\ At("preJudge")
    /\ \/ Unsafe /\ Withdraw
       \/ ~Unsafe /\ Valid(op.ev) /\ op' = [op EXCEPT !.todo = Tail(@), !.tries = 0,
                                                                   !.ev = NoFrame]
       \/ ~Unsafe /\ ~Valid(op.ev) /\ (Again("pre") \/ Withdraw)
    /\ OnlyOp

\* _write_confirmed(0x3001), one round: check, dispatch, read back
ApplyCurrent ==
    /\ At("cur")
    /\ IF Superseded
         THEN End("superseded") /\ Quiet
         ELSE \E good \in BOOLEAN :
                /\ WriteCurrent(op.wire.c, good)
                /\ \/ good /\ op' = [op EXCEPT !.todo = <<"wait">> \o Tail(@), !.tries = 0]
                   \/ ~good /\ Again("cur")
                   \/ ~good /\ op' = [op EXCEPT !.todo = <<"wait", "latch", "fail">>]
    /\ UNCHANGED <<phase, memory, saving, queues, cmd, held>>

\* _write_confirmed(0x3002), one round
ApplyPower ==
    /\ At("pow")
    /\ IF Superseded
         THEN End("superseded") /\ Quiet
         ELSE \E good \in BOOLEAN :
                /\ WritePower(op.wire.p, good)
                /\ \/ good /\ op' = [op EXCEPT !.todo = <<"wait">> \o Tail(@), !.tries = 0,
                                               !.wrote = op.wire.p]
                   \/ ~good /\ Again("pow")
                   \/ ~good /\ op' = [op EXCEPT !.todo = <<"wait", "latch">>
                                        \o (IF op.wire.p = 0 THEN <<"stopIf">> ELSE <<>>)
                                        \o <<"fail">>]
    /\ UNCHANGED <<phase, memory, saving, queues, cmd, held>>

\* The writes are confirmed: what evidence does the command still need?
Applied ==
    /\ At("applied")
    /\ IF op.wire.p = 0
         THEN IF ExplicitZero THEN Then(<<"paused">>) ELSE End("confirmed")
         ELSE Then(<<"conf">>)
    /\ OnlyOp

\* _await_evidence of a pause: two paused frames, or the Stop sequence.
PausedJudge ==
    LET ok == Valid(op.ev) /\ op.ev.status \in PAUSED_STATUS /\ op.ev.pw = 0
    IN  /\ At("pausedJudge")
        /\ \/ ok /\ op.seen /\ End("confirmed")
           \/ /\ op.tries < MaxTries
              /\ op' = [op EXCEPT !.todo = <<"wait", "paused">>, !.seen = ok, !.tries = @ + 1,
                               !.ev = NoFrame]
           \/ op' = [op EXCEPT !.todo = <<"stop", "ok">>, !.seen = FALSE, !.tries = 0,
                               !.ev = NoFrame]
        /\ OnlyOp

\* _confirm_session, after a frame
ConfirmJudge ==
    LET unplugged == Valid(op.ev) /\ op.ev.cc = 0
    IN  /\ At("confJudge")
        /\ \/ Unsafe /\ Withdraw /\ UNCHANGED awaitPlug
           \/ ~Unsafe /\ unplugged /\ awaitPlug' = TRUE /\ End("staged")
           \/ ~Unsafe /\ SessionActive(op.ev) /\ awaitPlug' = FALSE /\ End("confirmed")
           \/ /\ ~Unsafe /\ ~unplugged /\ ~SessionActive(op.ev)
              /\ Again("conf") \/ Withdraw
              /\ UNCHANGED awaitPlug
        /\ Quiet
        /\ UNCHANGED <<phase, intent, protect, released, maxp, mismatches, saving, queues, cmd, held>>

\* The operation returns or raises.
Leave ==
    /\ \/ At("ok") /\ End("confirmed")
       \/ At("fail") /\ End("error")
    /\ OnlyOp

(***************************************************************************)
(* _op_refresh, _op_poll, _op_observe, _locked_read.                       *)
(***************************************************************************)

\* async_initialize or the refresh loop takes the lock: a pending save is retried first, then the
\* safety configuration if it is due.
StartRefresh ==
    /\ Free /\ phase \in {"init", "up"}
    /\ phase' = IF phase = "init" THEN "first" ELSE phase
    /\ \E due \in BOOLEAN :
         /\ due => "safety" \in protect
         /\ op' = [NoOp EXCEPT !.kind = "refresh",
                               !.todo = (IF pending THEN <<"resave">> ELSE <<>>)
                                        \o (IF due THEN <<"safety">> ELSE <<>>)
                                        \o <<"refRead">>]
    /\ offered' = IF pending THEN intent ELSE offered
    /\ Quiet
    /\ UNCHANGED <<memory, pending, persisted, durable, queues, cmd, held>>

StartPoll ==
    /\ Free /\ phase = "up"
    /\ op' = [NoOp EXCEPT !.kind = "poll", !.todo = <<"pollRead">>]
    /\ OnlyOp

\* _op_observe and _locked_read(REG_MAX_POWER), each on behalf of a command.
StartObserve(c) ==
    /\ Free /\ phase = "up"
    /\ \/ /\ cmd[c].pc = "observe"
          /\ op' = [NoOp EXCEPT !.kind = "observe", !.by = c, !.todo = <<"obsRead">>]
       \/ /\ cmd[c].pc = "reading"
          /\ op' = [NoOp EXCEPT !.kind = "read", !.by = c, !.todo = <<"maxRead">>]
    /\ OnlyOp

ReadMaxPower ==
    /\ At("maxRead")
    /\ \E v \in {DeviceMax} \cup (IF "maxread" \in Faults THEN {None} ELSE {}) :
         op' = [op EXCEPT !.todo = <<"done">>, !.wrote = v]
    /\ OnlyOp

\* _configure_safety: validity and fallback current, written and read back.
ConfigureSafety ==
    /\ At("safety")
    /\ \/ protect' = protect \ {"safety"}
       \/ "safety" \in Faults /\ protect' = protect
    /\ Then(<<>>)
    /\ Quiet
    /\ UNCHANGED <<phase, intent, released, awaitPlug, maxp, mismatches, saving, queues, cmd, held>>

\* _note_session: an enabled intent ends with the session it authorised.
NoteSession ==
    LET f == op.ev
        watched == /\ Valid(f) /\ intent.enabled /\ ~ExplicitZero
                   /\ ~intent.stopfb /\ ~CommandInFlight
    IN  /\ At("session")
        /\ \/ /\ ~watched
              /\ Then(<<>>)
              /\ UNCHANGED <<intent, awaitPlug, saving, cmd, spawned>>
           \/ /\ watched /\ (SessionActive(f) \/ awaitPlug)
              /\ awaitPlug' = (awaitPlug /\ f.cc = 0)
              /\ spawned' = (spawned \/ (~SessionActive(f) /\ f.cc = 1))
              /\ Then(<<>>)
              /\ UNCHANGED <<intent, saving, cmd>>
           \/ /\ watched /\ ~SessionActive(f) /\ ~awaitPlug
              /\ Update([intent EXCEPT !.enabled = FALSE])
              /\ Then(<<"save">>)
              /\ UNCHANGED <<awaitPlug, spawned>>
        /\ Quiet
        /\ UNCHANGED <<phase, protect, released, maxp, mismatches, correction, held>>

\* _note_starting: a session stuck in status 2 is revoked at the timeout.
NoteStarting ==
    LET f == op.ev
        stuck == /\ Valid(f) /\ f.status = 2 /\ f.pw = 0
                 /\ intent.enabled /\ ~ExplicitZero /\ ~intent.stopfb
    IN  /\ At("starting")
        /\ \/ Then(<<>>)
           \/ stuck /\ Then(<<"revoke">>)
        /\ OnlyOp

\* Mutant: any session is adopted.
AdoptsAny(f) == SessionActive(f)

\* _track_unplug: only a session after a release is adopted.
Adopts(f) == released /\ SessionActive(f)

\* _track_unplug: the second of two unplugged frames releases a user pause;
\* the next session after the release is adopted.
TrackUnplug ==
    LET f == op.ev
        userPause == ExplicitZero /\ ~intent.latched /\ ~intent.stopfb
    IN  /\ At("unplug")
        /\ \/ /\ ~userPause
              /\ released' = FALSE
              /\ Then(<<>>)
              /\ UNCHANGED <<intent, saving, cmd, spawned, held>>
           \/ /\ userPause /\ Adopts(f)
              /\ released' = FALSE
              /\ Update([intent EXCEPT !.enabled = TRUE])
              /\ spawned' = TRUE
              /\ Then(<<"save">>)
              /\ UNCHANGED held
           \/ /\ userPause /\ ~Adopts(f)
              /\ \/ released' = released /\ held' = held
                 \/ Valid(f) /\ f.cc = 0 /\ released' = TRUE /\ held' = "no"
              /\ Then(<<>>)
              /\ UNCHANGED <<intent, saving, cmd, spawned>>
        /\ Quiet
        /\ UNCHANGED <<phase, protect, awaitPlug, maxp, mismatches, correction>>

\* _op_refresh decides what to write: the wire of the latest intent, but a
\* positive value only if the frame shows an active session, nothing on an
\* invalid frame or during a recovery hold, else zero.
Decide ==
    LET w == Wire
        hold == /\ protect = {"telemetry"} /\ ~ExplicitZero /\ ~intent.stopfb /\ ~released
                /\ intent.power >= MIN_ENABLE_POWER_RAW /\ SessionActive(op.ev)
        Write(p, c, check) ==
            op' = [op EXCEPT !.todo = (IF c # None THEN <<"rcur">> ELSE <<>>)
                                      \o (IF p # None THEN <<"rpow">> ELSE <<>>) \o <<"refEnd">>,
                             !.wire = [p |-> p, c |-> c], !.check = check]
    IN  /\ At("decide")
        /\ \/ w.p > 0 /\ SessionActive(op.ev) /\ Write(w.p, w.c, TRUE)
           \/ w.p > 0 /\ ~Valid(op.ev) /\ Write(None, None, FALSE)
           \/ w.p > 0 /\ Valid(op.ev) /\ ~SessionActive(op.ev) /\ Write(0, None, FALSE)
           \/ w.p <= 0 /\ hold /\ Write(None, None, FALSE)
           \/ w.p <= 0 /\ Write(w.p, w.c, TRUE)
        /\ OnlyOp

\* The writes of a refresh: one attempt each; a superseded one skips the rest.
RefreshWrite ==
    /\ At("rcur") \/ At("rpow")
    /\ IF op.check /\ Superseded
         THEN op' = [op EXCEPT !.todo = <<"refEnd">>, !.seen = FALSE] /\ Quiet
         ELSE \E good \in BOOLEAN :
                /\ IF At("rcur") THEN WriteCurrent(op.wire.c, good)
                                 ELSE WritePower(op.wire.p, good)
                /\ op' = [op EXCEPT !.todo = <<"wait">> \o Tail(@), !.seen = TRUE,
                                    !.bad = @ \/ ~good,
                                    !.zero = At("rpow") /\ op.wire.p = 0 /\ good]
    /\ UNCHANGED <<phase, memory, saving, queues, cmd, held>>

\* _note_readback: a refresh that wrote and was not superseded counts its
\* mismatches.  Two or more that have lasted the expiry window latch a comms
\* fault, in a later refresh that writes nothing as well.
RefreshEnd ==
    LET n == IF ~op.seen THEN mismatches
             ELSE IF ~op.bad THEN 0
             ELSE IF mismatches = 0 THEN 1 ELSE 2
    IN  /\ At("refEnd")
        /\ \/ mismatches' = n /\ Then(<<"health", "done">>)
           \/ n = 2 /\ mismatches' = 0 /\ Then(<<"latch", "health", "done">>)
        /\ Quiet
        /\ UNCHANGED <<phase, intent, protect, released, awaitPlug, maxp, saving, queues, cmd,
                       held>>

\* _note_link_health: a comms latch is released, still paused, once the link
\* has been healthy for COMMS_LATCH_RELEASE_S.
NoteLinkHealth ==
    LET f == op.ev
        healthy == /\ intent.latched /\ intent.comms /\ op.zero
                   /\ Valid(f) /\ ~Drawing(f) /\ f.status # FAULT_STATUS /\ f.fault = 0
    IN  /\ At("health")
        /\ \/ Then(<<>>) /\ UNCHANGED <<intent, saving, cmd>>
           \/ /\ healthy
              /\ Update([intent EXCEPT !.enabled = FALSE, !.latched = FALSE, !.comms = FALSE])
              /\ Then(<<"save">>)
        /\ Quiet
        /\ UNCHANGED <<phase, protect, released, awaitPlug, maxp, mismatches, queues, held>>

\* _maybe_correct, after the lock is released: charging while intent says off.
NeedsCorrection ==
    /\ op.kind \in {"refresh", "poll"} /\ op.res = "none"
    /\ ~released /\ Drawing(op.ev) /\ ExplicitZero /\ correction = "none"

\* Mutant: the result is not handed to the caller.
DeliveredNothing(c) == cmd[c]

\* What the operation's caller gets; a pause that is not saved is an error.
Delivered(c) ==
    CASE op.kind = "apply" ->
           [cmd[c] EXCEPT !.pc = "done", !.wrote = op.wrote,
              !.res = IF op.res = "error" \/ (pending /\ cmd[c].kind = "pause") THEN "error"
                      ELSE IF op.over THEN "superseded" ELSE op.res]
      [] op.kind = "observe" ->
           [cmd[c] EXCEPT !.pc = IF SessionActive(op.ev) /\ ~intent.latched
                                   THEN "apply" ELSE "unseen"]
      [] OTHER -> [cmd[c] EXCEPT !.pc = "read", !.val = op.wrote]

\* The lock is released.
Done ==
    /\ At("done")
    /\ op' = NoOp
    /\ cmd' = [c \in Callers |-> IF c = op.by THEN Delivered(c) ELSE cmd[c]]
    /\ correction' = IF op.by = "correction" THEN "none"
                     ELSE IF NeedsCorrection THEN "queued" ELSE correction
    /\ Quiet
    /\ UNCHANGED <<phase, memory, saving, spawned, held>>

(***************************************************************************)
(* User commands.  They run outside the lock, whenever the event loop is   *)
(* free.                                                                   *)
(***************************************************************************)

Idle(c) == phase = "up" /\ Suspended /\ cmd[c].pc = "idle"

Resumes(c, pc) == phase # "down" /\ Suspended /\ cmd[c].pc = pc

\* The start of _update on behalf of a command: memory, then the save.
CommandUpdate(c, kind, v, new) ==
    /\ intent' = new
    /\ offered' = new
    /\ cmd' = [Outdated EXCEPT ![c] =
                 [NoCmd EXCEPT !.kind = kind, !.val = v, !.pc = "saving",
                               !.before = IF kind = "pause" THEN Paused ELSE intent,
                               !.late = cmd[c].late]]
    /\ Quiet
    /\ UNCHANGED <<phase, protect, released, awaitPlug, maxp, mismatches, pending, persisted, durable,
                   queues, op>>

\* async_pause.  An enable that has not changed the intent yet is late now.
Pause(c) ==
    /\ Idle(c)
    /\ intent' = [intent EXCEPT !.enabled = FALSE]
    /\ offered' = intent'
    /\ cmd' = [d \in Callers |->
                 IF d = c THEN [NoCmd EXCEPT !.kind = "pause", !.pc = "saving"]
                 ELSE [Outdated[d] EXCEPT !.late = @ \/ cmd[d].pc \in {"reading", "read"}]]
    /\ held' = IF released THEN "late" ELSE "pause"
    /\ Quiet
    /\ UNCHANGED <<phase, protect, released, awaitPlug, maxp, mismatches, pending, persisted, durable,
                   queues, op>>

\* Mutant: the cause of the latch is not cleared with it.
EnablingKeepsCause(v) == [intent EXCEPT !.enabled = TRUE, !.power = v, !.latched = FALSE,
                                        !.stopfb = FALSE]

\* An explicit enable authorises v and clears every latch.
Enabling(v) == [intent EXCEPT !.enabled = TRUE, !.power = v, !.latched = FALSE,
                              !.stopfb = FALSE, !.comms = FALSE]

\* async_enable: refused while the safety configuration is unconfirmed; with
\* no saved power the device maximum is read first, through the lock.
Enable(c) ==
    /\ Idle(c)
    /\ "safety" \notin protect
    /\ \/ /\ intent.power # None
          /\ CommandUpdate(c, "enable", intent.power, Enabling(intent.power))
          /\ held' = "no"
       \/ /\ intent.power = None
          /\ cmd' = [cmd EXCEPT ![c] = [NoCmd EXCEPT !.kind = "enable", !.pc = "reading"]]
          /\ Quiet
          /\ UNCHANGED <<phase, memory, saving, queues, op, held>>

\* async_enable once the device maximum was read.
EnableAtMax(c) ==
    /\ Resumes(c, "read")
    /\ \/ /\ cmd[c].val # None
          /\ CommandUpdate(c, "enable", cmd[c].val, Enabling(cmd[c].val))
          /\ held' = "no"
       \/ /\ cmd[c].val = None
          /\ cmd' = [cmd EXCEPT ![c].pc = "done", ![c].res = "error"]
          /\ Quiet
          /\ UNCHANGED <<phase, memory, saving, queues, op, held>>

\* async_set_power, async_set_current: _change
SetPower(c) == \E v \in Powers :
    /\ Idle(c)
    /\ maxp # None => v <= maxp
    /\ CommandUpdate(c, "power", v, [intent EXCEPT !.power = v])
    /\ UNCHANGED held

SetCurrent(c) == \E v \in Currents :
    /\ Idle(c)
    /\ CommandUpdate(c, "current", v, [intent EXCEPT !.current = v])
    /\ UNCHANGED held

\* _update_positive after a failed save: the fields the command changed are
\* put back, unless something newer replaced them.
PutBack(now, new, old) == IF now = new THEN old ELSE now

Undone(c) ==
    LET b == cmd[c].before
        v == cmd[c].val
    IN  CASE cmd[c].kind = "enable" ->
               [intent EXCEPT !.enabled = PutBack(@, TRUE, b.enabled),
                              !.power   = PutBack(@, v, b.power),
                              !.latched = PutBack(@, FALSE, b.latched),
                              !.stopfb  = PutBack(@, FALSE, b.stopfb),
                              !.comms   = PutBack(@, FALSE, b.comms)]
          [] cmd[c].kind = "power" -> [intent EXCEPT !.power = PutBack(@, v, b.power)]
          [] OTHER -> [intent EXCEPT !.current = PutBack(@, v, b.current)]

\* Where a command goes after its save: _update returned the latest intent,
\* so fresh is about the revision of this moment.
AfterSave(c, ok) ==
    LET Goto(pc, r) == [cmd[c] EXCEPT !.pc = pc, !.res = r, !.fresh = TRUE, !.before = Paused]
        live == intent.enabled /\ ~intent.stopfb /\ ~intent.latched
    IN  IF cmd[c].kind \in {"pause", "enable"} \/ (live /\ Wire.p <= 0) THEN Goto("apply", "none")
        ELSE IF live THEN Goto("observe", "none")
        ELSE Goto("done", IF ok THEN "staged" ELSE "error")

\* The save of a command ends; _update_positive undoes an unsaved rise.
CommandSaved(c) == \E ok \in BOOLEAN :
    LET undo == /\ ~ok /\ cmd[c].kind # "pause"
                /\ RaisesOutput(cmd[c].before, intent)
    IN  /\ Resumes(c, "saving")
        /\ SaveEnds(ok)
        /\ persisted' = ok
        /\ IF undo
             THEN /\ intent' = Undone(c)
                  /\ cmd' = [Outdated EXCEPT ![c] = [cmd[c] EXCEPT !.pc = "done", !.res = "error"]]
             ELSE /\ intent' = intent
                  /\ cmd' = [cmd EXCEPT ![c] = AfterSave(c, ok)]
        /\ Quiet
        /\ UNCHANGED <<phase, protect, released, awaitPlug, maxp, mismatches, queues, op, held>>

\* _change when the fresh frame showed no session: the value is only staged.
Stage(c) ==
    /\ Resumes(c, "unseen")
    /\ cmd' = [cmd EXCEPT ![c].pc = "done",
                          ![c].res = IF intent.latched \/ ~persisted THEN "error" ELSE "staged"]
    /\ Quiet
    /\ UNCHANGED <<phase, memory, saving, queues, op, held>>

\* The command returns to its caller.
Return(c) ==
    /\ Resumes(c, "done")
    /\ cmd' = [cmd EXCEPT ![c] = NoCmd]
    /\ Quiet
    /\ UNCHANGED <<phase, memory, saving, queues, op, held>>

\* The caller is cancelled: a save is abandoned, queued or running work of
\* the controller goes on without it (_run shields it).
Cancel(c) ==
    /\ "cancel" \in Faults
    /\ phase # "down" /\ Suspended /\ cmd[c].pc \notin {"idle", "done"}
    /\ cmd' = [cmd EXCEPT ![c] = NoCmd]
    /\ durable' \in IF cmd[c].pc = "saving" THEN {durable, offered} ELSE {durable}
    /\ op' = IF op.by = c THEN [op EXCEPT !.by = "nobody"] ELSE op
    /\ spawned' = (spawned \/ (cmd[c].pc = "apply" /\ op.by # c))
    /\ Quiet
    /\ UNCHANGED <<phase, memory, pending, persisted, offered, correction, held>>

(***************************************************************************)
(* Start, crash, charger.                                                  *)
(***************************************************************************)

\* Mutant: the saved record is taken as it is.
RestoredAsSaved(rec, f, live, max) == rec

\* async_initialize: the intent restored from a saved record, given a status
\* frame f, the cap register as read (None: unreadable) and 0x1011 as read.
Restored(rec, f, live, max) ==
    LET first == rec = FirstInstall
        power == IF ~first THEN rec.power
                 ELSE IF ~SessionActive(f) THEN None
                 ELSE IF max # None /\ MIN_ENABLE_POWER_RAW <= live /\ live <= max THEN live ELSE 0
        kept == IF first THEN SessionActive(f)
                ELSE /\ rec.enabled /\ rec.power # None /\ SessionActive(f)
                     /\ ~(rec.power >= MIN_ENABLE_POWER_RAW /\ live = 0)
        base == IF first THEN Paused ELSE [rec EXCEPT !.comms = @ /\ rec.latched]
    IN  IF max # None /\ power > max
          THEN [base EXCEPT !.enabled = FALSE, !.power = None]
          ELSE [base EXCEPT !.enabled = kept, !.power = power]

\* async_initialize up to its first save: nothing else can run before it.
Initialize == \E f \in Frames, live \in {cap, None}, max \in {DeviceMax, None}, safe \in BOOLEAN :
    /\ phase = "down"
    /\ ~safe => "safety" \in Faults
    /\ live = None \/ max = None => "maxread" \in Faults
    /\ phase' = "init"
    /\ maxp' = max
    /\ protect' = IF safe THEN {} ELSE {"safety"}
    /\ intent' = Restored(durable, f, live, max)
    /\ offered' = intent'
    /\ op' = [NoOp EXCEPT !.kind = "init", !.todo = <<"save", "done">>]
    /\ Quiet
    /\ UNCHANGED <<released, awaitPlug, mismatches, pending, persisted, durable, queues, cmd,
                   held>>

\* async_initialize waits for the first refresh and for its correction.
InitializeEnds ==
    /\ phase = "first" /\ Free /\ correction = "none"
    /\ phase' = "up"
    /\ Quiet
    /\ UNCHANGED <<memory, saving, queues, op, cmd, held>>

SaveInFlight == \/ At("save") \/ At("resave")
                \/ \E c \in Callers : cmd[c].pc = "saving"

\* The process dies: a save in flight may or may not have reached the disk.
\* A pause stands over the crash only if it is the record on disk.
Crash ==
    /\ "crash" \in Faults /\ phase # "down"
    /\ phase' = "down"
    /\ durable' \in IF SaveInFlight THEN {durable, offered} ELSE {durable}
    /\ intent' = Paused /\ offered' = Paused /\ protect' = {} /\ maxp' = None /\ mismatches' = 0
    /\ released' = FALSE /\ awaitPlug' = FALSE
    /\ pending' = FALSE /\ persisted' = TRUE
    /\ spawned' = FALSE /\ correction' = "none"
    /\ op' = NoOp
    /\ cmd' = [c \in Callers |-> NoCmd]
    /\ held' = IF durable' # FirstInstall /\ ~durable'.enabled THEN held ELSE "no"
    /\ Quiet

\* The firmware lets a cap expire and falls back to its own.
CapExpires ==
    /\ "expiry" \in Faults /\ Suspended
    /\ cap' = DeviceMax
    /\ sent' = NoWrite
    /\ UNCHANGED <<phase, memory, saving, queues, op, cmd, held>>

Init ==
    /\ phase = "down"
    /\ intent = Paused /\ offered = Paused /\ durable \in Saved
    /\ protect = {} /\ released = FALSE /\ awaitPlug = FALSE /\ maxp = None /\ mismatches = 0
    /\ pending = FALSE /\ persisted = TRUE
    /\ spawned = FALSE /\ correction = "none"
    /\ op = NoOp
    /\ cmd = [c \in Callers |-> NoCmd]
    /\ cap = DeviceMax /\ sent = NoWrite /\ held = "no"

\* A step of the operation that holds the lock.
OpStep ==
    \/ Wait \/ Observe \/ NoteFault \/ LatchComms \/ ProtectiveZero \/ Offer \/ SaveStep
    \/ Revoke \/ RevokeZero \/ StopIfDrawing \/ StopSend \/ StopJudge
    \/ CheckWire \/ PreflightJudge \/ ApplyCurrent \/ ApplyPower \/ Applied
    \/ PausedJudge \/ ConfirmJudge \/ Leave
    \/ ReadMaxPower \/ ConfigureSafety \/ NoteSession \/ NoteStarting \/ TrackUnplug
    \/ Decide \/ RefreshWrite \/ RefreshEnd \/ NoteLinkHealth \/ Done

StartStep ==
    \/ StartRefresh \/ StartPoll \/ ApplySpawned \/ ApplyCorrection
    \/ \E c \in Callers : ApplyForCaller(c) \/ StartObserve(c)

CommandStep(c) ==
    \/ Pause(c) \/ Enable(c) \/ EnableAtMax(c) \/ SetPower(c) \/ SetCurrent(c)
    \/ CommandSaved(c) \/ Stage(c) \/ Return(c) \/ Cancel(c)

Next ==
    \/ OpStep \/ StartStep
    \/ \E c \in Callers : CommandStep(c)
    \/ Initialize \/ InitializeEnds \/ Crash \/ CapExpires

Spec == Init /\ [][Next]_vars

(***************************************************************************)
(* Properties.                                                             *)
(***************************************************************************)

Ops == [kind : {"none", "init", "apply", "refresh", "poll", "observe", "read"},
        by : Callers \cup {"nobody", "correction"},
        todo : Seq(Steps), wire : [p : Power, c : Current], check : BOOLEAN,
        ev : Frame, stopEv : Frame, seen : BOOLEAN, bad : BOOLEAN, zero : BOOLEAN, tries : Nat,
        over : BOOLEAN, wrote : Power, res : Results]

Cmds == [kind : {"none", "pause", "enable", "power", "current"},
         val : Power \cup Current,
         pc : {"idle", "reading", "read", "saving", "observe", "unseen", "apply", "done"},
         before : Intent, fresh : BOOLEAN, late : BOOLEAN, wrote : Power, res : Results]

\* Every variable keeps its shape: the controller's memory (controller.py
\* ChargingController.__init__), the operation and the commands in progress.
TypeOK ==
    /\ phase \in {"down", "init", "first", "up"}
    /\ intent \in Intent /\ offered \in Intent
    /\ durable \in Intent \cup {FirstInstall}
    /\ protect \subseteq {"telemetry", "safety"}
    /\ released \in BOOLEAN /\ awaitPlug \in BOOLEAN /\ maxp \in {DeviceMax, None}
    /\ mismatches \in {0, 1, 2}
    /\ pending \in BOOLEAN /\ persisted \in BOOLEAN
    /\ spawned \in BOOLEAN /\ correction \in {"none", "queued", "running"}
    /\ op \in Ops
    /\ cmd \in [Callers -> Cmds]
    /\ cap \in Power
    /\ sent \in [reg : {"none", "power", "current", "stop"}, val : Power \cup Current \cup {2}]
    /\ held \in {"no", "pause", "late"}

\* A latch has a comms cause only while it is a latch, in memory, in the record
\* handed to the storage and in the fields an undo would put back: an intent
\* that is not latched never carries a cause that a later hard fault would be
\* released by (_latch_fault, _stop_sequence, _update_positive, _parse_saved).
Latching(i) == i.comms => i.latched

CommsCauseIsALatch ==
    Latching(intent) /\ Latching(offered) /\ \A c \in Callers : Latching(cmd[c].before)

\* A user pause holds: until an enable is accepted or the cable was seen
\* unplugged, neither an observation, an undo of a failed save nor a restart
\* makes the intent enabled again, and no positive cap is dispatched.
PauseHolds == held = "pause" => ~intent.enabled /\ ~(sent.reg = "power" /\ sent.val > 0)

\* A positive cap or a current is dispatched only when it is what the LATEST
\* intent asks for at that very moment, with no latch, no protective reason,
\* no Stop fallback and no released pause (_send, _check).
OnlyTheLatestWire ==
    /\ sent.reg = "power" /\ sent.val > 0 =>
         ~ExplicitZero /\ ~intent.stopfb /\ ~released /\ protect = {} /\ sent.val = intent.power
    /\ sent.reg = "current" =>
         ~ExplicitZero /\ ~intent.stopfb /\ ~released /\ protect = {} /\ sent.val = intent.current

\* After a Stop fallback every cap and current write is suppressed until an
\* explicit enable: none is dispatched, whatever path it comes from.
StopFallbackIsSilent == intent.stopfb => sent.reg \notin {"power", "current"}

\* A standing pause whose save is neither pending nor in flight is the record
\* a restart would load (async_pause reports "pause applied but not saved"
\* otherwise).
PauseIsDurable ==
    held = "pause" /\ phase = "up" /\ ~pending /\ ~SaveInFlight =>
        durable # FirstInstall /\ ~durable.enabled

\* Some command accepted an enable in this step.
EnableAccepted == \E c \in Callers :
    cmd'[c].kind = "enable" /\ cmd'[c].pc = "saving" /\ cmd[c].pc # "saving"

\* A permanent fault latch is left only by an explicit enable (or with the
\* process), and is never weakened to one that a healthy link releases; a
\* latch that a healthy link does release leaves charging paused.
FaultLatchIsSticky == [][
    intent.latched /\ ~EnableAccepted /\ phase' # "down" =>
       \/ intent'.latched /\ (intent'.comms => intent.comms)
       \/ intent.comms /\ ~intent'.enabled]_vars

(***************************************************************************)
(* What the controller promises (ChargeAuthority) and how its state keeps  *)
(* the promise.                                                            *)
(***************************************************************************)

\* An accepted enable waits for its save.
Asked == \E c \in Callers : cmd[c].kind = "enable" /\ cmd[c].pc = "saving"

\* A pause that came after the release of an older one does not stand ("late").
Authority == IF held = "pause" THEN "off"
             ELSE IF phase = "down" THEN "down"
             ELSE IF intent.enabled THEN "on"
             ELSE IF released THEN "free" ELSE "none"

\* What is authorised at this moment, said without _wire: nothing while anything
\* holds charging back.
Level == IF ExplicitZero \/ intent.stopfb \/ released \/ protect # {} \/ intent.power = None
           THEN 0 ELSE intent.power

Promise == INSTANCE ChargeAuthority WITH
             Levels <- Powers \cup {0, DeviceMax},
             authority <- Authority, level <- Level, asked <- Asked,
             given <- IF sent.reg = "power" /\ sent.val > 0 THEN sent.val ELSE 0

\* The controller keeps its promise: whatever commands, polls, failed saves, lost
\* writes and restarts do, authority is gained only in the four ways of
\* ChargeAuthority and no cap but the one authorised then reaches the charger.
KeepsThePromise == Promise!Spec

(***************************************************************************)
(* Liveness.  Every save is bounded by a timeout and every retry loop by a *)
(* deadline, the event loop runs the tasks that are ready in turn and the  *)
(* asyncio lock is FIFO: no task waits for ever while others go round.     *)
(***************************************************************************)

Fairness ==
    /\ WF_vars(Initialize) /\ WF_vars(InitializeEnds) /\ WF_vars(OpStep)
    /\ SF_vars(StartRefresh) /\ SF_vars(ApplySpawned) /\ SF_vars(ApplyCorrection)
    /\ \A c \in Callers :
         /\ SF_vars(ApplyForCaller(c)) /\ SF_vars(StartObserve(c))
         /\ SF_vars(EnableAtMax(c) \/ CommandSaved(c) \/ Stage(c) \/ Return(c))

FairSpec == Spec /\ Fairness

\* A pause reaches the charger: over a link that loses nothing the zero cap
\* is in the charger in the end, or Stop was used, or the pause was lifted;
\* a save that keeps failing does not hold it back (_save_intent: never
\* blocks protective writes).
PauseReachesCharger == held = "pause" ~> (cap = 0 \/ held # "pause" \/ intent.stopfb)

\* Every command comes back to its caller: no task waits for the lock, a save
\* or an answer for ever, whatever the refresh loop and the polls do.
CommandsReturn == \A c \in Callers : cmd[c].pc # "idle" ~> cmd[c].pc = "idle"

(***************************************************************************)
(* Claims of the code's comments that it does not keep.                    *)
(***************************************************************************)

\* _update_positive: "unsaved permission never reaches the wire".
UnsavedStaysOffTheWire ==
    sent.reg = "power" /\ sent.val > 0 =>
        durable # FirstInstall /\ durable.enabled /\ durable.power >= sent.val

\* _op_apply: a command is "never confirmed for a value it did not request":
\* a confirmed pause observed no positive cap, a confirmed limit no other one.
ConfirmedAsRequested == \A c \in Callers :
    cmd[c].pc = "done" /\ cmd[c].res = "confirmed" =>
        /\ cmd[c].kind = "pause" => cmd[c].wrote <= 0
        /\ cmd[c].kind = "power" => cmd[c].wrote \in {cmd[c].val, 0, None}

\* "A write counts as applied only after a fresh read of the register issued
\* after the write": a confirmed command wrote the cap and read it back, or
\* the charger is kept stopped by the Stop fallback.
ConfirmedIsWritten == \A c \in Callers :
    cmd[c].pc = "done" /\ cmd[c].res = "confirmed" => cmd[c].wrote # None \/ intent.stopfb

\* _stop_sequence: "user re-enabled meanwhile: do not stop".  The fallback
\* is only latched over an intent that asks for no charging.
StopFallbackMeansOff == intent.stopfb => ExplicitZero

\* _persist_pending: "Latest intent not yet durable; retried from the refresh
\* loop".  At rest, an intent that is not on disk is marked pending.
DurableOrPending ==
    phase = "up" /\ Free /\ ~SaveInFlight /\ ~pending => durable = intent

\* SPEC 6: "New off intent invalidates queued positive work immediately".  An
\* enable that a later pause overtook is not carried out.
LateEnableIsDropped == \A c \in Callers : ~(cmd[c].late /\ cmd[c].pc = "saving")

\* _track_unplug: two unplugged frames release a pause, and "while the cable
\* stays plugged a paused intent is never resumed".
EveryPauseHolds == held # "no" => ~intent.enabled

===============================================================================
