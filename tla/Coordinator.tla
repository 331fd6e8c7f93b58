---------------------------- MODULE Coordinator ----------------------------
(***************************************************************************)
(* The polling coordinator (coordinator.py), the switch that drives it     *)
(* (switch.py) and the life cycle of the entry (__init__.py).  A step runs *)
(* from one await to the next: mem is the memory of the process, and the   *)
(* operators on it are the code between two awaits.                        *)
(*                                                                         *)
(* Abstractions                                                            *)
(*  - Home Assistant's coordinator (external) does not keep the scheduled  *)
(*    refresh and the one of a service call apart; both publish at their   *)
(*    end, and a refresh after the shutdown does nothing.                  *)
(*  - The controller (external) takes commands and answers polls; its      *)
(*    intent follows the last command.                                     *)
(*  - A save is one write to its store (external, first in, first out):    *)
(*    Storage has its files.  One that is cut off may have been written.   *)
(*  - The lifetime counter stands for the energy data, after the guard:    *)
(*    Energy has how it gets there.                                        *)
(***************************************************************************)
EXTENDS Session, Sequences

CONSTANTS
    Switches,         \* service calls that may run at a time
    MaxReadFailures,  \* MAX_STATUS_READ_FAILURES
    Faults,           \* what may go wrong: a subset of FaultKinds
    Totals,           \* what the lifetime counter may show; None: no plausible reading
    MaxDown,          \* bound: times the process dies or the entry is reloaded
    MaxFails          \* bound: saves that fail

FaultKinds == {"crash", "read"}
Poller == "poll"
Unloader == "unload"
Tasks == Switches \cup {Poller, Unloader}

ASSUME SwitchesAssumption == Switches \cap {Poller, Unloader} = {}
ASSUME FaultsAssumption   == Faults \subseteq FaultKinds
ASSUME TotalsAssumption   == Totals \subseteq Nat \cup {None}
ASSUME BoundsAssumption   == MaxDown \in Nat /\ MaxFails \in Nat /\ MaxReadFailures \in Nat

VARIABLES
    mem,      \* memory: trackers, published data, tasks, store queues
    phase,    \* of the entry: "setup", "running", "unloading", "down" (not loaded; what
              \* was left behind still runs) or "dead" (the process died)
    disk,     \* the saved session record and energy baseline
    intent,   \* controller.intent_enabled
    born,     \* history: sessions started
    down,     \* history: crashes and reloads
    fails,    \* history: saves that failed
    failed,   \* history: the last session save failed
    lossy,    \* history: a start came after a session save that failed or was cut off
    userEnded \* history: a user pause ended the last session and nothing re-armed it

vars == <<mem, phase, disk, intent, born, down, fails, failed, lossy, userEnded>>

NoData == [total |-> None, active |-> FALSE]
Idle == [pc |-> "idle", job |-> "none", data |-> NoData]
NoRecord == Export(NewSession)

\* FoxESSChargerCoordinator.__init__ and restore, with the storage's _written.
Fresh(x, baseline, fired) ==
    [s |-> Restore(x, fired), energy |-> baseline, energyDirty |-> FALSE,
     data |-> NoData, polled |-> FALSE, failures |-> 0, written |-> <<>>,
     task |-> [t \in Tasks |-> Idle],
     sessions |-> <<>>, energies |-> <<>>]

(***************************************************************************)
(* Code between two awaits, as operators on the memory m for a task t.     *)
(* sessions and energies are the saves that wait at the two stores.        *)
(***************************************************************************)
Ends(m, t) == [m EXCEPT !.task[t] = Idle]

SaveSession(m, t) ==
    [m EXCEPT !.task[t].pc = "session",
              !.sessions = Append(@, [by |-> t, out |-> Export(m.s)])]

SaveEnergy(m, t) ==
    [m EXCEPT !.task[t].pc = "energy", !.energies = Append(@, [by |-> t, out |-> m.energy])]

Forced(m, t) == m.task[t].job = "flush"

\* async_user_paused: data is the snapshot it publishes after its saves.
UserPaused(m, t) ==
    LET s == EndForUserPause(m.s)
    IN  IF ~Active(m.s) THEN Ends(m, t)
        ELSE SaveSession([m EXCEPT !.s = s,
                                   !.task[t].job = "user",
                                   !.task[t].data = [m.data EXCEPT !.active = FALSE]], t)

\* What follows a refresh: turn_off closes the session of a confirmed pause.
AfterRefresh(m, t) == IF m.task[t].job = "paused" THEN UserPaused(m, t) ELSE Ends(m, t)

\* The saves are over: a refresh or a user pause publishes its data.
Publish(m, t) ==
    IF Forced(m, t) THEN Ends(m, t)
    ELSE AfterRefresh([m EXCEPT !.data = m.task[t].data, !.polled = TRUE], t)

\* Mutant: data that brings no new energy is not published.
AfterSessionSilent(m, t) ==
    IF Forced(m, t) \/ m.energyDirty THEN SaveEnergy(m, t) ELSE Ends(m, t)

\* _async_persist after the session save.
AfterSession(m, t) ==
    IF Forced(m, t) \/ m.energyDirty THEN SaveEnergy(m, t) ELSE Publish(m, t)

\* _async_persist: a record that was written last is not written again (_save).
Persist(m, t) ==
    IF ~Forced(m, t) /\ ~m.s.dirty THEN AfterSession(m, t)
    ELSE IF m.written = <<Export(m.s)>> THEN AfterSession([m EXCEPT !.s.dirty = FALSE], t)
    ELSE SaveSession(m, t)

\* _async_update_data with a fresh status block; energy is what the guard makes of the
\* counter.
Observed(m, t, status, energy) ==
    LET s == Update(m.s, status, intent, energy, born + 1)
    IN  Persist([m EXCEPT !.failures = 0,
                          !.energy = energy, !.energyDirty = @ \/ energy # m.energy,
                          !.s = s,
                          !.task[t].data = [total |-> energy, active |-> Active(s)]], t)

\* _async_update_data without one: the previous data again, or UpdateFailed.
Missed(m, t) ==
    LET n == IF m.failures < MaxReadFailures THEN m.failures + 1 ELSE MaxReadFailures
    IN  IF ~m.polled \/ n = MaxReadFailures
          THEN AfterRefresh([m EXCEPT !.failures = n], t)
          ELSE Persist([m EXCEPT !.failures = n,
                                 !.task[t].data = [m.data EXCEPT !.active = Active(m.s)]], t)

(***************************************************************************)
(* Steps.                                                                  *)
(***************************************************************************)
At(t, pc) == phase # "dead" /\ mem.task[t].pc = pc

\* Where the entry is after the code between two awaits: the setup has ended with the
\* first refresh, if that brought data, and the unload with the flush.
Settled(m) ==
    CASE phase = "setup" /\ m.task[Poller] = Idle -> IF m.polled THEN "running" ELSE "down"
      [] phase = "unloading" /\ mem.task[Unloader] # Idle /\ m.task[Unloader] = Idle -> "down"
      [] OTHER -> phase

\* The memory becomes m.  rearmed: the tracker may see a new session from now on.
Runs(m, rearmed) ==
    /\ mem' = m
    /\ phase' = Settled(m)
    /\ userEnded' = (~rearmed /\ (userEnded \/ (Active(mem.s) /\ ~Active(m.s))))
    /\ UNCHANGED down

\* A save ends, well or not.
SaveResult(ok) == phase # "dead" /\ (ok \/ fails < MaxFails) /\ fails' = IF ok THEN fails ELSE fails + 1

Polling == [pc |-> "read", job |-> "poll", data |-> NoData]

\* What a start may find of what is saved or still waits to be.
Found(saved, waiting) == {saved} \cup {waiting[i].out : i \in DOMAIN waiting}

\* async_setup_entry up to the first refresh, with restore.
Setup == \E x \in Found(disk.session, mem.sessions), e \in Found(disk.energy, mem.energies) :
    /\ phase \in {"down", "dead"}
    /\ phase' = "setup"
    /\ mem' = [Fresh(x, e, mem.s.fired) EXCEPT !.task[Poller] = Polling]
    /\ disk' = [session |-> x, energy |-> e]
    /\ lossy' = (lossy \/ failed \/ mem.sessions # <<>>)
    /\ failed' = FALSE
    /\ UNCHANGED <<intent, born, down, fails, userEnded>>

\* The scheduled refresh.
StartPoll ==
    /\ phase = "running" /\ At(Poller, "idle")
    /\ Runs([mem EXCEPT !.task[Poller] = Polling], FALSE)
    /\ UNCHANGED <<disk, intent, born, fails, failed, lossy>>

\* async_turn_on or async_turn_off: the controller takes the command.
Command(t, on) ==
    /\ phase = "running" /\ At(t, "idle")
    /\ intent' = on
    /\ Runs([mem EXCEPT !.task[t] = [pc |-> "command", job |-> IF on THEN "on" ELSE "off",
                                     data |-> NoData]], FALSE)
    /\ UNCHANGED <<disk, born, fails, failed, lossy>>

\* _async_command after the command: a refresh, unless the entry is being unloaded.  A
\* pause is confirmed only if it was not overtaken.  No command succeeds with the
\* controller closed.
CommandEnds(t, confirmed) ==
    /\ At(t, "command")
    /\ phase = "running" \/ (phase = "unloading" /\ At(Unloader, "idle"))
    /\ confirmed => mem.task[t].job = "off" /\ ~intent
    /\ LET m == [mem EXCEPT !.task[t].job = IF confirmed THEN "paused" ELSE "poll",
                            !.task[t].pc = "read"]
       IN  Runs(IF phase = "unloading" THEN AfterRefresh(m, t) ELSE m, FALSE)
    /\ UNCHANGED <<disk, intent, born, fails, failed, lossy>>

\* The command failed: HomeAssistantError.
CommandFails(t) ==
    /\ At(t, "command")
    /\ Runs(Ends(mem, t), FALSE)
    /\ UNCHANGED <<disk, intent, born, fails, failed, lossy>>

\* async_poll answers with the status block.  The counter never falls (Energy), and it
\* is unknown as long as no reading was plausible.
ReadEnds(t, status, energy) ==
    /\ At(t, "read")
    /\ energy >= mem.energy
    /\ Starts([mem.s EXCEPT !.rearm = @ /\ ~intent], status, intent) => born < MaxSessions
    /\ Runs(Observed(mem, t, status, energy), intent \/ status = "off")
    /\ born' = IF mem'.s.start > born THEN born + 1 ELSE born
    /\ UNCHANGED <<disk, intent, fails, failed, lossy>>

\* async_poll fails or has no status block.
ReadFails(t) ==
    /\ At(t, "read") /\ "read" \in Faults
    /\ Runs(Missed(mem, t), FALSE)
    /\ UNCHANGED <<disk, intent, born, fails, failed, lossy>>

\* _async_persist after async_save_session has returned (ok) or raised.
SessionSaved(m, t, out, ok) ==
    AfterSession(IF ok THEN [m EXCEPT !.sessions = Tail(@), !.s.dirty = FALSE, !.written = <<out>>]
                 ELSE [m EXCEPT !.sessions = Tail(@)], t)

\* The session save that waits longest returns or raises.
SessionSaveEnds(t, ok) ==
    /\ mem.sessions # <<>> /\ Head(mem.sessions).by = t
    /\ SaveResult(ok)
    /\ disk' = IF ok THEN [disk EXCEPT !.session = Head(mem.sessions).out] ELSE disk
    /\ Runs(SessionSaved(mem, t, Head(mem.sessions).out, ok), FALSE)
    /\ failed' = ~ok
    /\ UNCHANGED <<intent, born, lossy>>

\* _async_persist after async_save_energy.
EnergySaved(m, t, ok) ==
    Publish(IF ok THEN [m EXCEPT !.energies = Tail(@), !.energyDirty = FALSE]
            ELSE [m EXCEPT !.energies = Tail(@)], t)

EnergySaveEnds(t, ok) ==
    /\ mem.energies # <<>> /\ Head(mem.energies).by = t
    /\ SaveResult(ok)
    /\ disk' = IF ok THEN [disk EXCEPT !.energy = Head(mem.energies).out] ELSE disk
    /\ Runs(EnergySaved(mem, t, ok), FALSE)
    /\ UNCHANGED <<intent, born, failed, lossy>>

\* async_unload_entry: no refresh is scheduled any more and no command taken.
Unload ==
    /\ phase = "running" /\ down < MaxDown
    /\ phase' = "unloading" /\ down' = down + 1
    /\ UNCHANGED <<mem, disk, intent, born, fails, failed, lossy, userEnded>>

\* The controller is closed, which lets its operations end, but not the commands that
\* are in a save; then async_flush.
Flush ==
    /\ phase = "unloading" /\ At(Unloader, "idle")
    /\ \A t \in Tasks : ~At(t, "read")
    /\ Runs(Persist([mem EXCEPT !.task[Unloader].job = "flush"], Unloader), FALSE)
    /\ UNCHANGED <<disk, intent, born, fails, failed, lossy>>

\* The process dies; the intent a start restores may be the safer one.
Crash ==
    /\ "crash" \in Faults /\ phase \notin {"down", "dead"} /\ down < MaxDown
    /\ phase' = "dead" /\ down' = down + 1
    /\ intent' \in {intent, FALSE}
    /\ UNCHANGED <<mem, disk, born, fails, failed, lossy, userEnded>>

Init ==
    /\ mem = Fresh(NoRecord, None, NewSession.fired)
    /\ phase = "down"
    /\ disk = [session |-> NoRecord, energy |-> None]
    /\ intent \in BOOLEAN
    /\ born = 0 /\ down = 0 /\ fails = 0
    /\ failed = FALSE /\ lossy = FALSE /\ userEnded = FALSE

Step(t) ==
    \/ \E on \in BOOLEAN : t \in Switches /\ Command(t, on)
    \/ \E ok \in BOOLEAN : \/ CommandEnds(t, ok)
                           \/ SessionSaveEnds(t, ok) \/ EnergySaveEnds(t, ok)
    \/ \E status \in Statuses, energy \in Totals : ReadEnds(t, status, energy)
    \/ CommandFails(t) \/ ReadFails(t)

Next ==
    \/ Setup \/ StartPoll \/ Unload \/ Flush \/ Crash
    \/ \E t \in Tasks : Step(t)

Spec == Init /\ [][Next]_vars

\* Polls are scheduled again and again, some are answered, and saves end.
FairSpec ==
    /\ Spec
    /\ WF_vars(StartPoll)
    /\ SF_vars(\E status \in Statuses, energy \in Totals : ReadEnds(Poller, status, energy))
    /\ WF_vars(\E t \in Tasks, ok \in BOOLEAN : SessionSaveEnds(t, ok))
    /\ WF_vars(\E t \in Tasks, ok \in BOOLEAN : EnergySaveEnds(t, ok))

(***************************************************************************)
(* Properties.                                                             *)
(***************************************************************************)
Published == [total : Int, active : BOOLEAN]
TaskState == [pc : {"idle", "command", "read", "session", "energy"},
              job : {"none", "poll", "on", "off", "paused", "user", "flush"},
              data : Published]

\* Every variable keeps its shape (FoxESSChargerCoordinator.__init__).
TypeOK ==
    /\ IsSession(mem.s)
    /\ mem.energy \in Int /\ mem.energyDirty \in BOOLEAN
    /\ mem.data \in Published /\ mem.polled \in BOOLEAN /\ mem.failures \in 0..MaxReadFailures
    /\ mem.written \in Seq(Exports)
    /\ mem.task \in [Tasks -> TaskState]
    /\ mem.sessions \in Seq([by : Tasks, out : Exports])
    /\ mem.energies \in Seq([by : Tasks, out : Int])
    /\ phase \in {"setup", "running", "unloading", "down", "dead"}
    /\ disk \in [session : Exports, energy : Int]
    /\ intent \in BOOLEAN /\ born \in 0..MaxSessions /\ down \in 0..MaxDown /\ fails \in 0..MaxFails
    /\ failed \in BOOLEAN /\ lossy \in BOOLEAN /\ userEnded \in BOOLEAN

\* A session completes at most once, over polls and user pauses in any order and over
\* restarts, as long as no save of it failed or was cut off (session.py: "completes
\* exactly once"; the event is fired before the save).
CompletesOnce == lossy \/ \A n \in Sessions : mem.s.fired[n] <= 1

\* After a user pause no new session starts before the user enables charging or the
\* charger is seen inactive, not even after a restart (rearm_required).
RearmHolds == lossy \/ (userEnded => ~Active(mem.s))

\* Restoring x brings s back; a session whose start total is unknown is not restored.
Remembers(x, s) ==
    LET back == Restore(x, s.fired)
    IN  /\ back.start = (IF s.total = None THEN 0 ELSE s.start)
        /\ back.total = s.total /\ back.last = s.last
        /\ s.rearm => back.rearm

\* Nothing is forgotten: when no session save waits and the last one succeeded, the
\* record on disk has the tracker's sessions and its re-arm flag, although dirty is
\* shared by polls and pauses that overlap (_async_persist).
SessionIsSaved ==
    mem.sessions = <<>> /\ ~failed /\ phase = "running" => Remembers(disk.session, mem.s)

\* What is published about the session catches up with the tracker, whatever older
\* data has been published last: data is made before the saves and published after
\* them, by polls and user pauses that overlap (_async_update_data, async_user_paused).
PublishedCatchesUp ==
    []<>(phase # "running" \/ mem.data.active = Active(mem.s))
=============================================================================
