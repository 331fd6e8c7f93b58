---------------------------- MODULE Observation ----------------------------
(***************************************************************************)
(* From the charger's register blocks to what the entities show: the       *)
(* snapshot reader (protocol.py), the merge of a snapshot into the         *)
(* published data, block freshness and the work-mode warning               *)
(* (coordinator.py), availability and the setup and unload of the entry    *)
(* (__init__.py).                                                          *)
(*                                                                         *)
(* Abstractions                                                            *)
(*  - A block's value is known by its age, in ticks since it was read; an  *)
(*    age of Old stands for every older one and for a block never read.    *)
(*    The work mode is the one value that is kept.  The blocks of one      *)
(*    snapshot are read within a tick.                                     *)
(*  - The phase box is read but not merged: for the data it is an optional *)
(*    block like the config block.                                         *)
(*  - The two identity strings are one.                                    *)
(*  - A refresh may or may not have something to save between merging and  *)
(*    publishing (Coordinator has what); a save that fails publishes too.  *)
(*  - Home Assistant (external) starts a refresh Interval after the last   *)
(*    one ended; those of service calls may start at any time and overlap  *)
(*    it.  Entities write their state after a refresh, unless it failed    *)
(*    like the one before.                                                 *)
(***************************************************************************)
EXTENDS Integers

CONSTANTS
    Refreshers,       \* refreshes that may run at a time
    Interval,         \* update_interval, in ticks
    Factor,           \* BLOCK_STALENESS_FACTOR
    MaxReadFailures,  \* MAX_STATUS_READ_FAILURES
    Modes,            \* what the work-mode register may hold; someone may change it any time
    Faults,           \* what may go wrong: a subset of FaultKinds
    MaxBusy           \* bound: ticks a refresh takes, the wait for its turn included

FaultKinds == {"read", "busy", "setup"}

ASSUME TimesAssumption  == Interval \in Nat \ {0} /\ Factor \in Nat \ {0} /\ MaxBusy \in Nat
ASSUME ReadsAssumption  == MaxReadFailures \in Nat \ {0}
ASSUME ModesAssumption  == Modes \subseteq Nat
ASSUME FaultsAssumption == Faults \subseteq FaultKinds

Blocks    == {"status", "config"}
Threshold == Factor * Interval
Old       == Threshold + MaxBusy + 1
Off       == Interval + 1   \* no refresh is scheduled
NoMode    == -1

KnownModes   == 0..2        \* WORK_MODE_MAP
PlugAndCharge == 1

VARIABLES
    box,       \* the charger has a phase-switch box
    reader,    \* SnapshotReader: is the phase box supported, is the identity known
    coord,     \* FoxESSChargerCoordinator: published data, stamps, failures
    task,      \* the refreshes under way
    due,       \* ticks until the scheduled refresh, or Off
    issue,     \* the repair issue: the mode it names, or NoMode
    phase,     \* of the entry: "down", "setup", "starting", "running" or "unloading"
    raced,     \* history: data was published while another refresh had merged its own and
               \* was saving
    left,      \* history: an issue was there when the entry was set up
    known      \* history: the last known work mode this coordinator read

vars == <<box, reader, coord, task, due, issue, phase, raced, left, known>>

NoSnap == [got |-> {}, mode |-> NoMode, id |-> FALSE]
NoData == [age |-> [b \in Blocks |-> Old], id |-> FALSE]
Idle   == [pc |-> "idle", busy |-> 0, snap |-> NoSnap, data |-> NoData]
Asking == [Idle EXCEPT !.pc = "status"]

NewReader == [box |-> "unknown", id |-> FALSE]
NewCoord  == [data |-> NoData, stamp |-> [b \in Blocks |-> Old], polled |-> FALSE,
              failures |-> 0, ok |-> TRUE, wrong |-> NoMode]

(***************************************************************************)
(* Merging, freshness and the warning.                                     *)
(***************************************************************************)

\* block_ok
FreshIn(snap, b) == b \in snap.got

\* Mutant: the identity is that of the snapshot.
MergedAsRead(snap) ==
    [age |-> [b \in Blocks |-> IF FreshIn(snap, b) THEN 0 ELSE coord.data.age[b]],
     id  |-> snap.id]

\* _async_update_data: a block that was not read keeps the previous values.
Merged(snap) ==
    [age |-> [b \in Blocks |-> IF FreshIn(snap, b) THEN 0 ELSE coord.data.age[b]],
     id  |-> snap.id \/ coord.data.id]

\* Mutant: the stamps follow the mandatory block.
StampedTogether(snap) ==
    [b \in Blocks |-> IF FreshIn(snap, "status") THEN 0 ELSE coord.stamp[b]]

\* _block_last_success
Stamped(snap) == [b \in Blocks |-> IF FreshIn(snap, b) THEN 0 ELSE coord.stamp[b]]

\* _status_failures
Failures(snap) ==
    CASE FreshIn(snap, "status")          -> 0
      [] coord.failures < MaxReadFailures -> coord.failures + 1
      [] OTHER                            -> MaxReadFailures

\* UpdateFailed
Unreachable(snap) ==
    ~FreshIn(snap, "status") /\ (~coord.polled \/ Failures(snap) = MaxReadFailures)

\* Mutant: a warning names any mode.
WrongModeAny(m) == m

\* The mode a warning names: every known one but Plug&Charge.
WrongMode(m) == IF m = PlugAndCharge THEN NoMode ELSE m

\* Mutant: the issue is raised but not cleared.
TouchesIssueToRaise(m) == m # PlugAndCharge /\ WrongMode(m) # coord.wrong

\* _sync_work_mode_issue: the issue is only touched when the mode changes.
TouchesIssue(m) == WrongMode(m) # coord.wrong

\* The warning is looked at with every config block that holds a known mode.
Syncs(snap) == FreshIn(snap, "config") /\ snap.mode \in KnownModes

\* block_is_fresh
BlockIsFresh(b) == coord.stamp[b] <= Threshold

\* FoxESSBlockAvailabilityMixin.available: entities look whenever they write a state.
Available(b) == phase = "running" /\ coord.ok /\ BlockIsFresh(b)

(***************************************************************************)
(* The end of a refresh.                                                   *)
(***************************************************************************)
\* t's poll holds the controller's lock.
Reading(t) == task[t].pc \in {"config", "phase_box", "identity"}

\* A refresh that ended schedules the next one, if there are entities.
Reschedule == due' = IF phase = "running" THEN Interval ELSE Off

\* The coordinator is c and data is published.
Publish(t, c, data) ==
    /\ coord' = [c EXCEPT !.data = data, !.polled = TRUE, !.ok = TRUE]
    /\ task' = [task EXCEPT ![t] = Idle]
    /\ raced' = (raced \/ \E u \in Refreshers \ {t} : task[u].pc = "save")
    /\ phase' = IF phase = "setup" THEN "starting" ELSE phase
    /\ Reschedule

\* UpdateFailed; the setup gives up.
Fails(t, c) ==
    /\ coord' = IF phase = "setup" THEN NewCoord ELSE [c EXCEPT !.ok = FALSE]
    /\ task' = [task EXCEPT ![t] = Idle]
    /\ phase' = IF phase = "setup" THEN "down" ELSE phase
    /\ Reschedule
    /\ UNCHANGED raced

\* _async_persist has something to save.
Saves(t, c, data) ==
    /\ coord' = c
    /\ task' = [task EXCEPT ![t] = [Idle EXCEPT !.pc = "save", !.busy = task[t].busy, !.data = data]]
    /\ UNCHANGED <<due, phase, raced>>

\* _async_update_data from the answer of async_poll to the end or to its saves.
Update(t, snap) ==
    LET touched == Syncs(snap) /\ TouchesIssue(snap.mode)
        wrong   == WrongMode(snap.mode)
        c == [coord EXCEPT !.stamp = Stamped(snap), !.failures = Failures(snap),
                           !.wrong = IF touched THEN wrong ELSE @]
    IN  /\ issue' = IF touched THEN wrong ELSE issue
        /\ known' = IF Syncs(snap) THEN snap.mode ELSE known
        /\ IF Unreachable(snap) THEN Fails(t, c)
           ELSE Publish(t, c, Merged(snap)) \/ Saves(t, c, Merged(snap))

\* The refresh goes on to read the next block.
Continues(t, pc, snap) ==
    /\ task' = [task EXCEPT ![t].pc = pc, ![t].snap = snap]
    /\ UNCHANGED <<coord, due, issue, phase, raced, known>>

(***************************************************************************)
(* Actions.                                                                *)
(***************************************************************************)

\* A scheduled refresh, or that of a service call: either cancels the schedule.
Begin(t) ==
    /\ phase = "running" /\ task[t] = Idle
    /\ task' = [task EXCEPT ![t] = Asking]
    /\ due' = Off
    /\ UNCHANGED <<box, reader, coord, issue, phase, raced, left, known>>

\* async_user_paused: a copy of the published data, published again after the saves.
UserPaused(t) ==
    /\ phase = "running" /\ task[t] = Idle
    /\ task' = [task EXCEPT ![t] = [Idle EXCEPT !.pc = "save", !.data = coord.data]]
    /\ UNCHANGED <<box, reader, coord, due, issue, phase, raced, left, known>>

\* A read may fail or get no answer before its deadline.
Misses == "read" \in Faults

\* async_read_snapshot: the status block is mandatory.  The controller's lock lets one
\* poll read at a time.
ReadStatus(t, ok) ==
    /\ task[t].pc = "status" /\ \A u \in Refreshers : ~Reading(u)
    /\ \/ ok /\ Continues(t, "config", [NoSnap EXCEPT !.got = {"status"}])
       \/ ~ok /\ Misses /\ Update(t, NoSnap)
    /\ UNCHANGED <<box, reader, left>>

\* SnapshotReader.async_read after the snapshot: the identity, as long as it is unknown.
AfterBlocks(t, snap) ==
    \/ ~reader.id /\ Continues(t, "identity", snap)
    \/ reader.id /\ Update(t, [snap EXCEPT !.id = TRUE])

\* _read_optional(CONFIG_BLOCK)
ReadConfig(t, ok) == \E mode \in Modes :
    LET got  == [task[t].snap EXCEPT !.got = @ \cup {"config"}, !.mode = mode]
        snap == IF ok THEN got ELSE task[t].snap
    IN  /\ task[t].pc = "config"
        /\ ok \/ Misses
        /\ IF reader.box = "no" THEN AfterBlocks(t, snap) ELSE Continues(t, "phase_box", snap)
        /\ UNCHANGED <<box, reader, left>>

\* Mutant: a read without an answer counts as a refusal.
SupportedIfAnswered(res) == IF res = "ok" THEN "yes" ELSE "no"

\* phase_box_supported after a read: a timeout says nothing.
Supported(res) == CASE res = "ok"      -> "yes"
                    [] res = "refused" -> "no"
                    [] OTHER           -> reader.box

\* _read_optional(PHASE_BOX_BLOCK): a charger without the box refuses the read, one
\* with it may if it is busy.
ReadPhaseBox(t, res) ==
    /\ task[t].pc = "phase_box"
    /\ res = "ok" => box
    /\ res = "refused" => ~box \/ "busy" \in Faults
    /\ res = "missed" => Misses
    /\ reader' = [reader EXCEPT !.box = Supported(res)]
    /\ AfterBlocks(t, task[t].snap)
    /\ UNCHANGED <<box, left>>

\* async_read_identity: it is cached once it was read.
ReadIdentity(t, ok) ==
    /\ task[t].pc = "identity"
    /\ ok \/ Misses
    /\ reader' = [reader EXCEPT !.id = ok]
    /\ Update(t, [task[t].snap EXCEPT !.id = ok])
    /\ UNCHANGED <<box, left>>

\* _async_persist is over.
Saved(t) ==
    /\ task[t].pc = "save"
    /\ Publish(t, coord, task[t].data)
    /\ UNCHANGED <<box, reader, issue, left, known>>

\* A tick later.
Aged(ages) == [b \in Blocks |-> IF ages[b] < Old THEN ages[b] + 1 ELSE Old]

\* Time passes; a scheduled refresh is not put off.
Tick ==
    /\ due # 0 /\ phase \in {"setup", "running"}
    /\ \A t \in Refreshers : \/ task[t] = Idle
                             \/ task[t].pc \in {"status", "save"} /\ task[t].busy < MaxBusy
    /\ due' = IF due = Off THEN Off ELSE due - 1
    /\ coord' = [coord EXCEPT !.data.age = Aged(@), !.stamp = Aged(@)]
    /\ task' = [t \in Refreshers |->
                  IF task[t] = Idle THEN Idle
                  ELSE [task[t] EXCEPT !.busy = @ + 1, !.data.age = Aged(@)]]
    /\ UNCHANGED <<box, reader, issue, phase, raced, left, known>>

\* async_setup_entry: a new controller and a new coordinator, and the first refresh.
Setup(t) ==
    /\ phase = "down"
    /\ phase' = "setup"
    /\ reader' = NewReader /\ coord' = NewCoord
    /\ task' = [u \in Refreshers |-> IF u = t THEN Asking ELSE Idle]
    /\ left' = (issue # NoMode)
    /\ raced' = FALSE /\ known' = NoMode
    /\ UNCHANGED <<box, due, issue>>

\* The controller is started and the entities are added.
Started ==
    /\ phase = "starting"
    /\ phase' = "running"
    /\ due' = Interval
    /\ UNCHANGED <<box, reader, coord, task, issue, raced, left, known>>

\* async_start or the platforms fail: the issue is not looked at.
StartFails ==
    /\ phase = "starting" /\ "setup" \in Faults
    /\ phase' = "down"
    /\ coord' = NewCoord
    /\ UNCHANGED <<box, reader, task, due, issue, raced, left, known>>

\* async_unload_entry up to the close: the entities and the issue are removed.
Unload ==
    /\ phase = "running"
    /\ phase' = "unloading"
    /\ due' = Off
    /\ issue' = NoMode /\ coord' = [coord EXCEPT !.wrong = NoMode]
    /\ UNCHANGED <<box, reader, task, raced, left, known>>

\* The controller has let the polls under way end, and the data is flushed.
Unloaded ==
    /\ phase = "unloading"
    /\ \A t \in Refreshers : task[t].pc \in {"idle", "save"}
    /\ phase' = "down"
    /\ task' = [t \in Refreshers |-> Idle]
    /\ coord' = NewCoord
    /\ UNCHANGED <<box, reader, due, issue, raced, left, known>>

Init ==
    /\ box \in BOOLEAN
    /\ reader = NewReader /\ coord = NewCoord
    /\ task = [t \in Refreshers |-> Idle]
    /\ due = Off /\ issue = NoMode
    /\ phase = "down"
    /\ raced = FALSE /\ left = FALSE /\ known = NoMode

Refresh(t) ==
    \/ \E ok \in BOOLEAN : ReadStatus(t, ok) \/ ReadConfig(t, ok) \/ ReadIdentity(t, ok)
    \/ \E res \in {"ok", "refused", "missed"} : ReadPhaseBox(t, res)
    \/ Saved(t)

Next ==
    \/ \E t \in Refreshers : Begin(t) \/ UserPaused(t) \/ Setup(t) \/ Refresh(t)
    \/ Tick \/ Started \/ StartFails \/ Unload \/ Unloaded

Spec == Init /\ [][Next]_vars

(***************************************************************************)
(* Properties.                                                             *)
(***************************************************************************)
Ages == 0..Old
Warnings == (KnownModes \ {PlugAndCharge}) \cup {NoMode}
Data == [age : [Blocks -> Ages], id : BOOLEAN]
Snap == [got : SUBSET Blocks, mode : Modes \cup {NoMode}, id : BOOLEAN]

\* Every variable keeps its shape.
TypeOK ==
    /\ box \in BOOLEAN /\ raced \in BOOLEAN /\ left \in BOOLEAN
    /\ reader \in [box : {"unknown", "yes", "no"}, id : BOOLEAN]
    /\ coord \in [data : Data, stamp : [Blocks -> Ages], polled : BOOLEAN,
                  failures : 0..MaxReadFailures, ok : BOOLEAN, wrong : Warnings]
    /\ \A t \in Refreshers :
         /\ task[t].pc \in {"idle", "status", "config", "phase_box", "identity", "save"}
         /\ task[t].busy \in 0..MaxBusy
         /\ task[t].snap \in Snap /\ task[t].data \in Data
    /\ due \in 0..Off /\ issue \in Warnings
    /\ phase \in {"down", "setup", "starting", "running", "unloading"}
    /\ known \in KnownModes \cup {NoMode}

\* What is shown as live was read recently.
StaleIsHidden == \A b \in Blocks : Available(b) => coord.data.age[b] <= Threshold

\* An entity that is available shows a value that was read recently: its block's stamp
\* and the data its value comes from, kept in two places by refreshes that may overlap,
\* belong together; unless data was published between another refresh's merge and its
\* publication (block_is_fresh, _async_update_data).
ShownIsRecent ==
    \/ raced \/ \E t \in Refreshers : task[t].pc = "save"
    \/ StaleIsHidden

\* The warning names the mode the charger was last read in, and there is none in
\* Plug&Charge, whatever refreshes, failed reads and reloads came before; unless one was
\* left behind when the entry was set up (_sync_work_mode_issue, with _wrong_work_mode
\* and the registry kept in step).
WarningFollowsMode ==
    phase = "running" /\ known # NoMode =>
        issue = WrongMode(known) \/ (left /\ known = PlugAndCharge)

\* A model that has been published stays published while the entry is loaded, also when
\* polls fail: the limits that depend on it do not fall back to those of an unknown
\* model (the identity keys in _async_update_data, SnapshotReader).
KnownModelStays ==
    [][phase = "running" /\ phase' = "running" /\ coord.data.id /\ ~raced' => coord'.data.id]_vars

\* A phase box that the charger has stays polled, however often it gives no answer: only
\* a refusal ends it (SnapshotReader.async_read).
PhaseBoxIsKept == box => reader.box # "no"
=============================================================================
