------------------------------- MODULE Storage -------------------------------
(***************************************************************************)
(* The saved state of one config entry (persistence.py, ChargerStorage).   *)
(*                                                                         *)
(* A save writes up to three files one after the other: the session and    *)
(* the setpoints in the shape version 2.4.3 reads, then the state file,    *)
(* which holds the controller's record and a fingerprint of the other two. *)
(* Nothing serialises the saves: the controller's commands, its refresh    *)
(* loop and the poll all call _async_write_all, and each waits at every    *)
(* file.  A start believes the state file only while the fingerprint still *)
(* matches; otherwise it imports the view the older files give.            *)
(*                                                                         *)
(* Abstractions                                                            *)
(*  - A Store (Home Assistant) replaces its file as a whole and serves the *)
(*    saves of one file in the order they were requested.                  *)
(*  - The session fields are the last status (running or not) and whether  *)
(*    a new session must be re-armed; power_raw stands for both limits.    *)
(*  - The energy file is independent of the others and left out.           *)
(***************************************************************************)
EXTENDS Integers, Sequences, FiniteSets, FiniteSetsExt

CONSTANTS
    Writers,     \* tasks of the controller that save its record
    Intents,     \* what they save: [enabled, latched, stop, power]
    Fields,      \* what the poll saves: [prev, rearm]
    Older,       \* session files version 2.4.3 may leave: [prev, paused]
    Faults,      \* what may go wrong: a subset of FaultKinds
    MaxRev       \* bound: no record with a higher revision is handed over

None    == -1                      \* Python None in a register value
Missing == [missing |-> TRUE]      \* a file that does not exist, or None
Malformed == [malformed |-> TRUE]  \* a file that is not a dict

FaultKinds == {"error", "timeout", "unreadable", "older", "malformed"}
POWER_RAW_MAX == 220
LEGACY_ACTIVE == {"running"}
Files == {"session", "setpoints", "state"}
Order == <<"session", "setpoints", "state">>
Tasks == Writers \cup {"poll"}
Powers == {i.power : i \in Intents}

Record    == [enabled : BOOLEAN, latched : BOOLEAN, stop : BOOLEAN,
              power : Powers \cup {None}, rev : 0..MaxRev + 1]
Session   == [prev : {"running", "other"}, paused : BOOLEAN]
Setpoints == [power : Powers \cup {None}]
StateFile == [controller : Record, rearm : BOOLEAN, session : Session, setpoints : Setpoints]

ASSUME WritersAssumption == "poll" \notin Writers
ASSUME IntentsAssumption ==
    Intents \subseteq [enabled : BOOLEAN, latched : BOOLEAN, stop : BOOLEAN, power : Nat \cup {None}]
ASSUME FieldsAssumption == Fields \subseteq [prev : {"running", "other"}, rearm : BOOLEAN]
ASSUME OlderAssumption  == Older \subseteq Session
ASSUME FaultsAssumption == Faults \subseteq FaultKinds
ASSUME BoundAssumption  == MaxRev \in Nat

VARIABLES
    phase,       \* "down", "init" (loaded), "setup" (async_initialize saves), "up"
                 \* or "flush" (the entry unloads)
    disk,        \* the three files
    written,     \* _written: payloads this process knows to be on disk
    controller,  \* _controller: the record handed over last, or loaded
    fields,      \* _session_fields and _session_extra
    attempted,   \* hass.data: highest revision this process tried to save
    job,         \* job[t]: the _async_write_all that task t executes
    line,        \* line[f]: tasks whose save of file f the Store has accepted
    acked,       \* history: a save of the record in controller has returned
    undone,      \* history: the last save raised and the controller took the
                 \* permission it would have stored back
    older,       \* history: version 2.4.3 ran last
    stray        \* history: a write whose save had timed out reached the disk all
                 \* the same, behind the back of written

vars == <<phase, disk, written, controller, fields, attempted, job, line, acked, undone, older,
          stray>>

NoJob  == [at |-> "idle"]
NoFile == [f \in Files |-> Missing]
Empty  == [f \in Files |-> <<>>]
Idle   == \A t \in Tasks : job[t] = NoJob

\* The record allows the charger to draw power.
Permits(r) == r # Missing /\ r.enabled /\ ~r.latched /\ ~r.stop

(***************************************************************************)
(* Loading.                                                                *)
(***************************************************************************)

\* valid_controller_state
ValidControllerState(r) == r.power = None \/ r.power \in 0..POWER_RAW_MAX

\* protective_state
Protective(power, rev) ==
    [enabled |-> FALSE, latched |-> FALSE, stop |-> FALSE, power |-> power, rev |-> rev]

IsDict(file) == file \notin {Missing, Malformed}

\* _legacy_limits
LegacyLimit(setpoints) == IF IsDict(setpoints) THEN setpoints.power ELSE None

\* _salvage_limits
SalvageLimit(r, setpoints) ==
    IF r # Missing /\ r.power # None THEN r.power ELSE LegacyLimit(setpoints)

\* Mutant: a malformed setpoints file is taken for an empty one.
ImportUnchecked(d, readable) ==
    LET rev == IF IsDict(d.state) THEN d.state.controller.rev + 1 ELSE 0
        paused == IsDict(d.session) /\ d.session.paused
        active == IsDict(d.session) /\ d.session.prev \in LEGACY_ACTIVE
    IN  [enabled |-> readable /\ active /\ ~paused, latched |-> FALSE, stop |-> paused,
         power |-> LegacyLimit(d.setpoints), rev |-> rev]

\* _import_legacy
ImportLegacy(d, readable) ==
    LET rev == IF IsDict(d.state) THEN d.state.controller.rev + 1 ELSE 0
        power == LegacyLimit(d.setpoints)
        paused == IsDict(d.session) /\ d.session.paused
        active == IsDict(d.session) /\ d.session.prev \in LEGACY_ACTIVE
    IN  IF ~readable \/ d.session = Malformed \/ d.setpoints = Malformed
        THEN Protective(power, rev)
        ELSE [enabled |-> active /\ ~paused, latched |-> FALSE, stop |-> paused,
              power |-> power, rev |-> rev]

\* Mutant: the state file wins whatever the older files hold.
StateAlwaysWins(d) == IsDict(d.state)

\* use_state: the state file still describes the files beside it
UseState(d) ==
    /\ IsDict(d.state)
    /\ \/ d.state.session = d.session /\ d.state.setpoints = d.setpoints
       \/ d.session = Missing /\ d.setpoints = Missing

\* Mutant: the revisions tried before the reload are forgotten.
NeverStale(r, tried) == FALSE

\* The record is older than one this process already acted on.
Stale(r, tried) == r.rev < tried

\* _load: a file that cannot be read counts as absent.
Seen(d, unread) == [f \in Files |-> IF f \in unread THEN Missing ELSE d[f]]

\* async_load: the record a start restores from the files d when those in unread
\* cannot be read and this process has tried to save revision tried.
Loaded(d, unread, tried) ==
    LET seen == Seen(d, unread)
        r == IF "state" \notin unread /\ UseState(seen) THEN seen.state.controller
             ELSE IF "state" \in unread \/ seen.state = Malformed
                  THEN Protective(LegacyLimit(seen.setpoints), 0)
             ELSE IF seen = NoFile /\ unread = {} THEN Missing
             ELSE ImportLegacy(seen, unread \cap {"session", "setpoints"} = {})
    IN  IF r # Missing /\ Stale(r, tried)
        THEN Protective(SalvageLimit(r, seen.setpoints), tried + 1)
        ELSE r

\* What a new process would restore if this one died now.
AfterCrash(d) == Loaded(d, {}, -1)

\* A new ChargerStorage after the process died or the entry was unloaded, and
\* its async_load.  The session fields come back with the record.
Load ==
    /\ phase = "down" \/ (phase = "flush" /\ Idle)
    /\ \E unread \in IF "unreadable" \in Faults THEN SUBSET Files ELSE {{}} :
        LET seen == Seen(disk, unread)
        IN  /\ controller' = Loaded(disk, unread, attempted)
            /\ fields' = [prev  |-> IF IsDict(seen.session) THEN seen.session.prev ELSE "other",
                          rearm |-> UseState(seen) /\ seen.state.rearm]
    /\ phase' = "init" /\ written' = NoFile
    /\ acked' = FALSE /\ undone' = FALSE /\ older' = FALSE /\ stray' = FALSE
    /\ UNCHANGED <<disk, attempted, job, line>>

(***************************************************************************)
(* Saving.                                                                 *)
(***************************************************************************)

\* Mutant: a latch or a Stop fallback is not projected as paused.
LegacyIgnoresLatch(r, s) == [prev |-> s.prev, paused |-> r # Missing /\ ~r.enabled]

\* _legacy_session_payload
LegacySession(r, s) == [prev |-> s.prev, paused |-> r # Missing /\ ~Permits(r)]

\* _legacy_setpoints_payload
LegacySetpoints(r) == IF r = Missing THEN Missing ELSE [power |-> r.power]

\* What _async_write_all saves in file f, as of now.
Payload(j, f) ==
    CASE f = "session"   -> j.session
      [] f = "setpoints" -> j.setpoints
      [] f = "state"     -> IF controller' = Missing THEN Missing
                            ELSE [controller |-> controller', rearm |-> fields'.rearm,
                                  session |-> j.session, setpoints |-> j.setpoints]

\* Mutant: a file this process has written once is not written again.
WritesOnce(f, payload) == payload # Missing /\ written'[f] = Missing

\* _save: a payload already known to be on disk is skipped
Writes(f, payload) == payload # Missing /\ written'[f] # payload

\* What the save of task t has come to: "open", "kept" or "raised".
Outcome(j, result) ==
    LET same == controller' = controller
        mine == j.rec # Missing /\ j.rec = controller'
    IN  /\ acked'  = ((acked /\ same) \/ (mine /\ result = "kept"))
        /\ undone' = ((undone /\ same) \/ (mine /\ result = "raised" /\ j.raises))

\* _async_write_all from the k-th file on: skip what is on disk, wait for the
\* first that is not.
Proceed(t, j, k, ln) ==
    LET ahead == {i \in k..3 : Writes(Order[i], Payload(j, Order[i]))}
        next  == Order[Min(ahead)]
    IN  IF ahead = {}
        THEN /\ job' = [job EXCEPT ![t] = NoJob]
             /\ line' = ln
             /\ Outcome(j, "kept")
        ELSE /\ job' = [job EXCEPT ![t] = [j EXCEPT !.at = next, !.payload = Payload(j, next)]]
             /\ line' = [ln EXCEPT ![next] = Append(@, t)]
             /\ Outcome(j, "open")

\* The payloads for the older version are composed when the save starts.
StartWriting(t, rec, raises) ==
    Proceed(t, [at |-> "idle", rec |-> rec, raises |-> raises, payload |-> Missing,
                session |-> LegacySession(controller', fields'),
                setpoints |-> LegacySetpoints(controller')], 1, line)

\* A record the controller may hand over: a changed one, or the current one again
\* (a retry, the save at setup), unless that one was taken back.  A start saves the
\* restored record with a new revision and authorises no more than it, except that
\* a first install may adopt a running session.
Offers(r) ==
    LET rev == IF controller = Missing THEN 0 ELSE controller.rev
    IN  /\ r.rev <= MaxRev
        /\ IF phase = "up" THEN r.rev = rev + 1 \/ (r = controller /\ ~undone)
           ELSE r.rev = rev + 1 /\ (Permits(r) => controller = Missing \/ Permits(controller))

\* async_save_controller
SaveController(w) ==
    /\ phase \in {"init", "up"} /\ job[w] = NoJob
    /\ \E r \in {[enabled |-> i.enabled, latched |-> i.latched, stop |-> i.stop,
                  power |-> i.power, rev |-> n] : i \in Intents, n \in 0..MaxRev} \cup {controller} :
        /\ r # Missing /\ Offers(r) /\ ValidControllerState(r)
        /\ controller' = r
        /\ attempted' = IF r.rev > attempted THEN r.rev ELSE attempted
        /\ UNCHANGED <<written, fields>>
        /\ StartWriting(w, r, phase = "up" /\ Permits(r) /\ ~Permits(controller))
    /\ phase' = IF phase = "init" THEN "setup" ELSE phase
    /\ UNCHANGED <<disk, older, stray>>

\* async_setup_entry: polls and commands follow async_initialize, whose save has
\* returned or failed.
SetUp ==
    /\ phase = "setup" /\ Idle
    /\ phase' = "up"
    /\ UNCHANGED <<disk, written, controller, fields, attempted, job, line, acked, undone, older,
                   stray>>

\* async_save_session, called by the poll when the tracker is dirty.
SaveSession ==
    /\ phase = "up" /\ job["poll"] = NoJob
    /\ fields' \in Fields
    /\ UNCHANGED <<written, controller>>
    /\ StartWriting("poll", Missing, FALSE)
    /\ UNCHANGED <<phase, disk, attempted, older, stray>>

\* async_unload_entry: once the controller is closed, async_flush saves again.
Unload ==
    /\ phase = "up" /\ Idle
    /\ phase' = "flush"
    /\ UNCHANGED <<written, controller, fields>>
    /\ StartWriting("poll", Missing, FALSE)
    /\ UNCHANGED <<disk, attempted, older, stray>>

Index(f) == CHOOSE k \in 1..3 : Order[k] = f

Serving(t) == job[t] # NoJob /\ Head(line[job[t].at]) = t

Leave(t) == [line EXCEPT ![job[t].at] = SelectSeq(@, LAMBDA u : u # t)]

\* Store.async_save returned: the file holds the payload and _written says so.
FileSaved(t) ==
    /\ Serving(t)
    /\ LET f == job[t].at
       IN  /\ disk' = [disk EXCEPT ![f] = job[t].payload]
           /\ written' = [written EXCEPT ![f] = job[t].payload]
           /\ UNCHANGED <<controller, fields>>
           /\ Proceed(t, job[t], Index(f) + 1, [line EXCEPT ![f] = Tail(@)])
    /\ UNCHANGED <<phase, attempted, older, stray>>

\* The save of task t ends with an exception, the files being d.
Raise(t, d) ==
    /\ disk' = d
    /\ UNCHANGED controller
    /\ Outcome(job[t], "raised")
    /\ job' = [job EXCEPT ![t] = NoJob]
    /\ line' = Leave(t)
    /\ UNCHANGED <<phase, written, fields, attempted, older>>

\* Store.async_save raised: nothing was written.
FileError(t) == "error" \in Faults /\ Serving(t) /\ Raise(t, disk) /\ UNCHANGED stray

\* The controller's wait_for gave up.  A write already handed to the file system
\* may still happen, and _written is not told.
SaveTimeout(w) ==
    /\ "timeout" \in Faults /\ job[w] # NoJob
    /\ \/ Raise(w, disk) /\ UNCHANGED stray
       \/ /\ Serving(w)
          /\ Raise(w, [disk EXCEPT ![job[w].at] = job[w].payload])
          /\ stray' = TRUE

(***************************************************************************)
(* The process dies; an older version may run before the next start.       *)
(***************************************************************************)
Crash ==
    /\ phase # "down"
    /\ phase' = "down" /\ attempted' = -1
    /\ controller' = Missing /\ written' = NoFile
    /\ fields' = [prev |-> "other", rearm |-> FALSE]
    /\ job' = [t \in Tasks |-> NoJob] /\ line' = Empty
    /\ acked' = FALSE /\ undone' = FALSE /\ stray' = FALSE
    /\ UNCHANGED <<disk, older>>

\* Version 2.4.3 keeps its own session and setpoints files and ignores the rest.
OlderVersionRuns ==
    /\ "older" \in Faults /\ phase = "down"
    /\ \E s \in Older, p \in Powers :
        disk' = [disk EXCEPT !.session = s, !.setpoints = [power |-> p]]
    /\ older' = TRUE
    /\ UNCHANGED <<phase, written, controller, fields, attempted, job, line, acked, undone,
                   stray>>

\* A file is damaged while nobody writes it.
Damage ==
    /\ "malformed" \in Faults /\ phase = "down"
    /\ \E f \in Files : disk[f] # Missing /\ disk' = [disk EXCEPT ![f] = Malformed]
    /\ older' = FALSE
    /\ UNCHANGED <<phase, written, controller, fields, attempted, job, line, acked, undone,
                   stray>>

\* A first install.
Init ==
    /\ phase = "down" /\ disk = NoFile /\ written = NoFile
    /\ controller = Missing /\ fields = [prev |-> "other", rearm |-> FALSE]
    /\ attempted = -1
    /\ job = [t \in Tasks |-> NoJob] /\ line = Empty
    /\ acked = FALSE /\ undone = FALSE /\ older = FALSE /\ stray = FALSE

Next ==
    \/ Load \/ SetUp \/ SaveSession \/ Unload \/ Crash \/ OlderVersionRuns \/ Damage
    \/ \E w \in Writers : SaveController(w) \/ SaveTimeout(w)
    \/ \E t \in Tasks : FileSaved(t) \/ FileError(t)

Spec == Init /\ [][Next]_vars

(***************************************************************************)
(* Properties.                                                             *)
(***************************************************************************)

\* Whenever the save of a pausing record has returned, a process that dies at that
\* moment or later restarts paused, whichever files it cannot read
\* (_async_write_all, async_load).
SavedPauseSurvives ==
    acked /\ ~Permits(controller) => \A unread \in SUBSET Files : ~Permits(Loaded(disk, unread, -1))

\* Once every save has returned, a restart restores exactly the record handed over
\* last, not an import of the older files (the fingerprint of _async_write_all);
\* unless an earlier save timed out and its write reached the disk unnoticed by
\* _written.
SavedRecordIsRestored == acked /\ Idle /\ ~stray => AfterCrash(disk) = controller

\* A reload never resumes charging that the controller had stopped, even when the
\* save of the stop failed (_attempted in async_load), with the same exception.
ReloadIsProtective ==
    phase = "flush" /\ Idle /\ ~stray => (Permits(Loaded(disk, {}, attempted)) => Permits(controller))

\* After version 2.4.3 has run, the next start takes its limit and its pause over
\* whatever the state file says (use_state and _import_legacy).
OlderVersionWins ==
    older => /\ AfterCrash(disk).power = disk.setpoints.power
             /\ Permits(AfterCrash(disk)) => ~disk.session.paused

\* A file that is not what it should be never authorises charging, whatever the
\* other two say (async_load, _import_legacy).
MalformedIsProtective == Malformed \in {disk[f] : f \in Files} => ~Permits(AfterCrash(disk))

\* What controller.py says of a failed save: an enable that was refused because it
\* could not be saved is not in force after a restart (_update_positive).
FailedEnableStaysOff == undone => ~Permits(AfterCrash(disk))
=============================================================================
