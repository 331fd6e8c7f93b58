-------------------------- MODULE ObservationProofs --------------------------
(***************************************************************************)
(* Theorems about what the entities show, for any number of refreshes, any *)
(* times and any work modes.                                               *)
(***************************************************************************)
EXTENDS Observation, TLAPS

(***************************************************************************)
(* The inductive invariant.                                                *)
(***************************************************************************)
AgeMaps   == [Blocks -> Ages]
ReadSteps == {"config", "phase_box", "identity"}
Tasks     == [pc : {"idle", "status", "config", "phase_box", "identity", "save"},
              busy : 0..MaxBusy, snap : Snap, data : Data]
Coords    == [data : Data, stamp : AgeMaps, polled : BOOLEAN,
              failures : 0..MaxReadFailures, ok : BOOLEAN, wrong : Warnings]
Readers   == [box : {"unknown", "yes", "no"}, id : BOOLEAN]
Phases    == {"down", "setup", "starting", "running", "unloading"}

CoordOK == coord \in Coords /\ issue \in Warnings /\ known \in KnownModes \cup {NoMode}
TasksOK == task \in [Refreshers -> Tasks]
RestOK  == /\ box \in BOOLEAN /\ raced \in BOOLEAN /\ left \in BOOLEAN
           /\ reader \in Readers /\ due \in 0..Off /\ phase \in Phases

\* A snapshot that is being read has its status block.
SnapsOK == \A t \in Refreshers : task[t].pc \in ReadSteps => "status" \in task[t].snap.got

\* The coordinator remembers the warning that the last known mode calls for, and it is the
\* one that stands, unless an older one was left behind.
WarningOK == phase \in {"setup", "starting", "running"} =>
    /\ coord.wrong = IF known = NoMode THEN NoMode ELSE WrongMode(known)
    /\ issue = coord.wrong \/ (left /\ coord.wrong = NoMode)

Saving(t) == task[t].pc = "save"

\* The stamps are those of the published data, or of the data the only refresh that is
\* saving will publish.
StampsOK == phase # "down" /\ ~raced =>
    /\ (\A t \in Refreshers : ~Saving(t)) => coord.data.age = coord.stamp
    /\ \A t \in Refreshers :
         Saving(t) /\ (\A u \in Refreshers \ {t} : ~Saving(u)) => task[t].data.age = coord.stamp

\* A refresh that is saving knows the model if the published data does.
ModelOK == phase # "down" /\ ~raced =>
    \A t \in Refreshers : Saving(t) /\ coord.data.id => task[t].data.id

IInv == CoordOK /\ TasksOK /\ RestOK /\ SnapsOK /\ WarningOK /\ StampsOK /\ ModelOK

(***************************************************************************)
(* The values of the model.                                                *)
(***************************************************************************)

\* The ages that are told apart.
LEMMA AgesAreNumbers ==
    /\ Old \in Nat /\ Threshold \in Nat /\ Off \in Nat /\ Interval \in 0..Off /\ Off \in 0..Off
    /\ 0 \in Ages /\ Old \in Ages /\ 0 \in 0..MaxBusy
<1>1. Interval \in Nat /\ Factor \in Nat /\ MaxBusy \in Nat
  BY TimesAssumption
<1>2. Factor * Interval \in Nat
  BY <1>1
<1> QED  BY <1>1, <1>2 DEF Old, Threshold, Off, Ages

LEMMA Values ==
    /\ NoSnap \in Snap /\ NoSnap.got = {} /\ NoData \in Data
    /\ Idle \in Tasks /\ Idle.pc = "idle" /\ Asking \in Tasks /\ Asking.pc = "status"
    /\ NewReader \in Readers /\ NewReader.box = "unknown"
    /\ NewCoord \in Coords /\ NewCoord.wrong = NoMode /\ NewCoord.data = NoData
    /\ NewCoord.data.age = NewCoord.stamp /\ NoMode \in Warnings /\ ~NewCoord.data.id
<1>1. NoSnap \in Snap /\ NoSnap.got = {}
  BY DEF NoSnap, Snap
<1>2. [b \in Blocks |-> Old] \in AgeMaps
  BY AgesAreNumbers DEF AgeMaps
<1>3. NoData \in Data /\ NoData.age = [b \in Blocks |-> Old] /\ ~NoData.id
  BY <1>2 DEF NoData, Data, AgeMaps
<1>4. NoMode \in Warnings
  BY DEF Warnings
<1>5. Idle \in Tasks /\ Idle.pc = "idle"
  BY <1>1, <1>3, AgesAreNumbers DEF Idle, Tasks
<1>6. Asking \in Tasks /\ Asking.pc = "status"
  BY <1>5 DEF Asking, Tasks
<1>7. NewReader \in Readers /\ NewReader.box = "unknown"
  BY DEF NewReader, Readers
<1>8. /\ NewCoord \in Coords /\ NewCoord.wrong = NoMode /\ NewCoord.data = NoData
      /\ NewCoord.stamp = [b \in Blocks |-> Old]
  BY <1>2, <1>3, <1>4, ReadsAssumption DEF NewCoord, Coords
<1> QED  BY <1>1, <1>3, <1>4, <1>5, <1>6, <1>7, <1>8

\* A tick later, ages are ages.
LEMMA AgedMap ==
    ASSUME NEW a \in AgeMaps
    PROVE  Aged(a) \in AgeMaps
<1>1. \A b \in Blocks : (IF a[b] < Old THEN a[b] + 1 ELSE Old) \in Ages
  BY AgesAreNumbers DEF AgeMaps, Ages
<1> QED  BY <1>1 DEF Aged, AgeMaps

\* What a refresh computes from a snapshot (_async_update_data).
LEMMA Computed ==
    ASSUME CoordOK, NEW snap \in Snap
    PROVE  /\ Merged(snap) \in Data /\ (coord.data.id => Merged(snap).id)
           /\ Stamped(snap) \in AgeMaps
           /\ Failures(snap) \in 0..MaxReadFailures
           /\ snap.got = {} => Stamped(snap) = coord.stamp
           /\ coord.data.age = coord.stamp => Merged(snap).age = Stamped(snap)
<1>1. /\ coord \in Coords /\ coord.data \in Data /\ coord.stamp \in AgeMaps
      /\ coord.failures \in 0..MaxReadFailures /\ coord.data.age \in AgeMaps
  BY DEF CoordOK, Coords, Data, AgeMaps
<1> DEFINE a == [b \in Blocks |-> IF FreshIn(snap, b) THEN 0 ELSE coord.data.age[b]]
           i == (snap.id \/ coord.data.id)
<1>2. a \in AgeMaps
  BY <1>1, AgesAreNumbers DEF AgeMaps
<1>3. i \in BOOLEAN /\ (coord.data.id => i)
  BY Zenon
<1>4. Merged(snap) = [age |-> a, id |-> i]
  BY DEF Merged
<1>5. Merged(snap) \in Data /\ Merged(snap).age = a /\ (coord.data.id => Merged(snap).id)
  <2> HIDE DEF a, i
  <2> QED  BY <1>2, <1>3, <1>4 DEF Data, AgeMaps
<1>6. Stamped(snap) \in AgeMaps
  BY <1>1, AgesAreNumbers DEF Stamped, AgeMaps
<1>7. snap.got = {} => Stamped(snap) = coord.stamp
  BY <1>1 DEF Stamped, AgeMaps, FreshIn
<1>8. coord.data.age = coord.stamp => a = Stamped(snap)
  BY DEF Stamped
<1>9. Failures(snap) \in 0..MaxReadFailures
  BY <1>1, ReadsAssumption DEF Failures
<1> QED  BY <1>5, <1>6, <1>7, <1>8, <1>9

\* The warning a known mode calls for.
LEMMA WrongIsWarning ==
    ASSUME NEW m \in KnownModes
    PROVE  WrongMode(m) \in Warnings /\ m # NoMode
BY DEF WrongMode, Warnings, KnownModes, PlugAndCharge, NoMode

(***************************************************************************)
(* The end of a refresh.                                                   *)
(***************************************************************************)

\* A snapshot has its status block, or nothing was read.
Whole(snap) == "status" \in snap.got \/ snap.got = {}

\* A refresh t goes from the snapshot snap to the coordinator c.
Looked(snap, c) ==
    /\ c \in Coords /\ c.data = coord.data /\ c.ok = coord.ok
    /\ c.stamp = Stamped(snap)
    /\ \/ /\ Syncs(snap) /\ c.wrong = WrongMode(snap.mode) /\ known' = snap.mode
          /\ issue' = c.wrong \/ (c.wrong = coord.wrong /\ issue' = issue)
       \/ c.wrong = coord.wrong /\ known' = known /\ issue' = issue

\* It publishes data, fails or goes on to save data.
Ends(t, snap, c) ==
    \/ Publish(t, c, Merged(snap))
    \/ snap.got = {} /\ Fails(t, c)
    \/ Saves(t, c, Merged(snap))

LEMMA Updated ==
    ASSUME CoordOK, NEW t \in Refreshers, NEW snap \in Snap, Whole(snap), Update(t, snap)
    PROVE  /\ \E c : Looked(snap, c) /\ Ends(t, snap, c)
           /\ issue' \in Warnings /\ known' \in KnownModes \cup {NoMode}
<1> DEFINE touched == Syncs(snap) /\ TouchesIssue(snap.mode)
           wrong == WrongMode(snap.mode)
           w == IF touched THEN wrong ELSE coord.wrong
           c == [coord EXCEPT !.stamp = Stamped(snap), !.failures = Failures(snap), !.wrong = w]
<1>1. /\ coord \in Coords /\ coord.wrong \in Warnings /\ issue \in Warnings
      /\ known \in KnownModes \cup {NoMode}
  BY DEF CoordOK, Coords
<1>2. Syncs(snap) => snap.mode \in KnownModes /\ wrong \in Warnings
  BY WrongIsWarning DEF Syncs
<1>3. w \in Warnings
  BY <1>1, <1>2
<1>4. /\ issue' = IF touched THEN wrong ELSE issue
      /\ known' = IF Syncs(snap) THEN snap.mode ELSE known
      /\ \/ Unreachable(snap) /\ Fails(t, c)
         \/ Publish(t, c, Merged(snap)) \/ Saves(t, c, Merged(snap))
  BY Zenon DEF Update
<1>5. /\ c \in Coords /\ c.data = coord.data /\ c.ok = coord.ok /\ c.stamp = Stamped(snap)
      /\ c.wrong = w
  <2>1. Stamped(snap) \in AgeMaps /\ Failures(snap) \in 0..MaxReadFailures
    BY Computed
  <2> HIDE DEF w
  <2> QED  BY <1>1, <1>3, <2>1 DEF Coords
<1> HIDE DEF c
<1>6. Looked(snap, c)
  <2>1. CASE touched
    BY <1>4, <1>5, <2>1 DEF Looked
  <2>2. CASE Syncs(snap) /\ ~touched
    <3>1. coord.wrong = wrong
      BY <2>2 DEF TouchesIssue
    <3> QED  BY <1>4, <1>5, <2>2, <3>1 DEF Looked
  <2>3. CASE ~Syncs(snap)
    BY <1>4, <1>5, <2>3 DEF Looked
  <2> QED  BY <2>1, <2>2, <2>3
<1>7. Unreachable(snap) => snap.got = {}
  BY DEF Unreachable, FreshIn, Whole
<1>8. Ends(t, snap, c)
  BY <1>4, <1>7 DEF Ends
<1>9. issue' \in Warnings /\ known' \in KnownModes \cup {NoMode}
  BY <1>1, <1>2, <1>4
<1> QED  BY <1>6, <1>8, <1>9

Shape == CoordOK /\ TasksOK /\ RestOK

LEMMA PublishShape ==
    ASSUME Shape, NEW t \in Refreshers, NEW c \in Coords, NEW data \in Data, Publish(t, c, data)
    PROVE  /\ coord' \in Coords /\ coord'.data = data /\ coord'.stamp = c.stamp
           /\ coord'.wrong = c.wrong
           /\ task' = [task EXCEPT ![t] = Idle] /\ TasksOK'
           /\ raced' \in BOOLEAN /\ due' \in 0..Off /\ phase' \in Phases
           /\ ~raced' => ~raced /\ \A u \in Refreshers \ {t} : ~Saving(u)
           /\ phase' # "down" => phase # "down"
           /\ phase' \in {"setup", "starting", "running"}
                => phase \in {"setup", "starting", "running"}
<1>1. coord' = [c EXCEPT !.data = data, !.polled = TRUE, !.ok = TRUE]
  BY DEF Publish
<1>2. /\ coord' \in Coords /\ coord'.data = data /\ coord'.stamp = c.stamp
      /\ coord'.wrong = c.wrong
  BY <1>1 DEF Coords
<1>3. task' = [task EXCEPT ![t] = Idle] /\ TasksOK'
  BY Values DEF Publish, Shape, TasksOK
<1>4. raced' = (raced \/ \E u \in Refreshers \ {t} : Saving(u))
  BY DEF Publish, Saving
<1>5. raced' \in BOOLEAN /\ (~raced' => ~raced /\ \A u \in Refreshers \ {t} : ~Saving(u))
  BY <1>4, Zenon
<1>6. due' \in 0..Off
  BY AgesAreNumbers DEF Publish, Reschedule
<1>7. phase' = IF phase = "setup" THEN "starting" ELSE phase
  BY DEF Publish
<1>8. phase \in Phases
  BY DEF Shape, RestOK
<1>9. /\ phase' \in Phases /\ (phase' # "down" => phase # "down")
      /\ phase' \in {"setup", "starting", "running"} => phase \in {"setup", "starting", "running"}
  BY <1>7, <1>8 DEF Phases
<1> QED  BY <1>2, <1>3, <1>5, <1>6, <1>9

LEMMA FailsShape ==
    ASSUME Shape, NEW t \in Refreshers, NEW c \in Coords, Fails(t, c)
    PROVE  /\ coord' \in Coords
           /\ phase' # "down" => /\ phase' = phase /\ coord'.data = c.data
                                 /\ coord'.stamp = c.stamp /\ coord'.wrong = c.wrong
           /\ task' = [task EXCEPT ![t] = Idle] /\ TasksOK'
           /\ raced' = raced /\ due' \in 0..Off /\ phase' \in Phases
<1>1. coord' = IF phase = "setup" THEN NewCoord ELSE [c EXCEPT !.ok = FALSE]
  BY DEF Fails
<1>2. phase' = IF phase = "setup" THEN "down" ELSE phase
  BY DEF Fails
<1>3. /\ [c EXCEPT !.ok = FALSE] \in Coords /\ [c EXCEPT !.ok = FALSE].data = c.data
      /\ [c EXCEPT !.ok = FALSE].stamp = c.stamp /\ [c EXCEPT !.ok = FALSE].wrong = c.wrong
  BY DEF Coords
<1>4. task' = [task EXCEPT ![t] = Idle] /\ TasksOK' /\ raced' = raced
  BY Values DEF Fails, Shape, TasksOK
<1>5. due' \in 0..Off
  BY AgesAreNumbers DEF Fails, Reschedule
<1>6. phase' \in Phases
  BY <1>2 DEF Shape, RestOK, Phases
<1>7. coord' \in Coords
  BY <1>1, <1>3, Values
<1>8. phase' # "down" => /\ phase' = phase /\ coord'.data = c.data
                         /\ coord'.stamp = c.stamp /\ coord'.wrong = c.wrong
  BY <1>1, <1>2, <1>3
<1> QED  BY <1>4, <1>5, <1>6, <1>7, <1>8

LEMMA SavesShape ==
    ASSUME Shape, NEW t \in Refreshers, NEW data \in Data, NEW busy \in 0..MaxBusy,
           task' = [task EXCEPT ![t] = [Idle EXCEPT !.pc = "save", !.busy = busy, !.data = data]]
    PROVE  /\ TasksOK' /\ task'[t].pc = "save" /\ task'[t].data = data
           /\ \A u \in Refreshers \ {t} : task'[u] = task[u]
<1> DEFINE k == [Idle EXCEPT !.pc = "save", !.busy = busy, !.data = data]
<1>1. k \in Tasks /\ k.pc = "save" /\ k.data = data
  BY Values DEF Tasks
<1> HIDE DEF k
<1>2. task \in [Refreshers -> Tasks] /\ task' = [task EXCEPT ![t] = k]
  BY DEF Shape, TasksOK, k
<1> QED  BY <1>1, <1>2 DEF TasksOK

\* The warning follows the mode that was looked at (_sync_work_mode_issue).
LEMMA WarningLooked ==
    ASSUME WarningOK, phase \in {"setup", "starting", "running"}, NEW snap, NEW c,
           Looked(snap, c), left' = left
    PROVE  /\ c.wrong = IF known' = NoMode THEN NoMode ELSE WrongMode(known')
           /\ issue' = c.wrong \/ (left' /\ c.wrong = NoMode)
<1>1. /\ coord.wrong = IF known = NoMode THEN NoMode ELSE WrongMode(known)
      /\ issue = coord.wrong \/ (left /\ coord.wrong = NoMode)
  BY DEF WarningOK
<1>2. CASE /\ Syncs(snap) /\ c.wrong = WrongMode(snap.mode) /\ known' = snap.mode
           /\ issue' = c.wrong \/ (c.wrong = coord.wrong /\ issue' = issue)
  <2>1. known' # NoMode
    BY <1>2, WrongIsWarning DEF Syncs
  <2> QED  BY <1>1, <1>2, <2>1
<1>3. CASE c.wrong = coord.wrong /\ known' = known /\ issue' = issue
  BY <1>1, <1>3
<1> QED  BY <1>2, <1>3 DEF Looked

LEMMA UpdateStep ==
    ASSUME IInv, NEW t \in Refreshers, ~Saving(t), NEW snap \in Snap, Whole(snap),
           Update(t, snap), reader' \in Readers, UNCHANGED <<box, left>>
    PROVE  IInv'
<1>0. /\ Shape /\ CoordOK /\ TasksOK /\ RestOK /\ coord \in Coords
      /\ task \in [Refreshers -> Tasks] /\ SnapsOK /\ WarningOK /\ StampsOK /\ ModelOK
  BY DEF IInv, Shape, CoordOK, TasksOK
<1>1. PICK c : Looked(snap, c) /\ Ends(t, snap, c)
  BY <1>0, Updated
<1>2. issue' \in Warnings /\ known' \in KnownModes \cup {NoMode}
  BY <1>0, Updated
<1>3. c \in Coords /\ c.data = coord.data /\ c.stamp = Stamped(snap)
  BY <1>1 DEF Looked
<1>4. /\ Merged(snap) \in Data /\ (coord.data.id => Merged(snap).id)
      /\ snap.got = {} => Stamped(snap) = coord.stamp
      /\ coord.data.age = coord.stamp => Merged(snap).age = Stamped(snap)
  BY <1>0, Computed
<1>5. CASE Publish(t, c, Merged(snap))
  <2>1. /\ coord' \in Coords /\ coord'.data = Merged(snap) /\ coord'.stamp = c.stamp
        /\ coord'.wrong = c.wrong
        /\ task' = [task EXCEPT ![t] = Idle] /\ TasksOK'
        /\ raced' \in BOOLEAN /\ due' \in 0..Off /\ phase' \in Phases
        /\ ~raced' => ~raced /\ \A u \in Refreshers \ {t} : ~Saving(u)
        /\ phase' # "down" => phase # "down"
        /\ phase' \in {"setup", "starting", "running"}
             => phase \in {"setup", "starting", "running"}
    BY <1>0, <1>3, <1>4, <1>5, PublishShape
  <2>2. CoordOK' /\ RestOK'
    BY <1>0, <1>2, <2>1 DEF CoordOK, RestOK
  <2>3. task'[t].pc = "idle" /\ \A u \in Refreshers \ {t} : task'[u] = task[u]
    BY <1>0, <2>1, Values
  <2>4. SnapsOK'
    BY <1>0, <2>3 DEF SnapsOK, ReadSteps
  <2>5. WarningOK'
    BY <1>0, <1>1, <2>1, WarningLooked DEF WarningOK
  <2>6. ~raced' /\ phase' # "down" =>
          coord'.data.age = coord'.stamp /\ \A u \in Refreshers : task'[u].pc # "save"
    <3> SUFFICES ASSUME ~raced', phase' # "down"
                 PROVE  coord'.data.age = coord'.stamp /\ \A u \in Refreshers : task'[u].pc # "save"
      OBVIOUS
    <3>1. \A u \in Refreshers : ~Saving(u)
      BY <2>1
    <3>2. coord.data.age = coord.stamp
      BY <1>0, <2>1, <3>1 DEF StampsOK
    <3> QED  BY <1>3, <1>4, <2>1, <2>3, <3>1, <3>2 DEF Saving
  <2>7. StampsOK' /\ ModelOK'
    BY <2>6 DEF StampsOK, ModelOK, Saving
  <2> QED  BY <2>1, <2>2, <2>4, <2>5, <2>7 DEF IInv
<1>6. CASE snap.got = {} /\ Fails(t, c)
  <2>1. /\ coord' \in Coords
        /\ phase' # "down" => /\ phase' = phase /\ coord'.data = c.data
                              /\ coord'.stamp = c.stamp /\ coord'.wrong = c.wrong
        /\ task' = [task EXCEPT ![t] = Idle] /\ TasksOK'
        /\ raced' = raced /\ due' \in 0..Off /\ phase' \in Phases
    BY <1>0, <1>3, <1>6, FailsShape
  <2>2. CoordOK' /\ RestOK'
    BY <1>0, <1>2, <2>1 DEF CoordOK, RestOK
  <2>3. task'[t].pc = "idle" /\ \A u \in Refreshers \ {t} : task'[u] = task[u]
    BY <1>0, <2>1, Values
  <2>4. SnapsOK'
    BY <1>0, <2>3 DEF SnapsOK, ReadSteps
  <2>5. WarningOK'
    BY <1>0, <1>1, <2>1, WarningLooked DEF WarningOK
  <2>6. phase' # "down" => coord'.data = coord.data /\ coord'.stamp = coord.stamp
    BY <1>3, <1>4, <1>6, <2>1
  <2>7. StampsOK'
    BY <1>0, <2>1, <2>3, <2>6 DEF StampsOK, Saving
  <2>8. ModelOK'
    BY <1>0, <2>1, <2>3, <2>6 DEF ModelOK, Saving
  <2> QED  BY <2>1, <2>2, <2>4, <2>5, <2>7, <2>8 DEF IInv
<1>7. CASE Saves(t, c, Merged(snap))
  <2>1. /\ coord' = c /\ UNCHANGED <<due, phase, raced>>
        /\ task' = [task EXCEPT ![t] = [Idle EXCEPT !.pc = "save", !.busy = task[t].busy,
                                                    !.data = Merged(snap)]]
    BY <1>7 DEF Saves
  <2>2. task[t].busy \in 0..MaxBusy
    BY <1>0 DEF Tasks
  <2>3. /\ TasksOK' /\ task'[t].pc = "save" /\ task'[t].data = Merged(snap)
        /\ \A u \in Refreshers \ {t} : task'[u] = task[u]
    BY <1>0, <1>4, <2>1, <2>2, SavesShape
  <2>4. CoordOK' /\ RestOK'
    BY <1>0, <1>2, <1>3, <2>1 DEF CoordOK, RestOK
  <2>5. SnapsOK'
    BY <1>0, <2>3 DEF SnapsOK, ReadSteps
  <2>6. WarningOK'
    BY <1>0, <1>1, <2>1, WarningLooked DEF WarningOK
  <2>7. StampsOK'
    BY <1>0, <1>3, <1>4, <2>1, <2>3 DEF StampsOK, Saving
  <2>8. ModelOK'
    BY <1>0, <1>3, <1>4, <2>1, <2>3 DEF ModelOK, Saving
  <2> QED  BY <2>3, <2>4, <2>5, <2>6, <2>7, <2>8 DEF IInv
<1> QED  BY <1>1, <1>5, <1>6, <1>7 DEF Ends

(***************************************************************************)
(* The steps of a refresh.                                                 *)
(***************************************************************************)

LEMMA ContinueStep ==
    ASSUME IInv, NEW t \in Refreshers, ~Saving(t), NEW pc \in ReadSteps, NEW snap \in Snap,
           "status" \in snap.got, Continues(t, pc, snap), reader' \in Readers,
           UNCHANGED <<box, left>>
    PROVE  IInv'
<1>0. /\ CoordOK /\ RestOK /\ task \in [Refreshers -> Tasks] /\ SnapsOK /\ WarningOK
      /\ StampsOK /\ ModelOK
  BY DEF IInv, TasksOK
<1>1. /\ task' = [task EXCEPT ![t] = [task[t] EXCEPT !.pc = pc, !.snap = snap]]
      /\ UNCHANGED <<coord, due, issue, phase, raced, known>>
  BY <1>0 DEF Continues, Tasks
<1> DEFINE k == [task[t] EXCEPT !.pc = pc, !.snap = snap]
<1>2. k \in Tasks /\ k.pc = pc /\ k.snap = snap
  BY <1>0 DEF Tasks, ReadSteps
<1> HIDE DEF k
<1>3. TasksOK' /\ task'[t] = k /\ \A u \in Refreshers \ {t} : task'[u] = task[u]
  BY <1>0, <1>1, <1>2 DEF TasksOK, k
<1>4. CoordOK' /\ RestOK' /\ WarningOK'
  BY <1>0, <1>1 DEF CoordOK, RestOK, WarningOK
<1>5. SnapsOK'
  BY <1>0, <1>2, <1>3 DEF SnapsOK
<1>6. task'[t].pc # "save"
  BY <1>2, <1>3 DEF ReadSteps
<1>7. StampsOK'
  BY <1>0, <1>1, <1>3, <1>6 DEF StampsOK, Saving
<1>8. ModelOK'
  BY <1>0, <1>1, <1>3, <1>6 DEF ModelOK, Saving
<1> QED  BY <1>3, <1>4, <1>5, <1>7, <1>8 DEF IInv

\* A refresh that reads goes on with a snapshot that has its status block, or ends.
ReadsOn(t) ==
    /\ ~Saving(t)
    /\ UNCHANGED <<box, left>>
    /\ \/ \E pc \in ReadSteps, snap \in Snap : "status" \in snap.got /\ Continues(t, pc, snap)
       \/ \E snap \in Snap : Whole(snap) /\ Update(t, snap)

LEMMA AfterReading ==
    ASSUME NEW t \in Refreshers, reader \in Readers, NEW snap \in Snap,
           "status" \in snap.got, AfterBlocks(t, snap)
    PROVE  \/ \E pc \in ReadSteps, s \in Snap : "status" \in s.got /\ Continues(t, pc, s)
           \/ \E s \in Snap : Whole(s) /\ Update(t, s)
<1>1. CASE Continues(t, "identity", snap)
  BY <1>1 DEF ReadSteps
<1>2. CASE Update(t, [snap EXCEPT !.id = TRUE])
  <2> DEFINE s == [snap EXCEPT !.id = TRUE]
  <2>1. s \in Snap /\ s.got = snap.got
    BY DEF Snap
  <2>2. Whole(s)
    BY <2>1 DEF Whole
  <2> QED  BY <1>2, <2>1, <2>2
<1> QED  BY <1>1, <1>2 DEF AfterBlocks

LEMMA ReadingSteps ==
    ASSUME IInv, NEW t \in Refreshers,
           \/ \E ok \in BOOLEAN : ReadStatus(t, ok) \/ ReadConfig(t, ok) \/ ReadIdentity(t, ok)
           \/ \E res \in {"ok", "refused", "missed"} : ReadPhaseBox(t, res)
    PROVE  ReadsOn(t) /\ reader' \in Readers
<1>0. /\ reader \in Readers /\ task \in [Refreshers -> Tasks] /\ SnapsOK
      /\ task[t].snap \in Snap
  BY DEF IInv, RestOK, TasksOK, Tasks
<1>1. ASSUME NEW ok \in BOOLEAN, ReadStatus(t, ok) PROVE ReadsOn(t) /\ reader' \in Readers
  <2>1. ~Saving(t) /\ UNCHANGED <<box, left, reader>>
    BY <1>1 DEF ReadStatus, Saving
  <2>2. CASE Continues(t, "config", [NoSnap EXCEPT !.got = {"status"}])
    <3>1. /\ [NoSnap EXCEPT !.got = {"status"}] \in Snap
          /\ "status" \in [NoSnap EXCEPT !.got = {"status"}].got
      BY Values DEF Snap, Blocks
    <3> QED  BY <1>0, <2>1, <2>2, <3>1 DEF ReadsOn, ReadSteps
  <2>3. CASE Update(t, NoSnap)
    BY <1>0, <2>1, <2>3, Values DEF ReadsOn, Whole
  <2> QED  BY <1>1, <2>2, <2>3 DEF ReadStatus
<1>2. ASSUME NEW ok \in BOOLEAN, ReadConfig(t, ok) PROVE ReadsOn(t) /\ reader' \in Readers
  <2>1. PICK mode \in Modes :
          LET got  == [task[t].snap EXCEPT !.got = @ \cup {"config"}, !.mode = mode]
              snap == IF ok THEN got ELSE task[t].snap
          IN  /\ task[t].pc = "config"
              /\ IF reader.box = "no" THEN AfterBlocks(t, snap) ELSE Continues(t, "phase_box", snap)
              /\ UNCHANGED <<box, reader, left>>
    BY <1>2 DEF ReadConfig
  <2> DEFINE got  == [task[t].snap EXCEPT !.got = @ \cup {"config"}, !.mode = mode]
             snap == IF ok THEN got ELSE task[t].snap
  <2>2. "status" \in task[t].snap.got
    BY <1>0, <2>1 DEF SnapsOK, ReadSteps
  <2>3. got \in Snap /\ "status" \in got.got
    BY <1>0, <2>2 DEF Snap, Blocks
  <2>4. snap \in Snap /\ "status" \in snap.got
    BY <1>0, <2>2, <2>3
  <2>5. /\ AfterBlocks(t, snap) \/ Continues(t, "phase_box", snap)
        /\ ~Saving(t) /\ UNCHANGED <<box, left, reader>>
    BY <2>1 DEF Saving
  <2> HIDE DEF snap
  <2>6. CASE AfterBlocks(t, snap)
    BY <1>0, <2>4, <2>5, <2>6, AfterReading DEF ReadsOn
  <2>7. CASE Continues(t, "phase_box", snap)
    BY <1>0, <2>4, <2>5, <2>7 DEF ReadsOn, ReadSteps
  <2> QED  BY <2>5, <2>6, <2>7
<1>3. ASSUME NEW ok \in BOOLEAN, ReadIdentity(t, ok) PROVE ReadsOn(t) /\ reader' \in Readers
  <2> DEFINE snap == [task[t].snap EXCEPT !.id = ok]
  <2>1. /\ task[t].pc = "identity" /\ reader' = [reader EXCEPT !.id = ok]
        /\ Update(t, snap) /\ UNCHANGED <<box, left>>
    BY <1>3 DEF ReadIdentity
  <2>2. "status" \in task[t].snap.got /\ ~Saving(t)
    BY <1>0, <2>1 DEF SnapsOK, ReadSteps, Saving
  <2>3. snap \in Snap /\ snap.got = task[t].snap.got
    BY <1>0 DEF Snap
  <2>4. reader' \in Readers
    BY <1>0, <2>1 DEF Readers
  <2> HIDE DEF snap
  <2> QED  BY <2>1, <2>2, <2>3, <2>4 DEF ReadsOn, Whole
<1>4. ASSUME NEW res \in {"ok", "refused", "missed"}, ReadPhaseBox(t, res)
      PROVE  ReadsOn(t) /\ reader' \in Readers
  <2>1. /\ task[t].pc = "phase_box" /\ reader' = [reader EXCEPT !.box = Supported(res)]
        /\ AfterBlocks(t, task[t].snap) /\ UNCHANGED <<box, left>>
    BY <1>4 DEF ReadPhaseBox
  <2>2. "status" \in task[t].snap.got /\ ~Saving(t)
    BY <1>0, <2>1 DEF SnapsOK, ReadSteps, Saving
  <2>3. Supported(res) \in {"unknown", "yes", "no"}
    BY <1>0 DEF Supported, Readers
  <2>4. reader' \in Readers
    BY <1>0, <2>1, <2>3 DEF Readers
  <2> QED  BY <1>0, <2>1, <2>2, <2>4, AfterReading DEF ReadsOn
<1> QED  BY <1>1, <1>2, <1>3, <1>4

LEMMA SavedStep ==
    ASSUME IInv, NEW t \in Refreshers, Saved(t)
    PROVE  IInv'
<1>0. /\ Shape /\ CoordOK /\ RestOK /\ coord \in Coords
      /\ task \in [Refreshers -> Tasks] /\ SnapsOK /\ WarningOK /\ StampsOK
  BY DEF IInv, Shape, CoordOK, TasksOK
<1>1. /\ Saving(t) /\ Publish(t, coord, task[t].data)
      /\ UNCHANGED <<box, reader, issue, left, known>>
  BY DEF Saved, Saving
<1>2. task[t].data \in Data
  BY <1>0 DEF Tasks
<1>3. /\ coord' \in Coords /\ coord'.data = task[t].data /\ coord'.stamp = coord.stamp
      /\ coord'.wrong = coord.wrong
      /\ task' = [task EXCEPT ![t] = Idle] /\ TasksOK'
      /\ raced' \in BOOLEAN /\ due' \in 0..Off /\ phase' \in Phases
      /\ ~raced' => ~raced /\ \A u \in Refreshers \ {t} : ~Saving(u)
      /\ phase' # "down" => phase # "down"
      /\ phase' \in {"setup", "starting", "running"}
           => phase \in {"setup", "starting", "running"}
  BY <1>0, <1>1, <1>2, PublishShape
<1>4. CoordOK' /\ RestOK' /\ WarningOK'
  BY <1>0, <1>1, <1>3 DEF CoordOK, RestOK, WarningOK
<1>5. task'[t].pc = "idle" /\ \A u \in Refreshers \ {t} : task'[u] = task[u]
  BY <1>0, <1>3, Values
<1>6. SnapsOK'
  BY <1>0, <1>5 DEF SnapsOK, ReadSteps
<1>7. ~raced' /\ phase' # "down" =>
        coord'.data.age = coord'.stamp /\ \A u \in Refreshers : task'[u].pc # "save"
  BY <1>0, <1>1, <1>3, <1>5 DEF StampsOK, Saving
<1>8. StampsOK' /\ ModelOK'
  BY <1>7 DEF StampsOK, ModelOK, Saving
<1> QED  BY <1>3, <1>4, <1>6, <1>8 DEF IInv

(***************************************************************************)
(* The other actions.                                                      *)
(***************************************************************************)

LEMMA BeginStep ==
    ASSUME IInv, NEW t \in Refreshers, Begin(t)
    PROVE  IInv'
<1>0. /\ CoordOK /\ RestOK /\ task \in [Refreshers -> Tasks] /\ SnapsOK /\ WarningOK
      /\ StampsOK /\ ModelOK
  BY DEF IInv, TasksOK
<1>1. /\ task[t] = Idle /\ task' = [task EXCEPT ![t] = Asking] /\ due' = Off
      /\ UNCHANGED <<box, reader, coord, issue, phase, raced, left, known>>
  BY DEF Begin
<1>2. /\ TasksOK' /\ task'[t] = Asking /\ task'[t].pc = "status" /\ task[t].pc = "idle"
      /\ \A u \in Refreshers \ {t} : task'[u] = task[u]
  BY <1>0, <1>1, Values DEF TasksOK
<1>3. CoordOK' /\ RestOK' /\ WarningOK'
  BY <1>0, <1>1, AgesAreNumbers DEF CoordOK, RestOK, WarningOK
<1>4. SnapsOK'
  BY <1>0, <1>2 DEF SnapsOK, ReadSteps
<1>5. StampsOK' /\ ModelOK'
  BY <1>0, <1>1, <1>2 DEF StampsOK, ModelOK, Saving
<1> QED  BY <1>2, <1>3, <1>4, <1>5 DEF IInv

LEMMA UserPausedStep ==
    ASSUME IInv, NEW t \in Refreshers, UserPaused(t)
    PROVE  IInv'
<1>0. /\ Shape /\ CoordOK /\ RestOK /\ task \in [Refreshers -> Tasks] /\ SnapsOK /\ WarningOK
      /\ StampsOK /\ ModelOK /\ coord.data \in Data
  BY DEF IInv, Shape, TasksOK, CoordOK, Coords
<1>1. /\ task[t] = Idle
      /\ task' = [task EXCEPT ![t] = [Idle EXCEPT !.pc = "save", !.data = coord.data]]
      /\ UNCHANGED <<box, reader, coord, due, issue, phase, raced, left, known>>
  BY DEF UserPaused
<1> DEFINE k == [Idle EXCEPT !.pc = "save", !.data = coord.data]
<1>2. k \in Tasks /\ k.pc = "save" /\ k.data = coord.data
  BY <1>0, Values DEF Tasks
<1> HIDE DEF k
<1>3. /\ TasksOK' /\ task'[t] = k /\ task[t].pc = "idle"
      /\ \A u \in Refreshers \ {t} : task'[u] = task[u]
  BY <1>0, <1>1, <1>2, Values DEF TasksOK, k
<1>4. CoordOK' /\ RestOK' /\ WarningOK'
  BY <1>0, <1>1 DEF CoordOK, RestOK, WarningOK
<1>5. SnapsOK'
  BY <1>0, <1>2, <1>3 DEF SnapsOK, ReadSteps
<1>6. StampsOK'
  BY <1>0, <1>1, <1>2, <1>3 DEF StampsOK, Saving
<1>7. ModelOK'
  BY <1>0, <1>1, <1>2, <1>3 DEF ModelOK, Saving
<1> QED  BY <1>3, <1>4, <1>5, <1>6, <1>7 DEF IInv

LEMMA SetupStep ==
    ASSUME IInv, NEW t \in Refreshers, Setup(t)
    PROVE  IInv'
<1>0. RestOK /\ CoordOK
  BY DEF IInv
<1>1. /\ phase' = "setup" /\ reader' = NewReader /\ coord' = NewCoord
      /\ task' = [u \in Refreshers |-> IF u = t THEN Asking ELSE Idle]
      /\ left' = (issue # NoMode) /\ raced' = FALSE /\ known' = NoMode
      /\ UNCHANGED <<box, due, issue>>
  BY DEF Setup
<1>2. TasksOK' /\ \A u \in Refreshers : task'[u].pc \in {"status", "idle"}
  BY <1>1, Values DEF TasksOK
<1>3. CoordOK'
  BY <1>0, <1>1, Values DEF CoordOK
<1>4. left' \in BOOLEAN /\ raced' \in BOOLEAN
  BY <1>1, Zenon
<1>5. RestOK'
  BY <1>0, <1>1, <1>4, Values DEF RestOK, Phases
<1>6. SnapsOK'
  BY <1>2 DEF SnapsOK, ReadSteps
<1>7. WarningOK'
  BY <1>1, Values DEF WarningOK
<1>8. StampsOK' /\ ModelOK'
  BY <1>1, <1>2, Values DEF StampsOK, ModelOK, Saving
<1> QED  BY <1>2, <1>3, <1>5, <1>6, <1>7, <1>8 DEF IInv

LEMMA TickStep ==
    ASSUME IInv, Tick
    PROVE  IInv'
<1>0. /\ CoordOK /\ RestOK /\ task \in [Refreshers -> Tasks] /\ SnapsOK /\ WarningOK
      /\ StampsOK /\ ModelOK /\ coord \in Coords /\ coord.data \in Data
      /\ coord.data.age \in AgeMaps /\ coord.stamp \in AgeMaps
  BY DEF IInv, TasksOK, CoordOK, Coords, Data, AgeMaps
<1>1. /\ due # 0 /\ due' = IF due = Off THEN Off ELSE due - 1
      /\ UNCHANGED <<box, reader, issue, phase, raced, left, known>>
  BY DEF Tick
<1> DEFINE d == [coord.data EXCEPT !.age = Aged(coord.data.age)]
<1>2. d \in Data /\ d.age = Aged(coord.data.age) /\ d.id = coord.data.id
  BY <1>0, AgedMap DEF Data, AgeMaps
<1>3. coord' = [coord EXCEPT !.data = d, !.stamp = Aged(coord.stamp)]
  BY <1>0 DEF Tick, Coords, Data
<1> HIDE DEF d
<1>4. /\ coord' \in Coords /\ coord'.data = d /\ coord'.stamp = Aged(coord.stamp)
      /\ coord'.wrong = coord.wrong
  BY <1>0, <1>2, <1>3, AgedMap DEF Coords
\* A task keeps its step and its snapshot; its data ages if it has any.
<1>5. ASSUME NEW t \in Refreshers
      PROVE  /\ task'[t] \in Tasks /\ task'[t].pc = task[t].pc /\ task'[t].snap = task[t].snap
             /\ Saving(t) => task'[t].data.age = Aged(task[t].data.age)
             /\ Saving(t) => task'[t].data.id = task[t].data.id
  <2>1. CASE task[t] = Idle
    <3>1. task'[t] = Idle
      BY <2>1 DEF Tick
    <3> QED  BY <2>1, <3>1, Values DEF Saving
  <2>2. CASE task[t] # Idle
    <3> DEFINE e == [task[t].data EXCEPT !.age = Aged(task[t].data.age)]
               k == [task[t] EXCEPT !.busy = task[t].busy + 1, !.data = e]
    <3>1. task[t] \in Tasks /\ task[t].data \in Data /\ task[t].busy \in 0..MaxBusy
      BY <1>0 DEF Tasks
    <3>2. task[t].busy + 1 \in 0..MaxBusy
      <4>1. task[t].busy < MaxBusy
        BY <2>2 DEF Tick
      <4> QED  BY <3>1, <4>1, TimesAssumption
    <3>3. e \in Data /\ e.age = Aged(task[t].data.age) /\ e.id = task[t].data.id
      BY <3>1, AgedMap DEF Data, AgeMaps
    <3>4. task'[t] = k
      BY <2>2, <3>1 DEF Tick, Tasks, Data
    <3> HIDE DEF e
    <3>5. k \in Tasks /\ k.pc = task[t].pc /\ k.snap = task[t].snap /\ k.data = e
      BY <3>1, <3>2, <3>3 DEF Tasks
    <3> QED  BY <3>3, <3>4, <3>5
  <2> QED  BY <2>1, <2>2
<1>6. TasksOK'
  <2>1. DOMAIN task' = Refreshers /\ task' = [t \in Refreshers |-> task'[t]]
    BY DEF Tick
  <2> QED  BY <1>5, <2>1 DEF TasksOK
<1>7. CoordOK' /\ WarningOK'
  BY <1>0, <1>1, <1>4 DEF CoordOK, WarningOK
<1>8. RestOK'
  BY <1>0, <1>1, AgesAreNumbers DEF RestOK
<1>9. SnapsOK'
  BY <1>0, <1>5 DEF SnapsOK
<1>10. StampsOK'
  BY <1>0, <1>1, <1>2, <1>4, <1>5 DEF StampsOK, Saving
<1>11. ModelOK'
  BY <1>0, <1>1, <1>2, <1>4, <1>5 DEF ModelOK, Saving
<1> QED  BY <1>6, <1>7, <1>8, <1>9, <1>10, <1>11 DEF IInv

LEMMA LifecycleStep ==
    ASSUME IInv, Started \/ StartFails \/ Unload \/ Unloaded
    PROVE  IInv'
<1>0. /\ CoordOK /\ RestOK /\ TasksOK /\ SnapsOK /\ WarningOK /\ StampsOK /\ ModelOK
      /\ coord \in Coords
  BY DEF IInv, CoordOK
<1>1. CASE Started
  <2>1. /\ phase = "starting" /\ phase' = "running" /\ due' = Interval
        /\ UNCHANGED <<box, reader, coord, task, issue, raced, left, known>>
    BY <1>1 DEF Started
  <2>2. CoordOK' /\ TasksOK' /\ RestOK' /\ SnapsOK' /\ WarningOK'
    BY <1>0, <2>1, AgesAreNumbers
       DEF CoordOK, TasksOK, RestOK, SnapsOK, WarningOK, Phases
  <2>3. StampsOK' /\ ModelOK'
    BY <1>0, <2>1 DEF StampsOK, ModelOK, Saving
  <2> QED  BY <2>2, <2>3 DEF IInv
<1>2. CASE StartFails
  <2>1. /\ phase' = "down" /\ coord' = NewCoord
        /\ UNCHANGED <<box, reader, task, due, issue, raced, left, known>>
    BY <1>2 DEF StartFails
  <2>2. CoordOK' /\ TasksOK' /\ RestOK' /\ SnapsOK'
    BY <1>0, <2>1, Values DEF CoordOK, TasksOK, RestOK, SnapsOK, Phases
  <2>3. WarningOK' /\ StampsOK' /\ ModelOK'
    BY <2>1 DEF WarningOK, StampsOK, ModelOK
  <2> QED  BY <2>2, <2>3 DEF IInv
<1>3. CASE Unload
  <2>1. /\ phase = "running" /\ phase' = "unloading" /\ due' = Off /\ issue' = NoMode
        /\ coord' = [coord EXCEPT !.wrong = NoMode]
        /\ UNCHANGED <<box, reader, task, raced, left, known>>
    BY <1>3 DEF Unload
  <2>2. coord' \in Coords /\ coord'.data = coord.data /\ coord'.stamp = coord.stamp
    BY <1>0, <2>1, Values DEF Coords
  <2>3. CoordOK' /\ TasksOK' /\ RestOK' /\ SnapsOK'
    BY <1>0, <2>1, <2>2, Values, AgesAreNumbers
       DEF CoordOK, TasksOK, RestOK, SnapsOK, Phases
  <2>4. WarningOK' /\ StampsOK' /\ ModelOK'
    BY <1>0, <2>1, <2>2 DEF WarningOK, StampsOK, ModelOK, Saving
  <2> QED  BY <2>3, <2>4 DEF IInv
<1>4. CASE Unloaded
  <2>1. /\ phase' = "down" /\ coord' = NewCoord /\ task' = [t \in Refreshers |-> Idle]
        /\ UNCHANGED <<box, reader, due, issue, raced, left, known>>
    BY <1>4 DEF Unloaded
  <2>2. CoordOK' /\ TasksOK' /\ RestOK'
    BY <1>0, <2>1, Values DEF CoordOK, TasksOK, RestOK, Phases
  <2>3. SnapsOK'
    BY <2>1, Values DEF SnapsOK, ReadSteps
  <2>4. WarningOK' /\ StampsOK' /\ ModelOK'
    BY <2>1 DEF WarningOK, StampsOK, ModelOK
  <2> QED  BY <2>2, <2>3, <2>4 DEF IInv
<1> QED  BY <1>1, <1>2, <1>3, <1>4

(***************************************************************************)
(* The theorems.                                                           *)
(***************************************************************************)

LEMMA Initially == Init => IInv
<1> SUFFICES ASSUME Init PROVE IInv
  OBVIOUS
<1>1. /\ coord = NewCoord /\ issue = NoMode /\ known = NoMode /\ phase = "down" /\ due = Off
      /\ task = [t \in Refreshers |-> Idle] /\ reader = NewReader
      /\ box \in BOOLEAN /\ raced \in BOOLEAN /\ left \in BOOLEAN
  BY Zenon DEF Init
<1>2. CoordOK /\ TasksOK /\ RestOK
  BY <1>1, Values, AgesAreNumbers DEF CoordOK, TasksOK, RestOK, Phases
<1>3. SnapsOK
  BY <1>1, Values DEF SnapsOK, ReadSteps
<1>4. WarningOK /\ StampsOK /\ ModelOK
  BY <1>1 DEF WarningOK, StampsOK, ModelOK
<1> QED  BY <1>2, <1>3, <1>4 DEF IInv

LEMMA Inductive == IInv /\ [Next]_vars => IInv'
<1> SUFFICES ASSUME IInv, [Next]_vars PROVE IInv'
  OBVIOUS
<1>1. ASSUME NEW t \in Refreshers, Refresh(t) PROVE IInv'
  <2>1. CASE Saved(t)
    BY <2>1, SavedStep
  <2>2. CASE \/ \E ok \in BOOLEAN : ReadStatus(t, ok) \/ ReadConfig(t, ok) \/ ReadIdentity(t, ok)
             \/ \E res \in {"ok", "refused", "missed"} : ReadPhaseBox(t, res)
    <3>1. ReadsOn(t) /\ reader' \in Readers
      BY <2>2, ReadingSteps
    <3>2. CASE \E pc \in ReadSteps, snap \in Snap : "status" \in snap.got /\ Continues(t, pc, snap)
      BY <3>1, <3>2, ContinueStep DEF ReadsOn
    <3>3. CASE \E snap \in Snap : Whole(snap) /\ Update(t, snap)
      BY <3>1, <3>3, UpdateStep DEF ReadsOn
    <3> QED  BY <3>1, <3>2, <3>3 DEF ReadsOn
  <2> QED  BY <1>1, <2>1, <2>2 DEF Refresh
<1>2. CASE \E t \in Refreshers : Begin(t) \/ UserPaused(t) \/ Setup(t)
  BY <1>2, BeginStep, UserPausedStep, SetupStep
<1>3. CASE Tick
  BY <1>3, TickStep
<1>4. CASE Started \/ StartFails \/ Unload \/ Unloaded
  BY <1>4, LifecycleStep
<1>5. CASE UNCHANGED vars
  BY <1>5 DEF vars, IInv, CoordOK, TasksOK, RestOK, SnapsOK, WarningOK, StampsOK, ModelOK, Saving
<1> QED  BY <1>1, <1>2, <1>3, <1>4, <1>5 DEF Next

\* The inductive invariant holds in every state.
THEOREM Invariance == Spec => []IInv
BY Initially, Inductive, PTL DEF Spec

\* Every variable keeps its shape.
THEOREM TypeTheorem == Spec => []TypeOK
<1>1. IInv => TypeOK
  BY DEF IInv, CoordOK, TasksOK, RestOK, Tasks, Coords, Readers, Phases, AgeMaps, TypeOK
<1> QED  BY <1>1, Invariance, PTL

\* Whatever refreshes and user pauses overlap, a value that is shown as live is within
\* the staleness threshold, unless data was published while another refresh saved.
THEOREM RecentTheorem == Spec => []ShownIsRecent
<1>1. IInv => ShownIsRecent
  <2> SUFFICES ASSUME IInv, ~raced, \A t \in Refreshers : task[t].pc # "save",
                      NEW b \in Blocks, Available(b)
               PROVE  coord.data.age[b] <= Threshold
    BY DEF ShownIsRecent, StaleIsHidden
  <2>1. coord.data.age = coord.stamp
    BY DEF IInv, StampsOK, Saving, Available
  <2> QED  BY <2>1 DEF Available, BlockIsFresh
<1> QED  BY <1>1, Invariance, PTL

\* The warning names the mode the charger was last read in, over failed reads and
\* reloads, unless one was left behind when the entry was set up.
THEOREM WarningTheorem == Spec => []WarningFollowsMode
<1>1. IInv => WarningFollowsMode
  <2> SUFFICES ASSUME IInv, phase = "running", known # NoMode
               PROVE  issue = WrongMode(known) \/ (left /\ known = PlugAndCharge)
    BY DEF WarningFollowsMode
  <2>1. /\ coord.wrong = WrongMode(known) /\ (issue = coord.wrong \/ (left /\ coord.wrong = NoMode))
    BY DEF IInv, WarningOK
  <2>2. WrongMode(known) = NoMode => known = PlugAndCharge
    BY DEF WrongMode
  <2> QED  BY <2>1, <2>2
<1> QED  BY <1>1, Invariance, PTL

\* A model that is published stays published while the entry is loaded, unless data was
\* published while another refresh saved.
THEOREM KnownModelTheorem == Spec => KnownModelStays
<1> DEFINE A == phase = "running" /\ phase' = "running" /\ coord.data.id /\ ~raced' => coord'.data.id
<1>1. IInv /\ [Next]_vars => [A]_vars
  <2> SUFFICES ASSUME IInv, Next, phase = "running", phase' = "running", coord.data.id, ~raced'
               PROVE  coord'.data.id
    OBVIOUS
  <2>0. Shape /\ CoordOK /\ coord \in Coords /\ task \in [Refreshers -> Tasks]
    BY DEF IInv, Shape, CoordOK, TasksOK
  <2>1. ASSUME NEW t \in Refreshers, Saved(t) PROVE coord'.data.id
    <3>1. Saving(t) /\ Publish(t, coord, task[t].data) /\ task[t].data \in Data
      BY <2>0, <2>1 DEF Saved, Saving, Tasks
    <3>2. coord'.data = task[t].data /\ ~raced
      BY <2>0, <3>1, PublishShape
    <3> QED  BY <3>1, <3>2 DEF IInv, ModelOK
  <2>2. ASSUME NEW t \in Refreshers, ReadsOn(t) PROVE coord'.data.id
    <3>1. CASE \E pc \in ReadSteps, snap \in Snap : "status" \in snap.got /\ Continues(t, pc, snap)
      BY <3>1 DEF Continues
    <3>2. ASSUME NEW snap \in Snap, Whole(snap), Update(t, snap) PROVE coord'.data.id
      <4>1. PICK c : Looked(snap, c) /\ Ends(t, snap, c)
        BY <2>0, <3>2, Updated
      <4>2. c \in Coords /\ c.data = coord.data /\ Merged(snap) \in Data /\ Merged(snap).id
        BY <2>0, <4>1, Computed DEF Looked
      <4>3. CASE Publish(t, c, Merged(snap))
        BY <2>0, <4>2, <4>3, PublishShape
      <4>4. CASE Fails(t, c)
        BY <2>0, <4>2, <4>4, FailsShape
      <4>5. CASE Saves(t, c, Merged(snap))
        BY <4>2, <4>5 DEF Saves
      <4> QED  BY <4>1, <4>3, <4>4, <4>5 DEF Ends
    <3> QED  BY <2>2, <3>1, <3>2 DEF ReadsOn
  <2>3. ASSUME NEW t \in Refreshers, Refresh(t) PROVE coord'.data.id
    BY <2>1, <2>2, <2>3, ReadingSteps DEF Refresh
  <2>4. CASE Tick
    <3>1. coord' = [coord EXCEPT !.data.age = Aged(coord.data.age), !.stamp = Aged(coord.stamp)]
      BY <2>4 DEF Tick
    <3> QED  BY <2>0, <3>1 DEF Coords, Data
  <2>5. CASE \/ \E t \in Refreshers : Begin(t) \/ UserPaused(t) \/ Setup(t)
             \/ Started \/ StartFails \/ Unload \/ Unloaded
    BY <2>5 DEF Begin, UserPaused, Setup, Started, StartFails, Unload, Unloaded
  <2> QED  BY <2>3, <2>4, <2>5 DEF Next
<1>2. [][A]_vars => KnownModelStays
  BY PTL DEF KnownModelStays
<1> QED  BY <1>1, Invariance, PTL DEF Spec, KnownModelStays

\* A charger that is never too busy to answer for its phase box keeps it polled, however
\* often reads get no answer.
THEOREM PhaseBoxTheorem == ASSUME "busy" \notin Faults PROVE Spec => []PhaseBoxIsKept
<1>1. Init => PhaseBoxIsKept
  BY Values DEF Init, PhaseBoxIsKept
<1>2. IInv /\ PhaseBoxIsKept /\ [Next]_vars => PhaseBoxIsKept'
  <2> SUFFICES ASSUME IInv, PhaseBoxIsKept, [Next]_vars PROVE PhaseBoxIsKept'
    OBVIOUS
  <2>0. reader \in Readers
    BY DEF IInv, RestOK
  <2>1. ASSUME NEW t \in Refreshers, NEW res \in {"ok", "refused", "missed"}, ReadPhaseBox(t, res)
        PROVE  PhaseBoxIsKept'
    <3>1. /\ res = "refused" => ~box
          /\ reader' = [reader EXCEPT !.box = Supported(res)] /\ box' = box
      BY <2>1 DEF ReadPhaseBox
    <3>2. reader'.box = Supported(res)
      BY <2>0, <3>1 DEF Readers
    <3> QED  BY <3>1, <3>2 DEF PhaseBoxIsKept, Supported
  <2>2. ASSUME NEW t \in Refreshers, NEW ok \in BOOLEAN, ReadIdentity(t, ok) PROVE PhaseBoxIsKept'
    <3>1. reader' = [reader EXCEPT !.id = ok] /\ box' = box
      BY <2>2 DEF ReadIdentity
    <3>2. reader'.box = reader.box
      BY <2>0, <3>1 DEF Readers
    <3> QED  BY <3>1, <3>2 DEF PhaseBoxIsKept
  <2>3. ASSUME NEW t \in Refreshers, NEW ok \in BOOLEAN, ReadStatus(t, ok) \/ ReadConfig(t, ok)
        PROVE  PhaseBoxIsKept'
    BY <2>3 DEF ReadStatus, ReadConfig, PhaseBoxIsKept
  <2>4. ASSUME NEW t \in Refreshers, Saved(t) \/ Begin(t) \/ UserPaused(t) PROVE PhaseBoxIsKept'
    BY <2>4 DEF Saved, Begin, UserPaused, PhaseBoxIsKept
  <2>5. ASSUME NEW t \in Refreshers, Setup(t) PROVE PhaseBoxIsKept'
    BY <2>5, Values DEF Setup, PhaseBoxIsKept
  <2>6. CASE Tick \/ Started \/ StartFails \/ Unload \/ Unloaded \/ UNCHANGED vars
    BY <2>6 DEF Tick, Started, StartFails, Unload, Unloaded, vars, PhaseBoxIsKept
  <2> QED  BY <2>1, <2>2, <2>3, <2>4, <2>5, <2>6 DEF Next, Refresh
<1> QED  BY <1>1, <1>2, Invariance, PTL DEF Spec
=============================================================================
