-------------------------- MODULE CoordinatorProofs --------------------------
(***************************************************************************)
(* Theorems about the coordinator and the sessions it keeps, for any       *)
(* number of service calls, sessions, failing saves, crashes and reloads.  *)
(***************************************************************************)
EXTENDS Coordinator, TLAPS

(***************************************************************************)
(* The inductive invariant.                                                *)
(***************************************************************************)
SessionSet == [start : 0..MaxSessions, total : Int, rearm : BOOLEAN,
               prev : Statuses \cup {"none"}, last : 0..MaxSessions, dirty : BOOLEAN,
               fired : [Sessions -> Nat]]
SessionSave == [by : Tasks, out : Exports]
EnergySave  == [by : Tasks, out : Int]
Memory == [s : SessionSet, energy : Int, energyDirty : BOOLEAN, data : Published,
           polled : BOOLEAN, failures : 0..MaxReadFailures, written : Seq(Exports),
           task : [Tasks -> TaskState], sessions : Seq(SessionSave), energies : Seq(EnergySave)]

\* How far a tracker or its record is: a session starts, it ends, and the tracker is armed
\* again.
Stage(x) == IF x.start # 0 THEN 3 * x.start
            ELSE IF x.rearm THEN 3 * x.last + 1 ELSE 3 * x.last + 2

Same(x, y) == x.start = y.start /\ x.total = y.total /\ x.last = y.last /\ Stage(x) = Stage(y)

\* The tracker was at x before, or still is, when it is at y.
Before(x, y) == Stage(x) < Stage(y) \/ Same(x, y)

\* The sessions of x are among the first b, and a running one asks for no re-arming.
RecordOK(x, b) == x.start <= b /\ x.last <= b /\ (x.start # 0 => ~x.rearm)

\* What was written, what waits to be written and the tracker follow one another.
Ordered(m) ==
    /\ \A i \in 1..Len(m.sessions) : Before(m.sessions[i].out, m.s)
    /\ \A i, j \in 1..Len(m.sessions) : i < j => Before(m.sessions[i].out, m.sessions[j].out)
    /\ m.written # <<>> => /\ Before(m.written[1], m.s)
                           /\ \A i \in 1..Len(m.sessions) : Before(m.written[1], m.sessions[i].out)

\* The memory m makes sense with the files d and b sessions started.
Sound(m, d, b) ==
    /\ m \in Memory
    /\ RecordOK(m.s, b)
    /\ \A i \in 1..Len(m.sessions) : RecordOK(m.sessions[i].out, b)
    /\ Ordered(m)
    /\ m.written # <<>> => m.written = <<d.session>>

\* The last save that waits, or the file unless a save failed (f), has the tracker.
Kept(m, d, f) ==
    /\ m.sessions # <<>> => Remembers(m.sessions[Len(m.sessions)].out, m.s)
    /\ m.sessions = <<>> /\ ~f => Remembers(d.session, m.s)

DiskOK(d, b) == d \in [session : Exports, energy : Int] /\ RecordOK(d.session, b)

\* No session was completed twice, and neither the running one nor a future one once.
FiredOK(s, b) == \A n \in Sessions : s.fired[n] <= 1 /\ (n > b \/ n = s.start => s.fired[n] = 0)

\* A session ended by the user is over, and the tracker asks for re-arming.
RearmOK(s, ended) == ended => ~Active(s) /\ s.rearm

RestOK ==
    /\ phase \in {"setup", "running", "unloading", "down", "dead"}
    /\ intent \in BOOLEAN /\ born \in 0..MaxSessions /\ down \in 0..MaxDown /\ fails \in 0..MaxFails
    /\ failed \in BOOLEAN /\ lossy \in BOOLEAN /\ userEnded \in BOOLEAN

IInv ==
    /\ Sound(mem, disk, born)
    /\ Kept(mem, disk, failed)
    /\ DiskOK(disk, born)
    /\ RestOK
    /\ lossy \/ (FiredOK(mem.s, born) /\ RearmOK(mem.s, userEnded))

(***************************************************************************)
(* The tracker.  A step of it leaves the session as it is, starts one or   *)
(* ends one.                                                               *)
(***************************************************************************)
Stays(s, z) == /\ z.start = s.start /\ z.total = s.total /\ z.last = s.last /\ z.fired = s.fired
               /\ z.rearm => s.rearm

Begins(s, z, n) == /\ ~Active(s) /\ z.start = n /\ z.last = s.last /\ z.fired = s.fired
                   /\ ~z.rearm /\ z.dirty

Finishes(s, z) == /\ Active(s) /\ z.start = 0 /\ z.total = None /\ z.last = s.start
                  /\ z.fired = [s.fired EXCEPT ![s.start] = @ + 1] /\ z.dirty

\* What the code that follows the tracker's update may do to it.
Tracks(s, z) == \/ Stays(s, z) /\ z.rearm = s.rearm
                \/ Finishes(s, z) /\ z.rearm

LEMMA CompleteFinishes ==
    ASSUME NEW s \in SessionSet, Active(s)
    PROVE  Complete(s) \in SessionSet /\ Finishes(s, Complete(s)) /\ Complete(s).rearm = s.rearm
           /\ Complete(s).prev = s.prev
<1>1. s.start \in Sessions /\ None \in Int /\ 0 \in 0..MaxSessions
  BY SessionsAssumption DEF SessionSet, Active, Sessions, None
<1>2. [s.fired EXCEPT ![s.start] = @ + 1] \in [Sessions -> Nat]
  BY <1>1 DEF SessionSet
<1> QED  BY <1>1, <1>2 DEF SessionSet, Finishes, Complete

LEMMA UserPauseFinishes ==
    ASSUME NEW s \in SessionSet, Active(s)
    PROVE  /\ EndForUserPause(s) \in SessionSet /\ Finishes(s, EndForUserPause(s))
           /\ EndForUserPause(s).rearm /\ EndForUserPause(s).prev = s.prev
<1> DEFINE c == Complete(s)
<1>1. c \in SessionSet /\ Finishes(s, c) /\ c.prev = s.prev
  BY CompleteFinishes
<1>2. EndForUserPause(s) = [c EXCEPT !.rearm = TRUE]
  BY DEF EndForUserPause
<1> HIDE DEF c
<1> DEFINE z == [c EXCEPT !.rearm = TRUE]
<1>3. /\ z \in SessionSet /\ z.start = c.start /\ z.total = c.total /\ z.last = c.last
      /\ z.fired = c.fired /\ z.dirty = c.dirty /\ z.rearm /\ z.prev = c.prev
  BY <1>1 DEF SessionSet
<1> HIDE DEF z
<1>4. Finishes(s, z)
  BY <1>1, <1>3 DEF Finishes
<1> QED  BY <1>1, <1>2, <1>3, <1>4 DEF z

\* What update does (session.py): it starts no session that must be re-armed first, and
\* it ends none without asking for that, unless the charger is seen inactive.
LEMMA UpdateMoves ==
    ASSUME NEW s \in SessionSet, NEW status \in Statuses, NEW on \in BOOLEAN, NEW total \in Int,
           NEW n \in Nat \ {0}, Starts([s EXCEPT !.rearm = @ /\ ~on], status, on) => n <= MaxSessions
    PROVE  LET z == Update(s, status, on, total, n)
           IN  /\ z \in SessionSet
               /\ Stays(s, z) \/ (Begins(s, z, n) /\ n <= MaxSessions) \/ Finishes(s, z)
               /\ Stays(s, z) => z.rearm = s.rearm \/ on \/ status = "off"
               /\ Begins(s, z, n) => on \/ ~s.rearm
               /\ Finishes(s, z) => z.rearm \/ on \/ status = "off"
<1> DEFINE armed == IF on THEN [s EXCEPT !.rearm = FALSE] ELSE s
           left  == [armed EXCEPT !.rearm = FALSE, !.dirty = @ \/ armed.rearm]
           moved == IF status = "off" THEN IF Active(left) THEN Complete(left) ELSE left
                    ELSE IF Starts(armed, status, on) THEN Start(armed, n, total)
                    ELSE armed
           ended == IF ~on /\ PauseObserved(status) THEN EndForUserPause(moved) ELSE moved
           z     == Update(s, status, on, total, n)
<1>1. /\ armed \in SessionSet /\ Stays(s, armed) /\ armed.rearm = (s.rearm /\ ~on)
      /\ armed = [s EXCEPT !.rearm = @ /\ ~on]
  BY DEF SessionSet, Stays
<1>2. left \in SessionSet /\ Stays(s, left) /\ left.rearm = FALSE
  BY <1>1 DEF SessionSet, Stays
<1> HIDE DEF armed, left
<1>3. /\ moved \in SessionSet
      /\ Stays(s, moved) \/ (Begins(s, moved, n) /\ n <= MaxSessions) \/ Finishes(s, moved)
      /\ Stays(s, moved) => moved.rearm = s.rearm \/ on \/ status = "off"
      /\ Begins(s, moved, n) => on \/ (~s.rearm /\ ~PauseObserved(status))
      /\ Finishes(s, moved) => status = "off"
  <2>1. CASE status = "off" /\ Active(left)
    <3>1. Complete(left) \in SessionSet /\ Finishes(left, Complete(left))
      BY <1>2, <2>1, CompleteFinishes
    <3>2. Finishes(s, moved)
      BY <2>1, <3>1, <1>2 DEF Finishes, Stays, Active
    <3>3. ~Stays(s, moved) /\ ~Begins(s, moved, n)
      BY <3>2 DEF Finishes, Stays, Begins, Active
    <3> QED  BY <2>1, <3>1, <3>2, <3>3
  <2>2. CASE status = "off" /\ ~Active(left)
    <3>1. moved = left /\ ~Active(s)
      BY <2>2, <1>2 DEF Stays, Active
    <3>2. ~Begins(s, moved, n) /\ ~Finishes(s, moved)
      BY <3>1, <1>2 DEF Begins, Finishes, Stays, Active
    <3> QED  BY <2>2, <3>1, <3>2, <1>2
  <2>3. CASE status # "off" /\ Starts(armed, status, on)
    <3>1. n \in 0..MaxSessions /\ n # 0
      BY <2>3, <1>1, SessionsAssumption
    <3>2. LET y == Start(armed, n, total)
          IN  /\ y \in SessionSet /\ y.start = n /\ y.rearm = armed.rearm /\ y.last = armed.last
              /\ y.dirty /\ y.fired = armed.fired
      BY <1>1, <3>1 DEF Start, SessionSet
    <3>3. moved \in SessionSet /\ Begins(s, moved, n) /\ moved.start # 0
      BY <2>3, <3>1, <3>2, <1>1 DEF SessionSet, Begins, Starts, Active, Stays
    <3>4. ~Stays(s, moved) /\ ~Finishes(s, moved)
      BY <3>3 DEF Stays, Begins, Finishes, Active
    <3>5. on \/ (~s.rearm /\ ~PauseObserved(status))
      BY <2>3, <1>1 DEF Starts
    <3> QED  BY <2>3, <3>1, <3>3, <3>4, <3>5
  <2>4. CASE status # "off" /\ ~Starts(armed, status, on)
    <3>1. moved = armed
      BY <2>4
    <3> HIDE DEF moved
    <3>2. ~Begins(s, moved, n) /\ ~Finishes(s, moved)
      BY <3>1, <1>1 DEF Begins, Finishes, Stays, Active
    <3> QED  BY <2>4, <3>1, <3>2, <1>1 DEF SessionSet
  <2> QED  BY <2>1, <2>2, <2>3, <2>4
<1> HIDE DEF moved
<1>4. /\ ended \in SessionSet
      /\ Stays(s, ended) \/ (Begins(s, ended, n) /\ n <= MaxSessions) \/ Finishes(s, ended)
      /\ Stays(s, ended) => ended.rearm = s.rearm \/ on \/ status = "off"
      /\ Begins(s, ended, n) => on \/ ~s.rearm
      /\ Finishes(s, ended) => ended.rearm \/ on \/ status = "off"
  <2>1. CASE ~on /\ PauseObserved(status) /\ Active(moved)
    <3>1. /\ EndForUserPause(moved) \in SessionSet /\ Finishes(moved, EndForUserPause(moved))
          /\ EndForUserPause(moved).rearm
      BY <1>3, <2>1, UserPauseFinishes
    <3>2. status # "off"
      BY <2>1 DEF PauseObserved
    <3>3. Stays(s, moved)
      BY <1>3, <2>1, <3>2
    <3>4. Finishes(s, ended)
      BY <2>1, <3>1, <3>3 DEF Finishes, Stays, Active
    <3>5. ~Stays(s, ended) /\ ~Begins(s, ended, n)
      BY <3>4 DEF Finishes, Stays, Begins, Active
    <3> QED  BY <2>1, <3>1, <3>4, <3>5
  <2>2. CASE ~(~on /\ PauseObserved(status) /\ Active(moved))
    <3>1. ended = moved
      BY <2>2 DEF EndForUserPause
    <3> QED  BY <3>1, <1>3
  <2> QED  BY <2>1, <2>2
<1>5. z = IF status = "invalid" THEN armed
          ELSE [ended EXCEPT !.prev = status, !.dirty = @ \/ s.prev # status]
  BY Zenon DEF Update, ended, moved, left, armed
<1> HIDE DEF ended
<1>6. CASE status = "invalid"
  <2>1. z = armed
    BY <1>5, <1>6
  <2>2. ~Begins(s, z, n) /\ ~Finishes(s, z)
    BY <2>1, <1>1 DEF Begins, Finishes, Stays, Active
  <2> QED  BY <2>1, <2>2, <1>1 DEF SessionSet
<1>7. CASE status # "invalid"
  <2> DEFINE y == [ended EXCEPT !.prev = status, !.dirty = @ \/ s.prev # status]
  <2>1. /\ y \in SessionSet /\ y.start = ended.start /\ y.total = ended.total
        /\ y.rearm = ended.rearm /\ y.last = ended.last /\ y.fired = ended.fired
        /\ ended.dirty => y.dirty
    BY <1>4 DEF SessionSet
  <2>2. z = y
    BY <1>5, <1>7
  <2> HIDE DEF y
  <2>3. (Stays(s, y) <=> Stays(s, ended))
    BY <2>1 DEF Stays
  <2>4. (Begins(s, ended, n) => Begins(s, y, n)) /\ (Finishes(s, ended) => Finishes(s, y))
    BY <2>1 DEF Begins, Finishes
  <2>5. Begins(s, y, n) => Begins(s, ended, n)
    <3>1. Begins(s, y, n) => ~Stays(s, ended) /\ ~Finishes(s, ended)
      BY <2>1 DEF Begins, Stays, Finishes, Active
    <3> QED  BY <3>1, <1>4
  <2>6. Finishes(s, y) => Finishes(s, ended)
    <3>1. Finishes(s, y) => ~Stays(s, ended) /\ ~Begins(s, ended, n)
      BY <2>1 DEF Begins, Stays, Finishes, Active
    <3> QED  BY <3>1, <1>4
  <2> QED  BY <2>1, <2>2, <2>3, <2>4, <2>5, <2>6, <1>4
<1> QED  BY <1>6, <1>7

(***************************************************************************)
(* What the moves of the tracker keep.                                     *)
(***************************************************************************)

\* Before is an order of the records.
LEMMA BeforeIsTransitive ==
    ASSUME NEW x, NEW y, NEW z, Stage(x) \in Int, Stage(y) \in Int, Stage(z) \in Int,
           Before(x, y), Before(y, z)
    PROVE  Before(x, z)
BY DEF Before, Same

LEMMA StageIsInt ==
    ASSUME NEW x, x.start \in Nat, x.last \in Nat
    PROVE  Stage(x) \in Int
BY DEF Stage

LEMMA SessionStage == ASSUME NEW s \in SessionSet PROVE Stage(s) \in Int /\ Stage(Export(s)) = Stage(s)
<1>1. s.start \in Nat /\ s.last \in Nat
  BY SessionsAssumption DEF SessionSet
<1>2. Export(s).start = s.start /\ Export(s).last = s.last /\ Export(s).rearm = s.rearm
  BY DEF Export
<1> QED  BY <1>1, <1>2, StageIsInt DEF Stage

LEMMA ExportStage == ASSUME NEW x \in Exports PROVE Stage(x) \in Int
<1>1. x.start \in Nat /\ x.last \in Nat
  BY SessionsAssumption DEF Exports
<1> QED  BY <1>1, StageIsInt

LEMMA ExportIsExport == ASSUME NEW s \in SessionSet PROVE Export(s) \in Exports
BY DEF SessionSet, Export, Exports

\* A record of the tracker as it is stands at the same place in the order.
LEMMA ExportBefore ==
    ASSUME NEW s \in SessionSet, NEW x
    PROVE  (Before(x, s) <=> Before(x, Export(s))) /\ Before(Export(s), s)
<1>1. Export(s).start = s.start /\ Export(s).last = s.last /\ Export(s).total = s.total
  BY DEF Export
<1> QED  BY <1>1, SessionStage DEF Before, Same

LEMMA StaysIsLater ==
    ASSUME NEW s \in SessionSet, NEW z \in SessionSet, NEW b \in Nat, RecordOK(s, b), Stays(s, z)
    PROVE  Before(s, z) /\ RecordOK(z, b)
<1>1. s.start \in Nat /\ s.last \in Nat /\ s.rearm \in BOOLEAN /\ z.rearm \in BOOLEAN
  BY SessionsAssumption DEF SessionSet
<1> QED  BY <1>1 DEF Before, Same, Stage, RecordOK, Stays

LEMMA FinishesIsLater ==
    ASSUME NEW s \in SessionSet, NEW z \in SessionSet, NEW b \in Nat, RecordOK(s, b), Finishes(s, z)
    PROVE  Before(s, z) /\ RecordOK(z, b)
<1>1. s.start \in Nat /\ s.last \in Nat /\ s.rearm \in BOOLEAN /\ z.rearm \in BOOLEAN
  BY SessionsAssumption DEF SessionSet
<1> QED  BY <1>1 DEF Before, Stage, RecordOK, Finishes, Active

LEMMA BeginsIsLater ==
    ASSUME NEW s \in SessionSet, NEW z \in SessionSet, NEW b \in Nat, RecordOK(s, b),
           Begins(s, z, b + 1)
    PROVE  Before(s, z) /\ RecordOK(z, b + 1)
<1>1. s.start \in Nat /\ s.last \in Nat /\ s.rearm \in BOOLEAN /\ z.rearm \in BOOLEAN
  BY SessionsAssumption DEF SessionSet
<1> QED  BY <1>1 DEF Before, Stage, RecordOK, Begins, Active

\* A record at the place of the tracker brings it back.
LEMMA SameRemembers ==
    ASSUME NEW x \in Exports, NEW s \in SessionSet, NEW b \in Nat, RecordOK(s, b), Same(x, s)
    PROVE  Remembers(x, s)
<1>1. s.start \in Nat /\ s.last \in Nat /\ s.rearm \in BOOLEAN /\ x.rearm \in BOOLEAN
  BY SessionsAssumption DEF SessionSet, Exports
<1>2. s.rearm => x.rearm
  BY <1>1 DEF Same, Stage, RecordOK
<1> DEFINE back == Restore(x, s.fired)
<1>3. /\ back.start = (IF x.total = None THEN 0 ELSE x.start) /\ back.total = x.total
      /\ back.last = x.last /\ back.rearm = x.rearm
  BY DEF Restore, NewSession
<1> HIDE DEF back
<1> QED  BY <1>2, <1>3 DEF Remembers, Same, back

LEMMA StaysRemembers ==
    ASSUME NEW x, NEW s \in SessionSet, NEW z \in SessionSet, Remembers(x, s), Stays(s, z)
    PROVE  Remembers(x, z)
<1>1. Restore(x, z.fired) = Restore(x, s.fired)
  BY DEF Stays
<1> QED  BY <1>1 DEF Remembers, Stays

LEMMA FiredMoves ==
    ASSUME NEW s \in SessionSet, NEW z \in SessionSet, NEW b \in Nat, RecordOK(s, b), FiredOK(s, b)
    PROVE  /\ Stays(s, z) => FiredOK(z, b)
           /\ Finishes(s, z) => FiredOK(z, b)
           /\ Begins(s, z, b + 1) => FiredOK(z, b + 1)
<1>1. s.start \in Nat /\ s.fired \in [Sessions -> Nat] /\ Sessions \subseteq Nat
  BY SessionsAssumption DEF SessionSet, Sessions
<1>2. ASSUME Stays(s, z) PROVE FiredOK(z, b)
  BY <1>2 DEF Stays, FiredOK
<1>3. ASSUME Finishes(s, z) PROVE FiredOK(z, b)
  <2> SUFFICES ASSUME NEW n \in Sessions
               PROVE  z.fired[n] <= 1 /\ (n > b \/ n = z.start => z.fired[n] = 0)
    BY DEF FiredOK
  <2>0. n \in Nat /\ n # 0 /\ s.start <= b
    BY SessionsAssumption DEF Sessions, RecordOK
  <2>1. /\ s.fired[n] \in Nat /\ s.fired[n] <= 1
        /\ n > b \/ n = s.start => s.fired[n] = 0
    BY <1>1 DEF FiredOK
  <2>2. z.fired[n] = IF n = s.start THEN s.fired[n] + 1 ELSE s.fired[n]
    BY <1>1, <1>3 DEF Finishes
  <2>3. z.start = 0
    BY <1>3 DEF Finishes
  <2> QED  BY <1>1, <2>0, <2>1, <2>2, <2>3
<1>4. ASSUME Begins(s, z, b + 1) PROVE FiredOK(z, b + 1)
  <2> SUFFICES ASSUME NEW n \in Sessions
               PROVE  z.fired[n] <= 1 /\ (n > b + 1 \/ n = z.start => z.fired[n] = 0)
    BY DEF FiredOK
  <2>1. z.fired = s.fired /\ z.start = b + 1
    BY <1>4 DEF Begins
  <2>2. n \in Nat /\ s.fired[n] <= 1 /\ (n > b => s.fired[n] = 0)
    BY <1>1 DEF FiredOK
  <2> QED  BY <2>1, <2>2
<1> QED  BY <1>2, <1>3, <1>4

(***************************************************************************)
(* The code between two awaits.                                            *)
(***************************************************************************)

\* A memory with the same saves and a later tracker is sound too.
LEMMA SoundAdvances ==
    ASSUME NEW m, NEW z, NEW d, NEW b \in Nat, NEW c \in Nat, b <= c, Sound(m, d, b),
           z \in Memory, z.sessions = m.sessions, z.written = m.written,
           Before(m.s, z.s), RecordOK(z.s, c)
    PROVE  Sound(z, d, c)
<1>1. m \in Memory /\ m.s \in SessionSet /\ z.s \in SessionSet
  BY DEF Sound, Memory
<1>2. Stage(m.s) \in Int /\ Stage(z.s) \in Int
  BY <1>1, SessionStage
<1>3. ASSUME NEW x \in Exports, Before(x, m.s) PROVE Before(x, z.s)
  BY <1>2, <1>3, ExportStage, BeforeIsTransitive
<1>4. ASSUME NEW i \in 1..Len(z.sessions)
      PROVE  /\ z.sessions[i].out \in Exports /\ Before(z.sessions[i].out, z.s)
             /\ RecordOK(z.sessions[i].out, c)
  <2>1. z.sessions[i] \in SessionSave
    BY <1>4 DEF Memory
  <2>2. z.sessions[i].out \in Exports
    BY <2>1 DEF SessionSave
  <2>3. Before(z.sessions[i].out, m.s) /\ RecordOK(z.sessions[i].out, b)
    BY <1>4 DEF Sound, Ordered
  <2>4. RecordOK(z.sessions[i].out, c)
    <3>1. z.sessions[i].out.start \in Int /\ z.sessions[i].out.last \in Int
      BY <2>2 DEF Exports
    <3> QED  BY <2>3, <3>1 DEF RecordOK
  <2> QED  BY <1>3, <2>2, <2>3, <2>4
<1>5. z.written # <<>> => Before(z.written[1], z.s)
  <2>1. z.written # <<>> => z.written[1] \in Exports /\ Before(z.written[1], m.s)
    BY DEF Memory, Sound, Ordered
  <2> QED  BY <1>3, <2>1
<1>6. Ordered(z)
  BY <1>4, <1>5 DEF Sound, Ordered
<1> QED  BY <1>4, <1>6 DEF Sound

\* What the rest of a step makes of a memory m: the memory z.
Leads(m, z, d, f, b) == Sound(z, d, b) /\ Kept(z, d, f) /\ Tracks(m.s, z.s)

\* The tracker and the session saves are left alone.
LEMMA FrameLeads ==
    ASSUME NEW m, NEW z, NEW d, NEW f \in BOOLEAN, NEW b \in Nat, Sound(m, d, b), Kept(m, d, f),
           z \in Memory, z.sessions = m.sessions, z.written = m.written,
           Stays(m.s, z.s), z.s.rearm = m.s.rearm
    PROVE  Leads(m, z, d, f, b)
<1>1. m.s \in SessionSet /\ z.s \in SessionSet /\ RecordOK(m.s, b)
  BY DEF Sound, Memory
<1>2. Before(m.s, z.s) /\ RecordOK(z.s, b)
  BY <1>1, StaysIsLater
<1>3. Sound(z, d, b)
  BY <1>2, SoundAdvances
<1>4. \A x : Remembers(x, m.s) => Remembers(x, z.s)
  BY <1>1, StaysRemembers
<1>5. Kept(z, d, f)
  BY <1>4 DEF Kept
<1> QED  BY <1>3, <1>5 DEF Leads, Tracks

LEMMA Sequential ==
    ASSUME NEW m, NEW y, NEW z, NEW d, NEW f \in BOOLEAN, NEW b \in Nat,
           Leads(y, z, d, f, b), Stays(m.s, y.s), y.s.rearm = m.s.rearm
    PROVE  Leads(m, z, d, f, b)
<1>1. Tracks(m.s, z.s)
  BY DEF Leads, Tracks, Stays, Finishes, Active
<1> QED  BY <1>1 DEF Leads

LEMMA StaysItself == ASSUME NEW s PROVE Stays(s, s)
BY DEF Stays

LEMMA IdleIsTask == Idle \in TaskState /\ Polling \in TaskState /\ NoData \in Published
BY DEF Idle, Polling, TaskState, NoData, Published, None

LEMMA EndsFrame ==
    ASSUME NEW m \in Memory, NEW t \in Tasks
    PROVE  LET z == Ends(m, t)
           IN  z \in Memory /\ z.sessions = m.sessions /\ z.written = m.written /\ z.s = m.s
BY IdleIsTask DEF Ends, Memory

LEMMA EndsLeads ==
    ASSUME NEW m, NEW d, NEW f \in BOOLEAN, NEW b \in Nat, Sound(m, d, b), Kept(m, d, f),
           NEW t \in Tasks
    PROVE  Leads(m, Ends(m, t), d, f, b)
<1>1. m \in Memory
  BY DEF Sound
<1> QED  BY <1>1, EndsFrame, StaysItself, FrameLeads

LEMMA SaveEnergyFrame ==
    ASSUME NEW m \in Memory, NEW t \in Tasks
    PROVE  LET z == SaveEnergy(m, t)
           IN  z \in Memory /\ z.sessions = m.sessions /\ z.written = m.written /\ z.s = m.s
<1>1. [by |-> t, out |-> m.energy] \in EnergySave
  BY DEF EnergySave, Memory
<1>2. Append(m.energies, [by |-> t, out |-> m.energy]) \in Seq(EnergySave)
  BY <1>1 DEF Memory
<1>3. [m.task EXCEPT ![t].pc = "energy"] \in [Tasks -> TaskState]
  BY DEF Memory, TaskState
<1> QED  BY <1>2, <1>3 DEF SaveEnergy, Memory

LEMMA SaveEnergyLeads ==
    ASSUME NEW m, NEW d, NEW f \in BOOLEAN, NEW b \in Nat, Sound(m, d, b), Kept(m, d, f),
           NEW t \in Tasks
    PROVE  Leads(m, SaveEnergy(m, t), d, f, b)
<1>1. m \in Memory
  BY DEF Sound
<1> QED  BY <1>1, SaveEnergyFrame, StaysItself, FrameLeads

\* The record that is handed to the store remembers the tracker.
LEMMA SaveSessionKeeps ==
    ASSUME NEW m, NEW d, NEW f \in BOOLEAN, NEW b \in Nat, Sound(m, d, b), NEW t \in Tasks
    PROVE  LET z == SaveSession(m, t)
           IN  Sound(z, d, b) /\ Kept(z, d, f) /\ z.s = m.s
<1> DEFINE z == SaveSession(m, t)
           n == Len(m.sessions)
           e == [by |-> t, out |-> Export(m.s)]
<1>1. m \in Memory /\ m.s \in SessionSet /\ RecordOK(m.s, b) /\ m.sessions \in Seq(SessionSave)
  BY DEF Sound, Memory
<1>2. Export(m.s) \in Exports /\ e \in SessionSave
  BY <1>1, ExportIsExport DEF SessionSave
<1>3. [m.task EXCEPT ![t].pc = "session"] \in [Tasks -> TaskState]
  BY <1>1 DEF Memory, TaskState
<1>4. /\ z \in Memory /\ z.s = m.s /\ z.written = m.written
      /\ z.sessions = Append(m.sessions, e)
  <2>1. Append(m.sessions, e) \in Seq(SessionSave)
    BY <1>1, <1>2
  <2> QED  BY <1>1, <1>3, <2>1 DEF SaveSession, Memory
<1>5. /\ Len(z.sessions) = n + 1 /\ n \in Nat
      /\ z.sessions[n + 1] = e
      /\ \A i \in 1..n : z.sessions[i] = m.sessions[i]
      /\ z.sessions # <<>>
  BY <1>1, <1>2, <1>4
<1> HIDE DEF z, n
<1>6. e.out = Export(m.s)
  OBVIOUS
<1> HIDE DEF e
<1>7. /\ Export(m.s).start = m.s.start /\ Export(m.s).last = m.s.last
      /\ Export(m.s).rearm = m.s.rearm
  BY DEF Export
<1>8. RecordOK(e.out, b)
  BY <1>1, <1>6, <1>7 DEF RecordOK
<1>9. \A i \in 1..(n + 1) : RecordOK(z.sessions[i].out, b) /\ Before(z.sessions[i].out, m.s)
  <2> TAKE i \in 1..(n + 1)
  <2>1. CASE i = n + 1
    BY <2>1, <1>1, <1>5, <1>6, <1>8, ExportBefore
  <2>2. CASE i \in 1..n
    BY <2>2, <1>5 DEF Sound, Ordered, n
  <2> QED  BY <1>5, <2>1, <2>2
<1>10. \A i, j \in 1..(n + 1) : i < j => Before(z.sessions[i].out, z.sessions[j].out)
  <2> TAKE i, j \in 1..(n + 1)
  <2> HAVE i < j
  <2>1. i \in 1..n
    BY <1>5
  <2>2. CASE j = n + 1
    BY <2>1, <2>2, <1>1, <1>5, <1>6, <1>9, ExportBefore
  <2>3. CASE j \in 1..n
    BY <2>1, <2>3, <1>5 DEF Sound, Ordered, n
  <2> QED  BY <1>5, <2>2, <2>3
<1>11. ASSUME z.written # <<>>
       PROVE  /\ Before(z.written[1], m.s)
              /\ \A i \in 1..(n + 1) : Before(z.written[1], z.sessions[i].out)
  <2>1. Before(m.written[1], m.s) /\ \A i \in 1..n : Before(m.written[1], m.sessions[i].out)
    BY <1>4, <1>11 DEF Sound, Ordered, n
  <2>2. ASSUME NEW i \in 1..(n + 1) PROVE Before(z.written[1], z.sessions[i].out)
    <3>1. CASE i = n + 1
      BY <2>1, <3>1, <1>1, <1>4, <1>5, <1>6, ExportBefore
    <3>2. CASE i \in 1..n
      BY <2>1, <3>2, <1>4, <1>5
    <3> QED  BY <1>5, <3>1, <3>2
  <2> QED  BY <1>4, <2>1, <2>2
<1>12. Sound(z, d, b)
  <2>1. Ordered(z)
    BY <1>4, <1>5, <1>9, <1>10, <1>11 DEF Ordered
  <2> QED  BY <2>1, <1>1, <1>4, <1>5, <1>9 DEF Sound
<1>13. Kept(z, d, f)
  <2>1. Same(Export(m.s), m.s)
    BY <1>1, SessionStage DEF Same, Export
  <2>2. Remembers(Export(m.s), m.s)
    BY <1>1, <1>2, <2>1, SameRemembers
  <2> QED  BY <2>2, <1>4, <1>5, <1>6 DEF Kept
<1> QED  BY <1>4, <1>12, <1>13 DEF z

LEMMA TracksItself == ASSUME NEW s PROVE Tracks(s, s)
BY StaysItself DEF Tracks

\* async_user_paused ends the session and saves that.
LEMMA UserPausedLeads ==
    ASSUME NEW m, NEW d, NEW f \in BOOLEAN, NEW b \in Nat, Sound(m, d, b), Kept(m, d, f),
           NEW t \in Tasks
    PROVE  Leads(m, UserPaused(m, t), d, f, b)
<1>1. m \in Memory /\ m.s \in SessionSet /\ RecordOK(m.s, b)
  BY DEF Sound, Memory
<1>2. CASE ~Active(m.s)
  BY <1>2, EndsLeads DEF UserPaused
<1>3. CASE Active(m.s)
  <2> DEFINE s == EndForUserPause(m.s)
             y == [m EXCEPT !.s = s, !.task[t].job = "user",
                            !.task[t].data = [m.data EXCEPT !.active = FALSE]]
  <2>1. s \in SessionSet /\ Finishes(m.s, s) /\ s.rearm
    BY <1>1, <1>3, UserPauseFinishes
  <2>2. UserPaused(m, t) = SaveSession(y, t)
    BY <1>3 DEF UserPaused
  <2> HIDE DEF s
  <2>3. [m.data EXCEPT !.active = FALSE] \in Published
    BY <1>1 DEF Memory, Published
  <2>4. y \in Memory /\ y.sessions = m.sessions /\ y.written = m.written /\ y.s = s
    <3> DEFINE task == [m.task EXCEPT ![t].job = "user",
                                      ![t].data = [m.data EXCEPT !.active = FALSE]]
    <3>1. task \in [Tasks -> TaskState]
      BY <1>1, <2>3 DEF Memory, TaskState
    <3>2. y = [m EXCEPT !.s = s, !.task = task]
      BY <1>1 DEF Memory, TaskState
    <3> HIDE DEF task
    <3> QED  BY <1>1, <2>1, <3>1, <3>2 DEF Memory
  <2> HIDE DEF y
  <2>5. Before(m.s, s) /\ RecordOK(s, b)
    BY <1>1, <2>1, FinishesIsLater
  <2>6. Sound(y, d, b)
    BY <2>4, <2>5, SoundAdvances
  <2>7. Sound(SaveSession(y, t), d, b) /\ Kept(SaveSession(y, t), d, f) /\ SaveSession(y, t).s = s
    BY <2>4, <2>6, SaveSessionKeeps
  <2> QED  BY <2>1, <2>2, <2>7 DEF Leads, Tracks
<1> QED  BY <1>2, <1>3

LEMMA AfterRefreshLeads ==
    ASSUME NEW m, NEW d, NEW f \in BOOLEAN, NEW b \in Nat, Sound(m, d, b), Kept(m, d, f),
           NEW t \in Tasks
    PROVE  Leads(m, AfterRefresh(m, t), d, f, b)
BY UserPausedLeads, EndsLeads DEF AfterRefresh

LEMMA PublishLeads ==
    ASSUME NEW m, NEW d, NEW f \in BOOLEAN, NEW b \in Nat, Sound(m, d, b), Kept(m, d, f),
           NEW t \in Tasks
    PROVE  Leads(m, Publish(m, t), d, f, b)
<1>1. CASE Forced(m, t)
  BY <1>1, EndsLeads DEF Publish
<1>2. CASE ~Forced(m, t)
  <2> DEFINE y == [m EXCEPT !.data = m.task[t].data, !.polled = TRUE]
  <2>1. m \in Memory
    BY DEF Sound
  <2>2. m.task[t].data \in Published
    BY <2>1 DEF Memory, TaskState
  <2>3. y \in Memory /\ y.sessions = m.sessions /\ y.written = m.written /\ y.s = m.s
    BY <2>1, <2>2 DEF Memory
  <2>4. Publish(m, t) = AfterRefresh(y, t)
    BY <1>2 DEF Publish
  <2> HIDE DEF y
  <2>5. Leads(m, y, d, f, b)
    BY <2>3, StaysItself, FrameLeads
  <2>6. Leads(y, AfterRefresh(y, t), d, f, b)
    BY <2>5, AfterRefreshLeads DEF Leads
  <2> QED  BY <2>3, <2>4, <2>6, StaysItself, Sequential
<1> QED  BY <1>1, <1>2

LEMMA AfterSessionLeads ==
    ASSUME NEW m, NEW d, NEW f \in BOOLEAN, NEW b \in Nat, Sound(m, d, b), Kept(m, d, f),
           NEW t \in Tasks
    PROVE  Leads(m, AfterSession(m, t), d, f, b)
BY SaveEnergyLeads, PublishLeads DEF AfterSession

\* A record that was written last is remembered by all the saves that came after it: the
\* tracker has not moved since.
LEMMA SkippedIsKept ==
    ASSUME NEW m, NEW d, NEW f \in BOOLEAN, NEW b \in Nat, Sound(m, d, b), DiskOK(d, b),
           m.written = <<Export(m.s)>>
    PROVE  Kept(m, d, f)
<1>1. m \in Memory /\ m.s \in SessionSet /\ RecordOK(m.s, b) /\ m.sessions \in Seq(SessionSave)
  BY DEF Sound, Memory
<1>2. Export(m.s) \in Exports /\ Same(Export(m.s), m.s)
  BY <1>1, ExportIsExport, SessionStage DEF Same, Export
<1>3. m.written[1] = Export(m.s) /\ m.written # <<>>
  OBVIOUS
<1>4. d.session = Export(m.s)
  <2>1. <<d.session>> = <<Export(m.s)>>
    BY <1>3 DEF Sound
  <2> QED  BY <2>1
<1>5. Remembers(d.session, m.s)
  BY <1>1, <1>2, <1>4, SameRemembers
<1>6. ASSUME m.sessions # <<>> PROVE Remembers(m.sessions[Len(m.sessions)].out, m.s)
  <2> DEFINE n == Len(m.sessions)
             x == m.sessions[n].out
  <2>1. n \in 1..Len(m.sessions) /\ m.sessions[n] \in SessionSave
    BY <1>1, <1>6
  <2>2. x \in Exports
    BY <2>1 DEF SessionSave
  <2>3. Before(x, m.s) /\ Before(Export(m.s), x)
    BY <1>3, <2>1 DEF Sound, Ordered
  <2>4. Stage(x) \in Int /\ Stage(m.s) \in Int /\ Stage(Export(m.s)) = Stage(m.s)
    BY <1>1, <2>2, SessionStage, ExportStage
  <2> HIDE DEF x
  <2>5. Same(x, m.s)
    BY <2>3, <2>4 DEF Before, Same
  <2>6. Remembers(x, m.s)
    BY <1>1, <2>2, <2>5, SameRemembers
  <2> QED  BY <2>6 DEF x
<1> QED  BY <1>5, <1>6 DEF Kept

\* _async_persist: what is not saved is not dirty or is on disk.
LEMMA PersistLeads ==
    ASSUME NEW m, NEW d, NEW f \in BOOLEAN, NEW b \in Nat, Sound(m, d, b), DiskOK(d, b),
           NEW t \in Tasks, ~m.s.dirty => Kept(m, d, f)
    PROVE  Leads(m, Persist(m, t), d, f, b)
<1>1. m \in Memory /\ m.s \in SessionSet
  BY DEF Sound, Memory
<1>2. CASE ~Forced(m, t) /\ ~m.s.dirty
  BY <1>2, AfterSessionLeads DEF Persist
<1>3. CASE ~(~Forced(m, t) /\ ~m.s.dirty) /\ m.written = <<Export(m.s)>>
  <2> DEFINE y == [m EXCEPT !.s.dirty = FALSE]
  <2>1. Kept(m, d, f)
    BY <1>3, SkippedIsKept
  <2>2. /\ y \in Memory /\ y.sessions = m.sessions /\ y.written = m.written
        /\ Stays(m.s, y.s) /\ y.s.rearm = m.s.rearm
    BY <1>1 DEF Memory, SessionSet, Stays
  <2>3. Persist(m, t) = AfterSession(y, t)
    BY <1>3 DEF Persist
  <2> HIDE DEF y
  <2>4. Leads(m, y, d, f, b)
    BY <2>1, <2>2, FrameLeads
  <2>5. Leads(y, AfterSession(y, t), d, f, b)
    BY <2>4, AfterSessionLeads DEF Leads
  <2> QED  BY <2>2, <2>3, <2>5, Sequential
<1>4. CASE ~(~Forced(m, t) /\ ~m.s.dirty) /\ m.written # <<Export(m.s)>>
  <2>1. Persist(m, t) = SaveSession(m, t)
    BY <1>4 DEF Persist
  <2> QED  BY <2>1, SaveSessionKeeps, TracksItself DEF Leads
<1> QED  BY <1>2, <1>3, <1>4

LEMMA MissedLeads ==
    ASSUME NEW m, NEW d, NEW f \in BOOLEAN, NEW b \in Nat, Sound(m, d, b), Kept(m, d, f),
           DiskOK(d, b), NEW t \in Tasks
    PROVE  Leads(m, Missed(m, t), d, f, b)
<1> DEFINE n == IF m.failures < MaxReadFailures THEN m.failures + 1 ELSE MaxReadFailures
           y == [m EXCEPT !.failures = n]
           z == [m EXCEPT !.failures = n,
                          !.task[t].data = [m.data EXCEPT !.active = Active(m.s)]]
<1>1. m \in Memory
  BY DEF Sound
<1>2. n \in 0..MaxReadFailures
  BY <1>1, BoundsAssumption DEF Memory
<1>3. Missed(m, t) = IF ~m.polled \/ n = MaxReadFailures THEN AfterRefresh(y, t) ELSE Persist(z, t)
  BY DEF Missed
<1> HIDE DEF n
<1>4. y \in Memory /\ y.sessions = m.sessions /\ y.written = m.written /\ y.s = m.s
  BY <1>1, <1>2 DEF Memory
<1>5. [m.data EXCEPT !.active = Active(m.s)] \in Published
  BY <1>1 DEF Memory, Published, Active
<1>6. z \in Memory /\ z.sessions = m.sessions /\ z.written = m.written /\ z.s = m.s
  <2> DEFINE task == [m.task EXCEPT ![t].data = [m.data EXCEPT !.active = Active(m.s)]]
  <2>1. task \in [Tasks -> TaskState]
    BY <1>1, <1>5 DEF Memory, TaskState
  <2>2. z = [m EXCEPT !.failures = n, !.task = task]
    BY <1>1 DEF Memory
  <2> HIDE DEF task
  <2> QED  BY <1>1, <1>2, <2>1, <2>2 DEF Memory
<1> HIDE DEF y, z
<1>7. Leads(m, y, d, f, b) /\ Leads(m, z, d, f, b)
  BY <1>4, <1>6, StaysItself, FrameLeads
<1>8. Leads(y, AfterRefresh(y, t), d, f, b) /\ Leads(z, Persist(z, t), d, f, b)
  BY <1>7, AfterRefreshLeads, PersistLeads DEF Leads
<1>9. Leads(m, AfterRefresh(y, t), d, f, b) /\ Leads(m, Persist(z, t), d, f, b)
  BY <1>4, <1>6, <1>8, StaysItself, Sequential
<1> QED  BY <1>3, <1>9

\* A fresh observation: the tracker moves to u, and what it came to is saved.  A session
\* that starts is handed to the store at once.
LEMMA ObservedLeads ==
    ASSUME NEW m, NEW d, NEW f \in BOOLEAN, Sound(m, d, born), Kept(m, d, f),
           DiskOK(d, born), NEW t \in Tasks, NEW status \in Statuses, NEW energy \in Int,
           born \in 0..MaxSessions, intent \in BOOLEAN,
           Starts([m.s EXCEPT !.rearm = @ /\ ~intent], status, intent) => born < MaxSessions
    PROVE  LET u == Update(m.s, status, intent, energy, born + 1)
               z == Observed(m, t, status, energy)
           IN  \/ /\ Begins(m.s, u, born + 1) /\ born + 1 <= MaxSessions /\ z.s = u
                  /\ Sound(z, d, born + 1) /\ Kept(z, d, f)
               \/ /\ Stays(m.s, u) \/ Finishes(m.s, u)
                  /\ Sound(z, d, born) /\ Kept(z, d, f) /\ Tracks(u, z.s)
<1> DEFINE u == Update(m.s, status, intent, energy, born + 1)
           y == [m EXCEPT !.failures = 0, !.energy = energy,
                          !.energyDirty = @ \/ energy # m.energy, !.s = u,
                          !.task[t].data = [total |-> energy, active |-> Active(u)]]
           z == Observed(m, t, status, energy)
<1>1. m \in Memory /\ m.s \in SessionSet /\ RecordOK(m.s, born) /\ born \in Nat
  BY SessionsAssumption DEF Sound, Memory
<1>2. /\ born + 1 \in Nat \ {0}
      /\ Starts([m.s EXCEPT !.rearm = @ /\ ~intent], status, intent) => born + 1 <= MaxSessions
  BY <1>1, SessionsAssumption
<1>3. /\ u \in SessionSet
      /\ \/ Stays(m.s, u)
         \/ (Begins(m.s, u, born + 1) /\ born + 1 <= MaxSessions)
         \/ Finishes(m.s, u)
  BY <1>1, <1>2, UpdateMoves
<1>4. z = Persist(y, t)
  BY DEF Observed
<1> HIDE DEF u
<1>5. y \in Memory /\ y.sessions = m.sessions /\ y.written = m.written /\ y.s = u
  <2> DEFINE data == [total |-> energy, active |-> Active(u)]
             task == [m.task EXCEPT ![t].data = data]
  <2>1. data \in Published
    BY DEF Published, Active
  <2>2. task \in [Tasks -> TaskState]
    BY <1>1, <2>1 DEF Memory, TaskState
  <2>3. y = [m EXCEPT !.failures = 0, !.energy = energy,
                      !.energyDirty = @ \/ energy # m.energy, !.s = u, !.task = task]
    BY <1>1 DEF Memory
  <2>4. 0 \in 0..MaxReadFailures
    BY BoundsAssumption
  <2> HIDE DEF task, data
  <2> QED  BY <1>1, <1>3, <2>2, <2>3, <2>4 DEF Memory
<1> HIDE DEF y, z
<1>6. CASE Stays(m.s, u) \/ Finishes(m.s, u)
  <2>1. Before(m.s, u) /\ RecordOK(u, born)
    BY <1>1, <1>3, <1>6, StaysIsLater, FinishesIsLater
  <2>2. Sound(y, d, born)
    BY <1>1, <1>5, <2>1, SoundAdvances
  <2>3. ~u.dirty => Kept(y, d, f)
    <3> SUFFICES ASSUME ~u.dirty PROVE Kept(y, d, f)
      OBVIOUS
    <3>1. Stays(m.s, u)
      BY <1>6 DEF Finishes
    <3>2. \A x : Remembers(x, m.s) => Remembers(x, u)
      BY <1>1, <1>3, <3>1, StaysRemembers
    <3> QED  BY <1>5, <3>2 DEF Kept
  <2>4. Leads(y, z, d, f, born)
    BY <1>1, <1>4, <1>5, <2>2, <2>3, PersistLeads
  <2> QED  BY <1>5, <1>6, <2>4 DEF Leads, u, z
<1>7. CASE Begins(m.s, u, born + 1) /\ born + 1 <= MaxSessions
  <2>1. Before(m.s, u) /\ RecordOK(u, born + 1) /\ Stage(m.s) < Stage(u)
    <3>1. Before(m.s, u) /\ RecordOK(u, born + 1)
      BY <1>1, <1>3, <1>7, BeginsIsLater
    <3>2. m.s.start # u.start
      BY <1>1, <1>7 DEF Begins, Active
    <3> QED  BY <3>1, <3>2 DEF Before, Same
  <2>2. Sound(y, d, born + 1)
    BY <1>1, <1>5, <2>1, SoundAdvances
  <2>3. y.written # <<Export(u)>>
    <3> SUFFICES ASSUME y.written = <<Export(u)>> PROVE FALSE
      OBVIOUS
    <3> DEFINE x == Export(u)
    <3>0. m.written = <<x>>
      BY <1>5
    <3> HIDE DEF x
    <3>1. m.written # <<>> /\ m.written[1] = Export(u)
      BY <3>0 DEF x
    <3>2. Before(Export(u), m.s)
      BY <3>1 DEF Sound, Ordered
    <3>3. Stage(m.s) \in Int /\ Stage(u) \in Int /\ Stage(Export(u)) = Stage(u)
      BY <1>1, <1>3, SessionStage
    <3> QED  BY <2>1, <3>2, <3>3 DEF Before, Same
  <2>4. u.dirty
    BY <1>7 DEF Begins
  <2>5. z = SaveSession(y, t)
    BY <1>4, <1>5, <2>3, <2>4 DEF Persist
  <2>6. born + 1 \in Nat
    BY <1>1
  <2>7. Sound(z, d, born + 1) /\ Kept(z, d, f) /\ z.s = u
    BY <1>5, <2>2, <2>5, <2>6, SaveSessionKeeps
  <2> QED  BY <1>7, <2>7 DEF u, z
<1> QED  BY <1>3, <1>6, <1>7

\* The store has ended the save that waited longest.
LEMMA SessionSavedLeads ==
    ASSUME NEW m, NEW d, NEW e, NEW f \in BOOLEAN, NEW b \in Nat, NEW ok \in BOOLEAN,
           Sound(m, d, b), Kept(m, d, f), DiskOK(d, b), NEW t \in Tasks, m.sessions # <<>>,
           e = IF ok THEN [d EXCEPT !.session = Head(m.sessions).out] ELSE d
    PROVE  /\ DiskOK(e, b)
           /\ Leads(m, SessionSaved(m, t, Head(m.sessions).out, ok), e, ~ok, b)
<1> DEFINE out  == Head(m.sessions).out
           n    == Len(m.sessions)
           rest == Tail(m.sessions)
           y    == IF ok THEN [m EXCEPT !.sessions = Tail(@), !.s.dirty = FALSE, !.written = <<out>>]
                   ELSE [m EXCEPT !.sessions = Tail(@)]
<1>1. m \in Memory /\ m.s \in SessionSet /\ RecordOK(m.s, b) /\ m.sessions \in Seq(SessionSave)
  BY DEF Sound, Memory
<1>2. /\ n \in Nat /\ n >= 1 /\ Head(m.sessions) = m.sessions[1] /\ m.sessions[1] \in SessionSave
      /\ rest \in Seq(SessionSave) /\ Len(rest) = n - 1
      /\ \A i \in 1..(n - 1) : rest[i] = m.sessions[i + 1]
  BY <1>1
<1>3. out \in Exports /\ out = m.sessions[1].out
  BY <1>2 DEF SessionSave
<1>4. RecordOK(out, b)
  BY <1>2, <1>3 DEF Sound
<1>5. DiskOK(e, b) /\ e.session = IF ok THEN out ELSE d.session
  BY <1>3, <1>4 DEF DiskOK
<1>6. SessionSaved(m, t, Head(m.sessions).out, ok) = AfterSession(y, t)
  BY DEF SessionSaved
<1>7. /\ y \in Memory /\ y.sessions = rest
      /\ y.written = IF ok THEN <<out>> ELSE m.written
      /\ Stays(m.s, y.s) /\ y.s.rearm = m.s.rearm
  <2>1. <<out>> \in Seq(Exports)
    BY <1>3
  <2>2. CASE ok
    <3> HIDE DEF out, rest
    <3> QED  BY <1>1, <1>2, <2>1, <2>2 DEF Memory, SessionSet, Stays, rest
  <2>3. CASE ~ok
    BY <1>1, <1>2, <2>3 DEF Memory, Stays
  <2> QED  BY <2>2, <2>3
<1> HIDE DEF out, rest, y
<1>8. Sound(y, e, b)
  <2>1. y.s \in SessionSet
    BY <1>7 DEF Memory
  <2>2. Before(m.s, y.s) /\ RecordOK(y.s, b)
    BY <1>1, <1>7, <2>1, StaysIsLater
  <2>3. \A x \in Exports : Before(x, m.s) => Before(x, y.s)
    BY <1>1, <2>1, <2>2, SessionStage, ExportStage, BeforeIsTransitive
  <2>4. \A i \in 1..n : m.sessions[i].out \in Exports
    <3> TAKE i \in 1..n
    <3>1. m.sessions[i] \in SessionSave
      BY <1>1
    <3> QED  BY <3>1 DEF SessionSave
  <2>5. ASSUME NEW i \in 1..Len(y.sessions)
        PROVE  /\ i + 1 \in 2..n /\ y.sessions[i] = m.sessions[i + 1]
               /\ RecordOK(y.sessions[i].out, b) /\ Before(y.sessions[i].out, y.s)
               /\ Before(out, y.sessions[i].out)
    <3>1. i \in 1..(n - 1) /\ i + 1 \in 2..n /\ y.sessions[i] = m.sessions[i + 1]
      BY <1>2, <1>7, <2>5
    <3>2. i + 1 \in 1..n /\ 1 \in 1..n /\ 1 < i + 1
      BY <1>2, <3>1
    <3>3. RecordOK(m.sessions[i + 1].out, b) /\ Before(m.sessions[i + 1].out, m.s)
      BY <3>2 DEF Sound, Ordered
    <3>4. Before(m.sessions[1].out, m.sessions[i + 1].out)
      BY <3>2 DEF Sound, Ordered
    <3> QED  BY <1>3, <2>3, <2>4, <3>1, <3>2, <3>3, <3>4
  <2>6. \A i, j \in 1..Len(y.sessions) : i < j => Before(y.sessions[i].out, y.sessions[j].out)
    <3> TAKE i, j \in 1..Len(y.sessions)
    <3> HAVE i < j
    <3>1. /\ i + 1 \in 1..n /\ j + 1 \in 1..n /\ i + 1 < j + 1
          /\ y.sessions[i] = m.sessions[i + 1] /\ y.sessions[j] = m.sessions[j + 1]
      BY <1>2, <2>5
    <3> QED  BY <3>1 DEF Sound, Ordered
  <2>7. Before(out, y.s)
    <3>1. Before(m.sessions[1].out, m.s)
      BY <1>2 DEF Sound, Ordered
    <3> QED  BY <1>3, <2>3, <3>1
  <2>8. ASSUME y.written # <<>>
        PROVE  /\ y.written = <<e.session>> /\ Before(y.written[1], y.s)
               /\ \A i \in 1..Len(y.sessions) : Before(y.written[1], y.sessions[i].out)
    <3>1. CASE ok
      <4>1. y.written = <<out>> /\ y.written[1] = out /\ e.session = out
        BY <1>5, <1>7, <3>1
      <4> QED  BY <4>1, <2>5, <2>7
    <3>2. CASE ~ok
      <4>1. y.written = m.written /\ e.session = d.session /\ m.written # <<>>
        BY <1>5, <1>7, <2>8, <3>2
      <4>2. m.written[1] \in Exports
        BY <1>1, <4>1 DEF Memory
      <4>3. Before(m.written[1], y.s)
        BY <2>3, <4>1, <4>2 DEF Sound, Ordered
      <4>4. ASSUME NEW i \in 1..Len(y.sessions) PROVE Before(m.written[1], y.sessions[i].out)
        <5>1. i + 1 \in 1..n /\ y.sessions[i] = m.sessions[i + 1]
          BY <1>2, <2>5
        <5> QED  BY <4>1, <5>1 DEF Sound, Ordered
      <4> QED  BY <4>1, <4>3, <4>4 DEF Sound
    <3> QED  BY <3>1, <3>2
  <2>9. Ordered(y)
    BY <2>5, <2>6, <2>8 DEF Ordered
  <2> QED  BY <1>7, <2>2, <2>5, <2>8, <2>9 DEF Sound
<1>9. Kept(y, e, ~ok)
  <2>1. \A x : Remembers(x, m.s) => Remembers(x, y.s)
    BY <1>1, <1>7, StaysRemembers DEF Memory
  <2>2. Remembers(m.sessions[n].out, y.s)
    BY <2>1 DEF Kept
  <2>3. ASSUME y.sessions # <<>> PROVE Remembers(y.sessions[Len(y.sessions)].out, y.s)
    <3>1. Len(y.sessions) \in 1..(n - 1) /\ Len(y.sessions) + 1 = n
      BY <1>2, <1>7, <2>3
    <3>2. y.sessions[Len(y.sessions)] = m.sessions[n]
      BY <1>2, <1>7, <3>1
    <3> QED  BY <2>2, <3>2
  <2>4. ASSUME y.sessions = <<>>, ~ ~ok PROVE Remembers(e.session, y.s)
    <3>1. n = 1 /\ e.session = m.sessions[1].out
      BY <1>2, <1>3, <1>5, <1>7, <2>4
    <3> QED  BY <2>2, <3>1
  <2> QED  BY <2>3, <2>4 DEF Kept
<1>10. Leads(y, AfterSession(y, t), e, ~ok, b)
  BY <1>8, <1>9, AfterSessionLeads
<1>11. Leads(m, AfterSession(y, t), e, ~ok, b)
  BY <1>7, <1>10, Sequential
<1> QED  BY <1>5, <1>6, <1>11

LEMMA EnergySavedLeads ==
    ASSUME NEW m, NEW d, NEW e, NEW f \in BOOLEAN, NEW b \in Nat, NEW ok \in BOOLEAN,
           Sound(m, d, b), Kept(m, d, f), DiskOK(d, b), NEW t \in Tasks, m.energies # <<>>,
           e = IF ok THEN [d EXCEPT !.energy = Head(m.energies).out] ELSE d
    PROVE  DiskOK(e, b) /\ Leads(m, EnergySaved(m, t, ok), e, f, b)
<1> DEFINE y == IF ok THEN [m EXCEPT !.energies = Tail(@), !.energyDirty = FALSE]
                ELSE [m EXCEPT !.energies = Tail(@)]
<1>1. m \in Memory /\ m.energies \in Seq(EnergySave)
  BY DEF Sound, Memory
<1>2. Tail(m.energies) \in Seq(EnergySave) /\ Head(m.energies) \in EnergySave
  BY <1>1
<1>3. Head(m.energies).out \in Int
  BY <1>2 DEF EnergySave
<1>4. DiskOK(e, b) /\ e.session = d.session
  BY <1>3 DEF DiskOK
<1>5. Sound(m, e, b) /\ Kept(m, e, f)
  BY <1>4 DEF Sound, Kept
<1>6. y \in Memory /\ y.sessions = m.sessions /\ y.written = m.written /\ y.s = m.s
  BY <1>1, <1>2 DEF Memory
<1>7. EnergySaved(m, t, ok) = Publish(y, t)
  BY DEF EnergySaved
<1> HIDE DEF y
<1>8. Leads(m, y, e, f, b)
  BY <1>5, <1>6, StaysItself, FrameLeads
<1>9. Leads(y, Publish(y, t), e, f, b)
  BY <1>8, PublishLeads DEF Leads
<1> QED  BY <1>4, <1>6, <1>7, <1>9, StaysItself, Sequential

(***************************************************************************)
(* The steps.                                                              *)
(***************************************************************************)

\* A user pause asks for re-arming, and whatever else follows an update keeps the request.
LEMMA HistoryTracks ==
    ASSUME NEW s \in SessionSet, NEW z \in SessionSet, NEW b \in Nat, NEW ended \in BOOLEAN,
           RecordOK(s, b), FiredOK(s, b), RearmOK(s, ended), Tracks(s, z)
    PROVE  FiredOK(z, b) /\ RearmOK(z, ended \/ (Active(s) /\ ~Active(z)))
<1>1. FiredOK(z, b)
  BY FiredMoves DEF Tracks
<1>2. RearmOK(z, ended \/ (Active(s) /\ ~Active(z)))
  BY DEF RearmOK, Tracks, Stays, Finishes, Active
<1> QED  BY <1>1, <1>2

LEMMA SettledIsPhase ==
    ASSUME RestOK, NEW m
    PROVE  Settled(m) \in {"setup", "running", "unloading", "down", "dead"}
BY DEF Settled, RestOK

\* A step in which the tracker is left alone or ended by a user pause.
LEMMA RunsKeeps ==
    ASSUME IInv, NEW m, Runs(m, FALSE), DiskOK(disk', born), failed' \in BOOLEAN,
           Leads(mem, m, disk', failed', born), UNCHANGED <<born, lossy>>,
           intent' \in BOOLEAN, fails' \in 0..MaxFails
    PROVE  IInv'
<1>1. /\ mem' = m /\ phase' = Settled(m) /\ down' = down
      /\ userEnded' = (userEnded \/ (Active(mem.s) /\ ~Active(m.s)))
  BY DEF Runs
<1>2. /\ mem.s \in SessionSet /\ m.s \in SessionSet /\ RecordOK(mem.s, born)
      /\ born \in Nat /\ userEnded \in BOOLEAN /\ RestOK
  BY SessionsAssumption DEF IInv, Leads, Sound, Memory, RestOK
<1>3. RestOK'
  BY <1>1, <1>2, SettledIsPhase DEF RestOK
<1>4. lossy' \/ (FiredOK(mem'.s, born') /\ RearmOK(mem'.s, userEnded'))
  <2> SUFFICES ASSUME ~lossy PROVE FiredOK(m.s, born) /\ RearmOK(m.s, userEnded')
    BY <1>1
  <2>1. FiredOK(mem.s, born) /\ RearmOK(mem.s, userEnded)
    BY DEF IInv
  <2>2. Tracks(mem.s, m.s)
    BY DEF Leads
  <2> QED  BY <1>1, <1>2, <2>1, <2>2, HistoryTracks
<1>5. Sound(mem', disk', born') /\ Kept(mem', disk', failed')
  BY <1>1 DEF Leads
<1> QED  BY <1>3, <1>4, <1>5 DEF IInv

\* What IInv gives the steps.
LEMMA Facts ==
    ASSUME IInv
    PROVE  /\ mem \in Memory /\ mem.s \in SessionSet /\ born \in Nat /\ failed \in BOOLEAN
           /\ Sound(mem, disk, born) /\ Kept(mem, disk, failed) /\ DiskOK(disk, born) /\ RestOK
BY SessionsAssumption DEF IInv, Sound, Memory, RestOK

LEMMA TasksAre == Poller \in Tasks /\ Unloader \in Tasks /\ Switches \subseteq Tasks
BY DEF Tasks

LEMMA StartPollKeeps == ASSUME IInv, StartPoll PROVE IInv'
<1> DEFINE m == [mem EXCEPT !.task[Poller] = Polling]
<1>1. m \in Memory /\ m.sessions = mem.sessions /\ m.written = mem.written /\ m.s = mem.s
  BY Facts, TasksAre, IdleIsTask DEF Memory
<1>2. Runs(m, FALSE) /\ UNCHANGED <<disk, intent, born, fails, failed, lossy>>
  BY DEF StartPoll
<1> HIDE DEF m
<1>3. Leads(mem, m, disk, failed, born)
  BY <1>1, Facts, StaysItself, FrameLeads
<1> QED  BY <1>2, <1>3, Facts, RunsKeeps DEF RestOK

LEMMA CommandKeeps ==
    ASSUME IInv, NEW t \in Switches, NEW on \in BOOLEAN, Command(t, on)
    PROVE  IInv'
<1> DEFINE new == [pc |-> "command", job |-> IF on THEN "on" ELSE "off", data |-> NoData]
           m   == [mem EXCEPT !.task[t] = new]
<1>1. t \in Tasks /\ new \in TaskState
  BY TasksAre, IdleIsTask DEF TaskState
<1>2. Runs(m, FALSE) /\ intent' = on /\ UNCHANGED <<disk, born, fails, failed, lossy>>
  BY DEF Command
<1> HIDE DEF new
<1>3. m \in Memory /\ m.sessions = mem.sessions /\ m.written = mem.written /\ m.s = mem.s
  BY <1>1, Facts DEF Memory
<1> HIDE DEF m
<1>4. Leads(mem, m, disk, failed, born)
  BY <1>3, Facts, StaysItself, FrameLeads
<1> QED  BY <1>2, <1>4, Facts, RunsKeeps DEF RestOK

LEMMA CommandEndsKeeps ==
    ASSUME IInv, NEW t \in Tasks, NEW confirmed \in BOOLEAN, CommandEnds(t, confirmed)
    PROVE  IInv'
<1> DEFINE m == [mem EXCEPT !.task[t].job = IF confirmed THEN "paused" ELSE "poll",
                            !.task[t].pc = "read"]
           z == IF phase = "unloading" THEN AfterRefresh(m, t) ELSE m
<1>1. m \in Memory /\ m.sessions = mem.sessions /\ m.written = mem.written /\ m.s = mem.s
  <2> DEFINE task == [mem.task EXCEPT ![t].job = IF confirmed THEN "paused" ELSE "poll",
                                      ![t].pc = "read"]
  <2>1. task \in [Tasks -> TaskState]
    BY Facts DEF Memory, TaskState
  <2>2. m = [mem EXCEPT !.task = task]
    BY Facts DEF Memory
  <2> HIDE DEF task
  <2> QED  BY Facts, <2>1, <2>2 DEF Memory
<1>2. Runs(z, FALSE) /\ UNCHANGED <<disk, intent, born, fails, failed, lossy>>
  BY DEF CommandEnds
<1> HIDE DEF m
<1>3. Leads(mem, m, disk, failed, born)
  BY <1>1, Facts, StaysItself, FrameLeads
<1>4. Leads(m, AfterRefresh(m, t), disk, failed, born)
  BY <1>3, Facts, AfterRefreshLeads DEF Leads
<1>5. Leads(mem, AfterRefresh(m, t), disk, failed, born)
  BY <1>1, <1>4, Facts, StaysItself, Sequential
<1>6. Leads(mem, z, disk, failed, born)
  BY <1>3, <1>5
<1> HIDE DEF z
<1> QED  BY <1>2, <1>6, Facts, RunsKeeps DEF RestOK

LEMMA CommandFailsKeeps == ASSUME IInv, NEW t \in Tasks, CommandFails(t) PROVE IInv'
<1>1. Runs(Ends(mem, t), FALSE) /\ UNCHANGED <<disk, intent, born, fails, failed, lossy>>
  BY DEF CommandFails
<1>2. Leads(mem, Ends(mem, t), disk, failed, born)
  BY Facts, EndsLeads
<1> QED  BY <1>1, <1>2, Facts, RunsKeeps DEF RestOK

LEMMA ReadFailsKeeps == ASSUME IInv, NEW t \in Tasks, ReadFails(t) PROVE IInv'
<1>1. Runs(Missed(mem, t), FALSE) /\ UNCHANGED <<disk, intent, born, fails, failed, lossy>>
  BY DEF ReadFails
<1>2. Leads(mem, Missed(mem, t), disk, failed, born)
  BY Facts, MissedLeads
<1> QED  BY <1>1, <1>2, Facts, RunsKeeps DEF RestOK

LEMMA FlushKeeps == ASSUME IInv, Flush PROVE IInv'
<1> DEFINE m == [mem EXCEPT !.task[Unloader].job = "flush"]
<1>1. m \in Memory /\ m.sessions = mem.sessions /\ m.written = mem.written /\ m.s = mem.s
  <2> DEFINE task == [mem.task EXCEPT ![Unloader].job = "flush"]
  <2>1. task \in [Tasks -> TaskState]
    BY Facts, TasksAre DEF Memory, TaskState
  <2>2. m = [mem EXCEPT !.task = task]
    BY Facts DEF Memory
  <2> HIDE DEF task
  <2> QED  BY Facts, <2>1, <2>2 DEF Memory
<1>2. Runs(Persist(m, Unloader), FALSE) /\ UNCHANGED <<disk, intent, born, fails, failed, lossy>>
  BY DEF Flush
<1> HIDE DEF m
<1>3. Leads(mem, m, disk, failed, born)
  BY <1>1, Facts, StaysItself, FrameLeads
<1>4. Leads(m, Persist(m, Unloader), disk, failed, born)
  BY <1>3, Facts, TasksAre, PersistLeads DEF Leads
<1>5. Leads(mem, Persist(m, Unloader), disk, failed, born)
  BY <1>1, <1>4, Facts, StaysItself, Sequential
<1> QED  BY <1>2, <1>5, Facts, RunsKeeps DEF RestOK

LEMMA SessionSaveEndsKeeps ==
    ASSUME IInv, NEW t \in Tasks, NEW ok \in BOOLEAN, SessionSaveEnds(t, ok)
    PROVE  IInv'
<1> DEFINE m == SessionSaved(mem, t, Head(mem.sessions).out, ok)
<1>1. /\ mem.sessions # <<>> /\ Runs(m, FALSE) /\ failed' = ~ok /\ SaveResult(ok)
      /\ disk' = IF ok THEN [disk EXCEPT !.session = Head(mem.sessions).out] ELSE disk
      /\ UNCHANGED <<intent, born, lossy>>
  BY DEF SessionSaveEnds
<1>2. DiskOK(disk', born) /\ Leads(mem, m, disk', failed', born)
  BY <1>1, Facts, SessionSavedLeads
<1>3. fails' \in 0..MaxFails
  BY <1>1, Facts, BoundsAssumption DEF SaveResult, RestOK
<1> HIDE DEF m
<1> QED  BY <1>1, <1>2, <1>3, Facts, RunsKeeps DEF RestOK

LEMMA EnergySaveEndsKeeps ==
    ASSUME IInv, NEW t \in Tasks, NEW ok \in BOOLEAN, EnergySaveEnds(t, ok)
    PROVE  IInv'
<1> DEFINE m == EnergySaved(mem, t, ok)
<1>1. /\ mem.energies # <<>> /\ Runs(m, FALSE) /\ SaveResult(ok)
      /\ disk' = IF ok THEN [disk EXCEPT !.energy = Head(mem.energies).out] ELSE disk
      /\ UNCHANGED <<intent, born, failed, lossy>>
  BY DEF EnergySaveEnds
<1>2. DiskOK(disk', born) /\ Leads(mem, m, disk', failed, born)
  BY <1>1, Facts, EnergySavedLeads
<1>3. fails' \in 0..MaxFails
  BY <1>1, Facts, BoundsAssumption DEF SaveResult, RestOK
<1> HIDE DEF m
<1> QED  BY <1>1, <1>2, <1>3, Facts, RunsKeeps DEF RestOK

\* An update and what follows it: a session is started only if re-arming was not asked for
\* or is not needed any more, and one that ends asks for it unless the charger is inactive.
LEMMA ReadEndsKeeps ==
    ASSUME IInv, NEW t \in Tasks, NEW status \in Statuses, NEW energy \in Totals,
           ReadEnds(t, status, energy)
    PROVE  IInv'
<1> DEFINE u == Update(mem.s, status, intent, energy, born + 1)
           z == Observed(mem, t, status, energy)
           rearmed == intent \/ status = "off"
<1>1. /\ Runs(z, rearmed)
      /\ born' = IF mem'.s.start > born THEN born + 1 ELSE born
      /\ UNCHANGED <<disk, intent, fails, failed, lossy>>
      /\ Starts([mem.s EXCEPT !.rearm = @ /\ ~intent], status, intent) => born < MaxSessions
  BY DEF ReadEnds
<1>2. energy \in Int /\ intent \in BOOLEAN /\ born \in 0..MaxSessions /\ born \in Nat
  BY TotalsAssumption, Facts DEF RestOK, None
<1>3. /\ mem' = z /\ phase' = Settled(z) /\ down' = down
      /\ userEnded' = (~rearmed /\ (userEnded \/ (Active(mem.s) /\ ~Active(z.s))))
  BY <1>1 DEF Runs
<1>4. \/ /\ Begins(mem.s, u, born + 1) /\ born + 1 <= MaxSessions /\ z.s = u
         /\ Sound(z, disk, born + 1) /\ Kept(z, disk, failed)
      \/ /\ Stays(mem.s, u) \/ Finishes(mem.s, u)
         /\ Sound(z, disk, born) /\ Kept(z, disk, failed) /\ Tracks(u, z.s)
  BY <1>1, <1>2, Facts, ObservedLeads
<1>5. /\ u \in SessionSet
      /\ Stays(mem.s, u) => u.rearm = mem.s.rearm \/ rearmed
      /\ Begins(mem.s, u, born + 1) => intent \/ ~mem.s.rearm
      /\ Finishes(mem.s, u) => u.rearm \/ rearmed
  <2>1. /\ born + 1 \in Nat \ {0}
        /\ Starts([mem.s EXCEPT !.rearm = @ /\ ~intent], status, intent) => born + 1 <= MaxSessions
    BY <1>1, <1>2, SessionsAssumption
  <2> QED  BY <1>2, <2>1, Facts, UpdateMoves
<1>6. /\ RecordOK(mem.s, born) /\ mem.s.start \in Nat /\ mem.s.start <= born
      /\ userEnded \in BOOLEAN /\ lossy \in BOOLEAN /\ rearmed \in BOOLEAN
  BY <1>2, Facts, SessionsAssumption DEF Sound, RecordOK, SessionSet, RestOK
<1> HIDE DEF u, z
<1>7. CASE /\ Begins(mem.s, u, born + 1) /\ born + 1 <= MaxSessions /\ z.s = u
           /\ Sound(z, disk, born + 1) /\ Kept(z, disk, failed)
  <2>1. u.start = born + 1 /\ ~Active(mem.s) /\ Active(u)
    BY <1>2, <1>7 DEF Begins, Active
  <2>2. born' = born + 1
    BY <1>1, <1>2, <1>3, <1>7, <2>1
  <2>3. DiskOK(disk, born + 1)
    <3>1. disk.session.start \in Int /\ disk.session.last \in Int
      BY Facts DEF DiskOK, Exports
    <3> QED  BY <1>2, <3>1, Facts DEF DiskOK, RecordOK
  <2>4. RestOK'
    <3>1. born + 1 \in 0..MaxSessions
      BY <1>2, <1>7, SessionsAssumption
    <3>2. userEnded' \in BOOLEAN
      BY <1>3
    <3> QED  BY <1>1, <1>3, <2>2, <3>1, <3>2, Facts, SettledIsPhase DEF RestOK
  <2>5. ASSUME ~lossy PROVE FiredOK(u, born + 1) /\ RearmOK(u, userEnded')
    <3>1. FiredOK(mem.s, born) /\ RearmOK(mem.s, userEnded)
      BY <2>5 DEF IInv
    <3>2. FiredOK(u, born + 1)
      BY <1>2, <1>5, <1>6, <1>7, <3>1, Facts, FiredMoves
    <3>3. ~userEnded'
      BY <1>3, <1>5, <1>6, <1>7, <2>1, <3>1 DEF RearmOK
    <3> QED  BY <3>2, <3>3 DEF RearmOK
  <2> QED  BY <1>1, <1>3, <1>7, <2>2, <2>3, <2>4, <2>5 DEF IInv
<1>8. CASE /\ Stays(mem.s, u) \/ Finishes(mem.s, u)
           /\ Sound(z, disk, born) /\ Kept(z, disk, failed) /\ Tracks(u, z.s)
  <2>1. z.s \in SessionSet /\ RecordOK(u, born)
    BY <1>2, <1>5, <1>6, <1>8, Facts, StaysIsLater, FinishesIsLater DEF Sound, Memory
  <2>2. z.s.start <= born
    BY <1>8 DEF Sound, RecordOK
  <2>3. born' = born
    <3>1. z.s.start \in Int
      BY <2>1 DEF SessionSet
    <3> QED  BY <1>1, <1>2, <1>3, <2>2, <3>1
  <2>4. RestOK'
    <3>1. userEnded' \in BOOLEAN
      BY <1>3
    <3> QED  BY <1>1, <1>3, <2>3, <3>1, Facts, SettledIsPhase DEF RestOK
  <2>5. ASSUME ~lossy PROVE FiredOK(z.s, born) /\ RearmOK(z.s, userEnded')
    <3>1. FiredOK(mem.s, born) /\ RearmOK(mem.s, userEnded)
      BY <2>5 DEF IInv
    <3>2. FiredOK(u, born)
      BY <1>2, <1>5, <1>6, <1>8, <3>1, Facts, FiredMoves
    <3> DEFINE over == ~rearmed /\ (userEnded \/ (Active(mem.s) /\ ~Active(u)))
    <3>3. over \in BOOLEAN /\ RearmOK(u, over)
      <4>1. CASE Stays(mem.s, u)
        BY <1>5, <3>1, <4>1 DEF RearmOK, Stays, Active
      <4>2. CASE Finishes(mem.s, u)
        BY <1>5, <3>1, <4>2 DEF RearmOK, Finishes, Active
      <4> QED  BY <1>8, <4>1, <4>2
    <3> HIDE DEF over
    <3>4. FiredOK(z.s, born) /\ RearmOK(z.s, over \/ (Active(u) /\ ~Active(z.s)))
      BY <1>2, <1>5, <1>8, <2>1, <3>2, <3>3, HistoryTracks
    <3>5. userEnded' => over \/ (Active(u) /\ ~Active(z.s))
      BY <1>3 DEF over
    <3> QED  BY <3>4, <3>5 DEF RearmOK
  <2> QED  BY <1>1, <1>3, <1>8, <2>3, <2>4, <2>5, Facts DEF IInv
<1> QED  BY <1>4, <1>7, <1>8

\* What a restored record brings back.
LEMMA RestoredRecord ==
    ASSUME NEW x \in Exports, NEW fired \in [Sessions -> Nat]
    PROVE  LET s == Restore(x, fired)
           IN  /\ s \in SessionSet /\ s.start = (IF x.total = None THEN 0 ELSE x.start)
               /\ s.total = x.total /\ s.rearm = x.rearm /\ s.last = x.last /\ s.fired = fired
<1>1. 0 \in 0..MaxSessions
  BY SessionsAssumption
<1> QED  BY <1>1 DEF Restore, NewSession, SessionSet, Exports

LEMMA FreshIsSound ==
    ASSUME NEW x \in Exports, NEW e \in Int, NEW fired \in [Sessions -> Nat], NEW b \in Nat,
           RecordOK(x, b), NEW d, d.session = x
    PROVE  LET m == Fresh(x, e, fired)
           IN  Sound(m, d, b) /\ Kept(m, d, FALSE) /\ m.s = Restore(x, fired)
<1> DEFINE s == Restore(x, fired)
           m == Fresh(x, e, fired)
<1>1. /\ s \in SessionSet /\ s.start = (IF x.total = None THEN 0 ELSE x.start)
      /\ s.total = x.total /\ s.rearm = x.rearm /\ s.last = x.last
  BY RestoredRecord
<1> HIDE DEF s
<1>2. /\ m \in Memory /\ m.s = s /\ m.sessions = <<>> /\ m.written = <<>>
  <2>1. 0 \in 0..MaxReadFailures
    BY BoundsAssumption
  <2>2. [t \in Tasks |-> Idle] \in [Tasks -> TaskState]
    BY IdleIsTask
  <2>3. <<>> \in Seq(Exports) /\ <<>> \in Seq(SessionSave) /\ <<>> \in Seq(EnergySave)
    OBVIOUS
  <2> QED  BY <1>1, <2>1, <2>2, <2>3, IdleIsTask DEF Fresh, Memory, s
<1> HIDE DEF m
<1>3. RecordOK(s, b)
  <2>1. x.start \in Int /\ x.last \in Int
    BY DEF Exports
  <2> QED  BY <1>1, <2>1 DEF RecordOK
<1>4. Sound(m, d, b)
  BY <1>2, <1>3 DEF Sound, Ordered
<1>5. Remembers(x, s)
  <2> DEFINE back == Restore(x, s.fired)
  <2>1. s.fired \in [Sessions -> Nat]
    BY <1>1 DEF SessionSet
  <2>2. /\ back.start = (IF x.total = None THEN 0 ELSE x.start)
        /\ back.total = x.total /\ back.rearm = x.rearm /\ back.last = x.last
    BY <2>1, RestoredRecord
  <2> HIDE DEF back
  <2> QED  BY <1>1, <2>2 DEF Remembers, back
<1>6. Kept(m, d, FALSE)
  BY <1>2, <1>5 DEF Kept
<1> QED  BY <1>2, <1>4, <1>6 DEF m, s

LEMMA SetupKeeps == ASSUME IInv, Setup PROVE IInv'
<1> PICK x \in Found(disk.session, mem.sessions), e \in Found(disk.energy, mem.energies) :
        /\ phase' = "setup"
        /\ mem' = [Fresh(x, e, mem.s.fired) EXCEPT !.task[Poller] = Polling]
        /\ disk' = [session |-> x, energy |-> e]
        /\ lossy' = (lossy \/ failed \/ mem.sessions # <<>>)
        /\ failed' = FALSE
        /\ UNCHANGED <<intent, born, down, fails, userEnded>>
  BY DEF Setup
<1>1. x \in Exports /\ RecordOK(x, born)
  <2>1. CASE x = disk.session
    BY <2>1, Facts DEF DiskOK
  <2>2. CASE \E i \in DOMAIN mem.sessions : x = mem.sessions[i].out
    <3> PICK i \in DOMAIN mem.sessions : x = mem.sessions[i].out
      BY <2>2
    <3>1. i \in 1..Len(mem.sessions) /\ mem.sessions[i] \in SessionSave
      BY Facts DEF Memory
    <3> QED  BY <3>1, Facts DEF SessionSave, Sound
  <2> QED  BY <2>1, <2>2 DEF Found
<1>2. e \in Int
  <2>1. CASE e = disk.energy
    BY <2>1, Facts DEF DiskOK
  <2>2. CASE \E i \in DOMAIN mem.energies : e = mem.energies[i].out
    <3> PICK i \in DOMAIN mem.energies : e = mem.energies[i].out
      BY <2>2
    <3>1. mem.energies[i] \in EnergySave
      BY Facts DEF Memory
    <3> QED  BY <3>1 DEF EnergySave
  <2> QED  BY <2>1, <2>2 DEF Found
<1>3. mem.s.fired \in [Sessions -> Nat] /\ mem.s.start \in Nat
  BY Facts, SessionsAssumption DEF SessionSet
<1>4. /\ Sound(mem', disk', born) /\ Kept(mem', disk', FALSE)
      /\ mem'.s = Restore(x, mem.s.fired)
  <2> DEFINE m == Fresh(x, e, mem.s.fired)
             d == [session |-> x, energy |-> e]
             z == [m EXCEPT !.task[Poller] = Polling]
  <2>1. d.session = x
    OBVIOUS
  <2> HIDE DEF d
  <2>2. Sound(m, d, born) /\ Kept(m, d, FALSE) /\ m.s = Restore(x, mem.s.fired)
    BY <1>1, <1>2, <1>3, <2>1, Facts, FreshIsSound
  <2> HIDE DEF m
  <2>3. z \in Memory /\ z.sessions = m.sessions /\ z.written = m.written /\ z.s = m.s
    BY <2>2, IdleIsTask DEF Sound, Memory
  <2> HIDE DEF z
  <2>4. Leads(m, z, d, FALSE, born)
    BY <2>2, <2>3, Facts, StaysItself, FrameLeads
  <2>5. mem' = z /\ disk' = d
    BY DEF z, m, d
  <2> QED  BY <2>2, <2>3, <2>4, <2>5 DEF Leads
<1>5. DiskOK(disk', born)
  BY <1>1, <1>2 DEF DiskOK
<1>6. RestOK'
  BY Facts DEF RestOK
<1>7. ASSUME ~lossy' PROVE FiredOK(mem'.s, born) /\ RearmOK(mem'.s, userEnded)
  <2>1. ~lossy /\ ~failed /\ mem.sessions = <<>>
    BY <1>7, Facts DEF RestOK
  <2>2. x = disk.session
    BY <2>1 DEF Found
  <2>3. Remembers(x, mem.s)
    BY <2>1, <2>2, Facts DEF Kept
  <2>4. /\ mem'.s.start = IF mem.s.total = None THEN 0 ELSE mem.s.start
        /\ mem.s.rearm => mem'.s.rearm
    BY <1>4, <2>3 DEF Remembers
  <2>5. mem'.s.fired = mem.s.fired
    BY <1>1, <1>3, <1>4, RestoredRecord
  <2>6. FiredOK(mem.s, born) /\ RearmOK(mem.s, userEnded)
    BY <2>1 DEF IInv
  <2>7. FiredOK(mem'.s, born)
    <3> SUFFICES ASSUME NEW n \in Sessions
                 PROVE  /\ mem'.s.fired[n] <= 1
                        /\ n > born \/ n = mem'.s.start => mem'.s.fired[n] = 0
      BY DEF FiredOK
    <3>1. n # 0
      BY SessionsAssumption DEF Sessions
    <3> QED  BY <2>4, <2>5, <2>6, <3>1 DEF FiredOK
  <2> QED  BY <2>4, <2>6, <2>7 DEF RearmOK, Active
<1> QED  BY <1>4, <1>5, <1>6, <1>7 DEF IInv

\* A step that leaves the memory, the files and the sessions alone.
LEMMA OutsideKeeps ==
    ASSUME IInv, UNCHANGED <<mem, disk, born, failed, lossy, userEnded>>, RestOK'
    PROVE  IInv'
BY DEF IInv, Sound, Ordered, Kept, DiskOK, Remembers

LEMMA UnloadKeeps == ASSUME IInv, Unload PROVE IInv'
<1>1. RestOK'
  BY Facts, BoundsAssumption DEF Unload, RestOK
<1> QED  BY <1>1, OutsideKeeps DEF Unload

LEMMA CrashKeeps == ASSUME IInv, Crash PROVE IInv'
<1>1. down' \in 0..MaxDown /\ phase' = "dead" /\ UNCHANGED <<born, fails, failed, lossy, userEnded>>
  BY Facts, BoundsAssumption DEF Crash, RestOK
<1>2. intent' \in BOOLEAN
  <2>1. intent \in BOOLEAN /\ intent' \in {intent, FALSE}
    BY Facts DEF Crash, RestOK
  <2> QED  BY <2>1, Zenon
<1>3. RestOK'
  BY <1>1, <1>2, Facts DEF RestOK
<1> QED  BY <1>3, OutsideKeeps DEF Crash

LEMMA InitHolds == ASSUME Init PROVE IInv
<1> DEFINE s0 == NewSession
           x0 == NoRecord
<1>1. s0 \in SessionSet /\ s0.fired = [n \in Sessions |-> 0]
  BY SessionsAssumption DEF NewSession, SessionSet, None
<1>2. x0 \in Exports /\ x0.start = 0 /\ x0.last = 0 /\ x0.rearm = FALSE /\ x0.total = None
  BY SessionsAssumption DEF NoRecord, Export, NewSession, Exports, None
<1>3. None \in Int /\ s0.fired \in [Sessions -> Nat]
  BY <1>1 DEF None, SessionSet
<1>4. /\ mem = Fresh(x0, None, s0.fired) /\ disk = [session |-> x0, energy |-> None]
      /\ born = 0 /\ failed = FALSE /\ userEnded = FALSE
  BY DEF Init
<1>5. RecordOK(x0, 0)
  BY <1>2 DEF RecordOK
<1> HIDE DEF x0, s0
<1>7. Sound(mem, disk, 0) /\ Kept(mem, disk, FALSE) /\ mem.s = Restore(x0, s0.fired)
  <2>1. disk.session = x0 /\ 0 \in Nat
    BY <1>4
  <2> QED  BY <1>2, <1>3, <1>4, <1>5, <2>1, FreshIsSound
<1>8. DiskOK(disk, 0)
  BY <1>2, <1>3, <1>4, <1>5 DEF DiskOK
<1>9. FiredOK(mem.s, 0)
  <2>1. mem.s.fired = s0.fired
    BY <1>2, <1>3, <1>7, RestoredRecord
  <2> QED  BY <1>1, <2>1 DEF FiredOK
<1>10. RearmOK(mem.s, userEnded)
  BY <1>4 DEF RearmOK
<1>11. RestOK
  <2>1. /\ phase = "down" /\ born \in 0..MaxSessions /\ down \in 0..MaxDown
        /\ fails \in 0..MaxFails
    BY SessionsAssumption, BoundsAssumption DEF Init
  <2>2. intent \in BOOLEAN /\ failed \in BOOLEAN /\ lossy \in BOOLEAN /\ userEnded \in BOOLEAN
    BY Zenon DEF Init
  <2> QED  BY <2>1, <2>2 DEF RestOK
<1> QED  BY <1>4, <1>7, <1>8, <1>9, <1>10, <1>11 DEF IInv

LEMMA NextKeeps == ASSUME IInv, [Next]_vars PROVE IInv'
<1>1. CASE Setup      BY <1>1, SetupKeeps
<1>2. CASE StartPoll  BY <1>2, StartPollKeeps
<1>3. CASE Unload     BY <1>3, UnloadKeeps
<1>4. CASE Flush      BY <1>4, FlushKeeps
<1>5. CASE Crash      BY <1>5, CrashKeeps
<1>6. ASSUME NEW t \in Tasks, Step(t) PROVE IInv'
  <2>1. ASSUME NEW on \in BOOLEAN, t \in Switches, Command(t, on) PROVE IInv'
    BY <2>1, CommandKeeps
  <2>2. ASSUME NEW ok \in BOOLEAN, CommandEnds(t, ok) PROVE IInv'
    BY <2>2, CommandEndsKeeps
  <2>3. ASSUME NEW ok \in BOOLEAN, SessionSaveEnds(t, ok) PROVE IInv'
    BY <2>3, SessionSaveEndsKeeps
  <2>4. ASSUME NEW ok \in BOOLEAN, EnergySaveEnds(t, ok) PROVE IInv'
    BY <2>4, EnergySaveEndsKeeps
  <2>5. ASSUME NEW status \in Statuses, NEW energy \in Totals, ReadEnds(t, status, energy)
        PROVE  IInv'
    BY <2>5, ReadEndsKeeps
  <2>6. CASE CommandFails(t)  BY <2>6, CommandFailsKeeps
  <2>7. CASE ReadFails(t)     BY <2>7, ReadFailsKeeps
  <2> QED  BY <1>6, <2>1, <2>2, <2>3, <2>4, <2>5, <2>6, <2>7 DEF Step
<1>7. CASE UNCHANGED vars
  BY <1>7, Facts, OutsideKeeps DEF vars, RestOK
<1> QED  BY <1>1, <1>2, <1>3, <1>4, <1>5, <1>6, <1>7 DEF Next

(***************************************************************************)
(* The theorems.                                                           *)
(***************************************************************************)

\* The inductive invariant holds over polls, service calls, unloads, failing saves,
\* crashes and restarts of the coordinator.
THEOREM Invariance == Spec => []IInv
BY InitHolds, NextKeeps, PTL DEF Spec

\* Every variable of the coordinator keeps its shape (FoxESSChargerCoordinator.__init__).
THEOREM TypeTheorem == Spec => []TypeOK
<1>1. IInv => TypeOK
  <2> SUFFICES ASSUME IInv PROVE TypeOK
    OBVIOUS
  <2>1. IsSession(mem.s)
    <3>1. mem.s = [start |-> mem.s.start, total |-> mem.s.total, rearm |-> mem.s.rearm,
                   prev |-> mem.s.prev, last |-> mem.s.last, dirty |-> mem.s.dirty,
                   fired |-> mem.s.fired]
      BY Facts DEF SessionSet
    <3>2. mem.s.dirty \in BOOLEAN /\ mem.s.fired \in [Sessions -> Nat]
      BY Facts DEF SessionSet
    <3> QED  BY <3>1, <3>2, Facts, ExportIsExport DEF IsSession
  <2> QED  BY <2>1, Facts DEF TypeOK, Memory, SessionSave, EnergySave, DiskOK, RestOK
<1> QED  BY <1>1, Invariance, PTL

\* A session completes at most once, whatever overlaps or fails, as long as no start came
\* after a session save that failed or was cut off (session.py, SessionTracker._complete).
THEOREM OnceTheorem == Spec => []CompletesOnce
<1>1. IInv => CompletesOnce
  BY DEF IInv, FiredOK, CompletesOnce
<1> QED  BY <1>1, Invariance, PTL

\* After a user pause no new session starts before the user enables charging or the
\* charger is seen inactive, over reloads and crashes too (session.py, rearm_required).
THEOREM RearmTheorem == Spec => []RearmHolds
<1>1. IInv => RearmHolds
  BY DEF IInv, RearmOK, RearmHolds
<1> QED  BY <1>1, Invariance, PTL

\* When no session save waits and the last one succeeded, the file has the tracker,
\* although polls and pauses share its dirty flag (coordinator.py, _async_persist).
THEOREM SavedTheorem == Spec => []SessionIsSaved
<1>1. IInv => SessionIsSaved
  BY DEF IInv, Kept, SessionIsSaved
<1> QED  BY <1>1, Invariance, PTL
=============================================================================
