---------------------------- MODULE StorageProofs ----------------------------
(***************************************************************************)
(* Theorems about the saved state of the controller, for any records,      *)
(* session fields and number of crashes, reloads and failing saves.        *)
(***************************************************************************)
EXTENDS Storage, SequenceTheorems, TLAPS

(***************************************************************************)
(* The shape of the state.                                                 *)
(***************************************************************************)
PowerSet == Nat \cup {None}
Rec      == [enabled : BOOLEAN, latched : BOOLEAN, stop : BOOLEAN, power : PowerSet, rev : Nat]
Limits   == [power : PowerSet]
State    == [controller : Rec, rearm : BOOLEAN, session : Session, setpoints : Limits]
Job      == [at : Files, rec : Rec \cup {Missing}, raises : BOOLEAN,
             payload : Session \cup Limits \cup State, session : Session, setpoints : Limits]

\* What is saved in file f.
Contents(f) == IF f = "session" THEN Session ELSE IF f = "setpoints" THEN Limits ELSE State

\* The program is running and has handed over a record.
Saving == phase \in {"setup", "up", "flush"}

FilesOK ==
    /\ disk \in [Files -> Session \cup Limits \cup State \cup {Missing, Malformed}]
    /\ written \in [Files -> Session \cup Limits \cup State \cup {Missing}]
    /\ \A f \in Files : disk[f] \in Contents(f) \cup {Missing, Malformed}
    /\ \A f \in Files : written[f] \in Contents(f) \cup {Missing}

RecordOK ==
    /\ controller \in Rec \cup {Missing}
    /\ Saving => controller \in Rec
    /\ fields \in [prev : {"running", "other"}, rearm : BOOLEAN]
    /\ attempted \in Nat \cup {-1}
    /\ phase \in {"down", "init", "setup", "up", "flush"}
    /\ acked \in BOOLEAN /\ undone \in BOOLEAN /\ older \in BOOLEAN /\ stray \in BOOLEAN

\* A save carries the payload of the file it waits for.
JobOK(j) ==
    /\ j \in Job
    /\ j.at = "session" => j.payload = j.session
    /\ j.at = "setpoints" => j.payload = j.setpoints
    /\ j.at = "state" => /\ j.payload \in State
                         /\ j.payload.session = j.session /\ j.payload.setpoints = j.setpoints

JobsOK ==
    /\ DOMAIN job = Tasks
    /\ \A t \in Tasks : job[t] = NoJob \/ (Saving /\ JobOK(job[t]))

\* Version 2.4.3 has left both of its files.
OlderOK == older => phase = "down" /\ disk["session"] \in Session /\ disk["setpoints"] \in Limits

ShapeOK == FilesOK /\ RecordOK /\ JobsOK /\ OlderOK

(***************************************************************************)
(* One save at a time: one task saves records, and the poll saves only at  *)
(* the unload.                                                             *)
(***************************************************************************)
Serial == Fields = {} /\ \A v, w \in Writers : v = w

\* What a save of the record c with the session fields s writes.
Target(c, s) ==
    [session |-> LegacySession(c, s), setpoints |-> LegacySetpoints(c),
     state |-> [controller |-> c, rearm |-> s.rearm, session |-> LegacySession(c, s),
                setpoints |-> LegacySetpoints(c)]]

\* At most one save is under way, and it writes the record handed over last.
OneSave ==
    /\ \A t, u \in Tasks : job[t] # NoJob /\ job[u] # NoJob => t = u
    /\ job["poll"] # NoJob => phase = "flush"
    /\ phase = "flush" => \A w \in Writers : job[w] = NoJob
    /\ \A t \in Tasks : job[t] # NoJob =>
         LET goal == Target(controller, fields)
         IN  /\ job[t].session = goal.session /\ job[t].setpoints = goal.setpoints
             /\ job[t].payload = goal[job[t].at]
             /\ job[t].at # "session" => written["session"] = goal.session
             /\ job[t].at = "state" => written["setpoints"] = goal.setpoints

\* The state file agrees with itself: its copies of the older files say what its record does.
AgreesOK ==
    disk["state"] \in State =>
      LET x == disk["state"]
      IN  x.setpoints.power = x.controller.power /\ x.session.paused = ~Permits(x.controller)

\* What the process knows to be on disk is there, unless a timed-out write has landed.
CacheOK == ~stray => \A f \in Files : written[f] # Missing => disk[f] = written[f]

\* Once a save has returned, there is nothing left to write.
AckedOK == acked => /\ Saving /\ Idle
                    /\ \A f \in Files : written[f] = Target(controller, fields)[f]

\* The revisions on disk and in memory: a start goes on from the record it found.
RevOK ==
    disk["state"] \in State =>
      LET r == disk["state"].controller
      IN  /\ phase = "init" => controller \in Rec /\ r.rev <= controller.rev
          /\ phase = "init" /\ r.rev = controller.rev => UseState(disk)
          /\ Saving => r.rev <= controller.rev
          /\ Saving /\ ~stray /\ r.rev = controller.rev =>
               \A f \in Files : disk[f] = Target(controller, fields)[f]
          /\ Saving /\ ~stray /\ r.rev + 1 = controller.rev =>
               UseState(disk) \/ disk["session"] = LegacySession(controller, fields)

TriedOK == Saving => controller.rev <= attempted /\ controller.rev > 0

SerialInv == OneSave /\ AgreesOK /\ CacheOK /\ AckedOK
RevInv    == RevOK /\ TriedOK

(***************************************************************************)
(* One task saves records, the poll saves beside it, and no save fails.    *)
(***************************************************************************)
Undisturbed(w) == Writers = {w} /\ Faults \cap {"error", "timeout"} = {}

At(t, f) == job[t] # NoJob /\ job[t].at = f

\* l is a queue of the tasks in W.
Queue(w, W, l) ==
    \/ W = {} /\ l = <<>>
    \/ W = {w} /\ l = <<w>>
    \/ W = {"poll"} /\ l = <<"poll">>
    \/ W = {w, "poll"} /\ l \in {<<w, "poll">>, <<"poll", w>>}

\* The stores serve the saves in the order they came.
LinesOK(w) ==
    /\ DOMAIN line = Files
    /\ \A f \in Files : Queue(w, {t \in Tasks : At(t, f)}, line[f])

Right(s) == s.paused = ~Permits(controller)

\* The save of the writer was composed from the current record; the poll brings no record.
OwnOK(w) ==
    /\ job[w] # NoJob => Right(job[w].session)
    /\ At(w, "state") => job[w].payload.controller = controller
    /\ job["poll"] # NoJob => job["poll"].rec = Missing
    /\ acked => Saving

\* The pause of the session file, as written and as it waits to be written by the poll, is
\* that of the record; or the record's own save is still to come.
PauseOK(w) == Saving =>
    \/ /\ written["session"] \in Session /\ Right(written["session"])
       /\ At("poll", "session") => Right(job["poll"].session)
    \/ /\ ~acked /\ At(w, "session")
       /\ line["session"] = <<w, "poll">> => Right(job["poll"].session)

\* The same of the record in the state file.
StateOK(w) == Saving =>
    \/ /\ written["state"] \in State /\ written["state"].controller = controller
       /\ At("poll", "state") => job["poll"].payload.controller = controller
    \/ /\ ~acked /\ job[w] # NoJob
       /\ line["state"] = <<w, "poll">> => job["poll"].payload.controller = controller

\* A record older than the current one waits only while the current one is not written.
NewestOK ==
    /\ At("poll", "state") /\ written["state"] \in State
    /\ written["state"].controller = controller
    => job["poll"].payload.controller = controller

\* Nothing is written behind the back of the process.
TrueCache == \A f \in Files : written[f] # Missing => disk[f] = written[f]

PauseInv(w) == LinesOK(w) /\ OwnOK(w) /\ PauseOK(w) /\ StateOK(w) /\ NewestOK /\ TrueCache

(***************************************************************************)
(* The values of the model.                                                *)
(***************************************************************************)

\* None of the records is one of the marks for a file that holds none.
LEMMA NoMark ==
    /\ Missing \notin Rec /\ Malformed \notin Rec
    /\ Missing \notin Session /\ Malformed \notin Session
    /\ Missing \notin Limits /\ Malformed \notin Limits
    /\ Missing \notin State /\ Malformed \notin State
    /\ NoJob \notin Job /\ Missing # Malformed
<1>1. DOMAIN Missing = {"missing"} /\ DOMAIN Malformed = {"malformed"} /\ DOMAIN NoJob = {"at"}
  BY DEF Missing, Malformed, NoJob
<1>2. \A x \in Rec : "power" \in DOMAIN x
  BY DEF Rec
<1>3. \A x \in Session : "prev" \in DOMAIN x
  BY DEF Session
<1>4. \A x \in Limits : "power" \in DOMAIN x
  BY DEF Limits
<1>5. \A x \in State : "controller" \in DOMAIN x
  BY DEF State
<1>6. \A x \in Job : "payload" \in DOMAIN x
  BY DEF Job
<1>7. Missing # Malformed
  BY <1>1
<1> HIDE DEF Missing, Malformed, NoJob
<1> QED  BY <1>1, <1>2, <1>3, <1>4, <1>5, <1>6, <1>7

LEMMA FilesAre == Files = {"session", "setpoints", "state"} /\ Order[1] = "session"
                  /\ Order[2] = "setpoints" /\ Order[3] = "state"
BY DEF Files, Order

LEMMA PowersAreNumbers == Powers \subseteq PowerSet /\ None \in PowerSet /\ 0 \in Nat
BY IntentsAssumption DEF Powers, PowerSet

\* The older version's view of a record, and the record's own payloads.
LEMMA TargetShape ==
    ASSUME NEW c \in Rec, NEW s \in [prev : {"running", "other"}, rearm : BOOLEAN]
    PROVE  /\ LegacySession(c, s) \in Session /\ LegacySetpoints(c) \in Limits
           /\ LegacySession(c, s).paused = ~Permits(c) /\ LegacySetpoints(c).power = c.power
           /\ Target(c, s)["session"] = LegacySession(c, s)
           /\ Target(c, s)["setpoints"] = LegacySetpoints(c)
           /\ Target(c, s)["state"] = [controller |-> c, rearm |-> s.rearm,
                                       session |-> LegacySession(c, s),
                                       setpoints |-> LegacySetpoints(c)]
           /\ Target(c, s)["state"] \in State
<1>1. c # Missing
  BY NoMark
<1>2. Permits(c) \in BOOLEAN
  BY DEF Permits
<1>3. LegacySession(c, s) \in Session /\ LegacySession(c, s).paused = ~Permits(c)
  BY <1>1, <1>2 DEF LegacySession, Session
<1>4. LegacySetpoints(c) \in Limits /\ LegacySetpoints(c).power = c.power
  BY <1>1 DEF LegacySetpoints, Limits, Rec
<1>5. /\ Target(c, s)["session"] = LegacySession(c, s)
      /\ Target(c, s)["setpoints"] = LegacySetpoints(c)
      /\ Target(c, s)["state"] = [controller |-> c, rearm |-> s.rearm,
                                  session |-> LegacySession(c, s),
                                  setpoints |-> LegacySetpoints(c)]
  BY DEF Target
<1>6. [controller |-> c, rearm |-> s.rearm, session |-> LegacySession(c, s),
       setpoints |-> LegacySetpoints(c)] \in State
  BY <1>3, <1>4 DEF State
<1> QED  BY <1>3, <1>4, <1>5, <1>6

(***************************************************************************)
(* What a start restores.                                                  *)
(***************************************************************************)
SeenOK(d) ==
    /\ d["session"] \in Session \cup {Missing, Malformed}
    /\ d["setpoints"] \in Limits \cup {Missing, Malformed}
    /\ d["state"] \in State \cup {Missing, Malformed}

LEMMA SeenShape ==
    ASSUME NEW d, SeenOK(d), NEW unread \in SUBSET Files
    PROVE  /\ SeenOK(Seen(d, unread))
           /\ \A f \in Files : Seen(d, unread)[f] = IF f \in unread THEN Missing ELSE d[f]
<1>1. \A f \in Files : Seen(d, unread)[f] = IF f \in unread THEN Missing ELSE d[f]
  BY DEF Seen
<1> QED  BY <1>1, FilesAre DEF SeenOK

\* The limits and the protective record.
LEMMA ProtectiveShape ==
    ASSUME NEW p \in PowerSet, NEW n \in Nat
    PROVE  /\ Protective(p, n) \in Rec /\ ~Permits(Protective(p, n))
           /\ Protective(p, n).power = p /\ Protective(p, n).rev = n
BY DEF Protective, Rec, Permits

LEMMA LegacyLimitShape ==
    ASSUME NEW x \in Limits \cup {Missing, Malformed}
    PROVE  LegacyLimit(x) \in PowerSet /\ (x \in Limits => LegacyLimit(x) = x.power)
<1>1. x \in Limits => IsDict(x)
  BY NoMark DEF IsDict
<1>2. x \notin Limits => ~IsDict(x)
  BY DEF IsDict
<1> QED  BY <1>1, <1>2, PowersAreNumbers DEF LegacyLimit, Limits

\* _import_legacy never takes more from the older files than they say.
LEMMA ImportShape ==
    ASSUME NEW d, SeenOK(d), NEW readable \in BOOLEAN
    PROVE  LET r == ImportLegacy(d, readable)
           IN  /\ r \in Rec
               /\ r.power = LegacyLimit(d["setpoints"])
               /\ r.rev = IF d["state"] \in State THEN d["state"].controller.rev + 1 ELSE 0
               /\ Permits(r) => /\ readable /\ d["session"] \in Session /\ ~d["session"].paused
                                /\ d["setpoints"] # Malformed
<1> DEFINE rev    == IF IsDict(d.state) THEN d.state.controller.rev + 1 ELSE 0
           power  == LegacyLimit(d.setpoints)
           paused == IsDict(d.session) /\ d.session.paused
           active == IsDict(d.session) /\ d.session.prev \in LEGACY_ACTIVE
           taken  == [enabled |-> active /\ ~paused, latched |-> FALSE, stop |-> paused,
                      power |-> power, rev |-> rev]
           r      == ImportLegacy(d, readable)
<1>1. /\ d["session"] \in Session <=> IsDict(d["session"])
      /\ d["state"] \in State <=> IsDict(d["state"])
  BY NoMark DEF SeenOK, IsDict
<1>2. /\ rev = IF d["state"] \in State THEN d["state"].controller.rev + 1 ELSE 0
      /\ rev \in Nat
  BY <1>1 DEF State, Rec
<1>3. power \in PowerSet
  BY LegacyLimitShape DEF SeenOK
<1>4. r = IF ~readable \/ d.session = Malformed \/ d.setpoints = Malformed
          THEN Protective(power, rev) ELSE taken
  BY DEF ImportLegacy
<1>5. paused \in BOOLEAN /\ active \in BOOLEAN
  BY <1>1 DEF Session
<1>6. CASE ~readable \/ d.session = Malformed \/ d.setpoints = Malformed
  <2> HIDE DEF rev, power, paused, active
  <2> QED  BY <1>2, <1>3, <1>4, <1>6, ProtectiveShape DEF power
<1>7. CASE readable /\ d.session # Malformed /\ d.setpoints # Malformed
  <2>1. r = taken
    BY <1>4, <1>7
  <2>2. Permits(taken) => d["session"] \in Session /\ ~d["session"].paused
    BY <1>1 DEF Permits
  <2> HIDE DEF rev, power, paused, active
  <2>3. taken \in Rec /\ taken.power = power /\ taken.rev = rev
    BY <1>2, <1>3, <1>5 DEF Rec
  <2> QED  BY <1>2, <1>7, <2>1, <2>2, <2>3 DEF power
<1> QED  BY <1>6, <1>7

\* What async_load makes of the files, before it compares revisions.
Base(d, unread) ==
    LET seen == Seen(d, unread)
    IN  IF "state" \notin unread /\ UseState(seen) THEN seen.state.controller
        ELSE IF "state" \in unread \/ seen.state = Malformed
             THEN Protective(LegacyLimit(seen.setpoints), 0)
        ELSE IF seen = NoFile /\ unread = {} THEN Missing
        ELSE ImportLegacy(seen, unread \cap {"session", "setpoints"} = {})

LEMMA LoadedIsBase ==
    ASSUME NEW d, NEW unread, NEW tried
    PROVE  Loaded(d, unread, tried) =
             IF Base(d, unread) # Missing /\ Base(d, unread).rev < tried
             THEN Protective(SalvageLimit(Base(d, unread), Seen(d, unread).setpoints), tried + 1)
             ELSE Base(d, unread)
BY Zenon DEF Loaded, Base, Stale

\* A record is restored from the state file or imported, or it is protective.
LEMMA BaseShape ==
    ASSUME NEW d, SeenOK(d), NEW unread \in SUBSET Files
    PROVE  LET r    == Base(d, unread)
               seen == Seen(d, unread)
           IN  /\ r \in Rec \cup {Missing}
               /\ r = Missing => d["state"] = Missing
               /\ Permits(r) => /\ "state" \notin unread /\ d["state"] # Malformed
                                /\ \/ UseState(seen)
                                   \/ /\ ~UseState(seen) /\ unread = {}
                                      /\ d["session"] \in Session /\ ~d["session"].paused
                                      /\ d["setpoints"] # Malformed
                                      /\ r.rev = IF d["state"] \in State
                                                 THEN d["state"].controller.rev + 1 ELSE 0
               /\ "state" \notin unread /\ UseState(seen) =>
                    d["state"] \in State /\ r = d["state"].controller
               /\ unread = {} /\ d["state"] \in State =>
                    r \in Rec /\ (UseState(seen) \/ r.rev = d["state"].controller.rev + 1)
               /\ unread = {} /\ d["session"] \in Session /\ d["setpoints"] \in Limits =>
                    /\ r \in Rec
                    /\ UseState(seen) \/ r.power = d["setpoints"].power
<1> DEFINE r    == Base(d, unread)
           seen == Seen(d, unread)
<1>1. /\ SeenOK(seen)
      /\ \A f \in Files : seen[f] = IF f \in unread THEN Missing ELSE d[f]
  BY SeenShape
<1>2. r = IF "state" \notin unread /\ UseState(seen) THEN seen.state.controller
          ELSE IF "state" \in unread \/ seen.state = Malformed
               THEN Protective(LegacyLimit(seen.setpoints), 0)
          ELSE IF seen = NoFile /\ unread = {} THEN Missing
          ELSE ImportLegacy(seen, unread \cap {"session", "setpoints"} = {})
  BY DEF Base
<1> HIDE DEF r, seen
<1>3. /\ seen["session"] = IF "session" \in unread THEN Missing ELSE d["session"]
      /\ seen["setpoints"] = IF "setpoints" \in unread THEN Missing ELSE d["setpoints"]
      /\ seen["state"] = IF "state" \in unread THEN Missing ELSE d["state"]
  BY <1>1, FilesAre
<1>4. CASE "state" \notin unread /\ UseState(seen)
  <2>1. seen["state"] = d["state"] /\ IsDict(d["state"])
    BY <1>3, <1>4 DEF UseState
  <2>2. d["state"] \in State
    BY <2>1 DEF SeenOK, IsDict
  <2>3. d["state"].controller \in Rec
    BY <2>2 DEF State
  <2>4. r = d["state"].controller
    BY <1>2, <1>4, <2>1
  <2> QED  BY <1>4, <2>2, <2>3, <2>4, NoMark DEF r, seen
<1>5. CASE ~("state" \notin unread /\ UseState(seen)) /\ ("state" \in unread \/ seen.state = Malformed)
  <2>1. r = Protective(LegacyLimit(seen.setpoints), 0)
    BY <1>2, <1>5
  <2>2. LegacyLimit(seen.setpoints) \in PowerSet
    BY <1>1, LegacyLimitShape DEF SeenOK
  <2>3. r \in Rec /\ ~Permits(r) /\ r.power = LegacyLimit(seen.setpoints)
    BY <2>1, <2>2, PowersAreNumbers, ProtectiveShape
  <2>4. "state" \notin unread => ~UseState(seen)
    BY <1>5
  <2>5. unread = {} => d["state"] = Malformed /\ seen["setpoints"] = d["setpoints"]
    BY <1>3, <1>5
  <2>6. unread = {} /\ d["setpoints"] \in Limits => r.power = d["setpoints"].power
    BY <2>3, <2>5, LegacyLimitShape
  <2> QED  BY <2>3, <2>4, <2>5, <2>6, NoMark DEF r, seen
<1>6. CASE /\ ~("state" \notin unread /\ UseState(seen))
           /\ ~("state" \in unread \/ seen.state = Malformed)
           /\ seen = NoFile /\ unread = {}
  <2>1. r = Missing
    BY <1>2, <1>6
  <2>2. seen["state"] = Missing /\ seen["session"] = Missing
    BY <1>6, FilesAre DEF NoFile
  <2>3. d["state"] = Missing /\ d["session"] = Missing
    BY <1>3, <1>6, <2>2
  <2>4. ~Permits(r)
    BY <2>1 DEF Permits
  <2> QED  BY <1>6, <2>1, <2>3, <2>4, NoMark DEF r, seen
<1>7. CASE /\ ~("state" \notin unread /\ UseState(seen))
           /\ ~("state" \in unread \/ seen.state = Malformed)
           /\ ~(seen = NoFile /\ unread = {})
  <2> DEFINE readable == unread \cap {"session", "setpoints"} = {}
  <2>1. r = ImportLegacy(seen, readable)
    BY <1>2, <1>7
  <2>2. readable \in BOOLEAN /\ (readable => unread = {})
    BY <1>7, FilesAre
  <2> HIDE DEF readable
  <2>3. /\ r \in Rec
        /\ r.power = LegacyLimit(seen["setpoints"])
        /\ r.rev = IF seen["state"] \in State THEN seen["state"].controller.rev + 1 ELSE 0
        /\ Permits(r) => /\ readable /\ seen["session"] \in Session /\ ~seen["session"].paused
                         /\ seen["setpoints"] # Malformed
    BY <1>1, <2>1, <2>2, ImportShape
  <2>4. ~UseState(seen) /\ "state" \notin unread /\ seen["state"] = d["state"] /\ d["state"] # Malformed
    BY <1>3, <1>7
  <2>5. unread = {} => seen["session"] = d["session"] /\ seen["setpoints"] = d["setpoints"]
    BY <1>3
  <2>6. unread = {} /\ d["setpoints"] \in Limits => r.power = d["setpoints"].power
    BY <2>3, <2>5, LegacyLimitShape
  <2> QED  BY <2>2, <2>3, <2>4, <2>5, <2>6, NoMark DEF r, seen
<1> QED  BY <1>4, <1>5, <1>6, <1>7

\* What is restored permits no more than what it was made of, and is newer than what this
\* process has tried.
LEMMA LoadedShape ==
    ASSUME NEW d, SeenOK(d), NEW unread \in SUBSET Files, NEW tried \in Nat \cup {-1}
    PROVE  LET r == Loaded(d, unread, tried)
               b == Base(d, unread)
           IN  /\ r \in Rec \cup {Missing}
               /\ Permits(r) => r = b /\ r.rev >= tried
               /\ r = Missing => d["state"] = Missing
               /\ tried = -1 => r = b
               /\ r = b \/ (r \in Rec /\ b \in Rec /\ r.rev > b.rev)
<1> DEFINE r == Loaded(d, unread, tried)
           b == Base(d, unread)
           p == SalvageLimit(b, Seen(d, unread).setpoints)
<1>1. b \in Rec \cup {Missing} /\ (b = Missing => d["state"] = Missing)
  BY BaseShape
<1>2. r = IF b # Missing /\ b.rev < tried THEN Protective(p, tried + 1) ELSE b
  BY LoadedIsBase
<1>3. p \in PowerSet
  <2>1. LegacyLimit(Seen(d, unread).setpoints) \in PowerSet
    BY SeenShape, LegacyLimitShape DEF SeenOK
  <2>2. b # Missing => b.power \in PowerSet
    BY <1>1 DEF Rec
  <2> QED  BY <2>1, <2>2 DEF SalvageLimit
<1> HIDE DEF r, b, p
<1>4. b # Missing => b \in Rec /\ b.rev \in Nat
  BY <1>1 DEF Rec
<1>5. CASE b # Missing /\ b.rev < tried
  <2>1. tried + 1 \in Nat /\ tried # -1
    BY <1>4, <1>5
  <2>2. r \in Rec /\ ~Permits(r) /\ r.rev = tried + 1
    BY <1>2, <1>3, <1>5, <2>1, ProtectiveShape
  <2>3. r.rev > b.rev
    BY <1>4, <1>5, <2>2
  <2> QED  BY <1>4, <1>5, <2>1, <2>2, <2>3, NoMark DEF r, b
<1>6. CASE ~(b # Missing /\ b.rev < tried)
  <2>1. r = b
    BY <1>2, <1>6
  <2>2. Permits(r) => r.rev >= tried
    <3>1. Permits(r) => b # Missing
      BY <2>1 DEF Permits
    <3> QED  BY <1>4, <1>6, <2>1, <3>1
  <2> QED  BY <1>1, <2>1, <2>2 DEF r, b
<1> QED  BY <1>5, <1>6

(***************************************************************************)
(* A save goes from file to file.                                          *)
(***************************************************************************)
FieldSet == [prev : {"running", "other"}, rearm : BOOLEAN]
PreJob   == [at : Files \cup {"idle"}, rec : Rec \cup {Missing}, raises : BOOLEAN,
             payload : Session \cup Limits \cup State \cup {Missing},
             session : Session, setpoints : Limits]

LEMMA JobIsPreJob == Job \subseteq PreJob
BY DEF Job, PreJob

\* _async_write_all has nothing left to write, or waits for the first file that it has.
LEMMA ProceedCases ==
    ASSUME NEW t, NEW j, NEW k \in 1..4, NEW ln, Proceed(t, j, k, ln)
    PROVE  \/ /\ \A i \in k..3 : ~Writes(Order[i], Payload(j, Order[i]))
              /\ job' = [job EXCEPT ![t] = NoJob] /\ line' = ln /\ Outcome(j, "kept")
           \/ \E i \in k..3 :
                /\ Writes(Order[i], Payload(j, Order[i]))
                /\ \A l \in k..(i - 1) : ~Writes(Order[l], Payload(j, Order[l]))
                /\ job' = [job EXCEPT ![t] =
                             [j EXCEPT !.at = Order[i], !.payload = Payload(j, Order[i])]]
                /\ line' = [ln EXCEPT ![Order[i]] = Append(@, t)]
                /\ Outcome(j, "open")
<1> DEFINE ahead == {i \in k..3 : Writes(Order[i], Payload(j, Order[i]))}
           n     == Min(ahead)
<1>1. CASE ahead = {}
  <2>1. \A i \in k..3 : ~Writes(Order[i], Payload(j, Order[i]))
    BY <1>1
  <2> QED  BY <1>1, <2>1 DEF Proceed
<1>2. CASE ahead # {}
  <2>1. \E x \in ahead : \A y \in ahead : x <= y
    <3>1. ahead \subseteq 1..3
      OBVIOUS
    <3> HIDE DEF ahead
    <3>2. CASE 1 \in ahead  BY <3>1, <3>2
    <3>3. CASE 1 \notin ahead /\ 2 \in ahead
      <4>1. \A y \in ahead : 2 <= y
        BY <3>1, <3>3
      <4> QED  BY <3>3, <4>1
    <3>4. CASE 1 \notin ahead /\ 2 \notin ahead
      <4>1. \A y \in ahead : y = 3
        BY <3>1, <3>4
      <4> QED  BY <1>2, <4>1
    <3> QED  BY <3>2, <3>3, <3>4
  <2>2. n \in ahead /\ \A y \in ahead : n <= y
    <3> HIDE DEF ahead
    <3> QED  BY <2>1 DEF Min
  <2>3. n \in k..3 /\ Writes(Order[n], Payload(j, Order[n]))
    BY <2>2
  <2>4. \A l \in k..(n - 1) : ~Writes(Order[l], Payload(j, Order[l]))
    <3> TAKE l \in k..(n - 1)
    <3>1. l \in k..3 /\ ~(n <= l)
      BY <2>3
    <3> QED  BY <2>2, <3>1
  <2>5. /\ job' = [job EXCEPT ![t] = [j EXCEPT !.at = Order[n], !.payload = Payload(j, Order[n])]]
        /\ line' = [ln EXCEPT ![Order[n]] = Append(@, t)]
        /\ Outcome(j, "open")
    BY <1>2 DEF Proceed
  <2> HIDE DEF n
  <2> QED  BY <2>3, <2>4, <2>5
<1> QED  BY <1>1, <1>2

\* The payloads of a save.
LEMMA PayloadShape ==
    ASSUME NEW j \in PreJob, controller' \in Rec, fields' \in FieldSet
    PROVE  /\ Payload(j, "session") = j.session /\ Payload(j, "session") \in Session
           /\ Payload(j, "setpoints") = j.setpoints /\ Payload(j, "setpoints") \in Limits
           /\ Payload(j, "state") = [controller |-> controller', rearm |-> fields'.rearm,
                                     session |-> j.session, setpoints |-> j.setpoints]
           /\ Payload(j, "state") \in State
<1>1. controller' # Missing
  BY NoMark
<1>2. j.session \in Session /\ j.setpoints \in Limits /\ fields'.rearm \in BOOLEAN
  BY DEF PreJob, FieldSet
<1>3. /\ Payload(j, "session") = j.session /\ Payload(j, "setpoints") = j.setpoints
      /\ Payload(j, "state") = [controller |-> controller', rearm |-> fields'.rearm,
                                session |-> j.session, setpoints |-> j.setpoints]
  BY <1>1 DEF Payload
<1>4. [controller |-> controller', rearm |-> fields'.rearm, session |-> j.session,
       setpoints |-> j.setpoints] \in State
  BY <1>2 DEF State
<1> QED  BY <1>2, <1>3, <1>4

LEMMA WaitingJob ==
    ASSUME NEW j \in PreJob, controller' \in Rec, fields' \in FieldSet, NEW f \in Files
    PROVE  LET x == [j EXCEPT !.at = f, !.payload = Payload(j, f)]
           IN  /\ JobOK(x) /\ x.at = f /\ x.payload = Payload(j, f) /\ x.rec = j.rec
               /\ x.session = j.session /\ x.setpoints = j.setpoints /\ x.raises = j.raises
<1> DEFINE p == Payload(j, f)
           x == [j EXCEPT !.at = f, !.payload = p]
<1>1. /\ p \in Session \cup Limits \cup State
      /\ f = "session" => p = j.session
      /\ f = "setpoints" => p = j.setpoints
      /\ f = "state" => p \in State /\ p.session = j.session /\ p.setpoints = j.setpoints
  BY PayloadShape, FilesAre
<1> HIDE DEF p
<1>2. /\ x \in Job /\ x.at = f /\ x.payload = p /\ x.rec = j.rec
      /\ x.session = j.session /\ x.setpoints = j.setpoints /\ x.raises = j.raises
  BY <1>1 DEF PreJob, Job
<1> HIDE DEF x
<1>3. JobOK(x)
  BY <1>1, <1>2 DEF JobOK
<1> QED  BY <1>2, <1>3 DEF x, p

LEMMA OutcomeShape ==
    ASSUME NEW j, NEW result, Outcome(j, result)
    PROVE  acked' \in BOOLEAN /\ undone' \in BOOLEAN
BY Zenon DEF Outcome

LEMMA ProceedShape ==
    ASSUME JobsOK, NEW t \in Tasks, NEW j \in PreJob, NEW k \in 1..4, NEW ln,
           Proceed(t, j, k, ln), controller' \in Rec, fields' \in FieldSet, Saving'
    PROVE  JobsOK' /\ acked' \in BOOLEAN /\ undone' \in BOOLEAN
<1>1. CASE job' = [job EXCEPT ![t] = NoJob] /\ Outcome(j, "kept")
  <2>1. JobsOK'
    BY <1>1 DEF JobsOK, JobOK
  <2> QED  BY <1>1, <2>1, OutcomeShape
<1>2. CASE \E i \in k..3 :
             /\ job' = [job EXCEPT ![t] = [j EXCEPT !.at = Order[i], !.payload = Payload(j, Order[i])]]
             /\ Outcome(j, "open")
  <2> PICK i \in k..3 :
             /\ job' = [job EXCEPT ![t] = [j EXCEPT !.at = Order[i], !.payload = Payload(j, Order[i])]]
             /\ Outcome(j, "open")
    BY <1>2
  <2> DEFINE x == [j EXCEPT !.at = Order[i], !.payload = Payload(j, Order[i])]
  <2>1. i \in 1..3
    OBVIOUS
  <2>2. Order[i] \in Files
    BY <2>1 DEF Order, Files
  <2>3. JobOK(x)
    BY <2>2, WaitingJob
  <2>4. job' = [job EXCEPT ![t] = x]
    OBVIOUS
  <2> HIDE DEF x
  <2>5. JobsOK'
    BY <2>3, <2>4 DEF JobsOK, JobOK
  <2> QED  BY <2>5, OutcomeShape
<1> QED  BY <1>1, <1>2, ProceedCases

\* The record of a save that starts.
LEMMA StartShape ==
    ASSUME NEW t \in Tasks, NEW rec \in Rec \cup {Missing}, NEW raises \in BOOLEAN,
           controller' \in Rec, fields' \in FieldSet, StartWriting(t, rec, raises)
    PROVE  \E j \in PreJob :
             /\ Proceed(t, j, 1, line) /\ j.rec = rec /\ j.raises = raises
             /\ j.session = LegacySession(controller', fields')
             /\ j.setpoints = LegacySetpoints(controller')
<1> DEFINE j == [at |-> "idle", rec |-> rec, raises |-> raises, payload |-> Missing,
                 session |-> LegacySession(controller', fields'),
                 setpoints |-> LegacySetpoints(controller')]
<1>1. LegacySession(controller', fields') \in Session /\ LegacySetpoints(controller') \in Limits
  BY TargetShape DEF FieldSet
<1>2. j \in PreJob
  BY <1>1 DEF PreJob
<1>3. Proceed(t, j, 1, line)
  BY DEF StartWriting
<1>4. /\ j.rec = rec /\ j.raises = raises /\ j.session = LegacySession(controller', fields')
      /\ j.setpoints = LegacySetpoints(controller')
  OBVIOUS
<1> HIDE DEF j
<1> QED  BY <1>2, <1>3, <1>4

(***************************************************************************)
(* The shape is kept.                                                      *)
(***************************************************************************)
LEMMA DiskIsSeen == ASSUME FilesOK PROVE SeenOK(disk)
BY FilesAre DEF FilesOK, SeenOK, Contents

LEMMA TriedShape == ASSUME ShapeOK PROVE attempted \in Nat \cup {-1} /\ SeenOK(disk)
BY DiskIsSeen DEF ShapeOK, RecordOK

LEMMA InitShape == ASSUME Init PROVE ShapeOK
<1>1. FilesOK
  BY DEF Init, FilesOK, NoFile
<1>2. RecordOK
  <2>1. /\ controller = Missing /\ ~Saving /\ attempted = -1 /\ phase = "down"
        /\ fields = [prev |-> "other", rearm |-> FALSE]
    BY DEF Init, Saving
  <2>2. acked \in BOOLEAN /\ undone \in BOOLEAN /\ older \in BOOLEAN /\ stray \in BOOLEAN
    BY Zenon DEF Init
  <2> QED  BY <2>1, <2>2 DEF RecordOK
<1>3. JobsOK /\ OlderOK
  BY DEF Init, JobsOK, OlderOK
<1> QED  BY <1>1, <1>2, <1>3 DEF ShapeOK

LEMMA LoadShape == ASSUME ShapeOK, Load PROVE ShapeOK'
<1> PICK unread \in SUBSET Files :
        LET seen == Seen(disk, unread)
        IN  /\ controller' = Loaded(disk, unread, attempted)
            /\ fields' = [prev  |-> IF IsDict(seen.session) THEN seen.session.prev ELSE "other",
                          rearm |-> UseState(seen) /\ seen.state.rearm]
  BY DEF Load
<1> DEFINE seen == Seen(disk, unread)
<1>1. /\ phase' = "init" /\ written' = NoFile /\ UNCHANGED <<disk, attempted, job, line>>
      /\ ~acked' /\ ~undone' /\ ~older' /\ ~stray'
  BY DEF Load
<1>2. SeenOK(seen)
  BY TriedShape, SeenShape
<1>3. controller' \in Rec \cup {Missing}
  BY TriedShape, LoadedShape
<1>4. fields' \in FieldSet
  <2> DEFINE p == IF IsDict(seen.session) THEN seen.session.prev ELSE "other"
             q == UseState(seen) /\ seen.state.rearm
  <2>0. fields' = [prev |-> p, rearm |-> q]
    OBVIOUS
  <2> HIDE DEF seen
  <2>1. IsDict(seen["session"]) => seen["session"].prev \in {"running", "other"}
    BY <1>2 DEF SeenOK, IsDict, Session
  <2>2. p \in {"running", "other"}
    BY <2>1
  <2>3. q \in BOOLEAN
    BY Zenon
  <2> HIDE DEF p, q
  <2> QED  BY <2>0, <2>2, <2>3 DEF FieldSet
<1>5. ~Saving' /\ \A t \in Tasks : job[t] = NoJob
  BY <1>1 DEF Load, Saving, Idle, ShapeOK, JobsOK
<1>6. FilesOK'
  BY <1>1 DEF ShapeOK, FilesOK, NoFile, Contents
<1>7. RecordOK'
  <2>1. acked' \in BOOLEAN /\ undone' \in BOOLEAN /\ older' \in BOOLEAN /\ stray' \in BOOLEAN
    BY DEF Load
  <2> QED  BY <1>1, <1>3, <1>4, <1>5, <2>1 DEF ShapeOK, RecordOK, FieldSet
<1>8. JobsOK' /\ OlderOK'
  BY <1>1, <1>5 DEF ShapeOK, JobsOK, OlderOK
<1> QED  BY <1>6, <1>7, <1>8 DEF ShapeOK

\* The record that SaveController hands over.
LEMMA HandedOver ==
    ASSUME ShapeOK, NEW w \in Writers, SaveController(w)
    PROVE  /\ controller' \in Rec /\ fields' = fields /\ written' = written
           /\ Offers(controller') /\ phase \in {"init", "up"} /\ job[w] = NoJob
           /\ attempted' = IF controller'.rev > attempted THEN controller'.rev ELSE attempted
           /\ attempted' \in Nat
           /\ phase' = (IF phase = "init" THEN "setup" ELSE phase) /\ Saving'
           /\ UNCHANGED <<disk, older, stray>> /\ ~older
           /\ \E raises \in BOOLEAN : StartWriting(w, controller', raises)
<1> DEFINE new == {[enabled |-> i.enabled, latched |-> i.latched, stop |-> i.stop,
                    power |-> i.power, rev |-> n] : i \in Intents, n \in 0..MaxRev}
<1> PICK r \in new \cup {controller} :
        /\ r # Missing /\ Offers(r) /\ ValidControllerState(r)
        /\ controller' = r
        /\ attempted' = IF r.rev > attempted THEN r.rev ELSE attempted
        /\ UNCHANGED <<written, fields>>
        /\ StartWriting(w, r, phase = "up" /\ Permits(r) /\ ~Permits(controller))
  BY DEF SaveController
<1>1. r \in Rec
  <2>1. CASE r \in new
    <3> PICK i \in Intents, n \in 0..MaxRev :
          r = [enabled |-> i.enabled, latched |-> i.latched, stop |-> i.stop,
               power |-> i.power, rev |-> n]
      BY <2>1
    <3>1. /\ i.enabled \in BOOLEAN /\ i.latched \in BOOLEAN /\ i.stop \in BOOLEAN
          /\ i.power \in PowerSet
      BY IntentsAssumption DEF PowerSet
    <3>2. n \in Nat
      BY BoundAssumption
    <3> QED  BY <3>1, <3>2 DEF Rec
  <2>2. CASE r = controller
    BY <2>2 DEF ShapeOK, RecordOK
  <2> QED  BY <2>1, <2>2
<1>2. attempted \in Nat \cup {-1} /\ r.rev \in Nat
  BY <1>1, TriedShape DEF Rec
<1>3. attempted' \in Nat
  BY <1>2
<1>4. /\ phase \in {"init", "up"} /\ job[w] = NoJob
      /\ phase' = (IF phase = "init" THEN "setup" ELSE phase)
      /\ UNCHANGED <<disk, older, stray>>
  BY DEF SaveController
<1>5. Saving' /\ ~older
  BY <1>4 DEF Saving, ShapeOK, OlderOK
<1> DEFINE q == phase = "up" /\ Permits(r) /\ ~Permits(controller)
<1>6. q \in BOOLEAN /\ StartWriting(w, controller', q)
  OBVIOUS
<1> HIDE DEF q
<1> QED  BY <1>1, <1>3, <1>4, <1>5, <1>6

LEMMA SaveControllerShape ==
    ASSUME ShapeOK, NEW w \in Writers, SaveController(w)
    PROVE  ShapeOK'
<1>1. w \in Tasks /\ fields' \in FieldSet
  BY HandedOver DEF Tasks, ShapeOK, RecordOK, FieldSet
<1> PICK raises \in BOOLEAN : StartWriting(w, controller', raises)
  BY HandedOver
<1> PICK j \in PreJob : Proceed(w, j, 1, line)
  BY <1>1, HandedOver, StartShape
<1>2. JobsOK' /\ acked' \in BOOLEAN /\ undone' \in BOOLEAN
  BY <1>1, HandedOver, ProceedShape DEF ShapeOK
<1>3. FilesOK' /\ OlderOK'
  BY HandedOver DEF ShapeOK, FilesOK, OlderOK
<1>4. RecordOK'
  BY <1>1, <1>2, HandedOver DEF ShapeOK, RecordOK, Saving, FieldSet
<1> QED  BY <1>2, <1>3, <1>4 DEF ShapeOK

LEMMA SetUpShape == ASSUME ShapeOK, SetUp PROVE ShapeOK'
<1>1. phase' = "up" /\ Saving' /\ Saving /\ ~older
  BY DEF SetUp, Saving, ShapeOK, OlderOK
<1> QED  BY <1>1 DEF SetUp, ShapeOK, FilesOK, RecordOK, JobsOK, OlderOK, JobOK

\* What SaveSession and Unload have in common.
LEMMA PollSaves ==
    ASSUME ShapeOK, SaveSession \/ Unload
    PROVE  /\ controller' = controller /\ controller \in Rec /\ fields' \in FieldSet
           /\ written' = written /\ phase = "up" /\ job["poll"] = NoJob
           /\ UNCHANGED <<disk, attempted, older, stray>> /\ ~older
           /\ Saving /\ Saving' /\ phase' \in {"up", "flush"}
           /\ "poll" \in Tasks /\ StartWriting("poll", Missing, FALSE)
<1>1. "poll" \in Tasks
  BY DEF Tasks
<1>2. /\ controller' = controller /\ written' = written /\ phase = "up" /\ job["poll"] = NoJob
      /\ UNCHANGED <<disk, attempted, older, stray>> /\ phase' \in {"up", "flush"}
      /\ StartWriting("poll", Missing, FALSE)
  BY <1>1 DEF SaveSession, Unload, Idle
<1>3. fields' \in FieldSet
  BY FieldsAssumption DEF SaveSession, Unload, FieldSet, ShapeOK, RecordOK
<1>4. Saving /\ Saving' /\ controller \in Rec /\ ~older
  BY <1>2 DEF Saving, ShapeOK, RecordOK, OlderOK
<1> QED  BY <1>1, <1>2, <1>3, <1>4

LEMMA PollSavesShape == ASSUME ShapeOK, SaveSession \/ Unload PROVE ShapeOK'
<1>1. Missing \in Rec \cup {Missing} /\ FALSE \in BOOLEAN
  OBVIOUS
<1> PICK j \in PreJob : Proceed("poll", j, 1, line)
  BY <1>1, PollSaves, StartShape
<1>0. /\ controller' \in Rec /\ fields' \in FieldSet /\ Saving' /\ "poll" \in Tasks
      /\ UNCHANGED <<disk, written, attempted, older, stray>> /\ ~older
  BY PollSaves
<1>2. JobsOK' /\ acked' \in BOOLEAN /\ undone' \in BOOLEAN
  BY <1>0, ProceedShape DEF ShapeOK
<1>3. FilesOK' /\ OlderOK'
  BY <1>0 DEF ShapeOK, FilesOK, OlderOK
<1>4. RecordOK'
  BY <1>0, <1>2, PollSaves DEF ShapeOK, RecordOK, Saving, FieldSet
<1> QED  BY <1>2, <1>3, <1>4 DEF ShapeOK

\* The file that a save waits for, and the next one.
LEMMA IndexShape ==
    /\ Index("session") = 1 /\ Index("setpoints") = 2 /\ Index("state") = 3
<1>1. \A f \in Files : \E k \in 1..3 : Order[k] = f
  BY FilesAre
<1>2. \A f \in Files : Index(f) \in 1..3 /\ Order[Index(f)] = f
  BY <1>1 DEF Index
<1>3. Index("session") \in {1, 2, 3} /\ Index("setpoints") \in {1, 2, 3} /\ Index("state") \in {1, 2, 3}
  BY <1>2, FilesAre
<1> QED  BY <1>2, <1>3, FilesAre

LEMMA JobAt ==
    ASSUME ShapeOK, NEW t \in Tasks, job[t] # NoJob
    PROVE  /\ JobOK(job[t]) /\ job[t] \in Job /\ job[t] \in PreJob /\ job[t].at \in Files
           /\ job[t].payload \in Contents(job[t].at)
           /\ Saving /\ controller \in Rec /\ fields \in FieldSet /\ ~older
<1>1. JobOK(job[t]) /\ job[t] \in Job /\ Saving
  BY DEF ShapeOK, JobsOK, JobOK
<1>2. job[t] \in PreJob /\ job[t].at \in Files
  BY <1>1, JobIsPreJob DEF Job
<1>3. job[t].session \in Session /\ job[t].setpoints \in Limits
  BY <1>1 DEF Job
<1>4. job[t].payload \in Contents(job[t].at)
  BY <1>1, <1>2, <1>3, FilesAre DEF JobOK, Contents
<1> QED  BY <1>1, <1>2, <1>4 DEF ShapeOK, RecordOK, FieldSet, OlderOK, Saving

\* What FileSaved does.
LEMMA SavedFile ==
    ASSUME ShapeOK, NEW t \in Tasks, FileSaved(t)
    PROVE  /\ job[t] # NoJob /\ Head(line[job[t].at]) = t
           /\ disk' = [disk EXCEPT ![job[t].at] = job[t].payload]
           /\ written' = [written EXCEPT ![job[t].at] = job[t].payload]
           /\ UNCHANGED <<controller, fields, phase, attempted, older, stray>>
           /\ Proceed(t, job[t], Index(job[t].at) + 1, [line EXCEPT ![job[t].at] = Tail(@)])
           /\ Index(job[t].at) + 1 \in 1..4
<1>1. job[t] # NoJob
  BY DEF FileSaved, Serving
<1>2. Index(job[t].at) + 1 \in 1..4
  BY <1>1, JobAt, IndexShape, FilesAre
<1> QED  BY <1>1, <1>2 DEF FileSaved, Serving

LEMMA FileSavedShape == ASSUME ShapeOK, NEW t \in Tasks, FileSaved(t) PROVE ShapeOK'
<1>1. /\ job[t] # NoJob /\ job[t] \in PreJob /\ job[t].at \in Files
      /\ job[t].payload \in Contents(job[t].at)
      /\ Saving /\ controller \in Rec /\ fields \in FieldSet /\ ~older
  BY SavedFile, JobAt
<1>2. controller' \in Rec /\ fields' \in FieldSet /\ Saving'
  BY <1>1, SavedFile DEF Saving
<1>3. JobsOK' /\ acked' \in BOOLEAN /\ undone' \in BOOLEAN
  BY <1>1, <1>2, SavedFile, ProceedShape DEF ShapeOK
<1>4. FilesOK'
  <2>1. job[t].payload \in Session \cup Limits \cup State
    BY <1>1 DEF Contents
  <2> QED  BY <1>1, <2>1, SavedFile DEF ShapeOK, FilesOK
<1>5. OlderOK' /\ RecordOK'
  BY <1>1, <1>2, <1>3, SavedFile DEF ShapeOK, OlderOK, RecordOK, Saving, FieldSet
<1> QED  BY <1>3, <1>4, <1>5 DEF ShapeOK

\* A save that raised, with or without a write that lands.
LEMMA Raised ==
    ASSUME ShapeOK, NEW t \in Tasks, FileError(t) \/ SaveTimeout(t)
    PROVE  /\ job[t] # NoJob /\ job' = [job EXCEPT ![t] = NoJob]
           /\ Outcome(job[t], "raised")
           /\ UNCHANGED <<controller, phase, written, fields, attempted, older>>
           /\ \/ UNCHANGED <<disk, stray>>
              \/ stray' = TRUE /\ disk' = [disk EXCEPT ![job[t].at] = job[t].payload]
           /\ FileError(t) => "error" \in Faults
           /\ SaveTimeout(t) => "timeout" \in Faults
BY DEF FileError, SaveTimeout, Raise, Serving

LEMMA RaisedShape == ASSUME ShapeOK, NEW t \in Tasks, FileError(t) \/ SaveTimeout(t) PROVE ShapeOK'
<1>1. /\ job[t].at \in Files /\ job[t].payload \in Contents(job[t].at) /\ ~older
      /\ Saving
  BY Raised, JobAt
<1>2. acked' \in BOOLEAN /\ undone' \in BOOLEAN
  BY Raised, OutcomeShape
<1>3. stray' \in BOOLEAN
  BY Raised DEF ShapeOK, RecordOK
<1>4. FilesOK'
  <2>1. job[t].payload \in Session \cup Limits \cup State
    BY <1>1 DEF Contents
  <2> QED  BY <1>1, <2>1, Raised DEF ShapeOK, FilesOK
<1>5. RecordOK' /\ OlderOK'
  BY <1>1, <1>2, <1>3, Raised DEF ShapeOK, RecordOK, OlderOK, Saving
<1>6. JobsOK'
  BY <1>1, Raised DEF ShapeOK, JobsOK, JobOK, Saving
<1> QED  BY <1>4, <1>5, <1>6 DEF ShapeOK

LEMMA CrashShape == ASSUME ShapeOK, Crash PROVE ShapeOK'
<1>1. FilesOK'
  BY DEF Crash, ShapeOK, FilesOK, NoFile
<1>2. ~Saving' /\ phase' = "down" /\ ~older
  BY DEF Crash, Saving, ShapeOK, OlderOK
<1>3. JobsOK' /\ OlderOK'
  BY <1>2 DEF Crash, JobsOK, OlderOK
<1>4. RecordOK'
  <2>1. acked' \in BOOLEAN /\ undone' \in BOOLEAN /\ older' \in BOOLEAN /\ stray' \in BOOLEAN
    BY Zenon DEF Crash, ShapeOK, RecordOK
  <2> QED  BY <1>2, <2>1 DEF Crash, RecordOK
<1> QED  BY <1>1, <1>3, <1>4 DEF ShapeOK

LEMMA OlderShape == ASSUME ShapeOK, OlderVersionRuns PROVE ShapeOK'
<1> PICK s \in Older, p \in Powers :
        disk' = [disk EXCEPT !.session = s, !.setpoints = [power |-> p]]
  BY DEF OlderVersionRuns
<1>1. s \in Session /\ [power |-> p] \in Limits
  BY OlderAssumption, PowersAreNumbers DEF Limits
<1>2. /\ phase = "down" /\ older' = TRUE
      /\ UNCHANGED <<phase, written, controller, fields, attempted, job, line, acked, undone, stray>>
  BY DEF OlderVersionRuns
<1>3. /\ disk' \in [Files -> Session \cup Limits \cup State \cup {Missing, Malformed}]
      /\ disk'["session"] = s /\ disk'["setpoints"] = [power |-> p]
      /\ disk'["state"] = disk["state"]
  BY <1>1, FilesAre DEF ShapeOK, FilesOK
<1>4. FilesOK'
  BY <1>1, <1>2, <1>3, FilesAre DEF ShapeOK, FilesOK, Contents
<1>5. OlderOK' /\ JobsOK'
  BY <1>1, <1>2, <1>3 DEF OlderOK, ShapeOK, JobsOK, JobOK, Saving
<1>6. RecordOK'
  BY <1>2 DEF ShapeOK, RecordOK, Saving
<1> QED  BY <1>4, <1>5, <1>6 DEF ShapeOK

LEMMA DamageShape == ASSUME ShapeOK, Damage PROVE ShapeOK'
<1> PICK f \in Files : disk' = [disk EXCEPT ![f] = Malformed]
  BY DEF Damage
<1>1. /\ phase = "down" /\ older' = FALSE
      /\ UNCHANGED <<phase, written, controller, fields, attempted, job, line, acked, undone, stray>>
  BY DEF Damage
<1>2. FilesOK'
  BY <1>1 DEF ShapeOK, FilesOK
<1>3. OlderOK' /\ JobsOK'
  BY <1>1 DEF OlderOK, ShapeOK, JobsOK, JobOK, Saving
<1>4. RecordOK'
  BY <1>1 DEF ShapeOK, RecordOK, Saving
<1> QED  BY <1>2, <1>3, <1>4 DEF ShapeOK

LEMMA WritersAreTasks == Writers \subseteq Tasks /\ "poll" \in Tasks /\ "poll" \notin Writers
BY WritersAssumption DEF Tasks

LEMMA NextShape == ASSUME ShapeOK, [Next]_vars PROVE ShapeOK'
<1>1. CASE UNCHANGED vars
  BY <1>1 DEF vars, ShapeOK, FilesOK, RecordOK, JobsOK, JobOK, OlderOK, Saving
<1>2. CASE Next
  BY <1>2, WritersAreTasks, LoadShape, SetUpShape, PollSavesShape, CrashShape, OlderShape, DamageShape,
     SaveControllerShape, RaisedShape, FileSavedShape DEF Next
<1> QED  BY <1>1, <1>2

\* Every variable of the storage keeps its shape, whatever overlaps, fails or is damaged.
THEOREM ShapeTheorem == Spec => []ShapeOK
BY InitShape, NextShape, PTL DEF Spec

(***************************************************************************)
(* A damaged file authorises nothing.                                      *)
(***************************************************************************)

\* With every file readable a start sees the disk as it is.
LEMMA SeenAll ==
    ASSUME NEW d
    PROVE  UseState(Seen(d, {})) <=> UseState(d)
<1>1. \A f \in Files : Seen(d, {})[f] = d[f]
  BY DEF Seen
<1>2. /\ Seen(d, {})["session"] = d["session"] /\ Seen(d, {})["setpoints"] = d["setpoints"]
      /\ Seen(d, {})["state"] = d["state"]
  BY <1>1, FilesAre
<1> QED  BY <1>2 DEF UseState

\* A state file that is used is whole, and so are the files it vouches for.
LEMMA UsedIsWhole ==
    ASSUME NEW d, SeenOK(d), UseState(d)
    PROVE  /\ d["state"] \in State
           /\ \/ /\ d["session"] = d["state"].session /\ d["session"] \in Session
                 /\ d["setpoints"] = d["state"].setpoints /\ d["setpoints"] \in Limits
              \/ d["session"] = Missing /\ d["setpoints"] = Missing
<1>1. d["state"] \in State
  BY DEF UseState, IsDict, SeenOK
<1>2. d["state"].session \in Session /\ d["state"].setpoints \in Limits
  BY <1>1 DEF State
<1> QED  BY <1>1, <1>2 DEF UseState

LEMMA MalformedRestored == ASSUME ShapeOK PROVE MalformedIsProtective
<1> DEFINE r == AfterCrash(disk)
<1>1. SeenOK(disk) /\ {} \in SUBSET Files /\ -1 \in Nat \cup {-1}
  BY TriedShape
<1>2. r = Base(disk, {})
  BY <1>1, LoadedShape DEF AfterCrash
<1>3. Permits(r) => /\ disk["state"] # Malformed
                    /\ \/ UseState(disk)
                       \/ disk["session"] \in Session /\ disk["setpoints"] # Malformed
  BY <1>1, <1>2, BaseShape, SeenAll
<1>4. UseState(disk) => disk["session"] # Malformed /\ disk["setpoints"] # Malformed
  BY <1>1, UsedIsWhole, NoMark
<1>5. Permits(r) => \A f \in Files : disk[f] # Malformed
  BY <1>3, <1>4, NoMark, FilesAre
<1> HIDE DEF r
<1> QED  BY <1>5 DEF MalformedIsProtective, r

\* A file that is not what it should be never authorises charging, whatever the other two say
\* and whatever saves, crashes and downgrades came before (async_load, _import_legacy).
THEOREM MalformedTheorem == Spec => []MalformedIsProtective
BY ShapeTheorem, MalformedRestored, PTL

(***************************************************************************)
(* One save at a time.                                                     *)
(***************************************************************************)

\* A process that has not saved yet knows nothing of the files.
DownOK == phase \in {"down", "init"} => \A f \in Files : written[f] = Missing

LEMMA NextDown == ASSUME ShapeOK, DownOK, [Next]_vars PROVE DownOK'
<1>1. CASE UNCHANGED vars
  BY <1>1 DEF vars, DownOK
<1>2. CASE Load \/ SetUp
  BY <1>2 DEF Load, SetUp, DownOK, NoFile
<1>3. CASE SaveSession \/ Unload
  BY <1>3, PollSaves DEF Saving, DownOK
<1>4. CASE Crash
  BY <1>4 DEF Crash, DownOK, NoFile
<1>5. CASE OlderVersionRuns \/ Damage
  BY <1>5 DEF OlderVersionRuns, Damage, DownOK
<1>6. ASSUME NEW w \in Writers, SaveController(w) PROVE DownOK'
  BY <1>6, HandedOver DEF Saving, DownOK
<1>7. ASSUME NEW t \in Tasks, FileSaved(t) PROVE DownOK'
  <2>1. job[t] # NoJob /\ phase' = phase
    BY <1>7, SavedFile
  <2>2. Saving
    BY <2>1, JobAt
  <2> QED  BY <2>1, <2>2 DEF Saving, DownOK
<1>8. ASSUME NEW t \in Tasks, FileError(t) \/ SaveTimeout(t) PROVE DownOK'
  BY <1>8, Raised DEF DownOK
<1> QED  BY <1>1, <1>2, <1>3, <1>4, <1>5, <1>6, <1>7, <1>8, WritersAreTasks DEF Next

\* The files that a save of the current record with the current fields writes.
LEMMA GoalShape ==
    ASSUME NEW c \in Rec, NEW s \in FieldSet
    PROVE  \A f \in Files : Target(c, s)[f] \in Contents(f) /\ Target(c, s)[f] # Missing
<1>1. /\ Target(c, s)["session"] \in Session /\ Target(c, s)["setpoints"] \in Limits
      /\ Target(c, s)["state"] \in State
  BY TargetShape DEF FieldSet
<1>2. \A f \in Files : Target(c, s)[f] \in Contents(f)
  BY <1>1, FilesAre DEF Contents
<1> QED  BY <1>1, <1>2, FilesAre, NoMark

\* A lone save that goes on from file k, the files before it being written.
LEMMA LoneSave ==
    ASSUME ShapeOK, NEW t \in Tasks, NEW j \in PreJob, NEW k \in 1..4, NEW ln, Proceed(t, j, k, ln),
           controller' \in Rec, fields' \in FieldSet, Saving',
           \A u \in Tasks : u # t => job[u] = NoJob,
           t = "poll" <=> phase' = "flush",
           j.session = LegacySession(controller', fields'), j.setpoints = LegacySetpoints(controller'),
           \A i \in 1..3 : i < k => written'[Order[i]] = Target(controller', fields')[Order[i]],
           acked /\ controller' = controller =>
             \A f \in Files : written'[f] = Target(controller', fields')[f]
    PROVE  OneSave' /\ AckedOK'
<1> DEFINE goal == Target(controller', fields')
<1>1. /\ goal["session"] = j.session /\ goal["setpoints"] = j.setpoints
      /\ goal["state"] = Payload(j, "state")
      /\ Payload(j, "session") = j.session /\ Payload(j, "setpoints") = j.setpoints
      /\ goal.session = j.session /\ goal.setpoints = j.setpoints
  BY TargetShape, PayloadShape DEF FieldSet
<1>2. \A f \in Files : Payload(j, f) = goal[f] /\ goal[f] # Missing
  BY <1>1, FilesAre, GoalShape
<1>3. DOMAIN job = Tasks /\ \A i \in 1..3 : Order[i] \in Files
  BY FilesAre DEF ShapeOK, JobsOK
<1> HIDE DEF goal
<1>4. \A f \in Files : ~Writes(f, Payload(j, f)) => written'[f] = goal[f]
  BY <1>2 DEF Writes
<1>5. CASE /\ \A i \in k..3 : ~Writes(Order[i], Payload(j, Order[i]))
           /\ job' = [job EXCEPT ![t] = NoJob] /\ line' = ln /\ Outcome(j, "kept")
  <2>1. \A u \in Tasks : job'[u] = NoJob
    BY <1>3, <1>5
  <2>2. \A i \in 1..3 : written'[Order[i]] = goal[Order[i]]
    <3> TAKE i \in 1..3
    <3>1. i < k => written'[Order[i]] = goal[Order[i]]
      BY DEF goal
    <3>2. ~(i < k) => i \in k..3
      OBVIOUS
    <3> QED  BY <1>3, <1>4, <1>5, <3>1, <3>2
  <2>3. \A f \in Files : written'[f] = goal[f]
    <3>1. 1 \in 1..3 /\ 2 \in 1..3 /\ 3 \in 1..3
      OBVIOUS
    <3> QED  BY <2>2, <3>1, FilesAre
  <2> QED  BY <2>1, <2>3, WritersAreTasks DEF OneSave, AckedOK, Idle, goal
<1>6. CASE \E i \in k..3 :
             /\ Writes(Order[i], Payload(j, Order[i]))
             /\ \A l \in k..(i - 1) : ~Writes(Order[l], Payload(j, Order[l]))
             /\ job' = [job EXCEPT ![t] = [j EXCEPT !.at = Order[i], !.payload = Payload(j, Order[i])]]
             /\ line' = [ln EXCEPT ![Order[i]] = Append(@, t)]
             /\ Outcome(j, "open")
  <2> PICK i \in k..3 :
             /\ Writes(Order[i], Payload(j, Order[i]))
             /\ \A l \in k..(i - 1) : ~Writes(Order[l], Payload(j, Order[l]))
             /\ job' = [job EXCEPT ![t] = [j EXCEPT !.at = Order[i], !.payload = Payload(j, Order[i])]]
             /\ line' = [ln EXCEPT ![Order[i]] = Append(@, t)]
             /\ Outcome(j, "open")
    BY <1>6
  <2> DEFINE f == Order[i]
             x == [j EXCEPT !.at = f, !.payload = Payload(j, f)]
  <2>1. i \in 1..3 /\ f \in Files
    BY <1>3
  <2>2. x.at = f /\ x.payload = Payload(j, f) /\ x.session = j.session /\ x.setpoints = j.setpoints
    BY <2>1, WaitingJob
  <2>3. job' = [job EXCEPT ![t] = x]
    OBVIOUS
  <2>4. \A l \in 1..3 : l < i => written'[Order[l]] = goal[Order[l]]
    <3> TAKE l \in 1..3
    <3>1. l < k => written'[Order[l]] = goal[Order[l]]
      BY DEF goal
    <3>2. ~(l < k) /\ l < i => l \in k..(i - 1)
      OBVIOUS
    <3> QED  BY <1>3, <1>4, <3>1, <3>2
  <2>5. /\ f # "session" => written'["session"] = goal["session"]
        /\ f = "state" => written'["setpoints"] = goal["setpoints"]
    <3>1. 1 \in 1..3 /\ 2 \in 1..3 /\ i \in {1, 2, 3}
      BY <2>1
    <3>2. (f # "session" => 1 < i) /\ (f = "state" => 2 < i)
      BY <3>1, FilesAre
    <3> QED  BY <2>4, <3>1, <3>2, FilesAre
  <2>6. ~acked'
    <3>1. written'[f] # goal[f]
      BY <1>2, <2>1 DEF Writes
    <3>2. ~(acked /\ controller' = controller)
      BY <2>1, <3>1 DEF goal
    <3> QED  BY <3>2 DEF Outcome
  <2> HIDE DEF x, f
  <2>7. /\ job'[t] = x /\ \A u \in Tasks : u # t => job'[u] = NoJob
    BY <1>3, <2>3
  <2>8. x.payload = goal[f]
    BY <1>2, <2>1, <2>2
  <2>9. OneSave'
    <3>1. \A u, v \in Tasks : job'[u] # NoJob /\ job'[v] # NoJob => u = v
      BY <2>7
    <3>2. job'["poll"] # NoJob => phase' = "flush"
      BY <2>7, WritersAreTasks
    <3>3. phase' = "flush" => \A w \in Writers : job'[w] = NoJob
      BY <2>7, WritersAreTasks
    <3>4. \A u \in Tasks : job'[u] # NoJob =>
             /\ job'[u].session = goal.session /\ job'[u].setpoints = goal.setpoints
             /\ job'[u].payload = goal[job'[u].at]
             /\ job'[u].at # "session" => written'["session"] = goal.session
             /\ job'[u].at = "state" => written'["setpoints"] = goal.setpoints
      BY <1>1, <2>2, <2>5, <2>7, <2>8
    <3> QED  BY <3>1, <3>2, <3>3, <3>4 DEF OneSave, goal
  <2> QED  BY <2>6, <2>9 DEF AckedOK
<1>7. \/ /\ \A i \in k..3 : ~Writes(Order[i], Payload(j, Order[i]))
         /\ job' = [job EXCEPT ![t] = NoJob] /\ line' = ln /\ Outcome(j, "kept")
      \/ \E i \in k..3 :
           /\ Writes(Order[i], Payload(j, Order[i]))
           /\ \A l \in k..(i - 1) : ~Writes(Order[l], Payload(j, Order[l]))
           /\ job' = [job EXCEPT ![t] = [j EXCEPT !.at = Order[i], !.payload = Payload(j, Order[i])]]
           /\ line' = [ln EXCEPT ![Order[i]] = Append(@, t)]
           /\ Outcome(j, "open")
  BY ProceedCases
<1> QED  BY <1>5, <1>6, <1>7

LEMMA SerialSaveController ==
    ASSUME Serial, ShapeOK, SerialInv, NEW w \in Writers, SaveController(w)
    PROVE  OneSave' /\ AckedOK'
<1>1. /\ controller' \in Rec /\ fields' = fields /\ written' = written
      /\ phase \in {"init", "up"} /\ job[w] = NoJob /\ Saving'
      /\ phase' = (IF phase = "init" THEN "setup" ELSE phase)
      /\ \E raises \in BOOLEAN : StartWriting(w, controller', raises)
  BY HandedOver
<1>2. fields' \in FieldSet /\ w \in Tasks /\ w # "poll" /\ phase' # "flush"
  BY <1>1, WritersAreTasks DEF ShapeOK, RecordOK, FieldSet
<1>3. \A u \in Tasks : u # w => job[u] = NoJob
  BY <1>1 DEF Serial, SerialInv, OneSave, Tasks
<1>4. acked /\ controller' = controller =>
        \A f \in Files : written'[f] = Target(controller', fields')[f]
  BY <1>1 DEF SerialInv, AckedOK
<1> PICK raises \in BOOLEAN : StartWriting(w, controller', raises)
  BY <1>1
<1>5. \E j \in PreJob : /\ Proceed(w, j, 1, line) /\ j.rec = controller' /\ j.raises = raises
                        /\ j.session = LegacySession(controller', fields')
                        /\ j.setpoints = LegacySetpoints(controller')
  BY <1>1, <1>2, StartShape
<1> PICK j \in PreJob : /\ Proceed(w, j, 1, line)
                        /\ j.session = LegacySession(controller', fields')
                        /\ j.setpoints = LegacySetpoints(controller')
  BY <1>5
<1>6. 1 \in 1..4 /\ \A i \in 1..3 : i < 1 => written'[Order[i]] = Target(controller', fields')[Order[i]]
  OBVIOUS
<1> QED  BY <1>1, <1>2, <1>3, <1>4, <1>6, LoneSave

LEMMA SerialUnload ==
    ASSUME ShapeOK, SerialInv, Unload
    PROVE  OneSave' /\ AckedOK'
<1>1. /\ controller' = controller /\ controller' \in Rec /\ fields' \in FieldSet /\ written' = written
      /\ Saving' /\ "poll" \in Tasks /\ StartWriting("poll", Missing, FALSE)
  BY PollSaves
<1>2. phase' = "flush" /\ fields' = fields /\ \A u \in Tasks : job[u] = NoJob
  BY DEF Unload, Idle
<1>3. acked /\ controller' = controller =>
        \A f \in Files : written'[f] = Target(controller', fields')[f]
  BY <1>1, <1>2 DEF SerialInv, AckedOK
<1>4. \E j \in PreJob : /\ Proceed("poll", j, 1, line) /\ j.rec = Missing /\ j.raises = FALSE
                        /\ j.session = LegacySession(controller', fields')
                        /\ j.setpoints = LegacySetpoints(controller')
  <2>1. Missing \in Rec \cup {Missing} /\ FALSE \in BOOLEAN
    OBVIOUS
  <2> QED  BY <1>1, <2>1, StartShape
<1> PICK j \in PreJob : /\ Proceed("poll", j, 1, line)
                        /\ j.session = LegacySession(controller', fields')
                        /\ j.setpoints = LegacySetpoints(controller')
  BY <1>4
<1>5. 1 \in 1..4 /\ \A i \in 1..3 : i < 1 => written'[Order[i]] = Target(controller', fields')[Order[i]]
  OBVIOUS
<1> QED  BY <1>1, <1>2, <1>3, <1>5, LoneSave

LEMMA SerialFileSaved ==
    ASSUME Serial, ShapeOK, SerialInv, NEW t \in Tasks, FileSaved(t)
    PROVE  OneSave' /\ AckedOK'
<1> DEFINE j    == job[t]
           k    == Index(job[t].at) + 1
           goal == Target(controller, fields)
           ln   == [line EXCEPT ![job[t].at] = Tail(@)]
<1>1. /\ j # NoJob /\ written' = [written EXCEPT ![j.at] = j.payload]
      /\ UNCHANGED <<controller, fields, phase>> /\ Proceed(t, j, k, ln) /\ k \in 1..4
  BY SavedFile
<1>2. j \in PreJob /\ j.at \in Files /\ Saving /\ controller \in Rec /\ fields \in FieldSet
  BY <1>1, JobAt
<1>3. \A u \in Tasks : u # t => job[u] = NoJob
  BY <1>1 DEF SerialInv, OneSave
<1>4. t = "poll" <=> phase' = "flush"
  BY <1>1 DEF SerialInv, OneSave, Tasks
<1>5. /\ j.session = goal.session /\ j.setpoints = goal.setpoints /\ j.payload = goal[j.at]
      /\ j.at # "session" => written["session"] = goal.session
      /\ j.at = "state" => written["setpoints"] = goal.setpoints
  BY <1>1 DEF SerialInv, OneSave
<1>6. j.session = LegacySession(controller, fields) /\ j.setpoints = LegacySetpoints(controller)
  BY <1>5 DEF Target
<1>7. \A i \in 1..3 : i < k => written'[Order[i]] = goal[Order[i]]
  <2> HIDE DEF goal, j
  <2>1. written'[j.at] = goal[j.at] /\ \A f \in Files : f # j.at => written'[f] = written[f]
    BY <1>1, <1>2, <1>5 DEF ShapeOK, FilesOK
  <2>2. CASE j.at = "session"
    <3>1. k = 2
      BY <2>2, IndexShape DEF j
    <3>2. \A i \in 1..3 : i < k => i = 1
      BY <3>1
    <3> QED  BY <2>1, <2>2, <3>2, FilesAre
  <2>3. CASE j.at = "setpoints"
    <3>1. k = 3
      BY <2>3, IndexShape DEF j
    <3>2. \A i \in 1..3 : i < k => i \in {1, 2}
      BY <3>1
    <3> QED  BY <1>5, <2>1, <2>3, <3>2, FilesAre
  <2>4. CASE j.at = "state"
    <3>1. \A i \in 1..3 : i \in {1, 2, 3}
      OBVIOUS
    <3> QED  BY <1>5, <2>1, <2>4, <3>1, FilesAre
  <2> QED  BY <1>2, <2>2, <2>3, <2>4, FilesAre
<1>8. ~acked
  BY <1>1 DEF SerialInv, AckedOK, Idle
<1>9. Saving' /\ controller' \in Rec /\ fields' \in FieldSet
  BY <1>1, <1>2 DEF Saving
<1>10. /\ \A i \in 1..3 : i < k => written'[Order[i]] = Target(controller', fields')[Order[i]]
       /\ j.session = LegacySession(controller', fields')
       /\ j.setpoints = LegacySetpoints(controller')
  BY <1>1, <1>6, <1>7
<1> HIDE DEF j, k, goal, ln
<1> QED  BY <1>1, <1>2, <1>3, <1>4, <1>8, <1>9, <1>10, LoneSave DEF j

LEMMA SerialRaised ==
    ASSUME ShapeOK, SerialInv, NEW t \in Tasks, FileError(t) \/ SaveTimeout(t)
    PROVE  OneSave' /\ AckedOK'
<1>1. job[t] # NoJob /\ job' = [job EXCEPT ![t] = NoJob] /\ Outcome(job[t], "raised")
  BY Raised
<1>2. \A u \in Tasks : job'[u] = NoJob
  BY <1>1 DEF SerialInv, OneSave, ShapeOK, JobsOK
<1>3. ~acked
  BY <1>1 DEF SerialInv, AckedOK, Idle
<1>4. ~acked'
  BY <1>1, <1>3 DEF Outcome
<1> QED  BY <1>2, <1>4, WritersAreTasks DEF OneSave, AckedOK

LEMMA NextOneSave ==
    ASSUME Serial, ShapeOK, SerialInv, [Next]_vars
    PROVE  OneSave' /\ AckedOK'
<1>1. CASE UNCHANGED vars
  BY <1>1 DEF vars, SerialInv, OneSave, AckedOK, Idle, Saving
<1>2. CASE Load
  <2>1. ~acked' /\ \A t \in Tasks : job'[t] = NoJob
    BY <1>2 DEF Load, Idle, ShapeOK, JobsOK, Saving
  <2> QED  BY <2>1, WritersAreTasks DEF OneSave, AckedOK
<1>3. CASE SetUp
  BY <1>3, WritersAreTasks DEF SetUp, SerialInv, OneSave, AckedOK, Idle, Saving
<1>4. CASE SaveSession
  BY <1>4 DEF SaveSession, Serial
<1>5. CASE Crash
  <2>1. ~acked' /\ \A t \in Tasks : job'[t] = NoJob
    BY <1>5 DEF Crash
  <2> QED  BY <2>1, WritersAreTasks DEF OneSave, AckedOK
<1>6. CASE OlderVersionRuns \/ Damage
  <2>1. UNCHANGED <<phase, written, controller, fields, job, acked>>
    BY <1>6 DEF OlderVersionRuns, Damage
  <2> QED  BY <2>1 DEF SerialInv, OneSave, AckedOK, Idle, Saving
<1> QED  BY <1>1, <1>2, <1>3, <1>4, <1>5, <1>6, SerialUnload, SerialSaveController, SerialFileSaved,
            SerialRaised, WritersAreTasks DEF Next

\* The state file is replaced by the payload of the one save, and no other file behind the
\* back of the process.
LEMMA NextAgrees ==
    ASSUME ShapeOK, DownOK, SerialInv, [Next]_vars
    PROVE  AgreesOK' /\ CacheOK'
<1>1. AgreesOK /\ CacheOK
  BY DEF SerialInv
<1>2. CASE UNCHANGED <<disk, written, stray>>
  BY <1>1, <1>2 DEF AgreesOK, CacheOK
<1>3. CASE Load \/ Crash
  BY <1>1, <1>3 DEF Load, Crash, AgreesOK, CacheOK, NoFile
<1>4. CASE OlderVersionRuns \/ Damage
  <2>1. \A f \in Files : written'[f] = Missing
    BY <1>4 DEF OlderVersionRuns, Damage, DownOK
  <2>2. disk'["state"] \in {disk["state"], Malformed}
    BY <1>4, FilesAre DEF OlderVersionRuns, Damage, ShapeOK, FilesOK
  <2> QED  BY <1>1, <2>1, <2>2, NoMark DEF AgreesOK, CacheOK
<1>5. ASSUME NEW t \in Tasks, job[t] # NoJob, disk' = [disk EXCEPT ![job[t].at] = job[t].payload]
      PROVE  AgreesOK'
  <2>1. /\ controller \in Rec /\ fields \in FieldSet /\ job[t].at \in Files
        /\ job[t].payload = Target(controller, fields)[job[t].at]
    BY <1>5, JobAt DEF SerialInv, OneSave
  <2>2. CASE job[t].at = "state"
    <3> DEFINE x == Target(controller, fields)["state"]
    <3>1. disk'["state"] = x
      BY <1>5, <2>1, <2>2, FilesAre DEF ShapeOK, FilesOK
    <3>2. /\ x.controller = controller /\ x.session = LegacySession(controller, fields)
          /\ x.setpoints = LegacySetpoints(controller)
      BY <2>1 DEF Target
    <3>3. /\ LegacySession(controller, fields).paused = ~Permits(controller)
          /\ LegacySetpoints(controller).power = controller.power
      BY <2>1, TargetShape DEF FieldSet
    <3> HIDE DEF x
    <3> QED  BY <3>1, <3>2, <3>3 DEF AgreesOK
  <2>3. CASE job[t].at # "state"
    <3>1. disk'["state"] = disk["state"]
      BY <1>5, <2>1, <2>3, FilesAre DEF ShapeOK, FilesOK
    <3> QED  BY <1>1, <3>1 DEF AgreesOK
  <2> QED  BY <2>2, <2>3
<1>6. ASSUME NEW t \in Tasks, FileSaved(t) PROVE AgreesOK' /\ CacheOK'
  <2>1. /\ disk' = [disk EXCEPT ![job[t].at] = job[t].payload] /\ job[t] # NoJob
        /\ written' = [written EXCEPT ![job[t].at] = job[t].payload] /\ stray' = stray
    BY <1>6, SavedFile
  <2>2. CacheOK'
    BY <1>1, <2>1 DEF CacheOK, ShapeOK, FilesOK
  <2> QED  BY <1>5, <2>1, <2>2
<1>7. ASSUME NEW t \in Tasks, FileError(t) \/ SaveTimeout(t) PROVE AgreesOK' /\ CacheOK'
  <2>1. /\ job[t] # NoJob /\ written' = written
        /\ \/ UNCHANGED <<disk, stray>>
           \/ stray' = TRUE /\ disk' = [disk EXCEPT ![job[t].at] = job[t].payload]
    BY <1>7, Raised
  <2>2. CASE UNCHANGED <<disk, stray>>
    BY <1>2, <2>1, <2>2
  <2>3. CASE stray' = TRUE /\ disk' = [disk EXCEPT ![job[t].at] = job[t].payload]
    BY <1>5, <2>1, <2>3 DEF CacheOK
  <2> QED  BY <2>1, <2>2, <2>3
<1>8. ASSUME NEW w \in Writers, SaveController(w) PROVE AgreesOK' /\ CacheOK'
  BY <1>2, <1>8, HandedOver
<1>9. CASE SetUp \/ SaveSession \/ Unload \/ UNCHANGED vars
  BY <1>2, <1>9, PollSaves DEF SetUp, vars
<1> QED  BY <1>3, <1>4, <1>6, <1>7, <1>8, <1>9, WritersAreTasks DEF Next

LEMMA InitSerial == ASSUME Init PROVE SerialInv /\ DownOK
<1>1. /\ \A t \in Tasks : job[t] = NoJob
      /\ \A f \in Files : written[f] = Missing /\ disk[f] = Missing
      /\ ~acked
  BY DEF Init, NoFile
<1> QED  BY <1>1, NoMark, FilesAre, WritersAreTasks
         DEF SerialInv, DownOK, OneSave, AgreesOK, CacheOK, AckedOK

\* When saves do not overlap, the one under way writes the record handed over last, and what
\* the process believes of the files is true unless a timed-out write has landed.
THEOREM SerialTheorem == ASSUME Serial PROVE Spec => [](ShapeOK /\ DownOK /\ SerialInv)
<1>1. Init => ShapeOK /\ DownOK /\ SerialInv
  BY InitShape, InitSerial
<1>2. ShapeOK /\ DownOK /\ SerialInv /\ [Next]_vars => (ShapeOK /\ DownOK /\ SerialInv)'
  BY NextShape, NextDown, NextOneSave, NextAgrees DEF SerialInv
<1> QED  BY <1>1, <1>2, PTL DEF Spec

LEMMA SavedRestored == ASSUME ShapeOK, SerialInv PROVE SavedRecordIsRestored
<1> SUFFICES ASSUME acked, ~stray PROVE AfterCrash(disk) = controller
  BY DEF SavedRecordIsRestored
<1> DEFINE goal == Target(controller, fields)
<1>1. SeenOK(disk) /\ {} \in SUBSET Files /\ -1 \in Nat \cup {-1}
  BY TriedShape
<1>2. controller \in Rec /\ fields \in FieldSet /\ \A f \in Files : written[f] = goal[f]
  BY DEF SerialInv, AckedOK, ShapeOK, RecordOK, FieldSet
<1>3. \A f \in Files : disk[f] = goal[f]
  <2>1. \A f \in Files : goal[f] # Missing
    BY <1>2, GoalShape
  <2> QED  BY <1>2, <2>1 DEF SerialInv, CacheOK
<1>4. /\ disk["session"] = goal.session /\ disk["setpoints"] = goal.setpoints
      /\ disk["state"] = goal.state /\ disk["state"] \in State
      /\ goal.state.session = goal.session /\ goal.state.setpoints = goal.setpoints
      /\ goal.state.controller = controller
  BY <1>2, <1>3, FilesAre, TargetShape DEF FieldSet, Target
<1>5. UseState(disk)
  BY <1>4, NoMark DEF UseState, IsDict
<1>6. Base(disk, {}) = disk["state"].controller
  BY <1>1, <1>5, BaseShape, SeenAll
<1> HIDE DEF goal
<1> QED  BY <1>1, <1>4, <1>6, LoadedShape DEF AfterCrash

\* Once every save has returned, a restart restores exactly the record handed over last
\* (the fingerprint of _async_write_all), when saves do not overlap: for any records, any
\* number of failing saves, crashes, reloads, damaged files and runs of version 2.4.3.
THEOREM SavedRecordTheorem == ASSUME Serial PROVE Spec => []SavedRecordIsRestored
<1>1. ShapeOK /\ DownOK /\ SerialInv => SavedRecordIsRestored
  BY SavedRestored
<1> QED  BY <1>1, SerialTheorem, PTL

LEMMA OlderRestored == ASSUME ShapeOK, SerialInv PROVE OlderVersionWins
<1> SUFFICES ASSUME older
             PROVE  /\ AfterCrash(disk).power = disk["setpoints"].power
                    /\ Permits(AfterCrash(disk)) => ~disk["session"].paused
  BY DEF OlderVersionWins
<1>1. SeenOK(disk) /\ {} \in SUBSET Files /\ -1 \in Nat \cup {-1}
  BY TriedShape
<1>2. disk["session"] \in Session /\ disk["setpoints"] \in Limits
  BY DEF ShapeOK, OlderOK
<1>3. AfterCrash(disk) = Base(disk, {})
  BY <1>1, LoadedShape DEF AfterCrash
<1>4. CASE UseState(disk)
  <2>1. /\ disk["session"] = disk["state"].session /\ disk["setpoints"] = disk["state"].setpoints
        /\ disk["state"] \in State
    BY <1>1, <1>2, <1>4, UsedIsWhole, NoMark
  <2>2. Base(disk, {}) = disk["state"].controller
    BY <1>1, <1>4, BaseShape, SeenAll
  <2> QED  BY <1>3, <2>1, <2>2 DEF SerialInv, AgreesOK
<1>5. CASE ~UseState(disk)
  BY <1>1, <1>2, <1>3, <1>5, BaseShape, SeenAll
<1> QED  BY <1>4, <1>5

\* After version 2.4.3 has run, the next start takes its limit and its pause over whatever the
\* state file says (use_state, _import_legacy), when the saves before did not overlap.
THEOREM OlderVersionTheorem == ASSUME Serial PROVE Spec => []OlderVersionWins
<1>1. ShapeOK /\ DownOK /\ SerialInv => OlderVersionWins
  BY OlderRestored
<1> QED  BY <1>1, SerialTheorem, PTL

(***************************************************************************)
(* Revisions: what a reload finds is no newer than the record in memory.   *)
(***************************************************************************)

\* When the files hold what a save of the record writes, the state file is used.
LEMMA TargetIsUsed ==
    ASSUME NEW c \in Rec, NEW s \in FieldSet, NEW d, \A f \in Files : d[f] = Target(c, s)[f]
    PROVE  UseState(d) /\ d["state"].controller = c /\ d["session"] = LegacySession(c, s)
<1>1. /\ d["session"] = LegacySession(c, s) /\ d["setpoints"] = LegacySetpoints(c)
      /\ d["state"] = [controller |-> c, rearm |-> s.rearm, session |-> LegacySession(c, s),
                       setpoints |-> LegacySetpoints(c)]
      /\ d["state"] \in State
  BY FilesAre, TargetShape DEF FieldSet
<1>2. IsDict(d["state"])
  BY <1>1, NoMark DEF IsDict
<1> QED  BY <1>1, <1>2 DEF UseState

LEMMA StateRev ==
    ASSUME ShapeOK, disk["state"] \in State
    PROVE  disk["state"].controller \in Rec /\ disk["state"].controller.rev \in Nat
BY DEF State, Rec

LEMMA RevLoad == ASSUME ShapeOK, "unreadable" \notin Faults, Load PROVE RevInv'
<1>1. /\ controller' = Loaded(disk, {}, attempted) /\ phase' = "init" /\ disk' = disk /\ ~Saving'
  BY DEF Load, Saving
<1>2. SeenOK(disk) /\ attempted \in Nat \cup {-1} /\ {} \in SUBSET Files
  BY TriedShape
<1>3. ASSUME disk["state"] \in State
      PROVE  LET r == disk["state"].controller
             IN  /\ controller' \in Rec /\ r.rev <= controller'.rev
                 /\ r.rev = controller'.rev => UseState(disk)
  <2> DEFINE r == disk["state"].controller
             b == Base(disk, {})
  <2>1. r.rev \in Nat
    BY <1>3, StateRev
  <2>2. b \in Rec /\ ((b = r /\ UseState(disk)) \/ b.rev = r.rev + 1)
    BY <1>2, <1>3, BaseShape, SeenAll
  <2>3. controller' = b \/ (controller' \in Rec /\ controller'.rev > b.rev)
    BY <1>1, <1>2, LoadedShape
  <2>4. b.rev \in Nat /\ (controller' \in Rec => controller'.rev \in Nat)
    BY <2>2 DEF Rec
  <2> HIDE DEF r, b
  <2> QED  BY <2>1, <2>2, <2>3, <2>4 DEF r
<1>4. RevOK'
  BY <1>1, <1>3 DEF RevOK
<1> QED  BY <1>1, <1>4 DEF RevInv, TriedOK

\* The record handed over is the current one, or the next.
LEMMA RevSaveController ==
    ASSUME Serial, ShapeOK, SerialInv, RevInv, NEW w \in Writers, SaveController(w)
    PROVE  RevInv'
<1>1. /\ controller' \in Rec /\ fields' = fields /\ phase \in {"init", "up"} /\ Offers(controller')
      /\ attempted' = (IF controller'.rev > attempted THEN controller'.rev ELSE attempted)
      /\ phase' = (IF phase = "init" THEN "setup" ELSE phase) /\ Saving'
      /\ disk' = disk /\ stray' = stray
  BY HandedOver
<1>2. controller'.rev \in Nat /\ attempted \in Nat \cup {-1} /\ fields \in FieldSet
  BY <1>1 DEF Rec, ShapeOK, RecordOK, FieldSet
<1>3. /\ \/ phase = "up" /\ controller' = controller
         \/ controller = Missing /\ controller'.rev = 1 /\ phase = "init"
         \/ controller # Missing /\ controller'.rev = controller.rev + 1
      /\ phase = "up" => controller \in Rec /\ Saving
      /\ controller # Missing => controller \in Rec /\ controller.rev \in Nat
  <2>1. phase = "up" => controller \in Rec /\ Saving
    BY DEF ShapeOK, RecordOK, Saving
  <2>2. controller # Missing => controller \in Rec
    BY DEF ShapeOK, RecordOK
  <2>3. controller # Missing => controller.rev \in Nat
    BY <2>2 DEF Rec
  <2> QED  BY <1>1, <2>1, <2>2, <2>3, NoMark DEF Offers
<1>4. TriedOK'
  <2>1. controller'.rev > 0
    BY <1>2, <1>3 DEF RevInv, TriedOK
  <2> QED  BY <1>1, <1>2, <2>1 DEF TriedOK
<1>5. ASSUME disk["state"] \in State PROVE RevOK'
  <2> DEFINE r == disk["state"].controller
  <2>1. r.rev \in Nat
    BY <1>5, StateRev
  <2>2. CASE phase = "up" /\ controller' = controller
    BY <1>1, <1>3, <2>2 DEF RevInv, RevOK
  <2>3. CASE phase = "init"
    <3>1. controller \in Rec /\ r.rev <= controller.rev /\ (r.rev = controller.rev => UseState(disk))
      BY <1>5, <2>3 DEF RevInv, RevOK
    <3>2. controller'.rev = controller.rev + 1 /\ controller.rev \in Nat
      BY <1>3, <2>3, <3>1, NoMark
    <3>3. r.rev < controller'.rev /\ (r.rev + 1 = controller'.rev => UseState(disk))
      BY <2>1, <3>1, <3>2
    <3> QED  BY <1>1, <1>2, <2>1, <3>3 DEF RevOK
  <2>4. CASE phase = "up" /\ controller'.rev = controller.rev + 1
    <3>1. /\ controller \in Rec /\ controller.rev \in Nat /\ r.rev <= controller.rev
          /\ ~stray /\ r.rev = controller.rev => \A f \in Files : disk[f] = Target(controller, fields)[f]
      BY <1>3, <1>5, <2>4, NoMark DEF RevInv, RevOK
    <3>2. ~stray /\ r.rev = controller.rev => UseState(disk)
      BY <1>2, <3>1, TargetIsUsed
    <3>3. r.rev < controller'.rev /\ (~stray /\ r.rev + 1 = controller'.rev => UseState(disk))
      BY <2>1, <2>4, <3>1, <3>2
    <3> QED  BY <1>1, <1>2, <2>1, <2>4, <3>3 DEF RevOK
  <2> QED  BY <1>1, <1>3, <2>2, <2>3, <2>4
<1>6. RevOK'
  BY <1>1, <1>5 DEF RevOK
<1> QED  BY <1>4, <1>6 DEF RevInv

\* The one save replaces a file by what belongs there.
LEMMA RevFileSaved ==
    ASSUME ShapeOK, SerialInv, RevInv, NEW t \in Tasks, FileSaved(t)
    PROVE  RevInv'
<1> DEFINE j    == job[t]
           goal == Target(controller, fields)
<1>1. /\ j # NoJob /\ disk' = [disk EXCEPT ![j.at] = j.payload]
      /\ UNCHANGED <<controller, fields, phase, attempted, stray>>
  BY SavedFile
<1>2. j.at \in Files /\ Saving /\ controller \in Rec /\ fields \in FieldSet
  BY <1>1, JobAt
<1>3. /\ j.payload = goal[j.at]
      /\ j.at # "session" => written["session"] = goal["session"]
      /\ j.at = "state" => written["setpoints"] = goal["setpoints"]
  BY <1>1 DEF SerialInv, OneSave
<1>4. /\ goal["session"] = LegacySession(controller, fields) /\ goal["state"].controller = controller
      /\ goal["session"] # Missing /\ goal["setpoints"] # Missing
  <2>1. goal["session"] # Missing /\ goal["setpoints"] # Missing
    BY <1>2, GoalShape, FilesAre
  <2> QED  BY <2>1 DEF Target
<1> HIDE DEF goal, j
<1>5. /\ disk'[j.at] = goal[j.at] /\ \A f \in Files : f # j.at => disk'[f] = disk[f]
  BY <1>1, <1>2, <1>3 DEF ShapeOK, FilesOK
<1>6. ~stray => /\ j.at # "session" => disk["session"] = goal["session"]
                /\ j.at = "state" => disk["setpoints"] = goal["setpoints"]
  BY <1>3, <1>4, FilesAre DEF SerialInv, CacheOK
<1>7. ~stray => disk'["session"] = LegacySession(controller, fields)
  BY <1>4, <1>5, <1>6, FilesAre
<1>8. Saving' /\ phase' # "init"
  BY <1>1, <1>2 DEF Saving
<1>9. controller.rev \in Nat
  BY <1>2 DEF Rec
<1>10. CASE j.at = "state"
  <2>1. disk'["state"].controller = controller
    BY <1>4, <1>5, <1>10
  <2>2. ~stray => \A f \in Files : disk'[f] = goal[f]
    BY <1>5, <1>6, <1>10, FilesAre
  <2>3. RevOK'
    BY <1>1, <1>8, <1>9, <2>1, <2>2 DEF RevOK, goal
  <2> QED  BY <1>1, <2>3 DEF RevInv, TriedOK, Saving
<1>11. CASE j.at # "state"
  <2>1. disk'["state"] = disk["state"]
    BY <1>5, <1>11, FilesAre
  <2>2. ASSUME disk["state"] \in State, ~stray, disk["state"].controller.rev = controller.rev
        PROVE  \A f \in Files : disk'[f] = goal[f]
    <3>1. \A f \in Files : disk[f] = goal[f]
      BY <1>2, <2>2 DEF RevInv, RevOK, goal
    <3> QED  BY <1>5, <3>1
  <2>3. disk["state"] \in State => disk["state"].controller.rev <= controller.rev
    BY <1>2 DEF RevInv, RevOK
  <2>4. RevOK'
    BY <1>1, <1>7, <1>8, <2>1, <2>2, <2>3 DEF RevOK, goal
  <2> QED  BY <1>1, <2>4 DEF RevInv, TriedOK, Saving
<1> QED  BY <1>10, <1>11

LEMMA RevRaised ==
    ASSUME ShapeOK, SerialInv, RevInv, NEW t \in Tasks, FileError(t) \/ SaveTimeout(t)
    PROVE  RevInv'
<1>1. /\ job[t] # NoJob /\ UNCHANGED <<controller, phase, fields, attempted>>
      /\ \/ UNCHANGED <<disk, stray>>
         \/ stray' = TRUE /\ disk' = [disk EXCEPT ![job[t].at] = job[t].payload]
  BY Raised
<1>2. CASE UNCHANGED <<disk, stray>>
  BY <1>1, <1>2 DEF RevInv, RevOK, TriedOK, Saving, UseState
<1>3. CASE stray' = TRUE /\ disk' = [disk EXCEPT ![job[t].at] = job[t].payload]
  <2>1. /\ controller \in Rec /\ fields \in FieldSet /\ Saving /\ job[t].at \in Files
        /\ job[t].payload = Target(controller, fields)[job[t].at]
    BY <1>1, JobAt DEF SerialInv, OneSave
  <2>2. Target(controller, fields)["state"].controller = controller
    BY DEF Target
  <2>3. disk'["state"] = disk["state"] \/ disk'["state"].controller = controller
    BY <1>3, <2>1, <2>2, FilesAre DEF ShapeOK, FilesOK
  <2>4. controller.rev \in Nat /\ Saving' /\ phase' # "init"
    BY <1>1, <2>1 DEF Rec, Saving
  <2>5. disk'["state"] \in State => disk'["state"].controller.rev <= controller.rev
    BY <2>1, <2>3, <2>4 DEF RevInv, RevOK
  <2> QED  BY <1>1, <1>3, <2>4, <2>5 DEF RevInv, RevOK, TriedOK, Saving
<1> QED  BY <1>1, <1>2, <1>3

LEMMA NextRev ==
    ASSUME Serial, "unreadable" \notin Faults, ShapeOK, SerialInv, RevInv, [Next]_vars
    PROVE  RevInv'
<1>1. CASE /\ UNCHANGED <<disk, controller, fields, attempted, stray>>
           /\ phase' = phase \/ (Saving /\ Saving')
  <2>1. (Saving' <=> Saving) /\ (phase' = "init" => phase = "init")
    BY <1>1 DEF Saving
  <2>2. RevOK' /\ TriedOK'
    BY <1>1, <2>1 DEF RevInv, RevOK, TriedOK, UseState
  <2> QED  BY <2>2 DEF RevInv
<1>2. CASE UNCHANGED vars
  BY <1>1, <1>2 DEF vars
<1>3. CASE SetUp \/ Unload
  BY <1>1, <1>3 DEF SetUp, Unload, Saving
<1>4. CASE SaveSession
  BY <1>4 DEF SaveSession, Serial
<1>5. CASE Crash \/ OlderVersionRuns \/ Damage
  <2>1. ~Saving' /\ phase' # "init"
    BY <1>5 DEF Crash, OlderVersionRuns, Damage, Saving
  <2> QED  BY <2>1 DEF RevInv, RevOK, TriedOK
<1> QED  BY <1>2, <1>3, <1>4, <1>5, RevLoad, RevSaveController, RevFileSaved, RevRaised,
            WritersAreTasks DEF Next

LEMMA ReloadRestored == ASSUME ShapeOK, RevInv PROVE ReloadIsProtective
<1> DEFINE r == Loaded(disk, {}, attempted)
<1> SUFFICES ASSUME phase = "flush", ~stray, Permits(r) PROVE Permits(controller)
  BY DEF ReloadIsProtective
<1>1. SeenOK(disk) /\ attempted \in Nat \cup {-1} /\ {} \in SUBSET Files
  BY TriedShape
<1>2. Saving /\ controller \in Rec /\ fields \in FieldSet
  BY DEF Saving, ShapeOK, RecordOK, FieldSet
<1>3. controller.rev \in Nat /\ controller.rev <= attempted /\ controller.rev > 0
  BY <1>2 DEF RevInv, TriedOK, Rec
<1>4. r = Base(disk, {}) /\ r.rev >= attempted
  BY <1>1, LoadedShape
<1>5. /\ UseState(disk) => disk["state"] \in State /\ r = disk["state"].controller
      /\ ~UseState(disk) =>
           /\ disk["session"] \in Session /\ ~disk["session"].paused
           /\ r.rev = IF disk["state"] \in State THEN disk["state"].controller.rev + 1 ELSE 0
  BY <1>1, <1>4, BaseShape, SeenAll
<1> HIDE DEF r
<1>6. disk["state"] \in State
  BY <1>1, <1>3, <1>4, <1>5
<1> DEFINE x == disk["state"].controller
<1>7. /\ x.rev \in Nat /\ x.rev <= controller.rev
      /\ x.rev = controller.rev => \A f \in Files : disk[f] = Target(controller, fields)[f]
      /\ x.rev + 1 = controller.rev =>
           UseState(disk) \/ disk["session"] = LegacySession(controller, fields)
  BY <1>2, <1>6, StateRev DEF RevInv, RevOK
<1>8. x.rev = controller.rev => UseState(disk) /\ x = controller
  BY <1>2, <1>7, TargetIsUsed
<1>9. CASE UseState(disk)
  <2>1. x.rev >= attempted /\ Permits(x)
    BY <1>4, <1>5, <1>9
  <2>2. x.rev = controller.rev
    BY <1>1, <1>3, <1>7, <2>1
  <2> QED  BY <1>8, <2>1, <2>2
<1>10. CASE ~UseState(disk)
  <2>1. x.rev + 1 >= attempted
    BY <1>4, <1>5, <1>6, <1>10
  <2>2. x.rev # controller.rev
    BY <1>8, <1>10
  <2> HIDE DEF x
  <2>3. x.rev + 1 = controller.rev
    BY <1>1, <1>3, <1>7, <2>1, <2>2
  <2>4. LegacySession(controller, fields).paused = FALSE
    BY <1>5, <1>7, <1>10, <2>3 DEF Session
  <2> QED  BY <1>2, <2>4, TargetShape DEF FieldSet
<1> QED  BY <1>9, <1>10

\* A reload never resumes charging that the controller had stopped, even when the save of the
\* stop failed (_attempted in async_load): when saves do not overlap and every file can be
\* read, for any records and any sequence of failing saves, crashes and reloads.
THEOREM ReloadTheorem ==
    ASSUME Serial, "unreadable" \notin Faults
    PROVE  Spec => []ReloadIsProtective
<1>1. Init => RevInv
  BY DEF Init, RevInv, RevOK, TriedOK, Saving
<1>2. (ShapeOK /\ DownOK /\ SerialInv) /\ RevInv /\ [Next]_vars => RevInv'
  BY NextRev
<1>3. (ShapeOK /\ DownOK /\ SerialInv) /\ RevInv => ReloadIsProtective
  BY ReloadRestored
<1> QED  BY <1>1, <1>2, <1>3, SerialTheorem, PTL DEF Spec

(***************************************************************************)
(* A pause whose save has returned stays on disk while the poll saves      *)
(* beside the controller.                                                  *)
(***************************************************************************)

LEMMA AppendPair == ASSUME NEW a, NEW b PROVE Append(<<a>>, b) = <<a, b>>
<1> DEFINE S == {a, b}
           s == Append(<<a>>, b)
           r == <<a, b>>
<1>1. <<a>> \in Seq(S) /\ b \in S /\ Len(<<a>>) = 1 /\ <<a>>[1] = a
  OBVIOUS
<1>2. /\ s \in Seq(S) /\ Len(s) = Len(<<a>>) + 1 /\ s[Len(<<a>>) + 1] = b
      /\ \A i \in 1..Len(<<a>>) : s[i] = <<a>>[i]
  BY <1>1, AppendProperties
<1>3. r \in Seq(S) /\ Len(r) = 2 /\ r[1] = a /\ r[2] = b
  OBVIOUS
<1> HIDE DEF S, s, r
<1>4. Len(s) = 2 /\ s[1] = a /\ s[2] = b
  BY <1>1, <1>2
<1>5. \A i \in 1..Len(s) : s[i] = r[i]
  <2> TAKE i \in 1..Len(s)
  <2>1. i = 1 \/ i = 2
    BY <1>4
  <2> QED  BY <1>3, <1>4, <2>1
<1>6. s = r
  BY <1>2, <1>3, <1>4, <1>5, SeqEqual
<1> QED  BY <1>6 DEF s, r

\* Joining and leaving the queue of a store.
LEMMA Joining ==
    ASSUME NEW w, w # "poll", NEW W, NEW l, Queue(w, W, l)
    PROVE  /\ w \notin W => /\ Queue(w, W \cup {w}, Append(l, w))
                            /\ Append(l, w) # <<w, "poll">> /\ l # <<w, "poll">>
           /\ "poll" \notin W => Queue(w, W \cup {"poll"}, Append(l, "poll")) /\ l # <<w, "poll">>
<1>1. /\ Append(<<>>, w) = <<w>> /\ Append(<<>>, "poll") = <<"poll">>
      /\ <<w, "poll">> # <<"poll", w>>
  OBVIOUS
<1>2. Append(<<"poll">>, w) = <<"poll", w>> /\ Append(<<w>>, "poll") = <<w, "poll">>
  BY Zenon, AppendPair
<1>3. <<w, "poll">> # <<w>> /\ <<w, "poll">> # <<"poll">> /\ <<w, "poll">> # <<>>
  <2>1. /\ Len(<<w, "poll">>) = 2 /\ Len(<<w>>) = 1 /\ Len(<<"poll">>) = 1 /\ Len(<<>>) = 0
    OBVIOUS
  <2> QED  BY <2>1
<1>4. CASE w \notin W
  <2>1. (W = {} /\ l = <<>>) \/ (W = {"poll"} /\ l = <<"poll">>)
    BY <1>4 DEF Queue
  <2>2. CASE W = {} /\ l = <<>>
    BY <1>1, <1>3, <2>2 DEF Queue
  <2>3. CASE W = {"poll"} /\ l = <<"poll">>
    <3>1. W \cup {w} = {w, "poll"}
      BY <2>3
    <3> QED  BY <1>1, <1>2, <1>3, <2>3, <3>1 DEF Queue
  <2> QED  BY <2>1, <2>2, <2>3
<1>5. CASE "poll" \notin W
  <2>1. (W = {} /\ l = <<>>) \/ (W = {w} /\ l = <<w>>)
    BY <1>5 DEF Queue
  <2>2. CASE W = {} /\ l = <<>>
    BY <1>1, <1>3, <2>2 DEF Queue
  <2>3. CASE W = {w} /\ l = <<w>>
    <3>1. W \cup {"poll"} = {w, "poll"}
      BY <2>3
    <3> QED  BY <1>1, <1>2, <1>3, <2>3, <3>1 DEF Queue
  <2> QED  BY <2>1, <2>2, <2>3
<1> QED  BY <1>4, <1>5

LEMMA Leaving ==
    ASSUME NEW w, w # "poll", NEW W, NEW l, Queue(w, W, l)
    PROVE  /\ w \in W /\ Head(l) = w => /\ Queue(w, W \ {w}, Tail(l))
                                        /\ "poll" \in W => l = <<w, "poll">>
           /\ "poll" \in W /\ Head(l) = "poll" => /\ Queue(w, W \ {"poll"}, Tail(l))
                                                  /\ l # <<w, "poll">>
<1>1. /\ Tail(<<w>>) = <<>> /\ Tail(<<"poll">>) = <<>>
      /\ Tail(<<w, "poll">>) = <<"poll">> /\ Tail(<<"poll", w>>) = <<w>>
      /\ Head(<<w, "poll">>) = w /\ Head(<<"poll", w>>) = "poll"
      /\ Head(<<w>>) = w /\ Head(<<"poll">>) = "poll"
  OBVIOUS
<1>2. CASE w \in W /\ Head(l) = w
  <2>1. (W = {w} /\ l = <<w>>) \/ (W = {w, "poll"} /\ l = <<w, "poll">>)
    BY <1>1, <1>2 DEF Queue
  <2>2. CASE W = {w} /\ l = <<w>>
    BY <1>1, <2>2 DEF Queue
  <2>3. CASE W = {w, "poll"} /\ l = <<w, "poll">>
    <3>1. W \ {w} = {"poll"}
      BY <2>3
    <3> QED  BY <1>1, <2>3, <3>1 DEF Queue
  <2>4. Queue(w, W \ {w}, Tail(l)) /\ ("poll" \in W => l = <<w, "poll">>)
    BY <2>1, <2>2, <2>3
  <2> QED  BY <1>2, <2>4
<1>3. CASE "poll" \in W /\ Head(l) = "poll"
  <2>1. (W = {"poll"} /\ l = <<"poll">>) \/ (W = {w, "poll"} /\ l = <<"poll", w>>)
    BY <1>1, <1>3 DEF Queue
  <2>2. CASE W = {"poll"} /\ l = <<"poll">>
    BY <1>1, <2>2 DEF Queue
  <2>3. CASE W = {w, "poll"} /\ l = <<"poll", w>>
    <3>1. W \ {"poll"} = {w}
      BY <2>3
    <3> QED  BY <1>1, <2>3, <3>1 DEF Queue
  <2>4. Queue(w, W \ {"poll"}, Tail(l)) /\ l # <<w, "poll">>
    BY <1>1, <1>3, <2>1, <2>2, <2>3
  <2> QED  BY <1>3, <2>4
<1> QED  BY <1>2, <1>3

\* What a save that goes on from file k leaves behind.
LEMMA GoesOn ==
    ASSUME ShapeOK, NEW t \in Tasks, NEW j \in PreJob, NEW k \in 1..4, NEW ln, Proceed(t, j, k, ln),
           controller' \in Rec, fields' \in FieldSet
    PROVE  /\ \A u \in Tasks : u # t => job'[u] = job[u]
           /\ job'[t] # NoJob => /\ job'[t].session = j.session /\ job'[t].rec = j.rec
                                 /\ job'[t].at \in Files
           /\ At(t, "state")' => job'[t].payload.controller = controller'
           /\ k > 1 => ~At(t, "session")'
           /\ k = 1 /\ ~At(t, "session")' => written'["session"] = j.session
           /\ k <= 3 /\ job'[t] = NoJob =>
                written'["state"] \in State /\ written'["state"].controller = controller'
           /\ acked' => \/ acked /\ controller' = controller
                        \/ j.rec # Missing /\ job'[t] = NoJob
           /\ \/ job'[t] = NoJob /\ line' = ln
              \/ job'[t] # NoJob /\ line' = [ln EXCEPT ![job'[t].at] = Append(@, t)]
<1>1. /\ Payload(j, "session") = j.session /\ Payload(j, "session") \in Session
      /\ Payload(j, "state").controller = controller' /\ Payload(j, "state") \in State
  BY PayloadShape
<1>2. /\ ~Writes("session", Payload(j, "session")) => written'["session"] = j.session
      /\ ~Writes("state", Payload(j, "state")) =>
           written'["state"] \in State /\ written'["state"].controller = controller'
  BY <1>1, NoMark DEF Writes
<1>3. DOMAIN job = Tasks
  BY DEF ShapeOK, JobsOK
<1>4. \/ /\ \A i \in k..3 : ~Writes(Order[i], Payload(j, Order[i]))
         /\ job' = [job EXCEPT ![t] = NoJob] /\ line' = ln /\ Outcome(j, "kept")
      \/ \E i \in k..3 :
           /\ Writes(Order[i], Payload(j, Order[i]))
           /\ \A l \in k..(i - 1) : ~Writes(Order[l], Payload(j, Order[l]))
           /\ job' = [job EXCEPT ![t] = [j EXCEPT !.at = Order[i], !.payload = Payload(j, Order[i])]]
           /\ line' = [ln EXCEPT ![Order[i]] = Append(@, t)]
           /\ Outcome(j, "open")
  BY ProceedCases
<1>5. CASE /\ \A i \in k..3 : ~Writes(Order[i], Payload(j, Order[i]))
           /\ job' = [job EXCEPT ![t] = NoJob] /\ line' = ln /\ Outcome(j, "kept")
  <2>1. job'[t] = NoJob /\ \A u \in Tasks : u # t => job'[u] = job[u]
    BY <1>3, <1>5
  <2>2. k = 1 => 1 \in k..3
    OBVIOUS
  <2>3. k <= 3 => 3 \in k..3
    OBVIOUS
  <2>4. /\ k = 1 => written'["session"] = j.session
        /\ k <= 3 => written'["state"] \in State /\ written'["state"].controller = controller'
    BY <1>2, <1>5, <2>2, <2>3, FilesAre
  <2>5. acked' => (acked /\ controller' = controller) \/ j.rec # Missing
    BY <1>5 DEF Outcome
  <2> QED  BY <1>5, <2>1, <2>4, <2>5 DEF At
<1>6. ASSUME NEW i \in k..3,
             \A l \in k..(i - 1) : ~Writes(Order[l], Payload(j, Order[l])),
             job' = [job EXCEPT ![t] = [j EXCEPT !.at = Order[i], !.payload = Payload(j, Order[i])]],
             line' = [ln EXCEPT ![Order[i]] = Append(@, t)],
             Outcome(j, "open")
      PROVE  /\ \A u \in Tasks : u # t => job'[u] = job[u]
             /\ job'[t] # NoJob
             /\ job'[t].session = j.session /\ job'[t].rec = j.rec /\ job'[t].at \in Files
             /\ At(t, "state")' => job'[t].payload.controller = controller'
             /\ k > 1 => ~At(t, "session")'
             /\ k = 1 /\ ~At(t, "session")' => written'["session"] = j.session
             /\ acked' => acked /\ controller' = controller
             /\ line' = [ln EXCEPT ![job'[t].at] = Append(@, t)]
  <2> DEFINE f == Order[i]
             x == [j EXCEPT !.at = f, !.payload = Payload(j, f)]
  <2>1. i \in {1, 2, 3} /\ (k > 1 => i # 1) /\ (k = 1 /\ i # 1 => 1 \in k..(i - 1))
    OBVIOUS
  <2>2. f \in Files /\ (k > 1 => f # "session") /\ (f # "session" => i # 1)
    BY <2>1, FilesAre
  <2>3. /\ JobOK(x) /\ x.at = f /\ x.payload = Payload(j, f) /\ x.rec = j.rec /\ x.session = j.session
    BY <2>2, WaitingJob
  <2>4. x # NoJob
    BY <2>3, NoMark DEF JobOK
  <2>5. job' = [job EXCEPT ![t] = x] /\ line' = [ln EXCEPT ![f] = Append(@, t)]
    BY <1>6
  <2>6. k = 1 /\ f # "session" => written'["session"] = j.session
    BY <1>2, <1>6, <2>1, <2>2, FilesAre
  <2>7. acked' => acked /\ controller' = controller
    BY <1>6 DEF Outcome
  <2> HIDE DEF x, f
  <2>8. job'[t] = x /\ \A u \in Tasks : u # t => job'[u] = job[u]
    BY <1>3, <2>5
  <2> QED  BY <1>1, <2>2, <2>3, <2>4, <2>5, <2>6, <2>7, <2>8 DEF At
<1>7. CASE \E i \in k..3 :
           /\ Writes(Order[i], Payload(j, Order[i]))
           /\ \A l \in k..(i - 1) : ~Writes(Order[l], Payload(j, Order[l]))
           /\ job' = [job EXCEPT ![t] = [j EXCEPT !.at = Order[i], !.payload = Payload(j, Order[i])]]
           /\ line' = [ln EXCEPT ![Order[i]] = Append(@, t)]
           /\ Outcome(j, "open")
  <2> PICK i \in k..3 :
           /\ Writes(Order[i], Payload(j, Order[i]))
           /\ \A l \in k..(i - 1) : ~Writes(Order[l], Payload(j, Order[l]))
           /\ job' = [job EXCEPT ![t] = [j EXCEPT !.at = Order[i], !.payload = Payload(j, Order[i])]]
           /\ line' = [ln EXCEPT ![Order[i]] = Append(@, t)]
           /\ Outcome(j, "open")
    BY <1>7
  <2>1. /\ \A u \in Tasks : u # t => job'[u] = job[u]
        /\ job'[t] # NoJob
        /\ job'[t].session = j.session /\ job'[t].rec = j.rec /\ job'[t].at \in Files
        /\ At(t, "state")' => job'[t].payload.controller = controller'
        /\ k > 1 => ~At(t, "session")'
        /\ k = 1 /\ ~At(t, "session")' => written'["session"] = j.session
        /\ acked' => acked /\ controller' = controller
        /\ line' = [ln EXCEPT ![job'[t].at] = Append(@, t)]
    BY <1>6
  <2> QED  BY <2>1
<1> QED  BY <1>4, <1>5, <1>7

\* The queues after a save of t has gone on, t having left the queue it waited in.
LEMMA GoesOnLines ==
    ASSUME ShapeOK, NEW w, Writers = {w}, NEW t \in Tasks, NEW j \in PreJob, NEW k \in 1..4, NEW ln,
           Proceed(t, j, k, ln), controller' \in Rec, fields' \in FieldSet, DOMAIN ln = Files,
           \A f \in Files : Queue(w, {u \in Tasks : u # t /\ At(u, f)}, ln[f])
    PROVE  /\ LinesOK(w)'
           /\ t = w => \A f \in Files : line'[f] # <<w, "poll">>
<1>1. /\ \A u \in Tasks : u # t => job'[u] = job[u]
      /\ job'[t] # NoJob => job'[t].at \in Files
      /\ \/ job'[t] = NoJob /\ line' = ln
         \/ job'[t] # NoJob /\ line' = [ln EXCEPT ![job'[t].at] = Append(@, t)]
  BY GoesOn
<1>2. w # "poll" /\ (t = w \/ t = "poll")
  BY WritersAssumption DEF Tasks
<1>3. ASSUME NEW f \in Files
      PROVE  /\ Queue(w, {u \in Tasks : At(u, f)'}, line'[f])
             /\ t = w => line'[f] # <<w, "poll">>
  <2> DEFINE W == {u \in Tasks : u # t /\ At(u, f)}
             X == {u \in Tasks : At(u, f)'}
  <2>1. \A u \in Tasks : u # t => (At(u, f)' <=> At(u, f))
    BY <1>1 DEF At
  <2>2. Queue(w, W, ln[f])
    OBVIOUS
  <2>3. t \notin W
    OBVIOUS
  <2>4. CASE At(t, f)'
    <3>1. X = W \cup {t}
      BY <2>1, <2>4
    <3>2. line'[f] = Append(ln[f], t)
      BY <1>1, <2>4 DEF At
    <3> HIDE DEF W, X
    <3>3. CASE t = w
      BY <1>2, <2>2, <2>3, <3>1, <3>2, <3>3, Joining DEF X
    <3>4. CASE t = "poll"
      BY <1>2, <2>2, <2>3, <3>1, <3>2, <3>4, Joining DEF X
    <3> QED  BY <1>2, <3>3, <3>4
  <2>5. CASE ~At(t, f)'
    <3>1. X = W
      BY <2>1, <2>5
    <3>2. line'[f] = ln[f]
      BY <1>1, <2>5 DEF At
    <3> HIDE DEF W, X
    <3> QED  BY <1>2, <2>2, <2>3, <3>1, <3>2, Joining DEF X
  <2> QED  BY <2>4, <2>5
<1>4. DOMAIN line' = Files
  BY <1>1
<1> QED  BY <1>3, <1>4 DEF LinesOK, Tasks

LEMMA QueueHasPoll ==
    ASSUME NEW w, w # "poll", LinesOK(w)', NEW f \in Files, line'[f] = <<w, "poll">>
    PROVE  At("poll", f)'
<1> DEFINE W == {t \in Tasks : At(t, f)'}
<1>1. Queue(w, W, line'[f])
  BY DEF LinesOK, Tasks
<1>2. "poll" \in Tasks
  BY WritersAreTasks
<1> HIDE DEF W
<1>3. "poll" \in W
  BY <1>1, Joining
<1> QED  BY <1>3 DEF W

\* A record is handed over while the poll may be anywhere in its own save.
LEMMA PauseSaveController ==
    ASSUME ShapeOK, DownOK, NEW w, Undisturbed(w), PauseInv(w), SaveController(w)
    PROVE  LinesOK(w)' /\ OwnOK(w)' /\ PauseOK(w)' /\ StateOK(w)' /\ NewestOK'
<1>0. w \in Writers /\ Writers = {w} /\ w \in Tasks /\ "poll" \in Tasks /\ w # "poll"
  BY WritersAreTasks DEF Undisturbed
<1>1. /\ controller' \in Rec /\ fields' = fields /\ written' = written /\ Saving'
      /\ phase \in {"init", "up"} /\ job[w] = NoJob
      /\ \E raises \in BOOLEAN : StartWriting(w, controller', raises)
  BY <1>0, HandedOver
<1>2. fields' \in FieldSet
  BY <1>1 DEF ShapeOK, RecordOK, FieldSet
<1> PICK raises \in BOOLEAN : StartWriting(w, controller', raises)
  BY <1>1
<1>3. \E j \in PreJob : /\ Proceed(w, j, 1, line) /\ j.rec = controller' /\ j.raises = raises
                        /\ j.session = LegacySession(controller', fields')
                        /\ j.setpoints = LegacySetpoints(controller')
  BY <1>0, <1>1, <1>2, StartShape
<1> PICK j \in PreJob : Proceed(w, j, 1, line) /\ j.session = LegacySession(controller', fields')
  BY <1>3
<1>4. j.session \in Session /\ j.session.paused = ~Permits(controller')
  BY <1>1, <1>2, TargetShape DEF FieldSet
<1>5. /\ job'["poll"] = job["poll"]
      /\ job'[w] # NoJob => job'[w].session = j.session
      /\ At(w, "state")' => job'[w].payload.controller = controller'
      /\ ~At(w, "session")' => written'["session"] = j.session
      /\ job'[w] = NoJob =>
           written'["state"] \in State /\ written'["state"].controller = controller'
      /\ acked' => (acked /\ controller' = controller) \/ job'[w] = NoJob
  <2>1. 1 \in 1..4 /\ 1 <= 3
    OBVIOUS
  <2> QED  BY <1>0, <1>1, <1>2, <2>1, GoesOn
<1>6. LinesOK(w)' /\ \A f \in Files : line'[f] # <<w, "poll">>
  <2>1. 1 \in 1..4 /\ DOMAIN line = Files
    BY DEF PauseInv, LinesOK
  <2>2. \A f \in Files : Queue(w, {u \in Tasks : u # w /\ At(u, f)}, line[f])
    <3> TAKE f \in Files
    <3>1. {u \in Tasks : u # w /\ At(u, f)} = {u \in Tasks : At(u, f)}
      BY <1>1 DEF At
    <3> QED  BY <3>1 DEF PauseInv, LinesOK
  <2> QED  BY <1>0, <1>1, <1>2, <2>1, <2>2, GoesOnLines
<1>7. OwnOK(w)'
  BY <1>1, <1>4, <1>5 DEF OwnOK, Right, PauseInv
<1>8. CASE phase = "init"
  <2>1. job["poll"] = NoJob /\ written["session"] = Missing /\ written["state"] = Missing /\ ~acked
    BY <1>0, <1>8, FilesAre DEF ShapeOK, JobsOK, Saving, DownOK, PauseInv, OwnOK
  <2>2. At(w, "session")' /\ job'[w] # NoJob
    BY <1>1, <1>4, <1>5, <2>1, NoMark DEF At
  <2>3. ~acked'
    BY <1>5, <2>1, <2>2
  <2> QED  BY <1>5, <1>6, <1>7, <2>1, <2>2, <2>3, FilesAre
           DEF PauseOK, StateOK, NewestOK, At
<1>9. CASE phase = "up"
  <2>1. Saving
    BY <1>9 DEF Saving
  <2>2. /\ written["session"] \in Session /\ Right(written["session"])
        /\ At("poll", "session") => Right(job["poll"].session)
        /\ written["state"] \in State /\ written["state"].controller = controller
        /\ At("poll", "state") => job["poll"].payload.controller = controller
    BY <1>1, <2>1 DEF PauseInv, PauseOK, StateOK, At
  <2>3. \A f : At("poll", f)' <=> At("poll", f)
    BY <1>5 DEF At
  <2>4. CASE controller' = controller
    <3>1. PauseOK(w)'
      BY <1>1, <1>5, <2>2, <2>3, <2>4 DEF PauseOK, Right
    <3>2. StateOK(w)' /\ NewestOK'
      BY <1>1, <1>5, <2>2, <2>3, <2>4 DEF StateOK, NewestOK
    <3> QED  BY <1>6, <1>7, <3>1, <3>2
  <2>5. CASE controller' # controller
    <3>1. job'[w] # NoJob /\ ~acked'
      BY <1>1, <1>5, <2>2, <2>5
    <3>2. PauseOK(w)'
      <4>1. CASE At(w, "session")'
        BY <1>6, <3>1, <4>1, FilesAre DEF PauseOK
      <4>2. CASE ~At(w, "session")'
        <5>1. written'["session"] = j.session /\ written["session"] = j.session
          BY <1>1, <1>5, <4>2
        <5>2. (~Permits(controller')) = (~Permits(controller))
          BY <1>4, <2>2, <5>1 DEF Right
        <5>3. At("poll", "session") => job["poll"].session.paused = ~Permits(controller')
          BY <2>2, <5>2 DEF Right
        <5> QED  BY <1>4, <1>5, <2>3, <5>1, <5>3 DEF PauseOK, Right
      <4> QED  BY <4>1, <4>2
    <3>3. StateOK(w)'
      BY <1>6, <3>1, FilesAre DEF StateOK
    <3>4. NewestOK'
      BY <1>1, <2>2, <2>5 DEF NewestOK
    <3> QED  BY <1>6, <1>7, <3>2, <3>3, <3>4
  <2> QED  BY <2>4, <2>5
<1> QED  BY <1>1, <1>8, <1>9

\* The poll starts a save, in whatever state the writer's own save is.
LEMMA PausePollSaves ==
    ASSUME ShapeOK, NEW w, Undisturbed(w), PauseInv(w), SaveSession \/ Unload
    PROVE  LinesOK(w)' /\ OwnOK(w)' /\ PauseOK(w)' /\ StateOK(w)' /\ NewestOK'
<1>0. Writers = {w} /\ w \in Tasks /\ "poll" \in Tasks /\ w # "poll"
  BY WritersAreTasks DEF Undisturbed
<1>1. /\ controller' = controller /\ controller' \in Rec /\ fields' \in FieldSet
      /\ written' = written /\ job["poll"] = NoJob /\ Saving /\ Saving'
      /\ StartWriting("poll", Missing, FALSE)
  BY PollSaves
<1>2. \E j \in PreJob : /\ Proceed("poll", j, 1, line) /\ j.rec = Missing /\ j.raises = FALSE
                        /\ j.session = LegacySession(controller', fields')
                        /\ j.setpoints = LegacySetpoints(controller')
  <2>1. Missing \in Rec \cup {Missing} /\ FALSE \in BOOLEAN
    OBVIOUS
  <2> QED  BY <1>0, <1>1, <2>1, StartShape
<1> PICK j \in PreJob : /\ Proceed("poll", j, 1, line) /\ j.rec = Missing
                        /\ j.session = LegacySession(controller', fields')
  BY <1>2
<1>3. j.session.paused = ~Permits(controller')
  <2>1. controller' \in Rec /\ fields' \in [prev : {"running", "other"}, rearm : BOOLEAN]
    BY <1>1 DEF FieldSet
  <2>2. LegacySession(controller', fields').paused = ~Permits(controller')
    BY <2>1, TargetShape
  <2> QED  BY <2>2
<1>4. /\ job'[w] = job[w]
      /\ job'["poll"] # NoJob => job'["poll"].session = j.session /\ job'["poll"].rec = j.rec
      /\ At("poll", "state")' => job'["poll"].payload.controller = controller'
      /\ acked' => acked
  <2>1. 1 \in 1..4
    OBVIOUS
  <2> QED  BY <1>0, <1>1, <2>1, GoesOn
<1>5. LinesOK(w)'
  <2>1. 1 \in 1..4 /\ DOMAIN line = Files
    BY DEF PauseInv, LinesOK
  <2>2. \A f \in Files : Queue(w, {u \in Tasks : u # "poll" /\ At(u, f)}, line[f])
    <3> TAKE f \in Files
    <3>1. {u \in Tasks : u # "poll" /\ At(u, f)} = {u \in Tasks : At(u, f)}
      BY <1>1 DEF At
    <3> QED  BY <3>1 DEF PauseInv, LinesOK
  <2> QED  BY <1>0, <1>1, <2>1, <2>2, GoesOnLines
<1>6. \A f : At(w, f)' <=> At(w, f)
  BY <1>4 DEF At
<1>7. OwnOK(w)'
  BY <1>1, <1>4, <1>6 DEF OwnOK, Right, PauseInv
<1>8. (At("poll", "session")' => Right(job["poll"].session)') /\ NewestOK'
  BY <1>3, <1>4 DEF Right, At, NewestOK
<1>9. line'["session"] = <<w, "poll">> => At("poll", "session")'
  BY <1>0, <1>5, QueueHasPoll, FilesAre
<1>10. line'["state"] = <<w, "poll">> => At("poll", "state")'
  BY <1>0, <1>5, QueueHasPoll, FilesAre
<1>11. PauseOK(w)'
  BY <1>1, <1>4, <1>6, <1>8, <1>9 DEF PauseInv, PauseOK, Right
<1>12. StateOK(w)'
  BY <1>1, <1>4, <1>6, <1>10 DEF PauseInv, StateOK
<1> QED  BY <1>5, <1>7, <1>8, <1>11, <1>12

\* A file is saved for the writer.
LEMMA PauseWriterSaved ==
    ASSUME ShapeOK, NEW w, Undisturbed(w), PauseInv(w), FileSaved(w)
    PROVE  LinesOK(w)' /\ OwnOK(w)' /\ PauseOK(w)' /\ StateOK(w)' /\ NewestOK'
<1> DEFINE j  == job[w]
           g  == job[w].at
           k  == Index(g) + 1
           ln == [line EXCEPT ![g] = Tail(@)]
<1>0. Writers = {w} /\ w \in Tasks /\ "poll" \in Tasks /\ w # "poll"
  BY WritersAreTasks DEF Undisturbed
<1>1. /\ j # NoJob /\ Head(line[g]) = w /\ written' = [written EXCEPT ![g] = j.payload]
      /\ UNCHANGED <<controller, fields, phase>> /\ Proceed(w, j, k, ln) /\ k \in 1..4
  BY <1>0, SavedFile
<1>2. j \in PreJob /\ g \in Files /\ Saving /\ controller \in Rec /\ fields \in FieldSet /\ JobOK(j)
  BY <1>0, <1>1, JobAt
<1>3. controller' \in Rec /\ fields' \in FieldSet /\ Saving'
  BY <1>1, <1>2 DEF Saving
<1>4. /\ g = "session" => k = 2
      /\ g = "setpoints" => k = 3
      /\ g = "state" => k = 4
  BY IndexShape
<1>5. /\ job'["poll"] = job["poll"]
      /\ job'[w] # NoJob => job'[w].session = j.session
      /\ At(w, "state")' => job'[w].payload.controller = controller'
      /\ ~At(w, "session")'
      /\ g # "state" /\ job'[w] = NoJob =>
           written'["state"] \in State /\ written'["state"].controller = controller'
      /\ acked' => acked \/ job'[w] = NoJob
  <2> HIDE DEF j, g, k, ln
  <2>1. k > 1 /\ (g # "state" => k <= 3)
    BY <1>2, <1>4, FilesAre
  <2> QED  BY <1>0, <1>1, <1>2, <1>3, <2>1, GoesOn
<1>6. /\ At(w, g) /\ DOMAIN ln = Files
      /\ \A f \in Files : Queue(w, {u \in Tasks : u # w /\ At(u, f)}, ln[f])
      /\ At("poll", g) => line[g] = <<w, "poll">>
  <2>1. At(w, g) /\ DOMAIN line = Files /\ DOMAIN ln = Files
    BY <1>1 DEF At, PauseInv, LinesOK
  <2> DEFINE W(f) == {u \in Tasks : At(u, f)}
  <2>2. \A f \in Files : Queue(w, W(f), line[f])
    BY DEF PauseInv, LinesOK
  <2>3. ASSUME NEW f \in Files PROVE Queue(w, {u \in Tasks : u # w /\ At(u, f)}, ln[f])
    <3>1. CASE f = g
      <4>1. w \in W(f) /\ {u \in Tasks : u # w /\ At(u, f)} = W(f) \ {w}
        BY <1>0, <2>1, <3>1
      <4>2. ln[f] = Tail(line[f]) /\ Head(line[f]) = w
        BY <1>1, <2>1, <3>1
      <4>3. Queue(w, W(f), line[f])
        BY <2>2
      <4> HIDE DEF W, ln
      <4>4. Queue(w, W(f) \ {w}, Tail(line[f]))
        BY <1>0, <4>1, <4>2, <4>3, Leaving
      <4> QED  BY <4>1, <4>2, <4>4
    <3>2. CASE f # g
      <4>1. ~At(w, f)
        BY <3>2 DEF At
      <4>2. {u \in Tasks : u # w /\ At(u, f)} = W(f)
        BY <4>1
      <4>3. ln[f] = line[f]
        BY <2>1, <3>2
      <4> HIDE DEF W, ln
      <4> QED  BY <2>2, <4>2, <4>3
    <3> QED  BY <3>1, <3>2
  <2>4. At("poll", g) => line[g] = <<w, "poll">>
    <3>1. w \in W(g) /\ (At("poll", g) => "poll" \in W(g))
      BY <1>0, <2>1
    <3> HIDE DEF W, g
    <3> QED  BY <1>0, <1>1, <1>2, <2>2, <3>1, Leaving
  <2> QED  BY <2>1, <2>3, <2>4
<1>7. LinesOK(w)' /\ \A f \in Files : line'[f] # <<w, "poll">>
  <2> HIDE DEF j, g, k, ln
  <2> QED  BY <1>0, <1>1, <1>2, <1>3, <1>6, GoesOnLines
<1>8. Right(j.session) /\ (g = "state" => j.payload.controller = controller /\ j.payload \in State)
  BY <1>1, <1>2 DEF PauseInv, OwnOK, At, JobOK
<1>9. written'[g] = j.payload /\ \A f \in Files : f # g => written'[f] = written[f]
  BY <1>1, <1>2 DEF ShapeOK, FilesOK
<1>10. \A f : At("poll", f)' <=> At("poll", f)
  BY <1>5 DEF At
<1>11. OwnOK(w)'
  BY <1>1, <1>3, <1>5, <1>8, <1>10 DEF OwnOK, Right, PauseInv
<1>12. PauseOK(w)'
  <2>1. CASE g = "session"
    <3>1. written'["session"] = j.session /\ j.session \in Session
      BY <1>2, <1>9, <2>1 DEF JobOK, Job
    <3>2. At("poll", "session") => Right(job["poll"].session)
      BY <1>2, <1>6, <2>1 DEF PauseInv, PauseOK
    <3> QED  BY <1>1, <1>5, <1>8, <1>10, <3>1, <3>2 DEF PauseOK, Right
  <2>2. CASE g # "session"
    <3>1. /\ written["session"] \in Session /\ Right(written["session"])
          /\ At("poll", "session") => Right(job["poll"].session)
      BY <1>2, <2>2 DEF PauseInv, PauseOK, At
    <3>2. written'["session"] = written["session"]
      BY <1>9, <2>2, FilesAre
    <3> QED  BY <1>1, <1>5, <1>10, <3>1, <3>2 DEF PauseOK, Right
  <2> QED  BY <2>1, <2>2
<1>13. StateOK(w)' /\ NewestOK'
  <2>1. CASE g = "state"
    <3>1. written'["state"] \in State /\ written'["state"].controller = controller
      BY <1>8, <1>9, <2>1
    <3>2. At("poll", "state") => job["poll"].payload.controller = controller
      BY <1>2, <1>6, <2>1 DEF PauseInv, StateOK
    <3> QED  BY <1>1, <1>5, <1>10, <3>1, <3>2 DEF StateOK, NewestOK
  <2>2. CASE g # "state"
    <3>1. written'["state"] = written["state"]
      BY <1>9, <2>2, FilesAre
    <3>2. NewestOK'
      BY <1>1, <1>5, <1>10, <3>1 DEF PauseInv, NewestOK
    <3>3. CASE /\ written["state"] \in State /\ written["state"].controller = controller
               /\ At("poll", "state") => job["poll"].payload.controller = controller
      BY <1>1, <1>5, <1>10, <3>1, <3>2, <3>3 DEF StateOK
    <3>4. CASE ~acked /\ job'[w] # NoJob
      BY <1>5, <1>7, <3>2, <3>4, FilesAre DEF StateOK
    <3>5. CASE ~acked /\ job'[w] = NoJob
      <4>1. written'["state"] \in State /\ written'["state"].controller = controller'
        BY <1>5, <2>2, <3>5
      <4> QED  BY <3>2, <4>1 DEF StateOK, NewestOK
    <3> QED  BY <1>2, <3>3, <3>4, <3>5 DEF PauseInv, StateOK
  <2> QED  BY <2>1, <2>2
<1> QED  BY <1>7, <1>11, <1>12, <1>13

\* A file is saved for the poll.
LEMMA PausePollSaved ==
    ASSUME ShapeOK, NEW w, Undisturbed(w), PauseInv(w), FileSaved("poll")
    PROVE  LinesOK(w)' /\ OwnOK(w)' /\ PauseOK(w)' /\ StateOK(w)' /\ NewestOK'
<1> DEFINE j  == job["poll"]
           g  == job["poll"].at
           k  == Index(g) + 1
           ln == [line EXCEPT ![g] = Tail(@)]
<1>0. Writers = {w} /\ w \in Tasks /\ "poll" \in Tasks /\ w # "poll"
  BY WritersAreTasks DEF Undisturbed
<1>1. /\ j # NoJob /\ Head(line[g]) = "poll" /\ written' = [written EXCEPT ![g] = j.payload]
      /\ UNCHANGED <<controller, fields, phase>> /\ Proceed("poll", j, k, ln) /\ k \in 1..4
  BY <1>0, SavedFile
<1>2. j \in PreJob /\ g \in Files /\ Saving /\ controller \in Rec /\ fields \in FieldSet /\ JobOK(j)
  BY <1>0, <1>1, JobAt
<1>3. controller' \in Rec /\ fields' \in FieldSet /\ Saving'
  BY <1>1, <1>2 DEF Saving
<1>4. j.rec = Missing
  BY <1>1 DEF PauseInv, OwnOK
<1>5. /\ job'[w] = job[w]
      /\ job'["poll"] # NoJob => job'["poll"].rec = Missing
      /\ At("poll", "state")' => job'["poll"].payload.controller = controller'
      /\ ~At("poll", "session")'
      /\ acked' => acked
  <2>1. k > 1
    BY <1>2, FilesAre, IndexShape
  <2> HIDE DEF j, g, k, ln
  <2> QED  BY <1>0, <1>1, <1>2, <1>3, <1>4, <2>1, GoesOn
<1>6. /\ At("poll", g) /\ DOMAIN ln = Files
      /\ \A f \in Files : Queue(w, {u \in Tasks : u # "poll" /\ At(u, f)}, ln[f])
      /\ line[g] # <<w, "poll">>
  <2>1. At("poll", g) /\ DOMAIN line = Files /\ DOMAIN ln = Files
    BY <1>1 DEF At, PauseInv, LinesOK
  <2> DEFINE W(f) == {u \in Tasks : At(u, f)}
  <2>2. \A f \in Files : Queue(w, W(f), line[f])
    BY DEF PauseInv, LinesOK
  <2>3. ASSUME NEW f \in Files PROVE Queue(w, {u \in Tasks : u # "poll" /\ At(u, f)}, ln[f])
    <3>1. CASE f = g
      <4>1. "poll" \in W(f) /\ {u \in Tasks : u # "poll" /\ At(u, f)} = W(f) \ {"poll"}
        BY <1>0, <2>1, <3>1
      <4>2. ln[f] = Tail(line[f]) /\ Head(line[f]) = "poll"
        BY <1>1, <2>1, <3>1
      <4>3. Queue(w, W(f), line[f])
        BY <2>2
      <4> HIDE DEF W, ln
      <4>4. Queue(w, W(f) \ {"poll"}, Tail(line[f]))
        BY <1>0, <4>1, <4>2, <4>3, Leaving
      <4> QED  BY <4>1, <4>2, <4>4
    <3>2. CASE f # g
      <4>1. ~At("poll", f)
        BY <3>2 DEF At
      <4>2. {u \in Tasks : u # "poll" /\ At(u, f)} = W(f)
        BY <4>1
      <4>3. ln[f] = line[f]
        BY <2>1, <3>2
      <4> HIDE DEF W, ln
      <4> QED  BY <2>2, <4>2, <4>3
    <3> QED  BY <3>1, <3>2
  <2>4. line[g] # <<w, "poll">>
    <3>1. "poll" \in W(g) /\ Queue(w, W(g), line[g])
      BY <1>0, <1>2, <2>1, <2>2
    <3> HIDE DEF W, g
    <3> QED  BY <1>0, <1>1, <3>1, Leaving
  <2> QED  BY <2>1, <2>3, <2>4
<1>7. LinesOK(w)'
  <2> HIDE DEF j, g, k, ln
  <2> QED  BY <1>0, <1>1, <1>2, <1>3, <1>6, GoesOnLines
<1>8. /\ line'["session"] = <<w, "poll">> => At("poll", "session")'
      /\ line'["state"] = <<w, "poll">> => At("poll", "state")'
  BY <1>0, <1>7, QueueHasPoll, FilesAre
<1>9. written'[g] = j.payload /\ \A f \in Files : f # g => written'[f] = written[f]
  BY <1>1, <1>2 DEF ShapeOK, FilesOK
<1>10. \A f : At(w, f)' <=> At(w, f)
  BY <1>5 DEF At
<1>11. OwnOK(w)'
  BY <1>1, <1>3, <1>5, <1>10 DEF OwnOK, Right, PauseInv
<1>12. PauseOK(w)'
  <2>1. CASE ~acked /\ At(w, "session")
    BY <1>5, <1>8, <1>10, <2>1 DEF PauseOK
  <2>2. CASE /\ written["session"] \in Session /\ Right(written["session"])
             /\ At("poll", "session") => Right(job["poll"].session)
    <3>1. written'["session"] \in Session /\ Right(written'["session"])
      <4>1. CASE g = "session"
        <5>1. written'["session"] = j.session /\ j.session \in Session
          BY <1>2, <1>9, <4>1 DEF JobOK, Job
        <5> QED  BY <1>6, <2>2, <4>1, <5>1
      <4>2. CASE g # "session"
        BY <1>9, <2>2, <4>2, FilesAre
      <4> QED  BY <4>1, <4>2
    <3> QED  BY <1>1, <1>5, <3>1 DEF PauseOK, Right
  <2> QED  BY <1>2, <2>1, <2>2 DEF PauseInv, PauseOK
<1>13. StateOK(w)'
  <2>1. CASE ~acked /\ job[w] # NoJob
    BY <1>5, <1>8, <2>1 DEF StateOK
  <2>2. CASE /\ written["state"] \in State /\ written["state"].controller = controller
             /\ At("poll", "state") => job["poll"].payload.controller = controller
    <3>1. written'["state"] \in State /\ written'["state"].controller = controller
      <4>1. CASE g = "state"
        <5>1. written'["state"] = j.payload /\ j.payload \in State
          BY <1>2, <1>9, <4>1 DEF JobOK
        <5> QED  BY <1>6, <2>2, <4>1, <5>1
      <4>2. CASE g # "state"
        BY <1>9, <2>2, <4>2, FilesAre
      <4> QED  BY <4>1, <4>2
    <3> QED  BY <1>1, <1>5, <3>1 DEF StateOK
  <2> QED  BY <1>2, <2>1, <2>2 DEF PauseInv, StateOK
<1>14. NewestOK'
  BY <1>5 DEF NewestOK
<1> QED  BY <1>7, <1>11, <1>12, <1>13, <1>14

\* Without failing saves, what the process believes of the files is true.
LEMMA NextCache ==
    ASSUME ShapeOK, DownOK, NEW w, Undisturbed(w), TrueCache, [Next]_vars
    PROVE  TrueCache'
<1>1. CASE UNCHANGED <<disk, written>>
  BY <1>1 DEF TrueCache
<1>2. CASE Load \/ Crash
  BY <1>2 DEF Load, Crash, TrueCache, NoFile
<1>3. CASE OlderVersionRuns \/ Damage
  BY <1>3 DEF OlderVersionRuns, Damage, DownOK, TrueCache
<1>4. ASSUME NEW t \in Tasks, FileSaved(t) PROVE TrueCache'
  BY <1>4, SavedFile DEF TrueCache, ShapeOK, FilesOK
<1>5. ASSUME NEW t \in Tasks, FileError(t) \/ SaveTimeout(t) PROVE FALSE
  BY <1>5, Raised DEF Undisturbed
<1>6. ASSUME NEW v \in Writers, SaveController(v) PROVE TrueCache'
  BY <1>1, <1>6, HandedOver
<1>7. CASE SetUp \/ SaveSession \/ Unload \/ UNCHANGED vars
  BY <1>1, <1>7, PollSaves DEF SetUp, vars
<1> QED  BY <1>2, <1>3, <1>4, <1>5, <1>6, <1>7, WritersAreTasks DEF Next

LEMMA NextPause ==
    ASSUME ShapeOK, DownOK, NEW w, Undisturbed(w), PauseInv(w), [Next]_vars
    PROVE  PauseInv(w)'
<1>0. Writers = {w} /\ Tasks = {w, "poll"}
  BY DEF Undisturbed, Tasks
<1>1. TrueCache'
  BY NextCache DEF PauseInv
<1>2. CASE /\ UNCHANGED <<written, controller, job, line, acked>>
           /\ phase' = phase \/ (Saving /\ Saving')
  <2>1. Saving' <=> Saving
    BY <1>2 DEF Saving
  <2>2. LinesOK(w)' /\ OwnOK(w)' /\ PauseOK(w)' /\ StateOK(w)' /\ NewestOK'
    BY <1>2, <2>1 DEF PauseInv, LinesOK, OwnOK, PauseOK, StateOK, NewestOK, At, Right
  <2> QED  BY <1>1, <2>2 DEF PauseInv
<1>3. CASE ~Saving' /\ ~acked' /\ (\A t \in Tasks : job'[t] = NoJob) /\ LinesOK(w)'
  <2>1. OwnOK(w)' /\ PauseOK(w)' /\ StateOK(w)' /\ NewestOK'
    BY <1>0, <1>3 DEF OwnOK, PauseOK, StateOK, NewestOK, At
  <2> QED  BY <1>1, <1>3, <2>1 DEF PauseInv
<1>4. CASE Load
  <2>1. ~Saving' /\ ~acked' /\ line' = line /\ job' = job /\ \A t \in Tasks : job'[t] = NoJob
    BY <1>4 DEF Load, Saving, Idle, ShapeOK, JobsOK
  <2>2. LinesOK(w)'
    BY <2>1 DEF PauseInv, LinesOK, At
  <2> QED  BY <1>3, <2>1, <2>2
<1>5. CASE Crash
  <2>1. ~Saving' /\ ~acked' /\ line' = Empty /\ \A t \in Tasks : job'[t] = NoJob
    BY <1>5 DEF Crash, Saving
  <2>2. LinesOK(w)'
    <3>1. \A f \in Files : {t \in Tasks : At(t, f)'} = {}
      BY <2>1 DEF At
    <3>2. DOMAIN line' = Files /\ \A f \in Files : line'[f] = <<>>
      BY <2>1 DEF Empty
    <3> QED  BY <3>1, <3>2 DEF LinesOK, Queue, Tasks
  <2> QED  BY <1>3, <2>1, <2>2
<1>6. CASE SetUp \/ OlderVersionRuns \/ Damage \/ UNCHANGED vars
  BY <1>2, <1>6 DEF SetUp, OlderVersionRuns, Damage, vars, Saving
<1>7. CASE SaveSession \/ Unload
  BY <1>1, <1>7, PausePollSaves DEF PauseInv
<1>8. CASE SaveController(w)
  BY <1>1, <1>8, PauseSaveController DEF PauseInv
<1>9. CASE FileSaved(w)
  BY <1>1, <1>9, PauseWriterSaved DEF PauseInv
<1>10. CASE FileSaved("poll")
  BY <1>1, <1>10, PausePollSaved DEF PauseInv
<1>11. ASSUME NEW t \in Tasks, FileError(t) \/ SaveTimeout(t) PROVE FALSE
  BY <1>11, Raised DEF Undisturbed
<1> QED  BY <1>0, <1>4, <1>5, <1>6, <1>7, <1>8, <1>9, <1>10, <1>11 DEF Next

LEMMA PauseRestored ==
    ASSUME ShapeOK, NEW w, PauseInv(w)
    PROVE  SavedPauseSurvives
<1> SUFFICES ASSUME acked, ~Permits(controller), NEW unread \in SUBSET Files,
                    Permits(Loaded(disk, unread, -1))
             PROVE  FALSE
  BY DEF SavedPauseSurvives
<1>1. SeenOK(disk) /\ -1 \in Nat \cup {-1}
  BY TriedShape
<1>2. /\ written["session"] \in Session /\ Right(written["session"])
      /\ written["state"] \in State /\ written["state"].controller = controller
  BY DEF PauseInv, OwnOK, PauseOK, StateOK
<1>3. disk["session"] = written["session"] /\ disk["state"] = written["state"]
  BY <1>2, NoMark, FilesAre DEF PauseInv, TrueCache
<1>4. Permits(Base(disk, unread))
  BY <1>1, LoadedShape
<1>5. \/ Base(disk, unread) = disk["state"].controller
      \/ ~disk["session"].paused
  BY <1>1, <1>4, BaseShape
<1> QED  BY <1>2, <1>3, <1>4, <1>5 DEF Right

\* Whenever the save of a pausing record has returned, a process that dies at that moment or
\* later restarts paused, whichever files it cannot read (_async_write_all, async_load): with
\* one task that saves records, the poll saving its own fields at any moment beside it, and no
\* save that fails.
THEOREM SavedPauseTheorem ==
    ASSUME NEW CONSTANT w, Undisturbed(w)
    PROVE  Spec => []SavedPauseSurvives
<1>1. Init => ShapeOK /\ DownOK /\ PauseInv(w)
  <2> SUFFICES ASSUME Init PROVE ShapeOK /\ DownOK /\ PauseInv(w)
    OBVIOUS
  <2>1. ShapeOK /\ DownOK
    BY InitShape, InitSerial
  <2>2. /\ \A t \in Tasks : job[t] = NoJob
        /\ \A f \in Files : written[f] = Missing /\ line[f] = <<>>
        /\ DOMAIN line = Files /\ ~acked /\ ~Saving
    BY DEF Init, NoFile, Empty, Saving
  <2>3. \A f \in Files : {t \in Tasks : At(t, f)} = {}
    BY <2>2 DEF At
  <2>4. LinesOK(w)
    BY <2>2, <2>3 DEF LinesOK, Queue
  <2>5. w \in Tasks /\ "poll" \in Tasks
    BY DEF Undisturbed, Tasks
  <2> QED  BY <2>1, <2>2, <2>4, <2>5 DEF PauseInv, OwnOK, PauseOK, StateOK, NewestOK, TrueCache, At
<1>2. ShapeOK /\ DownOK /\ PauseInv(w) /\ [Next]_vars => (ShapeOK /\ DownOK /\ PauseInv(w))'
  BY NextShape, NextDown, NextPause
<1>3. ShapeOK /\ DownOK /\ PauseInv(w) => SavedPauseSurvives
  BY PauseRestored
<1> QED  BY <1>1, <1>2, <1>3, PTL DEF Spec
=============================================================================
