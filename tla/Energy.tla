------------------------------- MODULE Energy -------------------------------
(***************************************************************************)
(* The energy counters: the plausibility guard (energy_guard.py), the      *)
(* tracker around it (energy.py, EnergyTracker) and its saved baseline     *)
(* (persistence.py).  The tracker keeps one record per counter and the     *)
(* records do not influence one another: key says whose record this is.    *)
(*                                                                         *)
(* Abstractions                                                            *)
(*  - Energy is counted in 0.1 kW s and 3600 of them make one quantum of   *)
(*    the register (0.1 kWh), so the guard's arithmetic is exact.          *)
(*  - Instead of timestamps every reading carries its age, in seconds.     *)
(*  - A poll that could not read the status block only lets time pass.     *)
(*  - The charger (external) delivers at most HwPower; its lifetime        *)
(*    counter restarts from zero when it loses it, its session counter at  *)
(*    the start of a session.                                              *)
(***************************************************************************)
EXTENDS Integers, Sequences

CONSTANTS
    Gaps,             \* seconds that may pass between two polls
    HwPower,          \* what the charger can deliver, 0.1 kW
    Live,             \* what it reports as its maximum (0x1011), 0.1 kW
    Rated,            \* max_power_kw of get_capabilities for its model, 0.1 kW
    ResetMinPolls,    \* ENERGY_RESET_MIN_POLLS
    ResetMinSeconds,  \* ENERGY_RESET_MIN_SECONDS
    WindowSeconds,    \* ENERGY_WINDOW_SECONDS
    WindowMinSamples, \* ENERGY_WINDOW_MIN_SAMPLES
    AbsMax,           \* ENERGY_ABS_MAX_KWH in quanta
    Corrupt,          \* readings the wire may deliver instead of the register
    Faults,           \* what may go wrong: a subset of FaultKinds
    MaxEnergy,        \* bound: energy the charger's counter reaches
    MaxAge,           \* bound: ages are not told apart beyond this
    MaxBad,           \* bound: corrupt readings
    MaxResets         \* bound: times the lifetime counter is lost

None == -1            \* Python None: no reading
QUANTUM == 3600       \* ENERGY_QUANTUM_KWH
NEAR_ZERO_RAW_UNITS == 2
FaultKinds == {"save", "crash", "malformed", "clock"}
Keys == {"total", "current"}

ASSUME GapsAssumption    == Gaps \subseteq Nat \ {0}
ASSUME PowerAssumption   == HwPower \in Nat /\ Live \in Nat /\ Rated \in Nat
ASSUME LimitsAssumption  == /\ ResetMinPolls \in Nat /\ ResetMinSeconds \in Nat
                            /\ WindowSeconds \in Nat /\ WindowMinSamples \in Nat \ {0}
                            /\ AbsMax \in Nat
ASSUME CorruptAssumption == Corrupt \subseteq Nat
ASSUME FaultsAssumption  == Faults \subseteq FaultKinds
ASSUME BoundsAssumption  == /\ MaxEnergy \in Nat /\ MaxAge \in Nat
                            /\ MaxBad \in Nat /\ MaxResets \in Nat

VARIABLES
    key,      \* the counter: "total" (total_energy_raw) or "current"
    tracker,  \* the EnergyTracker's record of it
    saving,   \* a poll is in its save (_async_persist)
    reply,    \* data[key] of that poll
    shown,    \* coordinator.data[key], what the entity shows
    disk,     \* the saved baseline
    energy,   \* the charger's counter, in 0.1 kW s
    bad,      \* corrupt readings so far
    resets,   \* losses of the lifetime counter so far
    life,     \* history: the lifetime energy, whatever the counter says
    unsaved,  \* history: the last save failed
    peak,     \* history: highest value shown that no failed save has lost
    genuine,  \* history: only readings of the register were ever accepted, and of the
              \* session counter, which may have restarted since, none forgotten
    refused   \* history: the last reading was the register's and was refused

charger == <<energy, bad, resets, life>>
vars == <<key, tracker, saving, reply, shown, disk, charger, unsaved, peak, genuine,
          refused>>

Larger(a, b)  == IF a >= b THEN a ELSE b
Smaller(a, b) == IF a <= b THEN a ELSE b

Reading == [raw : Int, age : Nat]
NoReading == [raw |-> None, age |-> 0]
NoCandidate == [polls |-> 0, first |-> 0, firstAge |-> 0, last |-> 0, lastAge |-> 0]

\* EnergyTracker.__init__ for one key: _last, _window, _offset, _reset_candidate
\* and dirty.
NewTracker == [last |-> NoReading, window |-> <<>>, offset |-> 0, cand |-> NoCandidate,
               dirty |-> FALSE]

\* ENERGY_GUARDS
AllowDecrease == key = "current"

(***************************************************************************)
(* The guard.                                                              *)
(***************************************************************************)

\* Mutant: the allowance has no margin over what the charger can deliver.
WithinRated(delta, elapsed) == QUANTUM * delta <= Rated * elapsed

\* Twice _max_power_kw, in 0.1 kW.
MaxPowerTwice == Larger(Smaller(2 * Live, 3 * Rated), 2 * Rated)

\* One quantum and 1.5 times what the charger can deliver in the time.
Within(delta, elapsed) == 4 * QUANTUM * (delta - 1) <= 3 * MaxPowerTwice * elapsed

\* Mutant: a lower reading is a reset of any counter.
PlausibleAnyDecrease(raw, prev, age, allow, boundary) ==
    /\ raw \in 0..AbsMax
    /\ prev # None => \/ raw >= prev /\ Within(raw - prev, Larger(age, 1))
                      \/ raw < prev /\ raw <= NEAR_ZERO_RAW_UNITS

\* decide_energy_reading: raw may follow the reading prev that is age seconds old.
Plausible(raw, prev, age, allow, boundary) ==
    LET elapsed == Larger(age, 1)
    IN  /\ raw \in 0..AbsMax
        /\ prev # None =>
             \/ raw >= prev /\ Within(raw - prev, elapsed)
             \/ /\ raw < prev /\ allow
                /\ (boundary /\ Within(raw, elapsed)) \/ raw <= NEAR_ZERO_RAW_UNITS

\* check_cumulative_window, once there are samples enough
WindowImplausible(w) ==
    LET elapsed == w[1].age - w[Len(w)].age
    IN  /\ Len(w) >= WindowMinSamples
        /\ elapsed > 0
        /\ ~Within(w[Len(w)].raw - w[1].raw, elapsed)

(***************************************************************************)
(* The tracker.                                                            *)
(***************************************************************************)

\* Mutant: the difference of the two times is taken the wrong way round.
OlderSwapped(age, dt) == age - dt

\* dt seconds later.
Older(age, dt) == Smaller(age + dt, MaxAge)

Aged(t, dt) ==
    LET later(s) == [s EXCEPT !.age = Older(s.age, dt)]
        c == t.cand
    IN  [t EXCEPT !.last.age = IF t.last.raw = None THEN 0 ELSE Older(t.last.age, dt),
                  !.window = [i \in DOMAIN t.window |-> later(t.window[i])],
                  !.cand = IF c.polls = 0 THEN c
                           ELSE [c EXCEPT !.firstAge = Older(c.firstAge, dt),
                                          !.lastAge = Older(c.lastAge, dt)]]

\* Mutant: every low reading is a new suspicion.
CandidateRestarts(c, raw) ==
    [polls |-> 1, first |-> raw, firstAge |-> 0, last |-> raw, lastAge |-> 0]

\* _track_counter_reset: the suspected reset after one more low reading.
Candidate(c, raw) ==
    IF c.polls > 0 /\ raw >= c.last /\ Plausible(raw, c.last, c.lastAge, FALSE, FALSE)
      THEN [polls |-> Smaller(c.polls + 1, ResetMinPolls), first |-> c.first,
            firstAge |-> c.firstAge, last |-> raw, lastAge |-> 0]
      ELSE [polls |-> 1, first |-> raw, firstAge |-> 0, last |-> raw, lastAge |-> 0]

\* Mutant: the first low reading is a reset.
ConfirmedAtOnce(c) == c.polls >= 1

Confirmed(c) == c.polls >= ResetMinPolls /\ c.firstAge >= ResetMinSeconds

\* The offset that lets the value carry on from prev.
NewOffset(prev, c) == prev - c.first

\* The window without the old samples at its front; the last one is never old.
Recent(w) ==
    LET first == CHOOSE i \in DOMAIN w : /\ w[i].age <= WindowSeconds
                                         /\ \A j \in 1..(i - 1) : w[j].age > WindowSeconds
    IN  SubSeq(w, first, Len(w))

\* _sanitize: the record after the reading in.
Sanitized(t, in, boundary) ==
    LET prev  == t.last.raw
        raw   == in + t.offset
        now   == [raw |-> raw, age |-> 0]
        ok    == Plausible(raw, prev, t.last.age, AllowDecrease, boundary)
        lower == ~AllowDecrease /\ prev # None /\ raw < prev
        c     == Candidate(t.cand, in)
        on    == [raw |-> in + NewOffset(prev, c), age |-> 0]
        w     == Recent(Append(t.window, now))
    IN  IF ~ok /\ lower /\ Confirmed(c)
          THEN [last |-> on, window |-> <<on>>, offset |-> NewOffset(prev, c),
                cand |-> NoCandidate, dirty |-> TRUE]
        ELSE IF ~ok THEN [t EXCEPT !.cand = IF lower THEN c ELSE @]
        ELSE IF AllowDecrease /\ (boundary \/ raw <= NEAR_ZERO_RAW_UNITS)
          THEN [t EXCEPT !.last = now, !.window = <<now>>, !.cand = NoCandidate,
                         !.dirty = @ \/ boundary \/ prev # raw]
        ELSE IF WindowImplausible(w)
          THEN [t EXCEPT !.window = <<>>, !.cand = NoCandidate]
          ELSE [t EXCEPT !.last = now, !.window = w, !.cand = NoCandidate,
                         !.dirty = @ \/ prev # raw]

(***************************************************************************)
(* The poll.                                                               *)
(***************************************************************************)
Register(e) == e \div QUANTUM

Saved(raw, age, offset) == [raw |-> raw, age |-> age, offset |-> offset]
Nothing == Saved(None, 0, 0)

DiskAged(dt) == IF disk.raw = None THEN disk ELSE [disk EXCEPT !.age = Older(@, dt)]

\* apply on the reading in, dt seconds after the last poll; honest: in is what the
\* register holds.  What the poll will show is the last good value.
Apply(dt, in, boundary, honest) ==
    LET t == Sanitized(Aged(tracker, dt), in, boundary)
        accepted == t.last.age = 0 /\ t.last.raw = in + t.offset
    IN  /\ tracker' = t
        /\ saving' = TRUE /\ reply' = t.last.raw
        /\ genuine' = (genuine /\ (honest \/ ~accepted))
        /\ refused' = (honest /\ ~accepted)
        /\ disk' = DiskAged(dt)
        /\ UNCHANGED <<key, shown, unsaved, peak>>

\* The charger counts for dt seconds, at p.
Counts(dt, p) ==
    /\ energy + p * dt <= MaxEnergy
    /\ energy' = energy + p * dt
    /\ life' = IF key = "total" THEN life + p * dt ELSE life

\* A poll that reads the register.
Poll == \E dt \in Gaps, p \in {0, HwPower} :
    /\ ~saving
    /\ Counts(dt, p)
    /\ Apply(dt, Register(energy'), FALSE, TRUE)
    /\ UNCHANGED <<bad, resets>>

\* The first poll of a session: the session counter has restarted and the session
\* tracker knows (is_boundary).
PollBoundary == \E dt \in Gaps, p \in {0, HwPower} :
    /\ ~saving /\ key = "current"
    /\ p * dt <= MaxEnergy
    /\ energy' = p * dt
    /\ Apply(dt, Register(energy'), TRUE, TRUE)
    /\ UNCHANGED <<bad, resets, life>>

\* The reading is garbage.  Not the first one ever: that one is trusted, up to AbsMax.
PollCorrupt == \E dt \in Gaps, in \in Corrupt :
    /\ ~saving
    /\ tracker.last.raw # None /\ bad < MaxBad
    /\ bad' = bad + 1
    /\ Apply(dt, in, FALSE, in = Register(energy))
    /\ UNCHANGED <<energy, resets, life>>

\* A poll without a reading: the last good value is shown again.
PollMissing == \E dt \in Gaps, p \in {0, HwPower} :
    /\ ~saving
    /\ Counts(dt, p)
    /\ tracker' = Aged(tracker, dt)
    /\ disk' = DiskAged(dt)
    /\ saving' = TRUE /\ reply' = tracker.last.raw
    /\ UNCHANGED <<key, shown, bad, resets, unsaved, peak, genuine, refused>>

\* The charger loses its lifetime counter.
CounterReset ==
    /\ key = "total" /\ resets < MaxResets
    /\ resets' = resets + 1
    /\ energy' = 0
    /\ genuine' = FALSE
    /\ UNCHANGED <<key, tracker, saving, reply, shown, disk, bad, life, unsaved, peak, refused>>

\* export and async_save_energy of a dirty record: kept, or still dirty.
Keep(ok) ==
    /\ ok \/ "save" \in Faults
    /\ disk' = IF ok THEN Saved(tracker.last.raw, tracker.last.age, tracker.offset) ELSE disk
    /\ tracker' = [tracker EXCEPT !.dirty = ~ok]
    /\ unsaved' = ~ok

\* Mutant: the poll's data is shown whatever the save does, and never saved.
PersistNothing ==
    /\ saving
    /\ UNCHANGED <<disk, tracker, unsaved>>
    /\ saving' = FALSE /\ reply' = None
    /\ shown' = reply
    /\ peak' = Larger(peak, reply)
    /\ UNCHANGED <<key, charger, genuine, refused>>

\* The end of the poll: _async_persist, then the data is shown.
Persist ==
    /\ saving
    /\ IF tracker.dirty THEN \E ok \in BOOLEAN : Keep(ok) ELSE UNCHANGED <<disk, tracker, unsaved>>
    /\ saving' = FALSE /\ reply' = None
    /\ shown' = reply
    /\ peak' = Larger(peak, reply)
    /\ UNCHANGED <<key, charger, genuine, refused>>

\* restore of the baseline b (_validate_energy has dropped a malformed one).
Restored(b) ==
    IF b.raw = None THEN NewTracker
    ELSE [NewTracker EXCEPT !.last = [raw |-> b.raw, age |-> b.age], !.offset = b.offset]

\* The process dies and starts again.  A save in flight may have been written; the
\* wall clock may have been set, and a time in the future counts as now.
Restart == \E b \in {disk} \cup (IF saving /\ tracker.dirty
                                 THEN {Saved(tracker.last.raw, tracker.last.age, tracker.offset)}
                                 ELSE {}) :
    /\ "crash" \in Faults
    /\ \E lost \in BOOLEAN, wrong \in BOOLEAN, age \in {0, b.age, MaxAge} :
        /\ lost  => "malformed" \in Faults
        /\ wrong => "clock" \in Faults
        /\ ~wrong => age = b.age
        /\ LET base == IF lost THEN Nothing ELSE [b EXCEPT !.age = age]
           IN  /\ tracker' = Restored(base)
               /\ disk' = base
               /\ peak' = IF unsaved \/ lost THEN Smaller(peak, base.raw) ELSE peak
        /\ genuine' = (genuine /\ ~wrong /\ (key = "current" => b.raw = tracker.last.raw))
    /\ saving' = FALSE /\ reply' = None /\ shown' = None
    /\ unsaved' = FALSE /\ refused' = FALSE
    /\ UNCHANGED <<key, charger>>

Init ==
    /\ key \in Keys
    /\ tracker = NewTracker /\ disk = Nothing
    /\ saving = FALSE /\ reply = None /\ shown = None
    /\ energy = 0 /\ life = 0 /\ bad = 0 /\ resets = 0
    /\ unsaved = FALSE /\ peak = None /\ genuine = TRUE /\ refused = FALSE

Next == Poll \/ PollBoundary \/ PollCorrupt \/ PollMissing \/ CounterReset \/ Persist \/ Restart

Spec == Init /\ [][Next]_vars

\* The coordinator polls again and again, and a save ends.
FairSpec == Spec /\ WF_vars(Poll) /\ WF_vars(Persist)

(***************************************************************************)
(* Properties.                                                             *)
(***************************************************************************)
Candidates == [polls : Nat, first : Int, firstAge : Nat, last : Int, lastAge : Nat]

\* Every variable keeps its shape (EnergyTracker.__init__, the baseline schema).
TypeOK ==
    /\ key \in Keys
    /\ tracker \in [last : Reading, window : Seq(Reading), offset : Int, cand : Candidates,
                    dirty : BOOLEAN]
    /\ saving \in BOOLEAN /\ reply \in Int /\ shown \in Int
    /\ disk \in [raw : Int, age : Nat, offset : Int]
    /\ energy \in Nat /\ life \in Nat /\ bad \in Nat /\ resets \in Nat
    /\ unsaved \in BOOLEAN /\ peak \in Int /\ genuine \in BOOLEAN /\ refused \in BOOLEAN

\* The lifetime total that is shown never goes backwards, over corrupt readings,
\* losses of the charger's counter and restarts; a restart forgets only what a
\* failed save has lost, as a poll shows its data after it has saved the baseline
\* (energy.py: "never goes backwards", _async_update_data).
TotalNeverFalls == key = "total" /\ shown # None => shown >= peak

\* The lifetime total is never ahead of the energy delivered: corrupt readings that
\* no charger could have reached, or too few low ones to look like a reset, never
\* get in or leave a wrong offset behind (decide_energy_reading,
\* _track_counter_reset).
TotalIsNeverAhead ==
    key = "total" /\ MaxBad < ResetMinPolls => QUANTUM * shown <= life

\* As long as only readings of the register were accepted, the next one is never
\* refused, neither by the rate nor by the window (energy_guard.py: "rejection of
\* a physically-real reading impossible at any elapsed time").
RealReadingIsAccepted == genuine => ~refused

\* Once polls are read and saved without interruption, the lifetime total follows
\* the register again, up to the offset, whatever corrupt readings, lost counters
\* and restarts have left behind (_track_counter_reset, the growing allowance); the
\* session counter does unless a restart has forgotten its baseline.
FollowsTheRegister ==
    <>[][Poll \/ Persist]_vars /\ []<>(key = "total" \/ genuine)
        => []<>(shown = Register(energy) + tracker.offset)
=============================================================================
