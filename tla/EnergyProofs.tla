---------------------------- MODULE EnergyProofs ----------------------------
(***************************************************************************)
(* Theorems about the energy counters, for any limits of the guard, any    *)
(* poll times, any corrupt readings and any combination of failures.       *)
(***************************************************************************)
EXTENDS Energy, WellFoundedInduction, TLAPS

(***************************************************************************)
(* The inductive invariants.                                               *)
(***************************************************************************)
Trackers == [last : Reading, window : Seq(Reading), offset : Int, cand : Candidates,
             dirty : BOOLEAN]

\* Values are counts or missing, and a suspected reset only rises.
RecordOK(t) == /\ t \in Trackers
               /\ t.last.raw >= None
               /\ 0 <= t.cand.first /\ t.cand.first <= t.cand.last

Disks == [raw : Int, age : Nat, offset : Int]

MemoryOK == /\ key \in Keys /\ RecordOK(tracker) /\ disk \in Disks /\ disk.raw >= None
            /\ saving \in BOOLEAN /\ reply \in Int /\ shown \in Int
            /\ unsaved \in BOOLEAN /\ peak \in Int /\ genuine \in BOOLEAN /\ refused \in BOOLEAN

\* The bounds of the model.
ChargerOK == /\ energy \in Nat /\ life \in Nat /\ bad \in Nat /\ resets \in Nat
             /\ energy <= MaxEnergy /\ bad <= MaxBad

ShapeOK == MemoryOK /\ ChargerOK

\* What was shown is covered by the record, and by the saved one unless a save
\* failed; a record that is not dirty is saved.
ForwardOK == key = "total" =>
    /\ tracker.last.raw >= peak
    /\ saving => reply = tracker.last.raw
    /\ ~tracker.dirty => ~unsaved /\ disk.raw = tracker.last.raw
    /\ ~saving /\ ~unsaved => ~tracker.dirty
    /\ ~unsaved => disk.raw >= peak
    /\ shown # None => shown >= peak

IInv == ShapeOK /\ ForwardOK

\* The guard's limits suit the charger, and the bounds of the model hide nothing: no
\* reading is beyond AbsMax, ages are told apart within the window, and MaxAge seconds
\* allow for all the energy there is.
Adequate == /\ 4 * HwPower <= 3 * MaxPowerTwice
            /\ MaxEnergy <= QUANTUM * AbsMax
            /\ WindowSeconds < MaxAge
            /\ 4 * MaxEnergy <= 3 * MaxPowerTwice * MaxAge

\* The register held r, a seconds before the counter came to e without a restart.
HeldAt(e, r, a) == /\ QUANTUM * r <= e
                   /\ a < MaxAge => e < QUANTUM * (r + 1) + HwPower * a

\* The record t holds only what the register held, up to e.
RecordHeld(t, e) == /\ t.last.raw # None => HeldAt(e, t.last.raw, t.last.age)
                    /\ \A i \in DOMAIN t.window : HeldAt(e, t.window[i].raw, t.window[i].age)

\* While only genuine readings were accepted, every reading in the record is one, and
\* so is the saved one, as old as the last one or older.
GenuineOK == genuine =>
    /\ ~refused
    /\ tracker.offset = 0 /\ disk.offset = 0
    /\ RecordHeld(tracker, energy)
    /\ key = "total" /\ disk.raw # None => HeldAt(energy, disk.raw, disk.age)
    /\ tracker.last.raw # None /\ disk.raw # None => disk.age >= tracker.last.age

\* The highest the register gets.
Top == Register(MaxEnergy)

\* A corrupt reading is zero, or more than any charger could reach at any time.
CorruptIsFar == \A in \in Corrupt : in = 0 \/ ~Within(in - Top, Larger(MaxAge, 1))

\* A baseline that does not count more than was delivered, when the counter is at e after
\* lost was lost with it: its offset was lost, and its value too, unless the counter has
\* not restarted since.
Covered(raw, offset, e, lost) ==
    /\ QUANTUM * offset <= lost
    /\ raw # None => /\ raw - offset <= Top
                     /\ QUANTUM * raw <= lost \/ QUANTUM * (raw - offset) <= e

\* Too few corrupt readings never look like a reset: a suspicion of n of them has n
\* polls, any other one follows a reset.
Suspects(t, n, lost) ==
    t.cand.polls <= n \/ (QUANTUM * t.last.raw <= lost /\ t.cand.last <= Top)

Lost == life - energy

AheadOK == key = "total" =>
    /\ 0 <= Lost
    /\ Covered(tracker.last.raw, tracker.offset, energy, Lost)
    /\ Covered(disk.raw, disk.offset, energy, Lost)
    /\ Suspects(tracker, bad, Lost)
    /\ saving => QUANTUM * reply <= life
    /\ QUANTUM * shown <= life

(***************************************************************************)
(* Arithmetic.                                                             *)
(***************************************************************************)

\* A larger factor gives a larger product.
LEMMA Scaled ==
    ASSUME NEW a \in Int, NEW b \in Int, NEW c \in Nat, a <= b
    PROVE  a * c <= b * c
OBVIOUS

\* The register holds the whole quanta of the energy.
LEMMA Quanta ==
    ASSUME NEW e \in Nat
    PROVE  /\ Register(e) \in Nat
           /\ QUANTUM * Register(e) <= e /\ e < QUANTUM * (Register(e) + 1)
BY DEF Register, QUANTUM

\* The power the guard allows for is a number.
LEMMA PowerIsNat == MaxPowerTwice \in Nat
BY PowerAssumption DEF MaxPowerTwice, Larger, Smaller

\* Less energy in more time is allowed, too.
LEMMA WithinMore ==
    ASSUME NEW d \in Int, NEW f \in Int, NEW e \in Nat, NEW g \in Nat,
           d <= f, e <= g, Within(f, e)
    PROVE  Within(d, g)
<1> DEFINE m == 3 * MaxPowerTwice
<1>1. m \in Nat
  BY PowerIsNat
<1>2. m * e \in Int /\ m * g \in Int /\ m * e <= m * g
  <2>1. e * m <= g * m
    BY <1>1, Scaled
  <2> QED  BY <2>1, <1>1
<1>3. 4 * QUANTUM * (f - 1) <= m * e
  BY DEF Within
<1>4. 4 * QUANTUM * (d - 1) <= m * g
  <2> HIDE DEF m
  <2> QED  BY <1>1, <1>2, <1>3 DEF QUANTUM
<1> QED  BY <1>4 DEF Within

\* A nonempty set of natural numbers has a least one.
LEMMA Least ==
    ASSUME NEW T, T \subseteq Nat, T # {}
    PROVE  \E x \in T : \A y \in T : x <= y
<1> DEFINE R == {ss \in Nat \X Nat : ss[1] < ss[2]}
<1>0. IsWellFoundedOn(R, Nat)
  BY NatLessThanWellFounded, Zenon DEF OpToRel
<1>1. PICK x \in T : \A y \in T : ~(<<y, x>> \in R)
  <2> HIDE DEF R
  <2> QED  BY <1>0, WFMin
<1>2. \A y \in T : x <= y
  <2> SUFFICES ASSUME NEW y \in T PROVE ~(y < x)
    OBVIOUS
  <2>1. <<y, x>> \in Nat \X Nat /\ <<y, x>>[1] = y /\ <<y, x>>[2] = x
    OBVIOUS
  <2> QED  BY <1>1, <2>1
<1> QED  BY <1>2

(***************************************************************************)
(* The window and the ages.                                                *)
(***************************************************************************)

\* What is left of a window are its last samples, the first of them recent (_sanitize,
\* window.pop).
LEMMA RecentSamples ==
    ASSUME NEW w \in Seq(Reading), w # <<>>, w[Len(w)].age = 0
    PROVE  /\ Recent(w) \in Seq(Reading) /\ Len(Recent(w)) >= 1
           /\ Recent(w)[Len(Recent(w))] = w[Len(w)]
           /\ Recent(w)[1].age <= WindowSeconds
           /\ \A i \in DOMAIN Recent(w) : \E j \in DOMAIN w : Recent(w)[i] = w[j]
<1> DEFINE old(i) == \A j \in 1..(i - 1) : w[j].age > WindowSeconds
           first == CHOOSE i \in DOMAIN w : w[i].age <= WindowSeconds /\ old(i)
           T == {i \in DOMAIN w : w[i].age <= WindowSeconds}
<1>0. Len(w) \in Nat /\ Len(w) >= 1 /\ DOMAIN w = 1..Len(w)
  OBVIOUS
<1>1. Len(w) \in T
  BY <1>0, LimitsAssumption
<1>2. PICK x \in T : \A y \in T : x <= y
  <2>1. T \subseteq Nat
    BY <1>0
  <2> QED  BY <1>1, <2>1, Least
<1>3. old(x)
  <2> SUFFICES ASSUME NEW j \in 1..(x - 1) PROVE w[j].age > WindowSeconds
    OBVIOUS
  <2>1. x \in 1..Len(w) /\ j \in DOMAIN w /\ ~(x <= j)
    BY <1>0, <1>2
  <2>2. j \notin T
    BY <2>1, <1>2
  <2>3. w[j] \in Reading
    BY <2>1
  <2> QED  BY <2>1, <2>2, <2>3, LimitsAssumption DEF Reading
<1>4. first \in DOMAIN w /\ w[first].age <= WindowSeconds
  <2>1. \E i \in DOMAIN w : w[i].age <= WindowSeconds /\ old(i)
    BY <1>2, <1>3
  <2> HIDE DEF old
  <2> QED  BY <2>1
<1>5. Recent(w) = SubSeq(w, first, Len(w))
  BY DEF Recent
<1> HIDE DEF first
<1>6. /\ Recent(w) \in Seq(Reading) /\ Len(Recent(w)) = Len(w) - first + 1
      /\ \A i \in 1..(Len(w) - first + 1) : Recent(w)[i] = w[first + i - 1]
  BY <1>0, <1>4, <1>5
<1>7. \A i \in DOMAIN Recent(w) : \E j \in DOMAIN w : Recent(w)[i] = w[j]
  <2> SUFFICES ASSUME NEW i \in DOMAIN Recent(w) PROVE \E j \in DOMAIN w : Recent(w)[i] = w[j]
    OBVIOUS
  <2>1. i \in 1..(Len(w) - first + 1) /\ first + i - 1 \in DOMAIN w
    BY <1>0, <1>4, <1>6
  <2> QED  BY <2>1, <1>6
<1>8. Recent(w)[1] = w[first] /\ Recent(w)[Len(Recent(w))] = w[Len(w)] /\ Len(Recent(w)) >= 1
  BY <1>0, <1>4, <1>6
<1> QED  BY <1>4, <1>6, <1>7, <1>8

\* An age dt seconds later.
LEMMA OlderAge ==
    ASSUME NEW a \in Nat, NEW dt \in Gaps
    PROVE  /\ Older(a, dt) \in Nat /\ Older(a, dt) <= MaxAge
           /\ Older(a, dt) < MaxAge => Older(a, dt) = a + dt
           /\ MaxAge > 0 => Older(a, dt) > 0
BY GapsAssumption, BoundsAssumption DEF Older, Smaller

\* Ages keep their order.
LEMMA OlderKeepsOrder ==
    ASSUME NEW a \in Nat, NEW b \in Nat, NEW dt \in Gaps, a <= b
    PROVE  Older(a, dt) <= Older(b, dt)
BY GapsAssumption, BoundsAssumption DEF Older, Smaller

\* dt seconds later the record is the same but for its ages.
LEMMA AgedRecord ==
    ASSUME NEW t, RecordOK(t), NEW dt \in Gaps
    PROVE  /\ RecordOK(Aged(t, dt))
           /\ Aged(t, dt).last.raw = t.last.raw
           /\ t.last.raw # None => Aged(t, dt).last.age = Older(t.last.age, dt)
           /\ Aged(t, dt).offset = t.offset /\ Aged(t, dt).dirty = t.dirty
           /\ DOMAIN Aged(t, dt).window = DOMAIN t.window
           /\ \A i \in DOMAIN t.window : /\ Aged(t, dt).window[i].raw = t.window[i].raw
                                         /\ Aged(t, dt).window[i].age = Older(t.window[i].age, dt)
           /\ Aged(t, dt).cand.polls = t.cand.polls /\ Aged(t, dt).cand.first = t.cand.first
           /\ Aged(t, dt).cand.last = t.cand.last
           /\ t.cand.polls # 0 => Aged(t, dt).cand.lastAge <= MaxAge
<1> DEFINE last == [t.last EXCEPT !.age = IF t.last.raw = None THEN 0 ELSE Older(t.last.age, dt)]
           win  == [i \in DOMAIN t.window |-> [t.window[i] EXCEPT !.age = Older(t.window[i].age, dt)]]
           cand == IF t.cand.polls = 0 THEN t.cand
                   ELSE [t.cand EXCEPT !.firstAge = Older(t.cand.firstAge, dt),
                                       !.lastAge = Older(t.cand.lastAge, dt)]
<1>0. t \in Trackers /\ t.last \in Reading /\ t.window \in Seq(Reading) /\ t.cand \in Candidates
  BY DEF RecordOK, Trackers
<1>1. Aged(t, dt) = [t EXCEPT !.last = last, !.window = win, !.cand = cand]
  <2>1. Aged(t, dt).last = last
    BY <1>0 DEF Aged, Trackers, Reading
  <2>2. Aged(t, dt).window = win
    BY <1>0 DEF Aged, Trackers
  <2>3. Aged(t, dt).cand = cand
    BY <1>0 DEF Aged, Trackers, Candidates
  <2> QED  BY <1>0, <2>1, <2>2, <2>3 DEF Aged, Trackers
<1>2. last \in Reading /\ last.raw = t.last.raw
      /\ (t.last.raw # None => last.age = Older(t.last.age, dt))
  BY <1>0, OlderAge DEF Reading
<1>3. /\ win \in Seq(Reading) /\ DOMAIN win = DOMAIN t.window
      /\ \A i \in DOMAIN t.window : /\ win[i].raw = t.window[i].raw
                                    /\ win[i].age = Older(t.window[i].age, dt)
  <2>1. \A i \in DOMAIN t.window :
           [t.window[i] EXCEPT !.age = Older(t.window[i].age, dt)] \in Reading
    <3> SUFFICES ASSUME NEW i \in DOMAIN t.window
                 PROVE  [t.window[i] EXCEPT !.age = Older(t.window[i].age, dt)] \in Reading
      OBVIOUS
    <3>1. t.window[i] \in Reading
      BY <1>0
    <3>2. Older(t.window[i].age, dt) \in Nat
      BY <3>1, OlderAge DEF Reading
    <3> QED  BY <3>1, <3>2 DEF Reading
  <2>2. DOMAIN t.window = 1..Len(t.window) /\ Len(t.window) \in Nat
    BY <1>0
  <2>3. win \in [1..Len(t.window) -> Reading]
    BY <2>1, <2>2
  <2>4. win \in Seq(Reading)
    BY <2>2, <2>3
  <2>5. \A i \in DOMAIN t.window : t.window[i] \in Reading
    BY <1>0
  <2> QED  BY <2>4, <2>5 DEF Reading
<1>4. /\ cand \in Candidates /\ cand.polls = t.cand.polls /\ cand.first = t.cand.first
      /\ cand.last = t.cand.last /\ (t.cand.polls # 0 => cand.lastAge <= MaxAge)
  <2>1. /\ Older(t.cand.firstAge, dt) \in Nat /\ Older(t.cand.lastAge, dt) \in Nat
        /\ Older(t.cand.lastAge, dt) <= MaxAge
    BY <1>0, OlderAge DEF Candidates
  <2> QED  BY <1>0, <2>1 DEF Candidates
<1> HIDE DEF last, win, cand
<1>5. /\ Aged(t, dt).last = last /\ Aged(t, dt).window = win /\ Aged(t, dt).cand = cand
      /\ Aged(t, dt).offset = t.offset /\ Aged(t, dt).dirty = t.dirty
      /\ Aged(t, dt) \in Trackers
  BY <1>0, <1>1, <1>2, <1>3, <1>4 DEF Trackers
<1>6. RecordOK(Aged(t, dt))
  BY <1>2, <1>4, <1>5 DEF RecordOK
<1> QED  BY <1>2, <1>3, <1>4, <1>5, <1>6

(***************************************************************************)
(* What a reading does to the record (_sanitize).                          *)
(***************************************************************************)
Now(raw) == [raw |-> raw, age |-> 0]

\* The reading in is below the last value, which no reading of a total may be.
Lower(t, in) == ~AllowDecrease /\ t.last.raw # None /\ in + t.offset < t.last.raw

Follows(t, in, boundary) ==
    Plausible(in + t.offset, t.last.raw, t.last.age, AllowDecrease, boundary)

\* The reading was refused, by the rate or by the window: the baseline stays, with or
\* without a suspicion.
Refuses(t, in, boundary, s) ==
    /\ \/ ~Follows(t, in, boundary)
       \/ /\ ~(AllowDecrease /\ boundary)
          /\ WindowImplausible(Recent(Append(t.window, Now(in + t.offset))))
    /\ s.last = t.last /\ s.offset = t.offset /\ s.dirty = t.dirty
    /\ s.window \in {t.window, <<>>}
    /\ \/ s.cand \in {t.cand, NoCandidate}
       \/ Lower(t, in) /\ s.cand = Candidate(t.cand, in) /\ ~Confirmed(s.cand)

\* The reading was accepted: it is the baseline, and dirty if that is a new one.
Accepts(t, in, boundary, s) ==
    LET raw == in + t.offset
    IN  /\ Follows(t, in, boundary)
        /\ s.last = Now(raw) /\ s.offset = t.offset
        /\ s.cand = NoCandidate
        /\ ~s.dirty => ~t.dirty /\ t.last.raw = raw
        /\ AllowDecrease /\ boundary => s.window = <<Now(raw)>>
        /\ \A i \in DOMAIN s.window :
              s.window[i] = Now(raw) \/ \E j \in DOMAIN t.window : s.window[i] = t.window[j]

\* The reading confirmed a reset: the value carries on.
Confirms(t, in, boundary, s) ==
    LET c == Candidate(t.cand, in)
        offset == NewOffset(t.last.raw, c)
    IN  /\ ~Follows(t, in, boundary) /\ Lower(t, in) /\ Confirmed(c)
        /\ s = [last |-> Now(in + offset), window |-> <<Now(in + offset)>>, offset |-> offset,
                cand |-> NoCandidate, dirty |-> TRUE]

Results(t, in, boundary, s) ==
    Refuses(t, in, boundary, s) \/ Accepts(t, in, boundary, s) \/ Confirms(t, in, boundary, s)

\* A suspicion rises from its first reading to its last, which is this one
\* (_track_counter_reset).
LEMMA Suspicion ==
    ASSUME NEW c \in Candidates, 0 <= c.first, c.first <= c.last, NEW in \in Nat
    PROVE  /\ Candidate(c, in) \in Candidates
           /\ 0 <= Candidate(c, in).first /\ Candidate(c, in).first <= in
           /\ Candidate(c, in).last = in
           /\ \/ Candidate(c, in).polls = 1
              \/ /\ Candidate(c, in).polls <= c.polls + 1
                 /\ c.polls > 0 /\ in >= c.last
                 /\ Plausible(in, c.last, c.lastAge, FALSE, FALSE)
<1>1. CASE c.polls > 0 /\ in >= c.last /\ Plausible(in, c.last, c.lastAge, FALSE, FALSE)
  <2> DEFINE n == Smaller(c.polls + 1, ResetMinPolls)
  <2>1. Candidate(c, in) = [polls |-> n, first |-> c.first, firstAge |-> c.firstAge,
                            last |-> in, lastAge |-> 0]
    BY <1>1 DEF Candidate
  <2>2. n \in Nat /\ n <= c.polls + 1
    BY LimitsAssumption DEF Smaller, Candidates
  <2> HIDE DEF n
  <2>3. /\ Candidate(c, in) \in Candidates
        /\ Candidate(c, in).first = c.first /\ Candidate(c, in).last = in
        /\ Candidate(c, in).polls = n
    <3>1. c.first \in Int /\ c.firstAge \in Nat
      BY DEF Candidates
    <3> QED  BY <3>1, <2>1, <2>2 DEF Candidates
  <2>4. c.first <= in
    <3>1. c.first \in Int /\ c.last \in Int /\ in >= c.last
      BY <1>1 DEF Candidates
    <3> QED  BY <3>1
  <2> QED  BY <1>1, <2>2, <2>3, <2>4, Zenon
<1>2. CASE ~(c.polls > 0 /\ in >= c.last /\ Plausible(in, c.last, c.lastAge, FALSE, FALSE))
  <2>1. Candidate(c, in) = [polls |-> 1, first |-> in, firstAge |-> 0, last |-> in, lastAge |-> 0]
    BY <1>2 DEF Candidate
  <2> QED  BY <2>1 DEF Candidates
<1> QED  BY <1>1, <1>2

\* A new sample at the end of the window.
LEMMA Sampled ==
    ASSUME NEW w \in Seq(Reading), NEW r \in Int
    PROVE  LET v == Recent(Append(w, Now(r)))
           IN  /\ v \in Seq(Reading) /\ Len(v) >= 1 /\ v[Len(v)] = Now(r)
               /\ v[1].age <= WindowSeconds
               /\ \A i \in DOMAIN v : v[i] = Now(r) \/ \E j \in DOMAIN w : v[i] = w[j]
<1> DEFINE a == Append(w, Now(r))
           v == Recent(a)
<1>1. Now(r) \in Reading /\ Now(r).age = 0
  BY DEF Now, Reading
<1>2. /\ a \in Seq(Reading) /\ a # <<>> /\ a[Len(a)] = Now(r)
      /\ \A j \in DOMAIN a : a[j] = Now(r) \/ \E k \in DOMAIN w : a[j] = w[k]
  BY <1>1
<1> HIDE DEF a
<1>3. /\ v \in Seq(Reading) /\ Len(v) >= 1 /\ v[Len(v)] = a[Len(a)]
      /\ v[1].age <= WindowSeconds
      /\ \A i \in DOMAIN v : \E j \in DOMAIN a : v[i] = a[j]
  BY <1>1, <1>2, RecentSamples
<1>4. \A i \in DOMAIN v : v[i] = Now(r) \/ \E j \in DOMAIN w : v[i] = w[j]
  BY <1>2, <1>3
<1> QED  BY <1>2, <1>3, <1>4 DEF a

\* A reading is refused, accepted, or confirms a reset; the record stays one.
LEMMA Outcome ==
    ASSUME NEW t, RecordOK(t), NEW in \in Nat, NEW boundary \in BOOLEAN
    PROVE  LET s == Sanitized(t, in, boundary)
           IN  /\ RecordOK(s)
               /\ Results(t, in, boundary, s)
<1> DEFINE s == Sanitized(t, in, boundary)
           raw == in + t.offset
           ok == Plausible(raw, t.last.raw, t.last.age, AllowDecrease, boundary)
           c == Candidate(t.cand, in)
           offset == NewOffset(t.last.raw, c)
           on == Now(in + offset)
           w == Recent(Append(t.window, Now(raw)))
<1>0. /\ t \in Trackers /\ t.last \in Reading /\ t.window \in Seq(Reading) /\ t.offset \in Int
      /\ t.cand \in Candidates /\ raw \in Int /\ t.last.raw \in Int /\ t.dirty \in BOOLEAN
      /\ 0 <= t.cand.first /\ t.cand.first <= t.cand.last /\ t.last.raw >= None
  BY DEF RecordOK, Trackers, Reading
<1>1. c \in Candidates /\ 0 <= c.first /\ c.first <= c.last /\ c.first <= in
  BY <1>0, Suspicion
<1>2. NoCandidate \in Candidates /\ NoCandidate.first = 0 /\ NoCandidate.last = 0
  BY DEF NoCandidate, Candidates
<1>3. /\ s = IF ~ok /\ Lower(t, in) /\ Confirmed(c)
               THEN [last |-> on, window |-> <<on>>, offset |-> offset,
                     cand |-> NoCandidate, dirty |-> TRUE]
             ELSE IF ~ok THEN [t EXCEPT !.cand = IF Lower(t, in) THEN c ELSE @]
             ELSE IF AllowDecrease /\ (boundary \/ raw <= NEAR_ZERO_RAW_UNITS)
               THEN [t EXCEPT !.last = Now(raw), !.window = <<Now(raw)>>, !.cand = NoCandidate,
                              !.dirty = @ \/ boundary \/ t.last.raw # raw]
             ELSE IF WindowImplausible(w)
               THEN [t EXCEPT !.window = <<>>, !.cand = NoCandidate]
               ELSE [t EXCEPT !.last = Now(raw), !.window = w, !.cand = NoCandidate,
                              !.dirty = @ \/ t.last.raw # raw]
  BY Zenon DEF Sanitized, Now, Lower
<1>4. CASE ~ok /\ Lower(t, in) /\ Confirmed(c)
  <2>1. s = [last |-> on, window |-> <<on>>, offset |-> offset, cand |-> NoCandidate,
             dirty |-> TRUE]
    BY <1>3, <1>4, Zenon
  <2>2. offset \in Int /\ in + offset >= None /\ on \in Reading /\ on.raw = in + offset
    <3>1. /\ offset = t.last.raw - c.first /\ c.first \in Int
          /\ t.last.raw >= -1 /\ None = -1
      BY <1>0, <1>1 DEF NewOffset, Candidates, None
    <3> HIDE DEF offset, c
    <3>2. offset \in Int /\ in + offset >= None
      BY <3>1, <1>0, <1>1
    <3> QED  BY <3>2 DEF Now, Reading
  <2>3. <<on>> \in Seq(Reading)
    BY <2>2
  <2>4. RecordOK(s)
    <3> HIDE DEF s, on, offset, c
    <3> QED  BY <2>1, <2>2, <2>3, <1>2 DEF RecordOK, Trackers
  <2>5. Confirms(t, in, boundary, s)
    BY <1>4, <2>1, Zenon DEF Confirms, Follows
  <2> QED  BY <2>4, <2>5 DEF Results
<1>5. CASE ~ok /\ ~(Lower(t, in) /\ Confirmed(c))
  <2>1. s = [t EXCEPT !.cand = IF Lower(t, in) THEN c ELSE @]
    BY <1>3, <1>5, Zenon
  <2> HIDE DEF s, c, raw, w
  <2>2. /\ s \in Trackers /\ s.last = t.last /\ s.offset = t.offset /\ s.dirty = t.dirty
        /\ s.window = t.window /\ s.cand = IF Lower(t, in) THEN c ELSE t.cand
    BY <2>1, <1>0, <1>1 DEF Trackers
  <2>3. RecordOK(s)
    BY <2>2, <1>0, <1>1 DEF RecordOK
  <2>4. Refuses(t, in, boundary, s)
    <3>1. ~Follows(t, in, boundary)
      BY <1>5 DEF Follows, raw
    <3> QED  BY <3>1, <1>5, <2>2 DEF Refuses, c
  <2> QED  BY <2>3, <2>4 DEF s, Results
<1>6. CASE ok /\ AllowDecrease /\ (boundary \/ raw <= NEAR_ZERO_RAW_UNITS)
  <2> DEFINE d == (t.dirty \/ boundary \/ t.last.raw # raw)
  <2>1. s = [t EXCEPT !.last = Now(raw), !.window = <<Now(raw)>>, !.cand = NoCandidate,
                      !.dirty = d]
    BY <1>3, <1>6, Zenon
  <2>2. d \in BOOLEAN /\ (~d => ~t.dirty /\ t.last.raw = raw)
    BY Zenon
  <2>3. Now(raw) \in Reading /\ <<Now(raw)>> \in Seq(Reading) /\ Now(raw).raw = raw
    BY <1>0 DEF Now, Reading
  <2>4. ok => raw >= None
    BY <1>0, LimitsAssumption DEF Plausible, None
  <2> HIDE DEF s, raw, w, d
  <2>5. /\ s \in Trackers /\ s.last = Now(raw) /\ s.offset = t.offset /\ s.dirty = d
        /\ s.window = <<Now(raw)>> /\ s.cand = NoCandidate
    BY <2>1, <2>2, <2>3, <1>0, <1>2 DEF Trackers
  <2>6. RecordOK(s)
    BY <2>3, <2>4, <2>5, <1>2, <1>6 DEF RecordOK
  <2>7. \A i \in DOMAIN s.window : s.window[i] = Now(raw)
    BY <2>5
  <2>8. Accepts(t, in, boundary, s)
    BY <1>6, <2>2, <2>5, <2>7, Zenon DEF Accepts, Follows, raw
  <2> QED  BY <2>6, <2>8 DEF s, Results
<1>7. CASE ok /\ ~(AllowDecrease /\ (boundary \/ raw <= NEAR_ZERO_RAW_UNITS)) /\ WindowImplausible(w)
  <2>1. s = [t EXCEPT !.window = <<>>, !.cand = NoCandidate]
    BY <1>3, <1>7, Zenon
  <2> HIDE DEF s, raw, w
  <2>2. /\ s \in Trackers /\ s.last = t.last /\ s.offset = t.offset /\ s.dirty = t.dirty
        /\ s.window = <<>> /\ s.cand = NoCandidate
    <3>1. <<>> \in Seq(Reading)
      OBVIOUS
    <3> QED  BY <3>1, <2>1, <1>0, <1>2 DEF Trackers
  <2>3. RecordOK(s)
    BY <2>2, <1>0, <1>2 DEF RecordOK
  <2>4. Refuses(t, in, boundary, s)
    BY <1>7, <2>2, Zenon DEF Refuses, raw, w
  <2> QED  BY <2>3, <2>4 DEF s, Results
<1>8. CASE ok /\ ~(AllowDecrease /\ (boundary \/ raw <= NEAR_ZERO_RAW_UNITS)) /\ ~WindowImplausible(w)
  <2> DEFINE d == (t.dirty \/ t.last.raw # raw)
  <2>1. s = [t EXCEPT !.last = Now(raw), !.window = w, !.cand = NoCandidate, !.dirty = d]
    BY <1>3, <1>8, Zenon
  <2>2. d \in BOOLEAN /\ (~d => ~t.dirty /\ t.last.raw = raw)
    BY Zenon
  <2>3. Now(raw) \in Reading /\ Now(raw).raw = raw
    BY <1>0 DEF Now, Reading
  <2>4. ok => raw >= None
    BY <1>0, LimitsAssumption DEF Plausible, None
  <2>5. /\ w \in Seq(Reading)
        /\ \A i \in DOMAIN w : w[i] = Now(raw) \/ \E j \in DOMAIN t.window : w[i] = t.window[j]
    BY <1>0, Sampled
  <2> HIDE DEF s, raw, w, d
  <2>6. /\ s \in Trackers /\ s.last = Now(raw) /\ s.offset = t.offset /\ s.dirty = d
        /\ s.window = w /\ s.cand = NoCandidate
    BY <2>1, <2>2, <2>3, <2>5, <1>0, <1>2 DEF Trackers
  <2>7. RecordOK(s)
    BY <2>3, <2>4, <2>6, <1>2, <1>8 DEF RecordOK
  <2>8. Accepts(t, in, boundary, s)
    <3>1. ~(AllowDecrease /\ boundary)
      BY <1>8, Zenon
    <3> QED  BY <1>8, <3>1, <2>2, <2>5, <2>6, Zenon DEF Accepts, Follows, raw
  <2> QED  BY <2>7, <2>8 DEF s, Results
<1> QED  BY <1>4, <1>5, <1>6, <1>7, <1>8, Zenon DEF Results

(***************************************************************************)
(* Type correctness.                                                       *)
(***************************************************************************)

\* Saved baselines are baselines.
LEMMA SavedShape ==
    ASSUME NEW t, RecordOK(t)
    PROVE  LET b == Saved(t.last.raw, t.last.age, t.offset)
           IN  /\ b \in Disks /\ b.raw >= None
               /\ b.raw = t.last.raw /\ b.age = t.last.age /\ b.offset = t.offset
BY DEF Saved, Disks, RecordOK, Trackers, Reading

\* dt seconds later the saved baseline is the same but for its age.
LEMMA DiskShape ==
    ASSUME disk \in Disks, NEW dt \in Gaps
    PROVE  /\ DiskAged(dt) \in Disks
           /\ DiskAged(dt).raw = disk.raw /\ DiskAged(dt).offset = disk.offset
           /\ disk.raw # None => DiskAged(dt).age = Older(disk.age, dt)
<1>1. disk.age \in Nat /\ Older(disk.age, dt) \in Nat
  BY OlderAge DEF Disks
<1> QED  BY <1>1 DEF DiskAged, Disks

\* What a poll with the reading in does (apply).
LEMMA Applied ==
    ASSUME MemoryOK, NEW dt \in Gaps, NEW in \in Nat, NEW boundary \in BOOLEAN,
           NEW honest \in BOOLEAN, Apply(dt, in, boundary, honest)
    PROVE  LET t == Aged(tracker, dt)
               s == tracker'
           IN  /\ RecordOK(t) /\ RecordOK(s)
               /\ Results(t, in, boundary, s)
               /\ disk' = DiskAged(dt)
               /\ reply' = s.last.raw
               /\ MemoryOK'
<1> DEFINE t == Aged(tracker, dt)
<1>1. RecordOK(tracker)
  BY DEF MemoryOK
<1>2. RecordOK(t)
  BY <1>1, AgedRecord
<1>3. tracker' = Sanitized(t, in, boundary)
  BY DEF Apply
<1>4. /\ RecordOK(tracker')
      /\ Results(t, in, boundary, tracker')
  <2> HIDE DEF t
  <2> QED  BY <1>2, <1>3, Outcome
<1>5. disk' = DiskAged(dt) /\ disk' \in Disks /\ disk'.raw >= None
  BY DiskShape DEF Apply, MemoryOK
<1>6. reply' = tracker'.last.raw /\ reply' \in Int
  <2>1. reply' = tracker'.last.raw
    BY DEF Apply
  <2> QED  BY <2>1, <1>4 DEF RecordOK, Trackers, Reading
<1>7. genuine' \in BOOLEAN /\ refused' \in BOOLEAN /\ saving' \in BOOLEAN
  BY Zenon DEF Apply
<1>8. MemoryOK'
  BY <1>4, <1>5, <1>6, <1>7 DEF MemoryOK, Apply
<1> QED  BY <1>2, <1>4, <1>5, <1>6, <1>8, Zenon

\* The charger counts up.
LEMMA Counted ==
    ASSUME ChargerOK, NEW dt \in Gaps, NEW p \in {0, HwPower}, Counts(dt, p)
    PROVE  /\ p * dt \in Nat /\ p * dt <= HwPower * dt /\ HwPower * dt \in Nat
           /\ energy' = energy + p * dt /\ energy' \in Nat /\ energy' <= MaxEnergy
           /\ life' \in Nat
           /\ key = "total" => life' = life + p * dt
<1>1. dt \in Nat /\ p \in Nat /\ HwPower \in Nat
  BY GapsAssumption, PowerAssumption
<1>2. p * dt \in Nat /\ p * dt <= HwPower * dt /\ HwPower * dt \in Nat
  BY <1>1, Scaled
<1> QED  BY <1>2 DEF Counts, ChargerOK

\* Polls that bring a reading: each is one of Applied, with these inputs.
LEMMA Readings ==
    ASSUME ShapeOK, Poll \/ PollBoundary \/ PollCorrupt
    PROVE  \E dt \in Gaps, in \in Nat, boundary \in BOOLEAN, honest \in BOOLEAN :
             /\ Apply(dt, in, boundary, honest)
             /\ ChargerOK'
             /\ honest => in = Register(energy')
             /\ ~honest => in \in Corrupt /\ bad' = bad + 1 /\ tracker.last.raw # None
             /\ \/ /\ ~boundary /\ energy <= energy' /\ energy' <= energy + HwPower * dt
                   /\ key = "total" => life' - energy' = life - energy
                \/ boundary /\ honest /\ key = "current" /\ energy' <= HwPower * dt
             /\ bad' >= bad
<1> USE DEF ShapeOK
<1>1. CASE Poll
  <2>1. PICK dt \in Gaps, p \in {0, HwPower} :
          /\ Counts(dt, p) /\ Apply(dt, Register(energy'), FALSE, TRUE)
          /\ UNCHANGED <<bad, resets>>
    BY <1>1 DEF Poll
  <2>2. /\ p * dt \in Nat /\ p * dt <= HwPower * dt /\ HwPower * dt \in Nat
        /\ energy' = energy + p * dt /\ energy' \in Nat /\ energy' <= MaxEnergy
        /\ life' \in Nat /\ (key = "total" => life' = life + p * dt)
    BY <2>1, Counted
  <2>3. Register(energy') \in Nat
    BY <2>2, Quanta
  <2>4. energy <= energy' /\ energy' <= energy + HwPower * dt
        /\ (key = "total" => life' - energy' = life - energy)
    BY <2>2 DEF ChargerOK
  <2>5. ChargerOK' /\ bad' >= bad
    BY <2>1, <2>2 DEF ChargerOK
  <2> QED  BY <2>1, <2>3, <2>4, <2>5
<1>2. CASE PollBoundary
  <2>1. PICK dt \in Gaps, p \in {0, HwPower} :
          /\ key = "current" /\ p * dt <= MaxEnergy /\ energy' = p * dt
          /\ Apply(dt, Register(energy'), TRUE, TRUE)
          /\ UNCHANGED <<bad, resets, life>>
    BY <1>2 DEF PollBoundary
  <2>2. dt \in Nat /\ p \in Nat /\ HwPower \in Nat
    BY GapsAssumption, PowerAssumption
  <2>3. p * dt \in Nat /\ p * dt <= HwPower * dt
    BY <2>2, Scaled
  <2>4. Register(energy') \in Nat
    BY <2>1, <2>3, Quanta
  <2>5. ChargerOK' /\ bad' >= bad
    BY <2>1, <2>3 DEF ChargerOK
  <2> QED  BY <2>1, <2>3, <2>4, <2>5
<1>3. CASE PollCorrupt
  <2>1. PICK dt \in Gaps, in \in Corrupt :
          /\ bad < MaxBad /\ bad' = bad + 1 /\ tracker.last.raw # None
          /\ Apply(dt, in, FALSE, in = Register(energy))
          /\ UNCHANGED <<energy, resets, life>>
    BY <1>3 DEF PollCorrupt
  <2>2. dt \in Nat /\ HwPower \in Nat /\ in \in Nat
    BY GapsAssumption, PowerAssumption, CorruptAssumption
  <2>3. 0 <= HwPower * dt /\ HwPower * dt \in Nat
    <3>1. 0 * dt <= HwPower * dt
      BY <2>2, Scaled
    <3> QED  BY <2>2, <3>1
  <2>4. ChargerOK' /\ bad' >= bad
    BY <2>1, BoundsAssumption DEF ChargerOK
  <2>5. energy <= energy' /\ energy' <= energy + HwPower * dt /\ life' - energy' = life - energy
    BY <2>1, <2>3 DEF ChargerOK
  <2>6. (in = Register(energy)) \in BOOLEAN
    BY Zenon
  <2> DEFINE h == in = Register(energy)
  <2>7. /\ Apply(dt, in, FALSE, h) /\ (h => in = Register(energy'))
        /\ (~h => in \in Corrupt /\ bad' = bad + 1 /\ tracker.last.raw # None)
    BY <2>1
  <2> HIDE DEF h
  <2> QED  BY <2>2, <2>4, <2>5, <2>6, <2>7, Zenon DEF h
<1> QED  BY <1>1, <1>2, <1>3

\* A save (export, async_save_energy).
LEMMA KeptShape ==
    ASSUME MemoryOK, NEW ok \in BOOLEAN, Keep(ok)
    PROVE  /\ RecordOK(tracker') /\ tracker'.last = tracker.last
           /\ tracker'.offset = tracker.offset /\ tracker'.window = tracker.window
           /\ tracker'.cand = tracker.cand /\ tracker'.dirty = ~ok
           /\ unsaved' = ~ok
           /\ disk' \in Disks /\ disk'.raw >= None
           /\ ok => /\ disk'.raw = tracker.last.raw /\ disk'.age = tracker.last.age
                    /\ disk'.offset = tracker.offset
           /\ ~ok => disk' = disk
<1>1. RecordOK(tracker) /\ tracker \in Trackers
  BY DEF MemoryOK, RecordOK
<1> DEFINE d == ~ok
<1>2. d \in BOOLEAN
  OBVIOUS
<1>3. tracker' = [tracker EXCEPT !.dirty = d]
  BY DEF Keep
<1>4. /\ tracker' \in Trackers /\ tracker'.last = tracker.last
      /\ tracker'.offset = tracker.offset /\ tracker'.window = tracker.window
      /\ tracker'.cand = tracker.cand /\ tracker'.dirty = d
  <2> HIDE DEF d
  <2> QED  BY <1>1, <1>2, <1>3 DEF Trackers
<1>5. RecordOK(tracker')
  BY <1>1, <1>4 DEF RecordOK
<1> DEFINE b == Saved(tracker.last.raw, tracker.last.age, tracker.offset)
<1>6. /\ b \in Disks /\ b.raw >= None
      /\ b.raw = tracker.last.raw /\ b.age = tracker.last.age /\ b.offset = tracker.offset
  BY <1>1, SavedShape
<1>7. disk' = IF ok THEN b ELSE disk
  BY DEF Keep
<1>8. unsaved' = ~ok
  BY DEF Keep
<1> HIDE DEF b, d
<1>9. CASE ok
  BY <1>4, <1>5, <1>6, <1>7, <1>8, <1>9, Zenon DEF d
<1>10. CASE ~ok
  <2>1. disk' = disk
    BY <1>7, <1>10
  <2> QED  BY <1>4, <1>5, <2>1, <1>8, <1>10, Zenon DEF d, MemoryOK
<1> QED  BY <1>9, <1>10

\* A restored baseline (restore).
LEMMA RestoredShape ==
    ASSUME NEW b \in Disks, b.raw >= None
    PROVE  /\ RecordOK(Restored(b))
           /\ Restored(b).last.raw = b.raw
           /\ b.raw # None => Restored(b).last.age = b.age /\ Restored(b).offset = b.offset
           /\ b.raw = None => Restored(b).offset = 0
           /\ Restored(b).window = <<>> /\ Restored(b).cand = NoCandidate
           /\ Restored(b).dirty = FALSE
<1>1. NoReading \in Reading /\ NoCandidate \in Candidates /\ NoReading.raw = None
      /\ NoCandidate.first = 0 /\ NoCandidate.last = 0
  BY DEF NoReading, Reading, NoCandidate, Candidates, None
<1>2. <<>> \in Seq(Reading)
  OBVIOUS
<1>3. /\ NewTracker \in Trackers /\ NewTracker.last = NoReading /\ NewTracker.offset = 0
      /\ NewTracker.window = <<>> /\ NewTracker.cand = NoCandidate /\ NewTracker.dirty = FALSE
  BY <1>1, <1>2 DEF NewTracker, Trackers
<1>4. CASE b.raw = None
  <2>1. Restored(b) = NewTracker
    BY <1>4 DEF Restored
  <2> QED  BY <1>1, <1>3, <1>4, <2>1 DEF RecordOK, None
<1>5. CASE b.raw # None
  <2> DEFINE r == [raw |-> b.raw, age |-> b.age]
  <2>1. r \in Reading /\ r.raw = b.raw /\ r.age = b.age /\ b.offset \in Int
    BY DEF Disks, Reading
  <2>2. Restored(b) = [NewTracker EXCEPT !.last = r, !.offset = b.offset]
    BY <1>5 DEF Restored
  <2> HIDE DEF r
  <2>3. /\ Restored(b) \in Trackers /\ Restored(b).last = r /\ Restored(b).offset = b.offset
        /\ Restored(b).window = <<>> /\ Restored(b).cand = NoCandidate
        /\ Restored(b).dirty = FALSE
    BY <1>3, <2>1, <2>2 DEF Trackers
  <2>4. RecordOK(Restored(b))
    BY <1>1, <2>1, <2>3 DEF RecordOK
  <2> QED  BY <1>5, <2>1, <2>3, <2>4
<1> QED  BY <1>4, <1>5

\* A restart: the baseline base it finds, and where it comes from.
Finds(base, lost, wrong) ==
    /\ base \in Disks /\ base.raw >= None
    /\ tracker' = Restored(base) /\ disk' = base
    /\ peak' = IF unsaved \/ lost THEN Smaller(peak, base.raw) ELSE peak
    /\ lost => base = Nothing
    /\ ~lost => \/ /\ base.raw = disk.raw /\ base.offset = disk.offset
                   /\ ~wrong => base.age = disk.age
                \/ /\ saving /\ tracker.dirty
                   /\ base.raw = tracker.last.raw /\ base.offset = tracker.offset
                   /\ ~wrong => base.age = tracker.last.age
    /\ genuine' => /\ genuine /\ ~wrong
                   /\ key = "current" /\ ~lost => base.raw = tracker.last.raw

LEMMA Found ==
    ASSUME MemoryOK, Restart
    PROVE  /\ \E base, lost, wrong : Finds(base, lost, wrong)
           /\ genuine' \in BOOLEAN /\ peak' \in Int
<1> DEFINE tb == Saved(tracker.last.raw, tracker.last.age, tracker.offset)
<1>1. PICK b \in {disk} \cup (IF saving /\ tracker.dirty THEN {tb} ELSE {}) :
        \E lost \in BOOLEAN, wrong \in BOOLEAN, age \in {0, b.age, MaxAge} :
          /\ lost  => "malformed" \in Faults
          /\ wrong => "clock" \in Faults
          /\ ~wrong => age = b.age
          /\ LET base == IF lost THEN Nothing ELSE [b EXCEPT !.age = age]
             IN  /\ tracker' = Restored(base)
                 /\ disk' = base
                 /\ peak' = IF unsaved \/ lost THEN Smaller(peak, base.raw) ELSE peak
          /\ genuine' = (genuine /\ ~wrong /\ (key = "current" => b.raw = tracker.last.raw))
  BY Zenon DEF Restart
<1>2. PICK lost \in BOOLEAN, wrong \in BOOLEAN, age \in {0, b.age, MaxAge} :
          /\ ~wrong => age = b.age
          /\ LET base == IF lost THEN Nothing ELSE [b EXCEPT !.age = age]
             IN  /\ tracker' = Restored(base)
                 /\ disk' = base
                 /\ peak' = IF unsaved \/ lost THEN Smaller(peak, base.raw) ELSE peak
          /\ genuine' = (genuine /\ ~wrong /\ (key = "current" => b.raw = tracker.last.raw))
  BY <1>1
<1> DEFINE aged == [b EXCEPT !.age = age]
           base == IF lost THEN Nothing ELSE aged
<1>3. /\ tb \in Disks /\ tb.raw >= None
      /\ tb.raw = tracker.last.raw /\ tb.age = tracker.last.age /\ tb.offset = tracker.offset
  BY SavedShape DEF MemoryOK
<1>4. disk \in Disks /\ disk.raw >= None
  BY DEF MemoryOK
<1> HIDE DEF tb
<1>5. b = disk \/ (saving /\ tracker.dirty /\ b = tb)
  BY <1>1
<1>6. b \in Disks /\ b.raw >= None
  BY <1>3, <1>4, <1>5
<1>7. age \in Nat
  BY <1>2, <1>6, BoundsAssumption DEF Disks
<1>8. aged \in Disks /\ aged.raw = b.raw /\ aged.offset = b.offset /\ aged.age = age
  BY <1>6, <1>7 DEF Disks
<1>9. Nothing \in Disks /\ Nothing.raw = None
  BY DEF Nothing, Saved, Disks, None
<1> HIDE DEF aged
<1>10. base \in Disks /\ base.raw >= None
  BY <1>6, <1>8, <1>9 DEF None
<1>11. /\ tracker' = Restored(base) /\ disk' = base
       /\ peak' = IF unsaved \/ lost THEN Smaller(peak, base.raw) ELSE peak
  BY <1>2 DEF aged
<1>12. ~lost => \/ /\ base.raw = disk.raw /\ base.offset = disk.offset
                   /\ ~wrong => base.age = disk.age
                \/ /\ saving /\ tracker.dirty
                   /\ base.raw = tracker.last.raw /\ base.offset = tracker.offset
                   /\ ~wrong => base.age = tracker.last.age
  BY <1>2, <1>3, <1>5, <1>8
<1>13. genuine' => /\ genuine /\ ~wrong
                   /\ key = "current" /\ ~lost => base.raw = tracker.last.raw
  BY <1>2, <1>8
<1>14. lost => base = Nothing
  OBVIOUS
<1>15. genuine' \in BOOLEAN
  BY <1>2, Zenon
<1> HIDE DEF base
<1>16. peak' \in Int
  BY <1>10, <1>11 DEF Disks, MemoryOK, Smaller
<1>17. Finds(base, lost, wrong)
  BY <1>10, <1>11, <1>12, <1>13, <1>14, Zenon DEF Finds
<1> QED  BY <1>15, <1>16, <1>17

\* A poll without a reading only lets time pass (apply, raw missing).
LEMMA MissingShape ==
    ASSUME ShapeOK, PollMissing
    PROVE  \E dt \in Gaps :
             /\ ShapeOK'
             /\ tracker' = Aged(tracker, dt) /\ disk' = DiskAged(dt)
             /\ reply' = tracker.last.raw
             /\ energy <= energy' /\ energy' <= energy + HwPower * dt
             /\ key = "total" => life' - energy' = life - energy
             /\ UNCHANGED <<key, shown, bad, unsaved, peak, genuine, refused>>
<1>1. PICK dt \in Gaps, p \in {0, HwPower} :
        /\ Counts(dt, p) /\ tracker' = Aged(tracker, dt) /\ disk' = DiskAged(dt)
        /\ saving' = TRUE /\ reply' = tracker.last.raw
        /\ UNCHANGED <<key, shown, bad, resets, unsaved, peak, genuine, refused>>
  BY DEF PollMissing
<1>2. MemoryOK /\ ChargerOK /\ RecordOK(tracker) /\ disk \in Disks /\ disk.raw >= None
  BY DEF ShapeOK, MemoryOK
<1>3. RecordOK(tracker')
  BY <1>1, <1>2, AgedRecord
<1>4. disk' \in Disks /\ disk'.raw >= None
  BY <1>1, <1>2, DiskShape
<1>5. tracker.last.raw \in Int
  BY <1>2 DEF RecordOK, Trackers, Reading
<1>6. MemoryOK'
  BY <1>1, <1>2, <1>3, <1>4, <1>5 DEF MemoryOK
<1>7. /\ p * dt \in Nat /\ p * dt <= HwPower * dt /\ HwPower * dt \in Nat
      /\ energy' = energy + p * dt /\ energy' \in Nat /\ energy' <= MaxEnergy
      /\ life' \in Nat /\ (key = "total" => life' = life + p * dt)
  BY <1>1, <1>2, Counted
<1>8. ChargerOK'
  BY <1>1, <1>2, <1>7 DEF ChargerOK
<1>9. energy <= energy' /\ energy' <= energy + HwPower * dt
      /\ (key = "total" => life' - energy' = life - energy)
  BY <1>2, <1>7 DEF ChargerOK
<1> QED  BY <1>1, <1>6, <1>8, <1>9 DEF ShapeOK

\* The end of a poll: the record is kept, is still dirty, or was not dirty.
LEMMA PersistShape ==
    ASSUME MemoryOK, Persist
    PROVE  /\ RecordOK(tracker') /\ tracker'.last = tracker.last
           /\ tracker'.offset = tracker.offset /\ tracker'.window = tracker.window
           /\ tracker'.cand = tracker.cand
           /\ disk' \in Disks /\ disk'.raw >= None
           /\ unsaved' \in BOOLEAN /\ peak' \in Int /\ peak' = Larger(peak, reply)
           /\ \/ /\ disk'.raw = tracker.last.raw /\ disk'.age = tracker.last.age
                 /\ disk'.offset = tracker.offset /\ ~tracker'.dirty /\ ~unsaved'
              \/ disk' = disk /\ tracker'.dirty /\ unsaved'
              \/ ~tracker.dirty /\ disk' = disk /\ tracker' = tracker /\ unsaved' = unsaved
<1>1. peak' \in Int /\ peak' = Larger(peak, reply)
  BY DEF MemoryOK, Persist, Larger
<1>2. CASE tracker.dirty
  <2>1. PICK ok \in BOOLEAN : Keep(ok)
    BY <1>2 DEF Persist
  <2>2. /\ RecordOK(tracker') /\ tracker'.last = tracker.last
        /\ tracker'.offset = tracker.offset /\ tracker'.window = tracker.window
        /\ tracker'.cand = tracker.cand /\ tracker'.dirty = ~ok
        /\ unsaved' = ~ok
        /\ disk' \in Disks /\ disk'.raw >= None
        /\ ok => /\ disk'.raw = tracker.last.raw /\ disk'.age = tracker.last.age
                 /\ disk'.offset = tracker.offset
        /\ ~ok => disk' = disk
    BY <2>1, KeptShape
  <2> QED  BY <1>1, <2>2, Zenon
<1>3. CASE ~tracker.dirty
  <2>1. disk' = disk /\ tracker' = tracker /\ unsaved' = unsaved
    BY <1>3 DEF Persist
  <2> QED  BY <1>1, <1>3, <2>1, Zenon DEF MemoryOK
<1> QED  BY <1>2, <1>3

LEMMA ShapeInit == Init => ShapeOK
<1> SUFFICES ASSUME Init PROVE ShapeOK
  OBVIOUS
<1>1. Nothing \in Disks /\ Nothing.raw = None
  BY DEF Nothing, Saved, Disks, None
<1>2. RecordOK(NewTracker)
  <2>1. Restored(Nothing) = NewTracker /\ Nothing.raw >= None
    BY <1>1 DEF Restored, None
  <2> QED  BY <1>1, <2>1, RestoredShape
<1>3. disk \in Disks /\ disk.raw >= None
  BY <1>1 DEF Init, None
<1>4. key \in Keys /\ RecordOK(tracker) /\ saving \in BOOLEAN /\ unsaved \in BOOLEAN
      /\ genuine \in BOOLEAN /\ refused \in BOOLEAN
  BY <1>2, Zenon DEF Init
<1>5. MemoryOK
  BY <1>3, <1>4 DEF Init, MemoryOK, None
<1>6. ChargerOK
  BY BoundsAssumption DEF Init, ChargerOK
<1> QED  BY <1>5, <1>6 DEF ShapeOK

LEMMA ShapeStep == ShapeOK /\ [Next]_vars => ShapeOK'
<1> SUFFICES ASSUME ShapeOK, [Next]_vars PROVE ShapeOK'
  OBVIOUS
<1>0. MemoryOK /\ ChargerOK
  BY DEF ShapeOK
<1>1. CASE Poll \/ PollBoundary \/ PollCorrupt
  <2>1. PICK dt \in Gaps, in \in Nat, boundary \in BOOLEAN, honest \in BOOLEAN :
          Apply(dt, in, boundary, honest) /\ ChargerOK'
    BY <1>1, Readings
  <2>2. MemoryOK'
    BY <1>0, <2>1, Applied
  <2> QED  BY <2>1, <2>2 DEF ShapeOK
<1>2. CASE PollMissing
  BY <1>2, MissingShape
<1>3. CASE CounterReset
  <2>1. /\ UNCHANGED <<key, tracker, saving, reply, shown, disk, bad, life, unsaved, peak, refused>>
        /\ resets' = resets + 1 /\ energy' = 0 /\ genuine' = FALSE
    BY <1>3 DEF CounterReset
  <2>2. ChargerOK'
    BY <1>0, <2>1, BoundsAssumption DEF ChargerOK
  <2>3. MemoryOK'
    BY <1>0, <2>1, Zenon DEF MemoryOK
  <2> QED  BY <2>2, <2>3 DEF ShapeOK
<1>4. CASE Persist
  <2>1. /\ RecordOK(tracker') /\ disk' \in Disks /\ disk'.raw >= None
        /\ unsaved' \in BOOLEAN /\ peak' \in Int
    BY <1>0, <1>4, PersistShape
  <2>2. /\ saving' = FALSE /\ reply' = None /\ shown' = reply
        /\ UNCHANGED <<key, charger, genuine, refused>>
    BY <1>4 DEF Persist
  <2>3. ChargerOK'
    BY <1>0, <2>2 DEF ChargerOK, charger
  <2>4. reply' \in Int /\ shown' \in Int
    BY <1>0, <2>2 DEF MemoryOK, None
  <2>5. MemoryOK'
    BY <1>0, <2>1, <2>2, <2>4, Zenon DEF MemoryOK
  <2> QED  BY <2>3, <2>5 DEF ShapeOK
<1>5. CASE Restart
  <2>1. PICK base, lost, wrong : Finds(base, lost, wrong)
    BY <1>0, <1>5, Found
  <2>2. RecordOK(tracker') /\ disk' \in Disks /\ disk'.raw >= None
    BY <2>1, RestoredShape DEF Finds
  <2>3. genuine' \in BOOLEAN /\ peak' \in Int
    BY <1>0, <1>5, Found
  <2>4. /\ saving' = FALSE /\ reply' = None /\ shown' = None
        /\ unsaved' = FALSE /\ refused' = FALSE /\ UNCHANGED <<key, charger>>
    BY <1>5 DEF Restart
  <2>5. ChargerOK'
    BY <1>0, <2>4 DEF ChargerOK, charger
  <2>6. reply' \in Int /\ shown' \in Int
    BY <2>4 DEF None
  <2>7. MemoryOK'
    BY <1>0, <2>2, <2>3, <2>4, <2>6, Zenon DEF MemoryOK
  <2> QED  BY <2>5, <2>7 DEF ShapeOK
<1>6. CASE UNCHANGED vars
  BY <1>6 DEF vars, charger, ShapeOK, MemoryOK, ChargerOK
<1> QED  BY <1>1, <1>2, <1>3, <1>4, <1>5, <1>6 DEF Next

(***************************************************************************)
(* The total never falls.                                                  *)
(***************************************************************************)

\* A reading never takes the last value of a total back.
LEMMA NeverBack ==
    ASSUME NEW t, RecordOK(t), NEW s, RecordOK(s), NEW in \in Nat, NEW boundary \in BOOLEAN,
           key = "total", Results(t, in, boundary, s)
    PROVE  /\ s.last.raw >= t.last.raw
           /\ ~s.dirty => ~t.dirty /\ s.last.raw = t.last.raw
<1>0. /\ ~AllowDecrease /\ t.last.raw \in Int /\ t.offset \in Int /\ t.last.raw >= None
      /\ t.cand \in Candidates /\ 0 <= t.cand.first /\ t.cand.first <= t.cand.last
  BY DEF AllowDecrease, RecordOK, Trackers, Reading
<1>1. CASE Refuses(t, in, boundary, s)
  BY <1>0, <1>1 DEF Refuses
<1>2. CASE Accepts(t, in, boundary, s)
  <2> DEFINE raw == in + t.offset
  <2>1. s.last = Now(raw) /\ s.last.raw = raw /\ (~s.dirty => ~t.dirty /\ t.last.raw = raw)
    BY <1>2 DEF Accepts, Now
  <2>2. Plausible(raw, t.last.raw, t.last.age, AllowDecrease, boundary)
    BY <1>2 DEF Accepts, Follows
  <2>3. raw >= t.last.raw
    BY <1>0, <2>2, LimitsAssumption DEF Plausible, None
  <2> QED  BY <2>1, <2>3
<1>3. CASE Confirms(t, in, boundary, s)
  <2> DEFINE c == Candidate(t.cand, in)
             offset == NewOffset(t.last.raw, c)
  <2>1. c.first \in Int /\ c.first <= in
    BY <1>0, Suspicion DEF Candidates
  <2>2. s = [last |-> Now(in + offset), window |-> <<Now(in + offset)>>, offset |-> offset,
             cand |-> NoCandidate, dirty |-> TRUE]
    BY <1>3 DEF Confirms
  <2>3. s.last = Now(in + offset) /\ s.dirty = TRUE
    BY <2>2
  <2>4. s.last.raw = in + (t.last.raw - c.first)
    BY <2>3 DEF Now, NewOffset
  <2> HIDE DEF c
  <2> QED  BY <1>0, <2>1, <2>3, <2>4
<1> QED  BY <1>1, <1>2, <1>3 DEF Results

LEMMA ForwardStep == ShapeOK /\ ForwardOK /\ [Next]_vars => ForwardOK'
<1> SUFFICES ASSUME ShapeOK, ForwardOK, [Next]_vars, key' = "total" PROVE
        /\ tracker'.last.raw >= peak'
        /\ saving' => reply' = tracker'.last.raw
        /\ ~tracker'.dirty => ~unsaved' /\ disk'.raw = tracker'.last.raw
        /\ ~saving' /\ ~unsaved' => ~tracker'.dirty
        /\ ~unsaved' => disk'.raw >= peak'
        /\ shown' # None => shown' >= peak'
  BY DEF ForwardOK
<1>0. MemoryOK /\ ChargerOK /\ RecordOK(tracker) /\ disk \in Disks /\ tracker.last.raw \in Int
      /\ peak \in Int /\ reply \in Int
  BY DEF ShapeOK, MemoryOK, RecordOK, Trackers, Reading
<1>k. key = "total"
  BY DEF Next, Poll, PollBoundary, PollCorrupt, PollMissing, CounterReset, Persist, Restart,
         Apply, vars
<1>f. /\ tracker.last.raw >= peak
      /\ saving => reply = tracker.last.raw
      /\ ~tracker.dirty => ~unsaved /\ disk.raw = tracker.last.raw
      /\ ~saving /\ ~unsaved => ~tracker.dirty
      /\ ~unsaved => disk.raw >= peak
      /\ shown # None => shown >= peak
  BY <1>k DEF ForwardOK
<1>1. CASE Poll \/ PollBoundary \/ PollCorrupt
  <2>1. PICK dt \in Gaps, in \in Nat, boundary \in BOOLEAN, honest \in BOOLEAN :
          Apply(dt, in, boundary, honest)
    BY <1>1, Readings
  <2> DEFINE t == Aged(tracker, dt)
  <2>2. /\ RecordOK(t) /\ t.last.raw = tracker.last.raw /\ t.dirty = tracker.dirty
    BY <1>0, AgedRecord
  <2>3. /\ RecordOK(tracker') /\ disk' = DiskAged(dt) /\ reply' = tracker'.last.raw
        /\ Results(t, in, boundary, tracker')
    BY <1>0, <2>1, Applied
  <2> HIDE DEF t
  <2>4. /\ tracker'.last.raw >= tracker.last.raw
        /\ ~tracker'.dirty => ~tracker.dirty /\ tracker'.last.raw = tracker.last.raw
    BY <1>k, <2>2, <2>3, NeverBack
  <2>5. disk'.raw = disk.raw
    BY <1>0, <2>3, DiskShape
  <2>6. saving' = TRUE /\ UNCHANGED <<shown, unsaved, peak>>
    BY <2>1 DEF Apply
  <2>7. tracker'.last.raw \in Int
    BY <2>3 DEF RecordOK, Trackers, Reading
  <2> QED  BY <1>0, <1>f, <2>3, <2>4, <2>5, <2>6, <2>7
<1>2. CASE PollMissing
  <2>1. PICK dt \in Gaps : /\ tracker' = Aged(tracker, dt) /\ disk' = DiskAged(dt)
                           /\ reply' = tracker.last.raw
                           /\ UNCHANGED <<key, shown, bad, unsaved, peak, genuine, refused>>
    BY <1>2, MissingShape
  <2>2. tracker'.last.raw = tracker.last.raw /\ tracker'.dirty = tracker.dirty
    BY <1>0, <2>1, AgedRecord
  <2>3. disk'.raw = disk.raw
    BY <1>0, <2>1, DiskShape
  <2>4. saving' = TRUE
    BY <1>2 DEF PollMissing
  <2> QED  BY <1>f, <2>1, <2>2, <2>3, <2>4
<1>3. CASE CounterReset
  BY <1>f, <1>3 DEF CounterReset
<1>4. CASE Persist
  <2>1. /\ tracker'.last = tracker.last /\ peak' = Larger(peak, reply)
        /\ \/ /\ disk'.raw = tracker.last.raw /\ disk'.age = tracker.last.age
              /\ disk'.offset = tracker.offset /\ ~tracker'.dirty /\ ~unsaved'
           \/ disk' = disk /\ tracker'.dirty /\ unsaved'
           \/ ~tracker.dirty /\ disk' = disk /\ tracker' = tracker /\ unsaved' = unsaved
    BY <1>0, <1>4, PersistShape
  <2>2. saving /\ saving' = FALSE /\ shown' = reply
    BY <1>4 DEF Persist
  <2>3. reply = tracker.last.raw /\ peak' = tracker.last.raw
    BY <1>0, <1>f, <2>1, <2>2 DEF Larger
  <2> QED  BY <1>0, <1>f, <2>1, <2>2, <2>3
<1>5. CASE Restart
  <2>1. PICK base, lost, wrong : Finds(base, lost, wrong)
    BY <1>0, <1>5, Found
  <2>2. base \in Disks /\ base.raw >= None /\ base.raw \in Int
    BY <2>1 DEF Finds, Disks
  <2>3. tracker'.last.raw = base.raw /\ tracker'.dirty = FALSE /\ disk' = base
    BY <2>1, <2>2, RestoredShape DEF Finds
  <2>4. saving' = FALSE /\ shown' = None /\ unsaved' = FALSE
    BY <1>5 DEF Restart
  <2>5. base.raw >= peak'
    <3>1. CASE unsaved \/ lost
      <4>1. peak' = Smaller(peak, base.raw)
        BY <2>1, <3>1 DEF Finds
      <4> QED  BY <4>1, <1>0, <2>2 DEF Smaller
    <3>2. CASE ~unsaved /\ ~lost
      <4>1. peak' = peak /\ (base.raw = disk.raw \/ base.raw = tracker.last.raw)
        BY <2>1, <3>2 DEF Finds
      <4> QED  BY <4>1, <1>0, <1>f, <3>2
    <3> QED  BY <3>1, <3>2
  <2> QED  BY <2>3, <2>4, <2>5
<1>6. CASE UNCHANGED vars
  BY <1>f, <1>6 DEF vars
<1> QED  BY <1>1, <1>2, <1>3, <1>4, <1>5, <1>6 DEF Next

LEMMA ForwardInit == Init => ForwardOK
<1> SUFFICES ASSUME Init PROVE ForwardOK
  OBVIOUS
<1>1. tracker.last.raw = None /\ tracker.dirty = FALSE /\ disk.raw = None
  BY DEF Init, NewTracker, NoReading, Nothing, Saved
<1> QED  BY <1>1 DEF Init, ForwardOK, None

\* The inductive invariant holds in every state.
THEOREM Invariance == Spec => []IInv
<1>1. Init => IInv
  BY ShapeInit, ForwardInit DEF IInv
<1>2. IInv /\ [Next]_vars => IInv'
  BY ShapeStep, ForwardStep DEF IInv
<1> QED  BY <1>1, <1>2, PTL DEF Spec

\* Every variable keeps its shape.
THEOREM TypeTheorem == Spec => []TypeOK
<1>1. ShapeOK => TypeOK
  BY DEF ShapeOK, MemoryOK, ChargerOK, RecordOK, Trackers, Disks, TypeOK
<1>2. IInv => TypeOK
  BY <1>1 DEF IInv
<1> QED  BY <1>2, Invariance, PTL

\* The lifetime total that is shown never goes backwards, over corrupt readings, lost
\* counters, failed saves and restarts.
THEOREM NeverFallsTheorem == Spec => []TotalNeverFalls
<1>1. IInv => TotalNeverFalls
  BY DEF IInv, ForwardOK, TotalNeverFalls
<1> QED  BY <1>1, Invariance, PTL

(***************************************************************************)
(* A real reading is never refused.                                        *)
(***************************************************************************)

\* What the charger can count in the time a, the guard allows.
LEMMA RateIsAllowed ==
    ASSUME Adequate, NEW a \in Nat
    PROVE  4 * (HwPower * a) <= 3 * MaxPowerTwice * a /\ HwPower * a \in Nat
<1>1. 4 * HwPower \in Int /\ 3 * MaxPowerTwice \in Int /\ HwPower \in Nat
  BY PowerIsNat, PowerAssumption
<1>2. (4 * HwPower) * a <= (3 * MaxPowerTwice) * a
  BY <1>1, Scaled DEF Adequate
<1>3. (4 * HwPower) * a = 4 * (HwPower * a)
  BY <1>1
<1>4. HwPower * a \in Nat
  BY <1>1
<1> QED  BY <1>2, <1>3, <1>4

\* What the charger can have counted since a reading is allowed.
LEMMA WindowAllows ==
    ASSUME Adequate, NEW e \in Nat, NEW r \in Int, NEW a \in Nat, a < MaxAge, HeldAt(e, r, a)
    PROVE  Within(Register(e) - r, a)
<1> DEFINE g == Register(e)
           m == 3 * MaxPowerTwice * a
           h == HwPower * a
<1>1. g \in Nat /\ QUANTUM * g <= e
  BY Quanta
<1>2. m \in Int
  BY PowerIsNat
<1>3. e < QUANTUM * (r + 1) + h /\ 4 * h <= m /\ h \in Nat
  BY RateIsAllowed DEF HeldAt
<1> HIDE DEF g, m, h
<1>4. 4 * QUANTUM * ((g - r) - 1) <= m
  BY <1>1, <1>2, <1>3 DEF QUANTUM
<1> QED  BY <1>4 DEF Within, m, g

\* The register may follow what it held.
LEMMA HeldIsAllowed ==
    ASSUME Adequate, NEW e \in Nat, e <= MaxEnergy, NEW r \in Nat, NEW a \in Nat,
           a <= MaxAge, HeldAt(e, r, a)
    PROVE  Register(e) >= r /\ Within(Register(e) - r, a)
<1> DEFINE g == Register(e)
<1>1. g \in Nat /\ QUANTUM * g <= e /\ e < QUANTUM * (g + 1)
  BY Quanta
<1>2. QUANTUM * r <= e
  BY DEF HeldAt
<1> HIDE DEF g
<1>3. g >= r
  BY <1>1, <1>2 DEF QUANTUM
<1> DEFINE m == 3 * MaxPowerTwice * a
<1>4. m \in Int
  BY PowerIsNat
<1>5. CASE a < MaxAge
  BY <1>3, <1>5, WindowAllows DEF g
<1>6. CASE a = MaxAge
  <2>1. 4 * MaxEnergy <= m /\ MaxEnergy \in Nat
    BY <1>6, BoundsAssumption DEF Adequate
  <2> HIDE DEF m
  <2>2. 4 * QUANTUM * ((g - r) - 1) <= m
    BY <1>1, <1>4, <2>1 DEF QUANTUM
  <2> QED  BY <1>3, <2>2 DEF Within, m, g
<1> QED  BY <1>5, <1>6, BoundsAssumption

\* The register holds what it held, and more has been counted since.
LEMMA HeldLater ==
    ASSUME NEW e \in Nat, NEW f \in Nat, NEW r \in Int, NEW a \in Nat, NEW dt \in Gaps,
           HeldAt(e, r, a), e <= f, f <= e + HwPower * dt
    PROVE  HeldAt(f, r, Older(a, dt))
<1>1. dt \in Nat /\ HwPower \in Nat
  BY GapsAssumption, PowerAssumption
<1>2. QUANTUM * r <= f
  BY DEF HeldAt, QUANTUM
<1>3. ASSUME Older(a, dt) < MaxAge PROVE f < QUANTUM * (r + 1) + HwPower * Older(a, dt)
  <2>1. Older(a, dt) = a + dt /\ a < MaxAge
    BY <1>1, <1>3, OlderAge, BoundsAssumption
  <2> DEFINE h == HwPower * a
             k == HwPower * dt
  <2>2. HwPower * (a + dt) = h + k /\ h \in Int /\ k \in Int
    BY <1>1
  <2>3. e < QUANTUM * (r + 1) + h /\ f <= e + k
    BY <2>1 DEF HeldAt
  <2> HIDE DEF h, k
  <2>4. f < QUANTUM * (r + 1) + (h + k)
    BY <2>2, <2>3 DEF QUANTUM
  <2> QED  BY <2>1, <2>2, <2>4
<1> QED  BY <1>2, <1>3 DEF HeldAt

\* What the register held a while ago it may have held before.
LEMMA HeldOlder ==
    ASSUME NEW e \in Nat, NEW r \in Int, NEW a \in Nat, NEW b \in Nat, a <= b, HeldAt(e, r, a)
    PROVE  HeldAt(e, r, b)
<1>1. HwPower \in Nat /\ MaxAge \in Nat
  BY PowerAssumption, BoundsAssumption
<1> DEFINE h == HwPower * a
           k == HwPower * b
<1>2. h \in Int /\ k \in Int /\ h <= k
  <2>1. a * HwPower <= b * HwPower
    BY <1>1, Scaled
  <2> QED  BY <1>1, <2>1
<1>3. QUANTUM * r <= e /\ (a < MaxAge => e < QUANTUM * (r + 1) + h)
  BY DEF HeldAt
<1> HIDE DEF h, k
<1>4. QUANTUM * r <= e /\ (b < MaxAge => e < QUANTUM * (r + 1) + k)
  BY <1>1, <1>2, <1>3 DEF QUANTUM
<1> QED  BY <1>4 DEF HeldAt, k

\* The register holds what was read just now.
LEMMA HeldNow ==
    ASSUME NEW e \in Nat
    PROVE  HeldAt(e, Register(e), 0)
<1>1. HwPower * 0 = 0
  BY PowerAssumption
<1>2. /\ Register(e) \in Nat
      /\ QUANTUM * Register(e) <= e /\ e < QUANTUM * (Register(e) + 1)
  BY Quanta
<1> QED  BY <1>1, <1>2 DEF HeldAt, QUANTUM

\* A genuine record stays one while time passes.
LEMMA RecordLater ==
    ASSUME NEW t, RecordOK(t), NEW e \in Nat, NEW f \in Nat, NEW dt \in Gaps,
           RecordHeld(t, e), e <= f, f <= e + HwPower * dt
    PROVE  RecordHeld(Aged(t, dt), f)
<1> DEFINE s == Aged(t, dt)
<1>1. /\ s.last.raw = t.last.raw
      /\ t.last.raw # None => s.last.age = Older(t.last.age, dt)
      /\ DOMAIN s.window = DOMAIN t.window
      /\ \A i \in DOMAIN t.window : /\ s.window[i].raw = t.window[i].raw
                                    /\ s.window[i].age = Older(t.window[i].age, dt)
  BY AgedRecord
<1>2. t.last \in Reading /\ \A i \in DOMAIN t.window : t.window[i] \in Reading
  BY DEF RecordOK, Trackers
<1> HIDE DEF s
<1>3. t.last.raw # None => HeldAt(f, s.last.raw, s.last.age)
  BY <1>1, <1>2, HeldLater DEF RecordHeld, Reading
<1>4. \A i \in DOMAIN s.window : HeldAt(f, s.window[i].raw, s.window[i].age)
  <2> SUFFICES ASSUME NEW i \in DOMAIN t.window
               PROVE  HeldAt(f, t.window[i].raw, Older(t.window[i].age, dt))
    BY <1>1
  <2>1. t.window[i].raw \in Int /\ t.window[i].age \in Nat
    BY <1>2 DEF Reading
  <2> QED  BY <2>1, HeldLater DEF RecordHeld
<1> QED  BY <1>1, <1>3, <1>4 DEF RecordHeld, s

\* A reading of the register is accepted, dt seconds after a genuine record or at the
\* start of a session.
LEMMA RealIsAccepted ==
    ASSUME Adequate, NEW u, RecordOK(u), u.offset = 0, NEW dt \in Gaps,
           NEW e \in Nat, e <= MaxEnergy, NEW boundary \in BOOLEAN, NEW s,
           \/ ~boundary /\ RecordHeld(Aged(u, dt), e)
           \/ boundary /\ AllowDecrease /\ e <= HwPower * dt,
           Results(Aged(u, dt), Register(e), boundary, s)
    PROVE  Accepts(Aged(u, dt), Register(e), boundary, s)
<1> DEFINE t == Aged(u, dt)
           g == Register(e)
<1>1. RecordOK(t) /\ t.offset = 0 /\ (t.last.raw # None => t.last.age = Older(u.last.age, dt))
      /\ u.last.raw = t.last.raw
  BY AgedRecord
<1>2. /\ t.last.raw \in Int /\ t.last.raw >= None /\ t.last.age \in Nat /\ t.window \in Seq(Reading)
      /\ u.last.age \in Nat
  BY <1>1 DEF RecordOK, Trackers, Reading
<1>3. t.last.raw # None => t.last.raw \in Nat /\ t.last.age <= MaxAge
  <2>1. Older(u.last.age, dt) <= MaxAge
    BY <1>2, OlderAge
  <2> HIDE DEF t
  <2> QED  BY <1>1, <1>2, <2>1 DEF None
<1>4. g \in Nat /\ QUANTUM * g <= e /\ e < QUANTUM * (g + 1)
  BY Quanta
<1>5. g \in 0..AbsMax
  <2> HIDE DEF g
  <2> QED  BY <1>4, LimitsAssumption, BoundsAssumption DEF QUANTUM, Adequate
<1> HIDE DEF t
<1>6. Larger(t.last.age, 1) \in Nat /\ t.last.age <= Larger(t.last.age, 1)
  BY <1>2 DEF Larger
<1>7. Follows(t, g, boundary)
  <2>1. CASE t.last.raw = None
    BY <1>1, <1>4, <1>5, <2>1 DEF Follows, Plausible
  <2>2. CASE t.last.raw # None /\ ~boundary
    <3>1. HeldAt(e, t.last.raw, t.last.age)
      BY <2>2 DEF RecordHeld, t
    <3>2. g >= t.last.raw /\ Within(g - t.last.raw, t.last.age)
      BY <3>1, <1>2, <1>3, <2>2, HeldIsAllowed
    <3>3. Within(g - t.last.raw, Larger(t.last.age, 1))
      BY <3>2, <1>2, <1>4, <1>6, WithinMore
    <3> QED  BY <1>1, <1>4, <1>5, <3>2, <3>3 DEF Follows, Plausible
  <2>3. CASE t.last.raw # None /\ boundary
    <3>1. AllowDecrease /\ e <= HwPower * dt
      BY <2>3
    <3>2. HeldAt(e, 0, t.last.age)
      <4>1. dt \in Nat /\ HwPower \in Nat
        BY GapsAssumption, PowerAssumption
      <4>2. 0 <= e /\ e <= 0 + HwPower * dt
        BY <3>1, <4>1
      <4>3. HeldAt(0, 0, u.last.age)
        <5>1. HwPower * u.last.age \in Nat
          BY <4>1, <1>2
        <5> QED  BY <5>1 DEF HeldAt, QUANTUM
      <4>4. HeldAt(e, 0, Older(u.last.age, dt))
        <5> DEFINE z == 0
        <5>1. z \in Nat /\ z \in Int /\ z <= e /\ e <= z + HwPower * dt /\ HeldAt(z, z, u.last.age)
          BY <4>2, <4>3
        <5> HIDE DEF z
        <5>2. HeldAt(e, z, Older(u.last.age, dt))
          BY <1>2, <5>1, HeldLater
        <5> QED  BY <5>2 DEF z
      <4> QED  BY <1>1, <2>3, <4>4
    <3>3. Within(g - 0, t.last.age)
      BY <3>2, <1>2, <1>3, <2>3, HeldIsAllowed
    <3>4. Within(g, Larger(t.last.age, 1)) /\ Within(g - t.last.raw, Larger(t.last.age, 1))
      <4>1. g <= g - 0 /\ g - t.last.raw <= g - 0 /\ g - t.last.raw \in Int /\ g - 0 \in Int
        BY <1>2, <1>3, <1>4, <2>3
      <4> QED  BY <4>1, <3>3, <1>2, <1>4, <1>6, WithinMore
    <3>5. g >= t.last.raw \/ g < t.last.raw
      BY <1>2, <1>4
    <3> QED  BY <1>1, <1>4, <1>5, <2>3, <3>1, <3>4, <3>5 DEF Follows, Plausible
  <2> QED  BY <2>1, <2>2, <2>3
<1>8. ~Confirms(t, g, boundary, s)
  BY <1>7 DEF Confirms
<1>9. ~Refuses(t, g, boundary, s)
  <2> SUFFICES ASSUME ~boundary,
                      WindowImplausible(Recent(Append(t.window, Now(g))))
               PROVE  FALSE
    BY <1>1, <1>4, <1>7 DEF Refuses
  <2> DEFINE w == Recent(Append(t.window, Now(g)))
  <2>1. /\ w \in Seq(Reading) /\ Len(w) >= 1 /\ w[Len(w)] = Now(g)
        /\ w[1].age <= WindowSeconds
        /\ \A i \in DOMAIN w : w[i] = Now(g) \/ \E j \in DOMAIN t.window : w[i] = t.window[j]
    <3>1. g \in Int
      BY <1>4
    <3> HIDE DEF g
    <3> QED  BY <1>2, <3>1, Sampled
  <2>2. WindowImplausible(w)
    OBVIOUS
  <2> HIDE DEF w
  <2>3. w[Len(w)].age = 0 /\ w[Len(w)].raw = g /\ w[1] \in Reading /\ 1 \in DOMAIN w
    BY <2>1 DEF Now
  <2>4. w[1].raw \in Int /\ w[1].age \in Nat /\ w[1].age < MaxAge
    BY <2>1, <2>3, LimitsAssumption, BoundsAssumption DEF Reading, Adequate
  <2>5. w[1].age > 0
    BY <2>2, <2>3, <2>4 DEF WindowImplausible
  <2>6. HeldAt(e, w[1].raw, w[1].age)
    <3>1. PICK j \in DOMAIN t.window : w[1] = t.window[j]
      BY <2>1, <2>3, <2>5 DEF Now
    <3> QED  BY <3>1 DEF RecordHeld, t
  <2>7. Within(g - w[1].raw, w[1].age)
    BY <2>4, <2>6, <1>4, WindowAllows
  <2> QED  BY <2>2, <2>3, <2>4, <2>7 DEF WindowImplausible
<1> QED  BY <1>8, <1>9 DEF Results, t

LEMMA GenuineStep ==
    ASSUME Adequate, ShapeOK, ShapeOK', GenuineOK, [Next]_vars
    PROVE  GenuineOK'
<1> SUFFICES ASSUME genuine' PROVE
        /\ ~refused'
        /\ tracker'.offset = 0 /\ disk'.offset = 0
        /\ RecordHeld(tracker', energy')
        /\ key' = "total" /\ disk'.raw # None => HeldAt(energy', disk'.raw, disk'.age)
        /\ tracker'.last.raw # None /\ disk'.raw # None => disk'.age >= tracker'.last.age
  BY DEF GenuineOK
<1>0. /\ MemoryOK /\ ChargerOK /\ RecordOK(tracker) /\ disk \in Disks
      /\ energy \in Nat /\ energy' \in Nat /\ energy' <= MaxEnergy
      /\ disk.raw \in Int /\ disk.age \in Nat /\ tracker.last.age \in Nat
  BY DEF ShapeOK, MemoryOK, ChargerOK, RecordOK, Disks, Trackers, Reading
<1>g. genuine => /\ ~refused
                 /\ tracker.offset = 0 /\ disk.offset = 0
                 /\ RecordHeld(tracker, energy)
                 /\ key = "total" /\ disk.raw # None => HeldAt(energy, disk.raw, disk.age)
                 /\ tracker.last.raw # None /\ disk.raw # None => disk.age >= tracker.last.age
  BY DEF GenuineOK
\* The saved baseline ages with the record, and holds what the register held.
<1>d. ASSUME NEW dt \in Gaps, disk' = DiskAged(dt), genuine, key' = key,
             (energy <= energy' /\ energy' <= energy + HwPower * dt) \/ key = "current"
      PROVE  /\ disk'.offset = 0 /\ disk'.raw = disk.raw
             /\ key' = "total" /\ disk'.raw # None => HeldAt(energy', disk'.raw, disk'.age)
             /\ disk.raw # None => disk'.age \in Nat
             /\ tracker.last.raw # None /\ disk.raw # None
                  => disk'.age >= Aged(tracker, dt).last.age
  <2>1. /\ disk'.raw = disk.raw /\ disk'.offset = disk.offset
        /\ disk.raw # None => disk'.age = Older(disk.age, dt)
    BY <1>0, <1>d, DiskShape
  <2>2. tracker.last.raw # None => Aged(tracker, dt).last.age = Older(tracker.last.age, dt)
    BY <1>0, AgedRecord
  <2>3. Older(disk.age, dt) \in Nat /\ Older(tracker.last.age, dt) \in Nat
    BY <1>0, OlderAge
  <2>4. disk.age >= tracker.last.age => Older(disk.age, dt) >= Older(tracker.last.age, dt)
    BY <1>0, <2>3, OlderKeepsOrder
  <2>5. key' = "total" /\ disk.raw # None => HeldAt(energy', disk.raw, Older(disk.age, dt))
    BY <1>0, <1>d, <1>g, HeldLater
  <2> QED  BY <1>d, <1>g, <2>1, <2>2, <2>3, <2>4, <2>5
<1>1. CASE Poll \/ PollBoundary \/ PollCorrupt
  <2>1. PICK dt \in Gaps, in \in Nat, boundary \in BOOLEAN, honest \in BOOLEAN :
          /\ Apply(dt, in, boundary, honest)
          /\ honest => in = Register(energy')
          /\ \/ ~boundary /\ energy <= energy' /\ energy' <= energy + HwPower * dt
             \/ boundary /\ honest /\ key = "current" /\ energy' <= HwPower * dt
    BY <1>1, Readings
  <2> DEFINE t == Aged(tracker, dt)
             accepted == tracker'.last.age = 0 /\ tracker'.last.raw = in + tracker'.offset
  <2>2. /\ RecordOK(t) /\ t.last.raw = tracker.last.raw /\ t.offset = tracker.offset
        /\ tracker.last.raw # None => t.last.age = Older(tracker.last.age, dt)
    BY <1>0, AgedRecord
  <2>3. /\ RecordOK(tracker') /\ disk' = DiskAged(dt) /\ Results(t, in, boundary, tracker')
    BY <1>0, <2>1, Applied
  <2>4. /\ genuine' = (genuine /\ (honest \/ ~accepted)) /\ refused' = (honest /\ ~accepted)
        /\ key' = key
    BY <2>1 DEF Apply
  <2>5. genuine
    BY <2>4
  <2>6. /\ disk'.offset = 0 /\ disk'.raw = disk.raw
        /\ key' = "total" /\ disk'.raw # None => HeldAt(energy', disk'.raw, disk'.age)
        /\ disk.raw # None => disk'.age \in Nat
        /\ tracker.last.raw # None /\ disk.raw # None => disk'.age >= t.last.age
    BY <1>d, <2>1, <2>3, <2>4, <2>5
  <2>7. ~boundary => RecordHeld(t, energy')
    BY <1>0, <1>g, <2>1, <2>5, RecordLater
  <2>8. CASE honest
    <3>1. boundary => AllowDecrease
      BY <2>1 DEF AllowDecrease
    <3>2. Results(t, Register(energy'), boundary, tracker')
      BY <2>1, <2>3, <2>8
    <3>3. Accepts(t, Register(energy'), boundary, tracker')
      BY <1>0, <1>g, <2>1, <2>5, <2>7, <3>1, <3>2, RealIsAccepted
    <3> DEFINE n == Now(Register(energy') + t.offset)
    <3>4. /\ t.offset = 0 /\ tracker'.offset = 0 /\ Register(energy') + t.offset = in
          /\ tracker'.last = n /\ n.raw = in /\ n.age = 0
          /\ boundary => tracker'.window = <<n>>
          /\ \A i \in DOMAIN tracker'.window :
               tracker'.window[i] = n \/ \E j \in DOMAIN t.window : tracker'.window[i] = t.window[j]
      <4>1. t.offset = 0
        BY <1>g, <2>2, <2>5
      <4>2. Register(energy') + t.offset = in
        BY <4>1, <2>1, <2>8
      <4>3. n.raw = Register(energy') + t.offset /\ n.age = 0
        BY DEF Now
      <4> QED  BY <3>1, <3>3, <4>1, <4>2, <4>3 DEF Accepts
    <3> HIDE DEF n, t
    <3>5. accepted
      BY <3>4
    <3>6. HeldAt(energy', in, 0)
      BY <1>0, <2>1, <2>8, HeldNow
    <3>7. RecordHeld(tracker', energy')
      <4>1. CASE boundary
        <5>1. \A i \in DOMAIN tracker'.window : tracker'.window[i] = n
          BY <3>4, <4>1
        <5> QED  BY <3>4, <3>6, <5>1 DEF RecordHeld
      <4>2. CASE ~boundary
        BY <2>7, <3>4, <3>6, <4>2 DEF RecordHeld
      <4> QED  BY <4>1, <4>2
    <3>8. disk'.raw # None => disk'.age >= tracker'.last.age
      BY <2>6, <3>4
    <3> QED  BY <2>4, <2>6, <3>4, <3>5, <3>7, <3>8
  <2>9. CASE ~honest
    <3>1. ~accepted /\ ~refused' /\ ~boundary
      BY <2>1, <2>4, <2>9
    <3>2. ~Accepts(t, in, boundary, tracker')
      <4> SUFFICES ASSUME Accepts(t, in, boundary, tracker') PROVE FALSE
        OBVIOUS
      <4>1. tracker'.last = Now(in + t.offset) /\ tracker'.offset = t.offset
        BY DEF Accepts
      <4> QED  BY <3>1, <4>1 DEF Now
    <3>3. ~Confirms(t, in, boundary, tracker')
      <4> SUFFICES ASSUME Confirms(t, in, boundary, tracker') PROVE FALSE
        OBVIOUS
      <4> DEFINE o == NewOffset(t.last.raw, Candidate(t.cand, in))
      <4>1. tracker' = [last |-> Now(in + o), window |-> <<Now(in + o)>>, offset |-> o,
                        cand |-> NoCandidate, dirty |-> TRUE]
        BY DEF Confirms
      <4>2. tracker'.last = Now(in + o) /\ tracker'.offset = o
        BY <4>1
      <4> QED  BY <3>1, <4>2 DEF Now
    <3>4. Refuses(t, in, boundary, tracker')
      BY <2>3, <3>2, <3>3 DEF Results
    <3>5. tracker'.last = t.last /\ tracker'.offset = t.offset /\ tracker'.window \in {t.window, <<>>}
      BY <3>4 DEF Refuses
    <3> HIDE DEF t
    <3>6. RecordHeld(tracker', energy')
      BY <2>7, <3>1, <3>5 DEF RecordHeld
    <3> QED  BY <1>g, <2>2, <2>5, <2>6, <3>1, <3>5, <3>6
  <2> QED  BY <2>8, <2>9
<1>2. CASE PollMissing
  <2>1. PICK dt \in Gaps : /\ tracker' = Aged(tracker, dt) /\ disk' = DiskAged(dt)
                           /\ energy <= energy' /\ energy' <= energy + HwPower * dt
                           /\ UNCHANGED <<key, shown, bad, unsaved, peak, genuine, refused>>
    BY <1>2, MissingShape
  <2>2. /\ tracker'.last.raw = tracker.last.raw /\ tracker'.offset = tracker.offset
    BY <1>0, <2>1, AgedRecord
  <2>3. RecordHeld(tracker', energy')
    BY <1>0, <1>g, <2>1, RecordLater
  <2>4. /\ disk'.offset = 0 /\ disk'.raw = disk.raw
        /\ key' = "total" /\ disk'.raw # None => HeldAt(energy', disk'.raw, disk'.age)
        /\ tracker.last.raw # None /\ disk.raw # None => disk'.age >= tracker'.last.age
    BY <1>d, <2>1
  <2> QED  BY <1>g, <2>1, <2>2, <2>3, <2>4
<1>3. CASE CounterReset
  BY <1>3 DEF CounterReset
<1>4. CASE Persist
  <2>1. /\ tracker'.last = tracker.last /\ tracker'.offset = tracker.offset
        /\ tracker'.window = tracker.window
        /\ \/ /\ disk'.raw = tracker.last.raw /\ disk'.age = tracker.last.age
              /\ disk'.offset = tracker.offset
           \/ disk' = disk
    BY <1>0, <1>4, PersistShape
  <2>2. UNCHANGED <<key, energy, genuine, refused>>
    BY <1>4 DEF Persist, charger
  <2>3. RecordHeld(tracker', energy')
    BY <1>g, <2>1, <2>2 DEF RecordHeld
  <2>4. key' = "total" /\ disk'.raw # None => HeldAt(energy', disk'.raw, disk'.age)
    BY <1>g, <2>1, <2>2 DEF RecordHeld
  <2> QED  BY <1>0, <1>g, <2>1, <2>2, <2>3, <2>4
<1>5. CASE Restart
  <2>1. PICK base, lost, wrong : Finds(base, lost, wrong)
    BY <1>0, <1>5, Found
  <2>2. base \in Disks /\ base.raw >= None /\ base.raw \in Int /\ base.age \in Nat
    BY <2>1 DEF Finds, Disks
  <2>3. /\ tracker'.last.raw = base.raw /\ disk' = base /\ tracker'.window = <<>>
        /\ base.raw # None => tracker'.last.age = base.age /\ tracker'.offset = base.offset
        /\ base.raw = None => tracker'.offset = 0
    BY <2>1, <2>2, RestoredShape DEF Finds
  <2>4. /\ refused' = FALSE /\ UNCHANGED <<key, energy>>
    BY <1>5 DEF Restart, charger
  <2>5. genuine /\ ~wrong /\ (key = "current" /\ ~lost => base.raw = tracker.last.raw)
    BY <2>1 DEF Finds
  <2>6. base.offset = 0 /\ (base.raw # None => HeldAt(energy, base.raw, base.age))
    <3>1. CASE lost
      <4>1. base = Nothing
        BY <2>1, <3>1 DEF Finds
      <4> QED  BY <4>1 DEF Nothing, Saved
    <3>2. CASE /\ base.raw = disk.raw /\ base.offset = disk.offset /\ base.age = disk.age
               /\ ~lost
      <4>1. CASE key = "total"
        BY <1>g, <2>5, <3>2, <4>1
      <4>2. CASE key = "current" /\ base.raw # None
        <5>1. base.raw = tracker.last.raw /\ HeldAt(energy, base.raw, tracker.last.age)
          BY <1>g, <2>5, <3>2, <4>2 DEF RecordHeld
        <5>2. base.age >= tracker.last.age
          BY <1>g, <2>5, <3>2, <4>2, <5>1
        <5>3. HeldAt(energy, base.raw, base.age)
          BY <1>0, <2>2, <5>1, <5>2, HeldOlder
        <5> QED  BY <1>g, <2>5, <3>2, <5>3
      <4>3. key = "total" \/ key = "current"
        BY <1>0 DEF MemoryOK, Keys
      <4> QED  BY <1>g, <2>5, <3>2, <4>1, <4>2, <4>3
    <3>3. CASE /\ base.raw = tracker.last.raw /\ base.offset = tracker.offset
               /\ base.age = tracker.last.age /\ ~lost
      BY <1>g, <2>5, <3>3 DEF RecordHeld
    <3> QED  BY <2>1, <2>5, <3>1, <3>2, <3>3 DEF Finds
  <2>7. RecordHeld(tracker', energy')
    BY <2>3, <2>4, <2>6 DEF RecordHeld
  <2> QED  BY <2>2, <2>3, <2>4, <2>6, <2>7
<1>6. CASE UNCHANGED vars
  BY <1>g, <1>6 DEF vars, charger
<1> QED  BY <1>1, <1>2, <1>3, <1>4, <1>5, <1>6 DEF Next

\* When the guard's limits suit the charger, a reading of its register is never refused
\* as long as only such readings were accepted: not after any gap between polls, nor
\* after failed saves and restarts with an older baseline.
THEOREM RealReadingTheorem == ASSUME Adequate PROVE Spec => []RealReadingIsAccepted
<1>1. Init => GenuineOK
  <2> SUFFICES ASSUME Init PROVE GenuineOK
    OBVIOUS
  <2>1. /\ tracker.last.raw = None /\ tracker.offset = 0 /\ tracker.window = <<>>
        /\ disk.raw = None /\ disk.offset = 0 /\ refused = FALSE
    BY DEF Init, NewTracker, NoReading, Nothing, Saved
  <2> QED  BY <2>1 DEF GenuineOK, RecordHeld
<1>2. IInv /\ IInv' /\ GenuineOK /\ [Next]_vars => GenuineOK'
  BY GenuineStep DEF IInv
<1>3. GenuineOK => RealReadingIsAccepted
  BY DEF GenuineOK, RealReadingIsAccepted
<1> QED  BY <1>1, <1>2, <1>3, Invariance, PTL DEF Spec

(***************************************************************************)
(* The total is never ahead of the energy delivered.                       *)
(***************************************************************************)

\* A covered value does not count more than was delivered.
LEMMA CoveredIsDelivered ==
    ASSUME NEW raw \in Int, raw >= None, NEW offset \in Int, NEW e \in Nat, NEW lost \in Nat,
           Covered(raw, offset, e, lost)
    PROVE  QUANTUM * raw <= e + lost
BY DEF Covered, QUANTUM, None

\* A reading that the charger can have counted.
Good(in, e) == in <= Top /\ QUANTUM * in <= e

\* A far reading follows nothing the register can have held.
LEMMA FarIsRefused ==
    ASSUME NEW in \in Nat, ~Within(in - Top, Larger(MaxAge, 1)),
           NEW r \in Int, r <= Top, NEW a \in Nat, a <= MaxAge
    PROVE  ~Within(in - r, Larger(a, 1))
<1>1. Top \in Int /\ Larger(a, 1) \in Nat /\ Larger(MaxAge, 1) \in Nat
      /\ Larger(a, 1) <= Larger(MaxAge, 1)
  BY Quanta, BoundsAssumption DEF Top, Larger
<1>2. in - Top <= in - r /\ in - r \in Int /\ in - Top \in Int
  BY <1>1
<1> QED  BY <1>1, <1>2, WithinMore

\* The register's reading is good.
LEMMA GoodSelf ==
    ASSUME NEW e \in Nat, e <= MaxEnergy
    PROVE  Good(Register(e), e)
<1>1. Top \in Nat /\ MaxEnergy < QUANTUM * (Top + 1)
  BY Quanta, BoundsAssumption DEF Top
<1>2. Register(e) \in Nat /\ QUANTUM * Register(e) <= e
  BY Quanta
<1> QED  BY <1>1, <1>2, BoundsAssumption DEF Good, QUANTUM

\* A reading is good, or a corrupt one that nothing can have reached.
LEMMA GoodOrFar ==
    ASSUME CorruptIsFar, NEW e \in Nat, e <= MaxEnergy, NEW in \in Nat,
           in = Register(e) \/ in \in Corrupt
    PROVE  Good(in, e) \/ (in \in Corrupt /\ ~Within(in - Top, Larger(MaxAge, 1)))
<1>1. /\ Top \in Nat /\ MaxEnergy < QUANTUM * (Top + 1)
  BY Quanta, BoundsAssumption DEF Top
<1>2. CASE in = Register(e)
  BY <1>2, GoodSelf
<1>3. CASE in = 0
  BY <1>1, <1>3 DEF Good, QUANTUM
<1>4. CASE in \in Corrupt /\ in # 0
  BY <1>4 DEF CorruptIsFar
<1> QED  BY <1>2, <1>3, <1>4

\* A lower reading is one of few corrupt ones, or follows a reset and is good.
LEMMA LowerReading ==
    ASSUME CorruptIsFar, NEW t, RecordOK(t), NEW e \in Nat, e <= MaxEnergy, NEW lost \in Nat,
           NEW in \in Nat, NEW n \in Nat, NEW m \in Nat,
           in = Register(e) \/ (in \in Corrupt /\ m = n + 1),
           Covered(t.last.raw, t.offset, e, lost), Suspects(t, n, lost),
           t.cand.polls # 0 => t.cand.lastAge <= MaxAge,
           Lower(t, in)
    PROVE  \/ Candidate(t.cand, in).polls <= m
           \/ QUANTUM * t.last.raw <= lost /\ Good(in, e)
<1> DEFINE c == Candidate(t.cand, in)
<1>0. /\ t.last.raw \in Int /\ t.offset \in Int /\ t.cand \in Candidates
      /\ 0 <= t.cand.first /\ t.cand.first <= t.cand.last
      /\ t.cand.polls \in Nat /\ t.cand.last \in Int /\ t.cand.lastAge \in Nat
  BY DEF RecordOK, Trackers, Reading, Candidates
<1>1. t.last.raw # None /\ in + t.offset < t.last.raw
  BY DEF Lower
<1>2. CASE in = Register(e)
  <2>1. e < QUANTUM * (in + 1)
    BY <1>2, Quanta
  <2>2. ~(QUANTUM * (t.last.raw - t.offset) <= e)
    BY <1>0, <1>1, <2>1 DEF QUANTUM
  <2>3. QUANTUM * t.last.raw <= lost
    BY <1>1, <2>2 DEF Covered
  <2>4. Good(in, e)
    BY <1>2, GoodSelf
  <2> QED  BY <2>3, <2>4
<1>3. CASE in \in Corrupt /\ m = n + 1
  <2>1. \/ c.polls = 1
        \/ /\ c.polls <= t.cand.polls + 1
           /\ t.cand.polls > 0 /\ in >= t.cand.last
           /\ Plausible(in, t.cand.last, t.cand.lastAge, FALSE, FALSE)
    BY <1>0, Suspicion
  <2>2. c.polls \in Nat
    BY <1>0, Suspicion DEF Candidates
  <2> HIDE DEF c
  <2>3. CASE c.polls = 1
    BY <1>3, <2>3 DEF c
  <2>4. CASE c.polls # 1 /\ t.cand.polls <= n
    <3>1. c.polls <= t.cand.polls + 1
      BY <2>1, <2>4
    <3>2. c.polls <= m
      BY <1>0, <1>3, <2>2, <2>4, <3>1
    <3> QED  BY <3>2 DEF c
  <2>5. CASE c.polls # 1 /\ ~(t.cand.polls <= n)
    <3>1. QUANTUM * t.last.raw <= lost /\ t.cand.last <= Top
      BY <2>5 DEF Suspects
    <3>2. Within(in - t.cand.last, Larger(t.cand.lastAge, 1))
      <4>1. in >= t.cand.last /\ Plausible(in, t.cand.last, t.cand.lastAge, FALSE, FALSE)
        BY <2>1, <2>5
      <4>2. t.cand.last # None
        BY <1>0 DEF None, Candidates
      <4> QED  BY <1>0, <4>1, <4>2 DEF Plausible
    <3>3. t.cand.lastAge <= MaxAge
      BY <2>1, <2>5
    <3>4. ~(~Within(in - Top, Larger(MaxAge, 1)))
      BY <1>0, <3>1, <3>2, <3>3, FarIsRefused
    <3>5. Good(in, e)
      BY <1>3, <3>4, GoodOrFar
    <3> QED  BY <3>1, <3>5
  <2> QED  BY <2>3, <2>4, <2>5
<1> QED  BY <1>2, <1>3

LEMMA AheadApplied ==
    ASSUME CorruptIsFar, MaxBad < ResetMinPolls, key = "total",
           NEW t, RecordOK(t), NEW s, RecordOK(s), NEW e \in Nat, e <= MaxEnergy,
           NEW lost \in Nat, NEW in \in Nat, NEW boundary \in BOOLEAN,
           NEW n \in Nat, NEW m \in Nat, n <= m, m <= MaxBad,
           in = Register(e) \/ (in \in Corrupt /\ m = n + 1 /\ t.last.raw # None),
           Covered(t.last.raw, t.offset, e, lost), Suspects(t, n, lost),
           t.last.raw # None => t.last.age <= MaxAge,
           t.cand.polls # 0 => t.cand.lastAge <= MaxAge,
           Results(t, in, boundary, s)
    PROVE  Covered(s.last.raw, s.offset, e, lost) /\ Suspects(s, m, lost)
<1>0. /\ t.last.raw \in Int /\ t.offset \in Int /\ t.cand \in Candidates /\ t.last.age \in Nat
      /\ t.last.raw >= None /\ t.cand.polls \in Nat
      /\ 0 <= t.cand.first /\ t.cand.first <= t.cand.last
  BY DEF RecordOK, Trackers, Reading, Candidates
<1>n. NoCandidate.polls = 0
  BY DEF NoCandidate
<1> DEFINE c == Candidate(t.cand, in)
<1>c. c.first \in Int /\ 0 <= c.first /\ c.last = in /\ c.polls \in Nat
  BY <1>0, Suspicion DEF Candidates
<1>l. Lower(t, in) => c.polls <= m \/ (QUANTUM * t.last.raw <= lost /\ Good(in, e))
  BY LowerReading
<1> HIDE DEF c
<1>1. CASE Refuses(t, in, boundary, s)
  <2>1. s.last = t.last /\ s.offset = t.offset
    BY <1>1 DEF Refuses
  <2>2. CASE s.cand \in {t.cand, NoCandidate}
    BY <1>0, <1>n, <2>1, <2>2 DEF Suspects
  <2>3. CASE Lower(t, in) /\ s.cand = c
    BY <1>c, <1>l, <2>1, <2>3 DEF Suspects, Good
  <2>4. s.cand \in {t.cand, NoCandidate} \/ (Lower(t, in) /\ s.cand = c)
    BY <1>1 DEF Refuses, c
  <2> QED  BY <2>1, <2>2, <2>3, <2>4
<1>2. CASE Accepts(t, in, boundary, s)
  <2>1. /\ s.last = Now(in + t.offset) /\ s.last.raw = in + t.offset /\ s.offset = t.offset
        /\ s.cand = NoCandidate
    BY <1>2 DEF Accepts, Now
  <2>2. Good(in, e)
    <3>1. CASE in = Register(e)
      BY <3>1, GoodSelf
    <3>2. CASE in \in Corrupt /\ t.last.raw # None
      <4>1. t.last.raw - t.offset <= Top /\ t.last.raw - t.offset \in Int
        BY <1>0, <3>2 DEF Covered
      <4>2. Within((in + t.offset) - t.last.raw, Larger(t.last.age, 1))
        BY <1>2, <3>2 DEF Accepts, Follows, Plausible, AllowDecrease
      <4>3. (in + t.offset) - t.last.raw = in - (t.last.raw - t.offset)
        BY <1>0
      <4>4. ~(~Within(in - Top, Larger(MaxAge, 1)))
        BY <1>0, <3>2, <4>1, <4>2, <4>3, FarIsRefused
      <4> QED  BY <3>2, <4>4, GoodOrFar
    <3> QED  BY <3>1, <3>2
  <2>3. QUANTUM * t.offset <= lost
    BY DEF Covered
  <2>4. (in + t.offset) - t.offset = in
    BY <1>0
  <2>5. Covered(s.last.raw, s.offset, e, lost)
    BY <2>1, <2>2, <2>3, <2>4 DEF Covered, Good
  <2> QED  BY <1>n, <2>1, <2>5 DEF Suspects
<1>3. CASE Confirms(t, in, boundary, s)
  <2> DEFINE o == t.last.raw - c.first
  <2>1. s = [last |-> Now(in + o), window |-> <<Now(in + o)>>, offset |-> o,
             cand |-> NoCandidate, dirty |-> TRUE]
    BY <1>3 DEF Confirms, NewOffset, c
  <2>2. s.last = Now(in + o) /\ s.offset = o /\ s.cand = NoCandidate
    BY <2>1
  <2>3. s.last.raw = in + o
    BY <2>2 DEF Now
  <2>4. Lower(t, in) /\ Confirmed(c)
    BY <1>3 DEF Confirms, c
  <2>5. ~(c.polls <= m)
    BY <1>c, <2>4, LimitsAssumption, BoundsAssumption DEF Confirmed
  <2>6. QUANTUM * t.last.raw <= lost /\ Good(in, e)
    BY <1>l, <2>4, <2>5
  <2>7. o \in Int /\ QUANTUM * o <= lost /\ (in + o) - o = in
    BY <1>0, <1>c, <2>6 DEF QUANTUM
  <2> HIDE DEF o
  <2>8. Covered(s.last.raw, s.offset, e, lost)
    BY <2>2, <2>3, <2>6, <2>7 DEF Covered, Good
  <2> QED  BY <1>n, <2>2, <2>8 DEF Suspects
<1> QED  BY <1>1, <1>2, <1>3 DEF Results

\* While nothing more is lost, the charger delivers what it counts.
LEMMA SameLoss ==
    ASSUME NEW a \in Nat, NEW b \in Nat, NEW c \in Nat, NEW d \in Nat, c - d = a - b, b <= d
    PROVE  a <= c /\ d + (a - b) = c
OBVIOUS

LEMMA AheadStep ==
    ASSUME CorruptIsFar, MaxBad < ResetMinPolls, ShapeOK, ShapeOK', AheadOK, [Next]_vars
    PROVE  AheadOK'
<1> SUFFICES ASSUME key' = "total" PROVE
        /\ 0 <= Lost'
        /\ Covered(tracker'.last.raw, tracker'.offset, energy', Lost')
        /\ Covered(disk'.raw, disk'.offset, energy', Lost')
        /\ Suspects(tracker', bad', Lost')
        /\ saving' => QUANTUM * reply' <= life'
        /\ QUANTUM * shown' <= life'
  BY DEF AheadOK
<1>k. key = "total"
  BY DEF Next, Poll, PollBoundary, PollCorrupt, PollMissing, CounterReset, Persist, Restart,
         Apply, vars
<1>0. /\ MemoryOK /\ ChargerOK /\ RecordOK(tracker) /\ disk \in Disks
      /\ RecordOK(tracker') /\ bad' <= MaxBad /\ bad \in Nat /\ bad' \in Nat
      /\ energy \in Nat /\ life \in Nat /\ energy' \in Nat /\ energy' <= MaxEnergy /\ life' \in Nat
      /\ tracker.last.raw \in Int /\ tracker.last.raw >= None /\ tracker.offset \in Int
      /\ disk.raw \in Int /\ disk.raw >= None /\ disk.offset \in Int
      /\ tracker'.last.raw \in Int /\ tracker'.last.raw >= None /\ tracker'.offset \in Int
      /\ shown \in Int /\ reply \in Int
  BY DEF ShapeOK, MemoryOK, ChargerOK, RecordOK, Disks, Trackers, Reading
<1>a. /\ 0 <= Lost
      /\ Covered(tracker.last.raw, tracker.offset, energy, Lost)
      /\ Covered(disk.raw, disk.offset, energy, Lost)
      /\ Suspects(tracker, bad, Lost)
      /\ saving => QUANTUM * reply <= life
      /\ QUANTUM * shown <= life
  BY <1>k DEF AheadOK
<1>b. Lost \in Nat /\ energy + Lost = life
  BY <1>0, <1>a DEF Lost
<1>u. /\ QUANTUM * tracker.last.raw <= life
      /\ QUANTUM * disk.raw <= life
  <2>1. QUANTUM * tracker.last.raw <= energy + Lost
    BY <1>0, <1>a, <1>b, CoveredIsDelivered
  <2>2. QUANTUM * disk.raw <= energy + Lost
    BY <1>0, <1>a, <1>b, CoveredIsDelivered
  <2> QED  BY <2>1, <2>2, <1>b
\* What is covered stays so while the charger counts.
<1>m. ASSUME NEW raw \in Int, NEW offset \in Int, Covered(raw, offset, energy, Lost),
             energy <= energy', Lost' = Lost
      PROVE  Covered(raw, offset, energy', Lost')
  BY <1>0, <1>b, <1>m DEF Covered, QUANTUM
<1>1. CASE Poll \/ PollBoundary \/ PollCorrupt
  <2>1. PICK dt \in Gaps, in \in Nat, boundary \in BOOLEAN, honest \in BOOLEAN :
          /\ Apply(dt, in, boundary, honest)
          /\ honest => in = Register(energy')
          /\ ~honest => in \in Corrupt /\ bad' = bad + 1 /\ tracker.last.raw # None
          /\ \/ /\ ~boundary /\ energy <= energy'
                /\ key = "total" => life' - energy' = life - energy
             \/ key = "current"
          /\ bad' >= bad
    BY <1>1, Readings
  <2> DEFINE t == Aged(tracker, dt)
  <2>2. energy <= energy' /\ Lost' = Lost
    BY <1>k, <2>1 DEF Lost
  <2>3. /\ RecordOK(t) /\ t.last.raw = tracker.last.raw /\ t.offset = tracker.offset
        /\ tracker.last.raw # None => t.last.age = Older(tracker.last.age, dt)
        /\ t.cand.polls = tracker.cand.polls /\ t.cand.last = tracker.cand.last
        /\ t.cand.polls # 0 => t.cand.lastAge <= MaxAge
    BY <1>0, AgedRecord
  <2>4. t.last.raw # None => t.last.age <= MaxAge
    <3>1. Older(tracker.last.age, dt) <= MaxAge
      BY <1>0, OlderAge DEF RecordOK, Trackers, Reading
    <3> HIDE DEF t
    <3> QED  BY <2>3, <3>1
  <2>5. /\ disk' = DiskAged(dt) /\ reply' = tracker'.last.raw /\ Results(t, in, boundary, tracker')
    BY <1>0, <2>1, Applied
  <2> HIDE DEF t
  <2>6. Covered(t.last.raw, t.offset, energy', Lost) /\ Suspects(t, bad, Lost)
    BY <1>0, <1>a, <1>m, <2>2, <2>3 DEF Suspects
  <2>7. in = Register(energy') \/ (in \in Corrupt /\ bad' = bad + 1 /\ t.last.raw # None)
    BY <2>1, <2>3
  <2>8. Covered(tracker'.last.raw, tracker'.offset, energy', Lost) /\ Suspects(tracker', bad', Lost)
    <3>1. bad <= bad'
      BY <1>0, <2>1
    <3>2. t.cand.polls # 0 => t.cand.lastAge <= MaxAge
      BY <2>3
    <3>3. RecordOK(t) /\ Results(t, in, boundary, tracker')
      BY <2>3, <2>5
    <3> QED  BY <1>0, <1>b, <1>k, <2>4, <2>6, <2>7, <3>1, <3>2, <3>3, AheadApplied
  <2>9. disk'.raw = disk.raw /\ disk'.offset = disk.offset
    BY <1>0, <2>5, DiskShape
  <2>10. Covered(disk'.raw, disk'.offset, energy', Lost')
    BY <1>0, <1>a, <1>m, <2>2, <2>9
  <2>11. energy' + Lost = life' /\ life <= life'
    <3>1. life' - energy' = life - energy
      BY <2>2 DEF Lost
    <3>2. energy \in Nat /\ life \in Nat /\ energy' \in Nat /\ life' \in Nat
      BY <1>0
    <3>3. life <= life' /\ energy' + (life - energy) = life'
      BY <2>2, <3>1, <3>2, SameLoss
    <3> QED  BY <3>3 DEF Lost
  <2>12. QUANTUM * reply' <= life'
    <3>1. QUANTUM * tracker'.last.raw <= energy' + Lost
      BY <1>0, <1>b, <2>8, CoveredIsDelivered
    <3> QED  BY <2>5, <2>11, <3>1
  <2>13. shown' = shown
    BY <2>1 DEF Apply
  <2>14. QUANTUM * shown' <= life'
    BY <1>0, <1>a, <2>11, <2>13 DEF QUANTUM
  <2> QED  BY <1>a, <2>2, <2>8, <2>10, <2>12, <2>14
<1>2. CASE PollMissing
  <2>1. PICK dt \in Gaps : /\ tracker' = Aged(tracker, dt) /\ disk' = DiskAged(dt)
                           /\ reply' = tracker.last.raw
                           /\ energy <= energy' /\ energy' <= energy + HwPower * dt
                           /\ key = "total" => life' - energy' = life - energy
                           /\ UNCHANGED <<key, shown, bad, unsaved, peak, genuine, refused>>
    BY <1>2, MissingShape
  <2>2. energy <= energy' /\ Lost' = Lost
    BY <1>k, <2>1 DEF Lost
  <2>3. /\ tracker'.last.raw = tracker.last.raw /\ tracker'.offset = tracker.offset
        /\ tracker'.cand.polls = tracker.cand.polls /\ tracker'.cand.last = tracker.cand.last
    BY <1>0, <2>1, AgedRecord
  <2>4. disk'.raw = disk.raw /\ disk'.offset = disk.offset
    BY <1>0, <2>1, DiskShape
  <2>5. /\ Covered(tracker'.last.raw, tracker'.offset, energy', Lost')
        /\ Covered(disk'.raw, disk'.offset, energy', Lost')
    BY <1>0, <1>a, <1>m, <2>2, <2>3, <2>4
  <2>6. Suspects(tracker', bad', Lost')
    BY <1>a, <2>1, <2>2, <2>3 DEF Suspects
  <2>7. life <= life'
    <3>1. life' - energy' = life - energy
      BY <2>2 DEF Lost
    <3>2. energy \in Nat /\ life \in Nat /\ energy' \in Nat /\ life' \in Nat
      BY <1>0
    <3>3. life <= life' /\ energy' + (life - energy) = life'
      BY <2>2, <3>1, <3>2, SameLoss
    <3> QED  BY <3>3 DEF Lost
  <2>8. QUANTUM * reply' <= life' /\ QUANTUM * shown' <= life'
    BY <1>0, <1>a, <1>u, <2>1, <2>7 DEF QUANTUM
  <2> QED  BY <1>a, <2>2, <2>5, <2>6, <2>8
<1>3. CASE CounterReset
  <2>1. /\ UNCHANGED <<key, tracker, saving, reply, shown, disk, bad, life>> /\ energy' = 0
    BY <1>3 DEF CounterReset
  <2>2. Lost' = life /\ Lost <= life
    BY <1>0, <1>b, <2>1 DEF Lost
  <2>3. /\ Covered(tracker'.last.raw, tracker'.offset, energy', Lost')
        /\ Covered(disk'.raw, disk'.offset, energy', Lost')
    BY <1>0, <1>a, <1>b, <1>u, <2>1, <2>2 DEF Covered, QUANTUM
  <2>4. Suspects(tracker', bad', Lost')
    BY <1>a, <1>u, <2>1, <2>2 DEF Suspects
  <2> QED  BY <1>0, <1>a, <2>1, <2>2, <2>3, <2>4
<1>4. CASE Persist
  <2>1. /\ tracker'.last = tracker.last /\ tracker'.offset = tracker.offset
        /\ tracker'.cand = tracker.cand
        /\ \/ /\ disk'.raw = tracker.last.raw /\ disk'.offset = tracker.offset
           \/ disk' = disk
    BY <1>0, <1>4, PersistShape
  <2>2. UNCHANGED <<key, energy, life, bad>> /\ saving /\ saving' = FALSE /\ shown' = reply
    BY <1>4 DEF Persist, charger
  <2>3. Lost' = Lost
    BY <2>2 DEF Lost
  <2>4. /\ Covered(tracker'.last.raw, tracker'.offset, energy', Lost')
        /\ Covered(disk'.raw, disk'.offset, energy', Lost')
    BY <1>a, <2>1, <2>2, <2>3
  <2>5. Suspects(tracker', bad', Lost')
    BY <1>a, <2>1, <2>2, <2>3 DEF Suspects
  <2> QED  BY <1>a, <2>2, <2>3, <2>4, <2>5
<1>5. CASE Restart
  <2>1. PICK base, lost, wrong : Finds(base, lost, wrong)
    BY <1>0, <1>5, Found
  <2>2. base \in Disks /\ base.raw >= None /\ base.raw \in Int /\ base.offset \in Int
    BY <2>1 DEF Finds, Disks
  <2>3. /\ tracker'.last.raw = base.raw /\ disk' = base /\ tracker'.cand = NoCandidate
        /\ base.raw # None => tracker'.offset = base.offset
        /\ base.raw = None => tracker'.offset = 0
    BY <2>1, <2>2, RestoredShape DEF Finds
  <2>4. /\ UNCHANGED <<key, energy, life, bad>> /\ saving' = FALSE /\ shown' = None
    BY <1>5 DEF Restart, charger
  <2>5. Lost' = Lost
    BY <2>4 DEF Lost
  <2>6. Covered(base.raw, base.offset, energy, Lost)
    <3>1. CASE lost
      <4>1. base.raw = None /\ base.offset = 0
        BY <2>1, <3>1 DEF Finds, Nothing, Saved
      <4> QED  BY <1>b, <4>1 DEF Covered, QUANTUM
    <3>2. CASE ~lost
      <4>1. \/ base.raw = disk.raw /\ base.offset = disk.offset
            \/ base.raw = tracker.last.raw /\ base.offset = tracker.offset
        BY <2>1, <3>2 DEF Finds
      <4> QED  BY <1>a, <4>1
    <3> QED  BY <3>1, <3>2
  <2>7. Covered(tracker'.last.raw, tracker'.offset, energy', Lost')
    <3>1. CASE base.raw # None
      BY <2>3, <2>4, <2>5, <2>6, <3>1
    <3>2. CASE base.raw = None
      BY <1>b, <2>3, <2>5, <3>2 DEF Covered, QUANTUM
    <3> QED  BY <3>1, <3>2
  <2>8. Suspects(tracker', bad', Lost')
    BY <1>0, <2>3 DEF Suspects, NoCandidate
  <2>9. QUANTUM * shown' <= life'
    BY <1>0, <2>4 DEF QUANTUM, None
  <2> QED  BY <1>a, <2>3, <2>4, <2>5, <2>6, <2>7, <2>8, <2>9
<1>6. CASE UNCHANGED vars
  BY <1>a, <1>6 DEF vars, charger, Lost
<1> QED  BY <1>1, <1>2, <1>3, <1>4, <1>5, <1>6 DEF Next

\* The lifetime total is never ahead of the energy delivered, when corrupt readings are
\* zero or out of reach: no such reading gets in, and too few of them never look like a
\* reset that would leave a wrong offset behind.
THEOREM NeverAheadTheorem == ASSUME CorruptIsFar PROVE Spec => []TotalIsNeverAhead
<1>1. CASE MaxBad < ResetMinPolls
  <2>1. Init => AheadOK
    <3> SUFFICES ASSUME Init PROVE AheadOK
      OBVIOUS
    <3>1. /\ tracker.last.raw = None /\ tracker.offset = 0 /\ tracker.cand.polls = 0
          /\ disk.raw = None /\ disk.offset = 0
      BY DEF Init, NewTracker, NoReading, Nothing, Saved, NoCandidate
    <3> QED  BY <3>1 DEF Init, AheadOK, Covered, Suspects, Lost, QUANTUM, None
  <2>2. IInv /\ IInv' /\ AheadOK /\ [Next]_vars => AheadOK'
    BY <1>1, AheadStep DEF IInv
  <2>3. AheadOK => TotalIsNeverAhead
    BY DEF AheadOK, TotalIsNeverAhead
  <2> QED  BY <2>1, <2>2, <2>3, Invariance, PTL DEF Spec
<1>2. CASE ~(MaxBad < ResetMinPolls)
  <2>1. TotalIsNeverAhead
    BY <1>2 DEF TotalIsNeverAhead
  <2> QED  BY <2>1, PTL
<1> QED  BY <1>1, <1>2
=============================================================================
