------------------------------ MODULE Session ------------------------------
(***************************************************************************)
(* The logical charging session (session.py, SessionTracker) as operators  *)
(* on its record.                                                          *)
(*                                                                         *)
(* Abstractions                                                            *)
(*  - A session is its number: start is the one running (0: none), last    *)
(*    the one completed last, in place of start times and records.         *)
(*  - A status is its class: "charging" (2, 3, 9, or 4 while drawing),     *)
(*    "paused" (4, not drawing), "off" (known inactive ones), "invalid".   *)
(*  - Duration, power and the per-session counter are left out.            *)
(***************************************************************************)
EXTENDS Integers

CONSTANT MaxSessions  \* bound: sessions that are told apart

ASSUME SessionsAssumption == MaxSessions \in Nat

None == -1            \* Python None
Statuses == {"charging", "paused", "off", "invalid"}
SESSION_ACTIVE_STATUSES == {"charging", "paused"}
Sessions == 1..MaxSessions

\* SessionTracker.__init__.  fired counts the calls of on_complete per session.
NewSession == [start |-> 0, total |-> None, rearm |-> FALSE, prev |-> "none", last |-> 0,
               dirty |-> FALSE, fired |-> [n \in Sessions |-> 0]]

Active(s) == s.start # 0

PauseObserved(status) == status = "paused"

\* Mutant: the new session is not marked as unsaved.
StartClean(s, n, total) == [s EXCEPT !.start = n, !.total = total]

\* _start of the session n; total is what the lifetime counter shows.
Start(s, n, total) == [s EXCEPT !.start = n, !.total = total, !.dirty = TRUE]

\* Mutant: the start is emptied the way it is in the saved record.
CompleteToNone(s) == [s EXCEPT !.start = None, !.total = None, !.last = s.start, !.dirty = TRUE]

\* Mutant: the session completed is not left.
CompleteAndStay(s) ==
    [s EXCEPT !.last = s.start, !.dirty = TRUE, !.fired[s.start] = @ + 1]

\* _complete, with its call of _fire_session_completed.
Complete(s) ==
    [s EXCEPT !.start = 0, !.total = None, !.last = s.start, !.dirty = TRUE,
              !.fired[s.start] = @ + 1]

\* end_for_user_pause
EndForUserPause(s) == IF Active(s) THEN [Complete(s) EXCEPT !.rearm = TRUE] ELSE s

\* Whether update would start a session.
Starts(s, status, intent) ==
    /\ status \in SESSION_ACTIVE_STATUSES
    /\ ~Active(s) /\ ~s.rearm
    /\ intent \/ ~PauseObserved(status)

\* update on a fresh observation; n is the number a new session gets.
Update(s, status, intent, total, n) ==
    LET armed == IF intent THEN [s EXCEPT !.rearm = FALSE] ELSE s
        left  == [armed EXCEPT !.rearm = FALSE, !.dirty = @ \/ armed.rearm]
        moved == IF status = "off" THEN IF Active(left) THEN Complete(left) ELSE left
                 ELSE IF Starts(armed, status, intent) THEN Start(armed, n, total)
                 ELSE armed
        ended == IF ~intent /\ PauseObserved(status) THEN EndForUserPause(moved) ELSE moved
    IN  IF status = "invalid" THEN armed
        ELSE [ended EXCEPT !.prev = status, !.dirty = @ \/ s.prev # status]

\* Mutant: the flag that asks for re-arming is not saved.
ExportWithoutRearm(s) ==
    [start |-> s.start, total |-> s.total, rearm |-> FALSE, prev |-> s.prev, last |-> s.last]

\* export, with rearm_required, which is saved beside it.
Export(s) == [start |-> s.start, total |-> s.total, rearm |-> s.rearm, prev |-> s.prev,
              last |-> s.last]

Exports == [start : 0..MaxSessions, total : Int, rearm : BOOLEAN, prev : Statuses \cup {"none"},
            last : 0..MaxSessions]

\* restore of the record x: a session without its start total is dropped.
Restore(x, fired) ==
    [NewSession EXCEPT !.start = IF x.total = None THEN 0 ELSE x.start, !.total = x.total,
                       !.rearm = x.rearm, !.prev = x.prev, !.last = x.last, !.fired = fired]

IsSession(s) ==
    /\ s = [start |-> s.start, total |-> s.total, rearm |-> s.rearm, prev |-> s.prev,
            last |-> s.last, dirty |-> s.dirty, fired |-> s.fired]
    /\ Export(s) \in Exports /\ s.dirty \in BOOLEAN /\ s.fired \in [Sessions -> Nat]
=============================================================================
