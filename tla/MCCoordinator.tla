--------------------------- MODULE MCCoordinator ---------------------------
(***************************************************************************)
(* Small instances of Coordinator for TLC, and what the comments of the    *)
(* code say that TLC refutes (README, section 3).                          *)
(***************************************************************************)
EXTENDS Coordinator

\* session.py: a session "completes exactly once", over restarts and failures too.
CompletesExactlyOnce == \A n \in Sessions : mem.s.fired[n] <= 1

\* _async_persist: after a failed save the tracker "stays dirty, retried next poll".
StaysDirty ==
    mem.sessions = <<>> /\ phase = "running" => mem.s.dirty \/ Remembers(disk.session, mem.s)

\* energy.py: the lifetime total that is published "never goes backwards".
PublishedNeverFalls == [][mem'.data.total >= mem.data.total \/ ~mem'.polled]_vars
=============================================================================
