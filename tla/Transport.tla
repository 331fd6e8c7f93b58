------------------------------ MODULE Transport ------------------------------
(***************************************************************************)
(* The register transport: ModbusRegisterIO (transport.py) over the strict *)
(* API of FoxESSModbusClient (modbus_client.py), down to one TCP           *)
(* connection to the charger.                                              *)
(*                                                                         *)
(* A task that reads or writes a register waits for the asyncio lock, then *)
(* hands the operation to a worker thread and waits for that thread.  A    *)
(* cancelled task stops waiting; its thread does not stop.  A request that *)
(* is not answered in time is abandoned with the connection left open, so  *)
(* its answer can arrive in the middle of a later transaction and is told  *)
(* apart only by its transaction ID.                                       *)
(*                                                                         *)
(* Abstractions                                                            *)
(*  - Of a register operation only its direction is kept.  A frame is a    *)
(*    record; one that is malformed, cut short or for another unit is the  *)
(*    failure Broken it leads to.                                          *)
(*  - The charger (external) answers the requests of a connection in their *)
(*    order, or not at all, and echoes transaction IDs.                    *)
(*  - The deadline may pass at any receive.                                *)
(***************************************************************************)
EXTENDS Integers, Sequences, FiniteSets, SequencesExt

CONSTANTS
    Tasks,        \* tasks of the controller that use the transport
    Modulus,      \* transaction IDs are compared modulo this (0x10000)
    MaxLate,      \* bound: how many transactions a frame may outlive its own
    Faults        \* what may go wrong: a subset of FaultKinds

FaultKinds == {"cancel", "refuse", "garble", "drop", "connect", "broken", "orphan", "close"}

Closer == "closer"      \* the task that closes the transport
Nobody == "nobody"

ASSUME TasksAssumption   == Tasks \cap {Closer, Nobody} = {}
ASSUME ModulusAssumption == Modulus \in Nat /\ Modulus % 2 = 0
ASSUME LateAssumption    == MaxLate \in Nat /\ 2 * (MaxLate + 1) < Modulus
ASSUME FaultsAssumption  == Faults \subseteq FaultKinds

VARIABLES
    closing, closed,   \* ModbusRegisterIO._closing, _closed
    holder,            \* holder of ModbusRegisterIO._lock
    queue,             \* tasks waiting for it
    caller,            \* caller[t]: what task t asked for and what it was told
    worker,            \* worker[t]: "none", "started" or "sent", and the ID sent
    tid,               \* FoxESSModbusClient._tid
    sock,              \* its connection is open
    up, down,          \* requests and replies under way on that connection
    orphans,           \* writes sent on connections closed since
    ran,               \* history: ran[t], the charger executed t's last request
    settled            \* history: a read has returned since the last write was sent

async  == <<closing, closed, holder, queue>>
wire   == <<tid, sock, up, down, orphans>>
vars   == <<async, caller, worker, wire, ran, settled>>

NoWorker == [pc |-> "none", tid |-> 0]

(***************************************************************************)
(* Transaction IDs.                                                        *)
(***************************************************************************)

\* _next_tid: 1 .. 0xFFFE, then 0
NextTid == IF tid >= Modulus - 2 THEN 0 ELSE tid + 1

\* Mutant: IDs are compared without the modulus.
StaleWithoutWrap(got, sent) == 0 < sent - got /\ 2 * (sent - got) < Modulus

\* _is_stale_tid
IsStale(got, sent) ==
    LET distance == (sent - got) % Modulus IN 0 < distance /\ 2 * distance < Modulus

\* Mutant: the transaction ID of a reply is not looked at.
MatchesAny(r, sent) == TRUE

\* The reply is for the request just sent.
Matches(r, sent) == r.tid = sent

(***************************************************************************)
(* The asynchronous wrapper.                                               *)
(***************************************************************************)

\* Requests and replies of an earlier operation of t are no longer t's.
Forget(t, frames) == [i \in DOMAIN frames |-> IF frames[i].by = t
                                              THEN [frames[i] EXCEPT !.by = Nobody] ELSE frames[i]]

\* read, write: refused at once when closing, else the task waits for the lock.
Call(t) == \E kind \in {"read", "write"} :
    /\ caller[t].pc = "idle"
    /\ caller' = [caller EXCEPT ![t] = [pc |-> IF closing THEN "idle" ELSE "queued",
                                        kind |-> kind, own |-> TRUE,
                                        res |-> IF closing THEN "error" ELSE "none"]]
    /\ queue' = IF closing THEN queue ELSE Append(queue, t)
    /\ up' = Forget(t, up) /\ down' = Forget(t, down)
    /\ orphans' = {IF r.by = t THEN [r EXCEPT !.by = Nobody] ELSE r : r \in orphans}
    /\ ran' = [ran EXCEPT ![t] = FALSE]
    /\ UNCHANGED <<closing, closed, holder, worker, tid, sock, settled>>

\* Mutant: closing is not looked at again once the lock is acquired.
RefusedNever == FALSE

\* _run, the second look at _closing
Refused == closing

\* _run once the lock is acquired: look at _closing again, start the thread.
Begin(t) ==
    /\ queue # <<>> /\ Head(queue) = t /\ holder = Nobody
    /\ queue' = Tail(queue)
    /\ IF Refused
       THEN /\ caller' = [caller EXCEPT ![t].pc = "idle", ![t].res = "error"]
            /\ UNCHANGED <<holder, worker>>
       ELSE /\ holder' = t
            /\ caller' = [caller EXCEPT ![t].pc = "waiting"]
            /\ worker' = [worker EXCEPT ![t].pc = "started"]
    /\ UNCHANGED <<closing, closed, wire, ran, settled>>

\* A task that is cancelled while it waits for the lock leaves the queue.
LeaveQueue(t) ==
    \/ caller[t].pc = "queued" /\ \E i \in DOMAIN queue : queue[i] = t /\ queue' = RemoveAt(queue, i)
    \/ caller[t].pc # "queued" /\ UNCHANGED queue

\* Mutant: cancelling the caller releases the lock.
CancelReleases(t) ==
    /\ caller' = [caller EXCEPT ![t].pc = IF @ = "queued" THEN "idle" ELSE "gone", ![t].res = "cancelled"]
    /\ LeaveQueue(t)
    /\ holder' = IF holder = t THEN Nobody ELSE holder

\* The task leaves the queue, or leaves its thread alone with the lock (shield).
Abandon(t) ==
    /\ caller' = [caller EXCEPT ![t].pc = IF @ = "queued" THEN "idle" ELSE "gone", ![t].res = "cancelled"]
    /\ LeaveQueue(t)
    /\ holder' = holder

Cancel(t) ==
    /\ "cancel" \in Faults /\ caller[t].pc \in {"queued", "waiting"}
    /\ Abandon(t)
    /\ UNCHANGED <<closing, closed, worker, wire, ran, settled>>

\* close: no new work from now on; the disconnect takes its turn at the lock.
Close ==
    /\ "close" \in Faults /\ ~closing
    /\ closing' = TRUE
    /\ queue' = Append(queue, Closer)
    /\ UNCHANGED <<closed, holder, caller, worker, wire, ran, settled>>

\* _close: the requests sent on the connection may still be executed.
Drop(requests) ==
    /\ sock' = FALSE
    /\ up' = <<>> /\ down' = <<>>
    /\ orphans' = IF "orphan" \in Faults
                  THEN orphans \cup {r \in requests : r.kind = "write"} ELSE orphans

\* Mutant: the disconnect does not wait for the operation under way.
DrainNothing == TRUE

\* close goes through _run as well: it waits for the thread under way.
Drained == holder = Nobody

\* disconnect
Disconnect ==
    /\ queue # <<>> /\ Head(queue) = Closer /\ Drained
    /\ queue' = Tail(queue)
    /\ closed' = TRUE
    /\ Drop(ToSet(up))
    /\ UNCHANGED <<closing, holder, caller, worker, tid, ran, settled>>

(***************************************************************************)
(* The worker thread: _transact.                                           *)
(***************************************************************************)

\* Mutant: a write without an answer is reported as not applied.
NoAnswerIsError(kind, end) == IF end \in {"ok", "refused"} THEN end ELSE "error"

\* What ModbusRegisterIO.read and write make of the end of a transaction.
Outcome(kind, end) ==
    IF end = "noanswer" THEN (IF kind = "write" THEN "unknown" ELSE "error")
    ELSE IF end = "notsent" THEN "error"
    ELSE end

\* Mutant: only a caller that still waits releases the lock.
ReleaseByCaller(t) == IF caller[t].pc = "gone" THEN holder ELSE Nobody

\* _done: the lock is released when the thread ends, caller or no caller.
Release(t) == Nobody

\* The thread ends: its task, if it still waits, gets the outcome; _done
\* releases the lock.  own: the reply was one to this request.
Finish(t, end, own) ==
    LET res == Outcome(caller[t].kind, end)
    IN  /\ worker' = [worker EXCEPT ![t] = NoWorker]
        /\ holder' = Release(t)
        /\ caller' = [caller EXCEPT ![t].pc = "idle", ![t].own = own,
                                    ![t].res = IF caller[t].pc = "gone" THEN @ ELSE res]
        /\ settled' = (settled \/ (caller[t].kind = "read" /\ end = "ok"))
        /\ UNCHANGED <<closing, closed, queue, ran>>

\* How many transactions were begun after the one that frame r belongs to, once
\* the next one has begun: the IDs repeat after Modulus - 1 of them.
Age(r) == (NextTid - r.tid) % (Modulus - 1)

Request(t) == [tid |-> NextTid, kind |-> caller[t].kind, by |-> t]

\* The request goes out, over a new connection if there is none.
Send(t) ==
    /\ worker[t].pc = "started"
    /\ \A i \in DOMAIN up : Age(up[i]) <= MaxLate
    /\ \A i \in DOMAIN down : Age(down[i]) <= MaxLate
    /\ tid' = NextTid /\ sock' = TRUE
    /\ up' = Append(up, Request(t))
    /\ worker' = [worker EXCEPT ![t] = [pc |-> "sent", tid |-> NextTid]]
    /\ settled' = (settled /\ caller[t].kind # "write")
    /\ UNCHANGED <<async, caller, down, orphans, ran>>

\* The connection cannot be opened before the deadline: nothing was sent.
ConnectFails(t) ==
    /\ "connect" \in Faults /\ worker[t].pc = "started" /\ ~sock
    /\ tid' = NextTid
    /\ Finish(t, "notsent", TRUE)
    /\ UNCHANGED <<sock, up, down, orphans>>

\* sendall fails: the request may have got through.
SendFails(t) ==
    /\ "broken" \in Faults /\ worker[t].pc = "started"
    /\ tid' = NextTid
    /\ Drop(ToSet(up) \cup {Request(t)})
    /\ Finish(t, "noanswer", TRUE)

\* _transact takes the next frame: ours, a late one to be skipped, or one that
\* cannot be explained.  The strict API then judges ours.
Receive(t) ==
    /\ worker[t].pc = "sent" /\ down # <<>>
    /\ LET r == Head(down)
       IN  \/ /\ Matches(r, worker[t].tid) /\ r.res \in {"ok", "refused"}
              /\ down' = Tail(down)
              /\ Finish(t, r.res, r.by = t)
              /\ UNCHANGED <<tid, sock, up, orphans>>
           \/ /\ ~Matches(r, worker[t].tid) /\ IsStale(r.tid, worker[t].tid)
              /\ down' = Tail(down)
              /\ UNCHANGED <<async, caller, worker, tid, sock, up, orphans, ran, settled>>
           \/ /\ IF Matches(r, worker[t].tid) THEN r.res = "garbled"
                                              ELSE ~IsStale(r.tid, worker[t].tid)
              /\ Drop(ToSet(up))
              /\ Finish(t, "noanswer", TRUE)
              /\ UNCHANGED tid

\* _NoReplyYet: the deadline passed between two frames; the connection stays.
NoReply(t) ==
    /\ worker[t].pc = "sent"
    /\ Finish(t, "noanswer", TRUE)
    /\ UNCHANGED wire

\* A malformed or incomplete frame, another unit, a socket error: reconnect.
Broken(t) ==
    /\ "broken" \in Faults /\ worker[t].pc = "sent"
    /\ Drop(ToSet(up))
    /\ Finish(t, "noanswer", TRUE)
    /\ UNCHANGED tid

(***************************************************************************)
(* The charger (external).                                                 *)
(***************************************************************************)
Execute(r) == ran' = IF r.by = Nobody THEN ran ELSE [ran EXCEPT ![r.by] = TRUE]

Answer ==
    /\ up # <<>>
    /\ up' = Tail(up)
    /\ \E res \in {"ok", "refused", "garbled"} :
        /\ res = "refused" => "refuse" \in Faults
        /\ res = "garbled" => "garble" \in Faults
        /\ down' = Append(down, [tid |-> Head(up).tid, res |-> res, by |-> Head(up).by])
        /\ IF res = "refused" THEN UNCHANGED ran ELSE Execute(Head(up))
    /\ UNCHANGED <<async, caller, worker, tid, sock, orphans, settled>>

Ignore ==
    /\ "drop" \in Faults /\ up # <<>>
    /\ up' = Tail(up)
    /\ UNCHANGED <<async, caller, worker, tid, sock, down, orphans, ran, settled>>

\* A write of a closed connection is executed after all, or never.
Orphan == \E r \in orphans :
    /\ orphans' = orphans \ {r}
    /\ Execute(r) \/ UNCHANGED ran
    /\ UNCHANGED <<async, caller, worker, tid, sock, up, down, settled>>

Init ==
    /\ closing = FALSE /\ closed = FALSE /\ holder = Nobody /\ queue = <<>>
    /\ caller = [t \in Tasks |-> [pc |-> "idle", kind |-> "read", own |-> TRUE, res |-> "none"]]
    /\ worker = [t \in Tasks |-> NoWorker]
    /\ tid = 0 /\ sock = FALSE /\ up = <<>> /\ down = <<>> /\ orphans = {}
    /\ ran = [t \in Tasks |-> FALSE]
    /\ settled = FALSE

WorkerStep(t) == Send(t) \/ ConnectFails(t) \/ SendFails(t) \/ Receive(t) \/ NoReply(t) \/ Broken(t)

Next ==
    \/ \E t \in Tasks : Call(t) \/ Begin(t) \/ Cancel(t) \/ WorkerStep(t)
    \/ Close \/ Disconnect
    \/ Answer \/ Ignore \/ Orphan

Spec == Init /\ [][Next]_vars

\* The event loop runs what is ready and a transaction has a deadline.
Fairness == /\ \A t \in Tasks : WF_vars(Begin(t)) /\ WF_vars(WorkerStep(t))
            /\ WF_vars(Disconnect) /\ WF_vars(Answer)

FairSpec == Spec /\ Fairness

(***************************************************************************)
(* Properties.                                                             *)
(***************************************************************************)

\* Two threads never use the connection at the same time, although a cancelled
\* caller is gone before its thread is (ModbusRegisterIO._run).
WireIsExclusive == Cardinality({t \in Tasks : worker[t].pc # "none"}) <= 1

\* An operation that succeeded or was refused was told so by a reply to its own
\* request, never by the late reply to one abandoned before it (_transact).
OwnReply == \A t \in Tasks : caller[t].own

\* The late reply to an abandoned request is always recognised, also when the
\* transaction IDs wrap: it never costs the connection (_is_stale_tid).
LateReplyIsRecognised == \A t \in Tasks : worker[t].pc = "sent" =>
    \A i \in DOMAIN down : down[i].by # t => IsStale(down[i].tid, worker[t].tid)

\* A write reported as refused or failed was not executed and never will be
\* (TransportError and CommandRefused, as opposed to UnknownOutcome).
NotAppliedIsFinal == \A t \in Tasks :
    caller[t].pc = "idle" /\ caller[t].kind = "write" /\ caller[t].res \in {"refused", "error"} =>
        ~ran[t] /\ \A r \in ToSet(up) \cup orphans : r.by # t

\* Once a read has returned, no write sent before it can still take effect, so
\* reading back settles an unknown outcome (UnknownOutcome, _transact).
ReadSettlesTheWrite == settled => \A r \in ToSet(up) \cup orphans : r.kind # "write"

\* After close() has returned the transport is silent for good: no connection and
\* no thread, not even one whose caller was cancelled (close, _run).
ClosedIsQuiet == closed => ~sock /\ \A t \in Tasks : worker[t].pc = "none"

\* Once the transport is closing no operation starts any more, those that were
\* already waiting for the lock included (the second look at _closing in _run).
ClosingStartsNothing == [][
    closing => \A t \in Tasks : worker[t].pc = "none" => worker'[t].pc = "none"]_vars

\* Every operation ends: the lock is handed on whatever happens to the callers
\* and the charger (_run, _done, the transaction deadline).
CallsReturn == \A t \in Tasks : caller[t].pc # "idle" ~> caller[t].pc = "idle"
=============================================================================
