--------------------------- MODULE TransportProofs ---------------------------
(***************************************************************************)
(* Theorems about the register transport, for any number of tasks, any     *)
(* even range of transaction IDs, any lateness of replies that half of the *)
(* range can hold, and any combination of failures.                        *)
(***************************************************************************)
EXTENDS Transport, SequenceTheorems, FiniteSetTheorems, TLAPS

(***************************************************************************)
(* The inductive invariant.                                                *)
(***************************************************************************)
Tids     == 0..(Modulus - 2)
Owners   == Tasks \cup {Nobody}
Requests == [tid : Tids, kind : {"read", "write"}, by : Owners]
Replies  == [tid : Tids, res : {"ok", "refused", "garbled"}, by : Owners]
Calls    == [pc : {"idle", "queued", "waiting", "gone"}, kind : {"read", "write"},
             own : BOOLEAN, res : {"none", "error", "cancelled", "ok", "refused", "unknown"}]
Workers  == [pc : {"none", "started", "sent"}, tid : Tids]

AsyncOK == /\ closing \in BOOLEAN /\ closed \in BOOLEAN
           /\ holder \in Owners /\ queue \in Seq(Tasks \cup {Closer})
           /\ caller \in [Tasks -> Calls] /\ worker \in [Tasks -> Workers]
WireOK  == /\ tid \in Tids /\ sock \in BOOLEAN
           /\ up \in Seq(Requests) /\ down \in Seq(Replies) /\ orphans \subseteq Requests
           /\ ran \in [Tasks -> BOOLEAN] /\ settled \in BOOLEAN

\* A thread holds the lock; nobody does once the transport is closed.
LockOK == /\ \A t \in Tasks : worker[t].pc # "none" => holder = t /\ caller[t].pc \in {"waiting", "gone"}
          /\ \A t \in Tasks : caller[t].pc = "gone" => caller[t].res = "cancelled"
          /\ closed => closing /\ ~sock /\ holder = Nobody

\* A task in the queue waits there, once.
QueueOK == \A i \in DOMAIN queue : queue[i] \in Tasks =>
               /\ caller[queue[i]].pc = "queued"
               /\ \A j \in DOMAIN queue : queue[j] = queue[i] => j = i

\* The disconnect waits for the lock only once the transport is closing.
CloserOK == \A i \in DOMAIN queue : queue[i] = Closer => closing

\* How far transaction ID y is ahead of x.
Ahead(x, y) == IF y >= x THEN y - x ELSE y - x + (Modulus - 1)

\* Frames are on an open connection, and none is older than MaxLate transactions.
FramesOK == /\ ~sock => up = <<>> /\ down = <<>>
            /\ \A i \in DOMAIN up : Ahead(up[i].tid, tid) <= MaxLate
            /\ \A i \in DOMAIN down : Ahead(down[i].tid, tid) <= MaxLate

\* t has no frame under way and nothing of it was executed.
Clean(t) == /\ ~ran[t]
            /\ \A i \in DOMAIN up : up[i].by # t
            /\ \A i \in DOMAIN down : down[i].by # t
            /\ \A r \in orphans : r.by # t

\* The transaction of t: its frames are those with the current ID, and nothing sent
\* before them is left on the wire once they are answered.
TransactionOK(t) ==
    /\ worker[t].tid = tid
    /\ \A i \in DOMAIN up : /\ up[i].by = t <=> up[i].tid = tid
                            /\ up[i].by = t => i = Len(up) /\ ~ran[t]
    /\ \A i \in DOMAIN down : /\ down[i].by = t <=> down[i].tid = tid
                              /\ down[i].by = t => up = <<>>
                              /\ down[i].by = t /\ down[i].res = "refused" => ~ran[t]
    /\ \A r \in orphans : r.by # t

CallsOK == \A t \in Tasks :
    /\ caller[t].pc = "queued" \/ worker[t].pc = "started" => Clean(t)
    /\ worker[t].pc = "sent" => TransactionOK(t)

\* Writes left on closed connections exist only if the network may deliver them late.
SettledOK == "orphan" \notin Faults => orphans = {} /\ ReadSettlesTheWrite

IInv == /\ AsyncOK /\ WireOK /\ LockOK /\ QueueOK /\ CloserOK
        /\ FramesOK /\ CallsOK /\ SettledOK /\ OwnReply /\ NotAppliedIsFinal

(***************************************************************************)
(* Transaction IDs.                                                        *)
(***************************************************************************)

\* A remainder, for a number at most one period below zero.
LEMMA Remainder ==
    ASSUME NEW n \in Nat \ {0}, NEW x \in Int, -n <= x, x < n
    PROVE  x % n = IF x >= 0 THEN x ELSE x + n
OBVIOUS

\* There are at least three IDs.
LEMMA Range3 == Modulus \in Nat /\ Modulus >= 3 /\ Modulus - 1 \in Nat \ {0} /\ MaxLate \in Nat
                /\ 2 * (MaxLate + 1) < Modulus
BY ModulusAssumption, LateAssumption

\* _next_tid gives an ID, one ahead of the last.
LEMMA NextTidOK ==
    ASSUME tid \in Tids
    PROVE  /\ NextTid \in Tids
           /\ \A x \in Tids : /\ Ahead(x, tid) <= MaxLate => Ahead(x, NextTid) = Ahead(x, tid) + 1
                              /\ Ahead(x, NextTid) = 0 <=> x = NextTid
BY Range3 DEF NextTid, Tids, Ahead

\* The age of a frame is how far the next transaction is ahead of it.
LEMMA AgeIsAhead ==
    ASSUME tid \in Tids, NEW r, r.tid \in Tids
    PROVE  Age(r) = Ahead(r.tid, NextTid)
<1>1. NextTid \in Tids
  BY NextTidOK
<1>2. NextTid - r.tid \in Int /\ -(Modulus - 1) <= NextTid - r.tid /\ NextTid - r.tid < Modulus - 1
  BY <1>1, Range3 DEF Tids
<1>3. (NextTid - r.tid) % (Modulus - 1)
        = IF NextTid - r.tid >= 0 THEN NextTid - r.tid ELSE NextTid - r.tid + (Modulus - 1)
  BY <1>2, Range3, Remainder
<1> QED
  BY <1>1, <1>3, Range3 DEF Age, Ahead, Tids

\* _is_stale_tid recognises every ID that is 1 to MaxLate transactions behind, across
\* the wrap, which skips one number of the modulus.
LEMMA StaleIsRecognised ==
    ASSUME NEW x \in Tids, NEW y \in Tids, x # y, Ahead(x, y) <= MaxLate
    PROVE  IsStale(x, y)
<1>1. y - x \in Int /\ -Modulus <= y - x /\ y - x < Modulus
  BY Range3 DEF Tids
<1>2. (y - x) % Modulus = IF y - x >= 0 THEN y - x ELSE y - x + Modulus
  BY <1>1, Range3, Remainder
<1>3. 0 < (y - x) % Modulus /\ (y - x) % Modulus <= MaxLate + 1
  BY <1>1, <1>2, Range3 DEF Ahead, Tids
<1>4. (y - x) % Modulus \in Int /\ 2 * ((y - x) % Modulus) < Modulus
  BY <1>1, <1>2, <1>3, Range3
<1> QED
  BY <1>3, <1>4 DEF IsStale

(***************************************************************************)
(* Sequences of frames and of waiting tasks.                               *)
(***************************************************************************)

\* RemoveAt closes the gap it makes.
LEMMA Removed ==
    ASSUME NEW S, NEW s \in Seq(S), NEW i \in DOMAIN s
    PROVE  /\ RemoveAt(s, i) \in Seq(S)
           /\ DOMAIN RemoveAt(s, i) = 1..(Len(s) - 1)
           /\ \A j \in 1..(Len(s) - 1) : RemoveAt(s, i)[j] = IF j < i THEN s[j] ELSE s[j + 1]
<1> DEFINE a == SubSeq(s, 1, i - 1)  b == SubSeq(s, i + 1, Len(s))
<1>1. /\ a \in Seq(S) /\ Len(a) = i - 1
      /\ \A j \in 1..(i - 1) : a[j] = s[j]
  OBVIOUS
<1>2. /\ b \in Seq(S) /\ Len(b) = Len(s) - i
      /\ \A j \in 1..(Len(s) - i) : b[j] = s[i + j]
  OBVIOUS
<1>3. RemoveAt(s, i) = a \o b
  BY DEF RemoveAt
<1> HIDE DEF a, b
<1>4. i \in 1..Len(s) /\ Len(s) \in Nat
  OBVIOUS
<1>5. a \o b \in Seq(S) /\ Len(a \o b) = Len(s) - 1
  BY <1>1, <1>2, <1>4
<1>6. \A j \in 1..(Len(s) - 1) : (a \o b)[j] = IF j < i THEN s[j] ELSE s[j + 1]
  <2> TAKE j \in 1..(Len(s) - 1)
  <2>1. CASE j < i
    BY <1>1, <1>2, <1>4, <2>1
  <2>2. CASE ~(j < i)
    <3>1. (a \o b)[j] = b[j - (i - 1)]
      BY <1>1, <1>2, <1>4, <2>2
    <3>2. j - (i - 1) \in 1..(Len(s) - i) /\ i + (j - (i - 1)) = j + 1
      BY <1>4, <2>2
    <3> QED
      BY <1>2, <2>2, <3>1, <3>2
  <2> QED
    BY <2>1, <2>2
<1> QED
  BY <1>3, <1>5, <1>6

\* Forget takes a task's name off its frames and changes nothing else.
LEMMA ForgetRequests ==
    ASSUME NEW t \in Tasks, NEW s \in Seq(Requests)
    PROVE  /\ Forget(t, s) \in Seq(Requests)
           /\ DOMAIN Forget(t, s) = DOMAIN s /\ Len(Forget(t, s)) = Len(s)
           /\ \A i \in DOMAIN s :
                 /\ Forget(t, s)[i].tid = s[i].tid /\ Forget(t, s)[i].kind = s[i].kind
                 /\ Forget(t, s)[i].by = IF s[i].by = t THEN Nobody ELSE s[i].by
<1> DEFINE f(r) == IF r.by = t THEN [r EXCEPT !.by = Nobody] ELSE r
<1>1. \A r \in Requests : f(r) \in Requests
  BY DEF Requests, Owners
<1>2. s \in [1..Len(s) -> Requests] /\ Len(s) \in Nat /\ DOMAIN s = 1..Len(s)
  OBVIOUS
<1>3. Forget(t, s) = [i \in 1..Len(s) |-> f(s[i])]
  BY <1>2 DEF Forget
<1>4. \A i \in 1..Len(s) : s[i] \in Requests
  BY <1>2
<1>5. Forget(t, s) \in [1..Len(s) -> Requests]
  BY <1>1, <1>3, <1>4
<1>6. Forget(t, s) \in Seq(Requests) /\ DOMAIN Forget(t, s) = 1..Len(s) /\ Len(Forget(t, s)) = Len(s)
  BY <1>2, <1>5
<1> QED
  BY <1>2, <1>3, <1>4, <1>6 DEF Requests

\* The same for replies.
LEMMA ForgetReplies ==
    ASSUME NEW t \in Tasks, NEW s \in Seq(Replies)
    PROVE  /\ Forget(t, s) \in Seq(Replies)
           /\ DOMAIN Forget(t, s) = DOMAIN s
           /\ \A i \in DOMAIN s :
                 /\ Forget(t, s)[i].tid = s[i].tid /\ Forget(t, s)[i].res = s[i].res
                 /\ Forget(t, s)[i].by = IF s[i].by = t THEN Nobody ELSE s[i].by
<1> DEFINE f(r) == IF r.by = t THEN [r EXCEPT !.by = Nobody] ELSE r
<1>1. \A r \in Replies : f(r) \in Replies
  BY DEF Replies, Owners
<1>2. s \in [1..Len(s) -> Replies] /\ Len(s) \in Nat /\ DOMAIN s = 1..Len(s)
  OBVIOUS
<1>3. Forget(t, s) = [i \in 1..Len(s) |-> f(s[i])]
  BY <1>2 DEF Forget
<1>4. \A i \in 1..Len(s) : s[i] \in Replies
  BY <1>2
<1>5. Forget(t, s) \in [1..Len(s) -> Replies]
  BY <1>1, <1>3, <1>4
<1>6. Forget(t, s) \in Seq(Replies) /\ DOMAIN Forget(t, s) = 1..Len(s) /\ Len(Forget(t, s)) = Len(s)
  BY <1>2, <1>5
<1> QED
  BY <1>2, <1>3, <1>4, <1>6 DEF Replies

\* What is left of a sequence was in it.
LEMMA Tailed ==
    ASSUME NEW S, NEW s \in Seq(S), s # <<>>
    PROVE  /\ Head(s) = s[1] /\ Head(s) \in S /\ 1 \in DOMAIN s
           /\ Tail(s) \in Seq(S) /\ Len(Tail(s)) = Len(s) - 1 /\ DOMAIN Tail(s) = 1..(Len(s) - 1)
           /\ \A i \in DOMAIN Tail(s) : i + 1 \in DOMAIN s /\ Tail(s)[i] = s[i + 1]
OBVIOUS

\* Append adds at the end.
LEMMA Appended ==
    ASSUME NEW S, NEW s \in Seq(S), NEW e \in S
    PROVE  /\ Append(s, e) \in Seq(S) /\ Len(Append(s, e)) = Len(s) + 1
           /\ DOMAIN Append(s, e) = 1..(Len(s) + 1)
           /\ \A i \in DOMAIN s : Append(s, e)[i] = s[i]
           /\ Append(s, e)[Len(s) + 1] = e
OBVIOUS

(***************************************************************************)
(* The invariant is inductive, action by action.                           *)
(***************************************************************************)

\* The initial state satisfies the invariant.
LEMMA InitOK == Init => IInv
<1> SUFFICES ASSUME Init PROVE IInv
  OBVIOUS
<1>0. 0 \in Tids
  BY Range3 DEF Tids
<1>1. AsyncOK /\ WireOK
  <2>1. AsyncOK
    <3>1. caller \in [Tasks -> Calls] /\ worker \in [Tasks -> Workers]
      BY <1>0 DEF Init, Calls, Workers, NoWorker
    <3> QED
      BY <3>1, EmptySeq, Zenon DEF Init, AsyncOK, Owners
  <2>2. WireOK
    BY <1>0, EmptySeq, Zenon DEF Init, WireOK
  <2> QED
    BY <2>1, <2>2
<1>2. LockOK /\ QueueOK /\ CloserOK /\ FramesOK /\ CallsOK
  BY DEF Init, LockOK, QueueOK, CloserOK, FramesOK, CallsOK, NoWorker
<1>3. SettledOK /\ OwnReply /\ NotAppliedIsFinal
  BY DEF Init, SettledOK, ReadSettlesTheWrite, OwnReply, NotAppliedIsFinal, ToSet
<1> QED
  BY <1>1, <1>2, <1>3 DEF IInv

\* read and write: what an earlier operation of the task left behind is forgotten.
LEMMA CallOK == ASSUME IInv, NEW t \in Tasks, Call(t) PROVE IInv'
<1> DEFINE fo(r) == IF r.by = t THEN [r EXCEPT !.by = Nobody] ELSE r
<1>0. PICK kind \in {"read", "write"} :
        caller' = [caller EXCEPT ![t] = [pc |-> IF closing THEN "idle" ELSE "queued",
                                        kind |-> kind, own |-> TRUE,
                                        res |-> IF closing THEN "error" ELSE "none"]]
  BY DEF Call
<1>1. /\ caller[t].pc = "idle" /\ worker[t].pc = "none"
      /\ queue' = IF closing THEN queue ELSE Append(queue, t)
      /\ up' = Forget(t, up) /\ down' = Forget(t, down) /\ ran' = [ran EXCEPT ![t] = FALSE]
      /\ orphans' = {fo(r) : r \in orphans}
      /\ UNCHANGED <<closing, closed, holder, worker, tid, sock, settled>>
  BY DEF Call, IInv, LockOK
<1>2. \A u \in Tasks : caller'[u] = IF u = t THEN [pc |-> IF closing THEN "idle" ELSE "queued",
                                        kind |-> kind, own |-> TRUE,
                                        res |-> IF closing THEN "error" ELSE "none"] ELSE caller[u]
  BY <1>0 DEF IInv, AsyncOK
<1>3. AsyncOK'
  <2>1. caller' \in [Tasks -> Calls]
    BY <1>0 DEF IInv, AsyncOK, Calls
  <2>2. queue' \in Seq(Tasks \cup {Closer})
    BY <1>1 DEF IInv, AsyncOK
  <2> QED
    BY <1>1, <2>1, <2>2 DEF IInv, AsyncOK
<1>4. \A r \in orphans' : \E q \in orphans : r.kind = q.kind /\ r.by = IF q.by = t THEN Nobody ELSE q.by
  BY <1>1 DEF IInv, WireOK, Requests
<1>5. WireOK'
  <2>1. up' \in Seq(Requests) /\ down' \in Seq(Replies)
    BY <1>1, ForgetRequests, ForgetReplies DEF IInv, WireOK
  <2>2. orphans' \subseteq Requests
    BY <1>1 DEF IInv, WireOK, Requests, Owners
  <2> QED
    BY <1>1, <2>1, <2>2 DEF IInv, WireOK
<1>6. LockOK'
  BY <1>1, <1>2 DEF IInv, LockOK
<1>7. QueueOK'
  <2>1. CASE closing
    BY <1>1, <1>2, <2>1 DEF IInv, QueueOK, AsyncOK
  <2>2. CASE ~closing
    <3>1. \A i \in DOMAIN queue : queue[i] # t
      BY <1>1 DEF IInv, QueueOK
    <3>2. /\ DOMAIN queue' = 1..(Len(queue) + 1) /\ queue'[Len(queue) + 1] = t
          /\ \A i \in DOMAIN queue : queue'[i] = queue[i]
          /\ DOMAIN queue = 1..Len(queue) /\ Len(queue) \in Nat
      BY <1>1, <2>2, Appended DEF IInv, AsyncOK
    <3> QED
      BY <1>2, <2>2, <3>1, <3>2 DEF IInv, QueueOK
  <2> QED
    BY <2>1, <2>2 DEF IInv, AsyncOK
<1>8. /\ DOMAIN up' = DOMAIN up /\ Len(up') = Len(up) /\ DOMAIN down' = DOMAIN down
      /\ \A i \in DOMAIN up : /\ up'[i].tid = up[i].tid /\ up'[i].kind = up[i].kind
                              /\ up'[i].by = IF up[i].by = t THEN Nobody ELSE up[i].by
      /\ \A i \in DOMAIN down : /\ down'[i].tid = down[i].tid /\ down'[i].res = down[i].res
                                /\ down'[i].by = IF down[i].by = t THEN Nobody ELSE down[i].by
  BY <1>1, ForgetRequests, ForgetReplies DEF IInv, WireOK
<1>9. (up = <<>> => up' = <<>>) /\ (down = <<>> => down' = <<>>)
  BY <1>1 DEF Forget
<1>10. FramesOK'
  BY <1>1, <1>8, <1>9 DEF IInv, FramesOK, Ahead
<1>11. t # Nobody /\ ~ran'[t]
  BY <1>1, TasksAssumption DEF IInv, WireOK
<1>12. CallsOK'
  <2> SUFFICES ASSUME NEW u \in Tasks
               PROVE  /\ caller'[u].pc = "queued" \/ worker'[u].pc = "started" => Clean(u)'
                      /\ worker'[u].pc = "sent" => TransactionOK(u)'
    BY DEF CallsOK
  <2>1. CASE u = t
    <3>1. Clean(t)'
      BY <1>4, <1>8, <1>11 DEF Clean
    <3> QED
      BY <1>1, <2>1, <3>1
  <2>2. CASE u # t
    <3>0. u # Nobody /\ ran'[u] = ran[u] /\ caller'[u] = caller[u]
      BY <1>1, <1>2, <2>2, TasksAssumption DEF IInv, WireOK
    <3>1. Clean(u) => Clean(u)'
      BY <1>4, <1>8, <2>2, <3>0 DEF Clean
    <3>2. TransactionOK(u) => TransactionOK(u)'
      BY <1>1, <1>4, <1>8, <1>9, <2>2, <3>0 DEF TransactionOK
    <3> QED
      BY <1>1, <3>0, <3>1, <3>2 DEF IInv, CallsOK
  <2> QED
    BY <2>1, <2>2
<1>13. SettledOK'
  BY <1>1, <1>4, <1>8 DEF IInv, SettledOK, ReadSettlesTheWrite, ToSet
<1>14. OwnReply'
  BY <1>2 DEF IInv, OwnReply
<1>15. NotAppliedIsFinal'
  <2> SUFFICES ASSUME NEW u \in Tasks, caller'[u].pc = "idle", caller'[u].kind = "write",
                      caller'[u].res \in {"refused", "error"}
               PROVE  ~ran'[u] /\ \A r \in ToSet(up') \cup orphans' : r.by # u
    BY DEF NotAppliedIsFinal
  <2>1. CASE u = t
    BY <1>1, <1>4, <1>8, <1>11, <2>1 DEF ToSet
  <2>2. CASE u # t
    <3>1. u # Nobody /\ ran'[u] = ran[u] /\ caller'[u] = caller[u]
      BY <1>1, <1>2, <2>2, TasksAssumption DEF IInv, WireOK
    <3>2. ~ran[u] /\ \A r \in ToSet(up) \cup orphans : r.by # u
      BY <3>1 DEF IInv, NotAppliedIsFinal
    <3> QED
      BY <1>4, <1>8, <3>1, <3>2 DEF ToSet
  <2> QED
    BY <2>1, <2>2
<1>16. CloserOK'
  BY <1>1, Appended, TasksAssumption DEF IInv, CloserOK, AsyncOK
<1> QED
  BY <1>3, <1>5, <1>6, <1>7, <1>10, <1>12, <1>13, <1>14, <1>15, <1>16 DEF IInv

\* Nothing of u in up and orphans stays so.
Keeps(u) == (\A i \in DOMAIN up : up[i].by # u) /\ (\A r \in orphans : r.by # u) =>
                /\ \A i \in DOMAIN up' : up'[i].by # u
                /\ \A r \in orphans' : r.by # u

\* A step that leaves the wire alone leaves what is said about the wire.
LEMMA WireAlone ==
    ASSUME IInv, UNCHANGED <<wire, ran, settled>>
    PROVE  /\ WireOK' /\ FramesOK' /\ SettledOK'
           /\ \A u \in Tasks : (Clean(u) => Clean(u)')
           /\ \A u \in Tasks : TransactionOK(u) /\ worker'[u] = worker[u] => TransactionOK(u)'
<1> USE DEF wire
<1>1. WireOK' /\ FramesOK'
  BY DEF IInv, WireOK, FramesOK, Ahead
<1>2. SettledOK'
  BY DEF IInv, SettledOK, ReadSettlesTheWrite
<1>3. \A u \in Tasks : (Clean(u) => Clean(u)')
  BY DEF Clean
<1>4. \A u \in Tasks : TransactionOK(u) /\ worker'[u] = worker[u] => TransactionOK(u)'
  BY DEF TransactionOK
<1> QED
  BY <1>1, <1>2, <1>3, <1>4

\* The lock is acquired: a thread is started, or the task is refused.
LEMMA BeginOK == ASSUME IInv, NEW t \in Tasks, Begin(t) PROVE IInv'
<1>1. /\ queue # <<>> /\ queue[1] = t /\ holder = Nobody /\ queue' = Tail(queue)
      /\ UNCHANGED <<closing, closed, wire, ran, settled>>
  BY DEF Begin, IInv, AsyncOK
<1>2. /\ 1 \in DOMAIN queue /\ DOMAIN queue = 1..Len(queue) /\ Len(queue) \in Nat
      /\ queue' \in Seq(Tasks \cup {Closer}) /\ DOMAIN queue' = 1..(Len(queue) - 1)
      /\ \A i \in DOMAIN queue' : i + 1 \in DOMAIN queue /\ queue'[i] = queue[i + 1]
  BY <1>1, Tailed DEF IInv, AsyncOK
<1>3. caller[t].pc = "queued" /\ \A i \in DOMAIN queue' : queue'[i] # t
  BY <1>1, <1>2 DEF IInv, QueueOK
<1>4. \A u \in Tasks : worker[u].pc = "none"
  BY <1>1, TasksAssumption DEF IInv, LockOK
<1>5. Clean(t) /\ ~ran[t]
  BY <1>3 DEF IInv, CallsOK, Clean
<1>6. /\ WireOK' /\ FramesOK' /\ SettledOK'
      /\ \A u \in Tasks : (Clean(u) => Clean(u)')
  BY <1>1, WireAlone
<1>6a. CloserOK'
  BY <1>1, <1>2 DEF IInv, CloserOK
<1>7. CASE closing
  <2>1. caller' = [caller EXCEPT ![t].pc = "idle", ![t].res = "error"] /\ UNCHANGED <<holder, worker>>
    BY <1>7 DEF Begin, Refused
  <2>2. /\ \A u \in Tasks \ {t} : caller'[u] = caller[u]
        /\ caller'[t].pc = "idle" /\ caller'[t].res = "error"
        /\ caller'[t].own = caller[t].own /\ caller'[t].kind = caller[t].kind
    BY <2>1 DEF IInv, AsyncOK, Calls
  <2>3. AsyncOK'
    <3>1. caller' \in [Tasks -> Calls]
      BY <2>1 DEF IInv, AsyncOK, Calls
    <3> QED
      BY <1>1, <1>2, <2>1, <3>1 DEF IInv, AsyncOK
  <2>4. LockOK'
    <3>1. \A u \in Tasks : worker'[u].pc = "none"
      BY <1>4, <2>1
    <3>2. \A u \in Tasks : caller'[u].pc = "gone" => caller'[u].res = "cancelled"
      BY <2>2 DEF IInv, LockOK
    <3>3. closed' => closing' /\ ~sock' /\ holder' = Nobody
      BY <1>1, <2>1 DEF IInv, LockOK, wire
    <3> QED
      BY <3>1, <3>2, <3>3 DEF LockOK
  <2>5. QueueOK'
    BY <1>2, <1>3, <2>2 DEF IInv, QueueOK
  <2>6. CallsOK'
    BY <1>4, <1>6, <2>1, <2>2 DEF IInv, CallsOK
  <2>7. OwnReply'
    BY <2>2 DEF IInv, OwnReply
  <2>8. NotAppliedIsFinal'
    <3>1. \A u \in Tasks \ {t} : caller'[u] = caller[u] /\ ran'[u] = ran[u]
      BY <1>1, <2>2
    <3>2. ~ran'[t] /\ \A r \in ToSet(up') \cup orphans' : r.by # t
      BY <1>1, <1>5 DEF Clean, wire, ToSet
    <3> QED
      BY <1>1, <3>1, <3>2 DEF IInv, NotAppliedIsFinal, wire
  <2> QED
    BY <1>6, <1>6a, <2>3, <2>4, <2>5, <2>6, <2>7, <2>8 DEF IInv
<1>8. CASE ~closing
  <2>1. /\ holder' = t /\ caller' = [caller EXCEPT ![t].pc = "waiting"]
        /\ worker' = [worker EXCEPT ![t].pc = "started"]
    BY <1>8 DEF Begin, Refused
  <2>2. /\ \A u \in Tasks \ {t} : caller'[u] = caller[u] /\ worker'[u] = worker[u]
        /\ caller'[t].pc = "waiting" /\ worker'[t].pc = "started"
        /\ caller'[t].own = caller[t].own
    BY <2>1 DEF IInv, AsyncOK, Calls, Workers
  <2>3. AsyncOK'
    <3>1. caller' \in [Tasks -> Calls] /\ worker' \in [Tasks -> Workers]
      BY <2>1 DEF IInv, AsyncOK, Calls, Workers
    <3> QED
      BY <1>1, <1>2, <2>1, <3>1 DEF IInv, AsyncOK, Owners
  <2>4. LockOK'
    BY <1>1, <1>4, <1>8, <2>1, <2>2 DEF IInv, LockOK
  <2>5. QueueOK'
    BY <1>2, <1>3, <2>2 DEF IInv, QueueOK
  <2>6. CallsOK'
    BY <1>4, <1>5, <1>6, <2>2 DEF IInv, CallsOK
  <2>7. OwnReply'
    BY <2>2 DEF IInv, OwnReply
  <2>8. NotAppliedIsFinal'
    <3>1. \A u \in Tasks \ {t} : caller'[u] = caller[u] /\ ran'[u] = ran[u]
      BY <1>1, <2>2
    <3> QED
      BY <1>1, <2>2, <3>1 DEF IInv, NotAppliedIsFinal, wire
  <2> QED
    BY <1>6, <1>6a, <2>3, <2>4, <2>5, <2>6, <2>7, <2>8 DEF IInv
<1> QED
  BY <1>7, <1>8

\* A cancelled task leaves the queue, or its thread behind.
LEMMA CancelOK == ASSUME IInv, NEW t \in Tasks, Cancel(t) PROVE IInv'
<1>1. /\ caller[t].pc \in {"queued", "waiting"} /\ LeaveQueue(t)
      /\ caller' = [caller EXCEPT ![t].pc = IF @ = "queued" THEN "idle" ELSE "gone", ![t].res = "cancelled"]
      /\ UNCHANGED <<closing, closed, holder, worker, wire, ran, settled>>
  BY DEF Cancel, Abandon
<1>2. /\ \A u \in Tasks \ {t} : caller'[u] = caller[u]
      /\ caller'[t].pc = (IF caller[t].pc = "queued" THEN "idle" ELSE "gone")
      /\ caller'[t].res = "cancelled" /\ caller'[t].own = caller[t].own
  BY <1>1 DEF IInv, AsyncOK, Calls
<1>3. caller' \in [Tasks -> Calls]
  <2> DEFINE pc == IF caller[t].pc = "queued" THEN "idle" ELSE "gone"
  <2>1. caller' = [caller EXCEPT ![t] = [caller[t] EXCEPT !.pc = pc, !.res = "cancelled"]]
    BY <1>1 DEF IInv, AsyncOK
  <2>2. [caller[t] EXCEPT !.pc = pc, !.res = "cancelled"] \in Calls
    BY DEF IInv, AsyncOK, Calls
  <2> QED
    BY <2>1, <2>2 DEF IInv, AsyncOK
<1>4. queue' \in Seq(Tasks \cup {Closer}) /\ QueueOK' /\ CloserOK'
  <2>1. CASE caller[t].pc # "queued"
    <3>1. queue' = queue
      BY <2>1 DEF LeaveQueue, Cancel, Abandon
    <3>2. \A i \in DOMAIN queue : queue[i] # t
      BY <2>1 DEF IInv, QueueOK
    <3> QED
      BY <1>1, <1>2, <3>1, <3>2 DEF IInv, AsyncOK, QueueOK, CloserOK
  <2>2. CASE caller[t].pc = "queued"
    <3>1. PICK k \in DOMAIN queue : queue[k] = t /\ queue' = RemoveAt(queue, k)
      BY <1>1, <2>2 DEF LeaveQueue
    <3>2. /\ queue' \in Seq(Tasks \cup {Closer}) /\ DOMAIN queue' = 1..(Len(queue) - 1)
          /\ \A j \in 1..(Len(queue) - 1) : queue'[j] = IF j < k THEN queue[j] ELSE queue[j + 1]
          /\ DOMAIN queue = 1..Len(queue) /\ Len(queue) \in Nat
      BY <3>1, Removed DEF IInv, AsyncOK
    <3>3. \A j \in DOMAIN queue : queue[j] = t => j = k
      BY <3>1 DEF IInv, QueueOK
    <3>4. \A j \in DOMAIN queue' : queue'[j] # t
      BY <3>2, <3>3
    <3>5. QueueOK'
      <4> SUFFICES ASSUME NEW i \in DOMAIN queue', queue'[i] \in Tasks
                   PROVE  /\ caller'[queue'[i]].pc = "queued"
                          /\ \A j \in DOMAIN queue' : queue'[j] = queue'[i] => j = i
        BY DEF QueueOK
      <4>1. PICK m \in DOMAIN queue : queue'[i] = queue[m] /\ m = IF i < k THEN i ELSE i + 1
        BY <3>2
      <4>2. /\ caller[queue[m]].pc = "queued"
            /\ \A j \in DOMAIN queue : queue[j] = queue[m] => j = m
        BY <4>1 DEF IInv, QueueOK
      <4>3. caller'[queue'[i]] = caller[queue[m]]
        BY <1>2, <3>4, <4>1
      <4>4. \A j \in DOMAIN queue' : queue'[j] = queue'[i] => j = i
        BY <3>2, <4>1, <4>2
      <4> QED
        BY <4>2, <4>3, <4>4
    <3>6. CloserOK'
      BY <1>1, <3>2 DEF IInv, CloserOK
    <3> QED
      BY <3>2, <3>5, <3>6
  <2> QED
    BY <2>1, <2>2
<1>5. AsyncOK'
  BY <1>1, <1>3, <1>4 DEF IInv, AsyncOK
<1>6. LockOK'
  BY <1>1, <1>2 DEF IInv, LockOK, wire
<1>7. /\ WireOK' /\ FramesOK' /\ SettledOK'
      /\ \A u \in Tasks : (Clean(u) => Clean(u)')
      /\ \A u \in Tasks : TransactionOK(u) /\ worker'[u] = worker[u] => TransactionOK(u)'
  BY <1>1, WireAlone
<1>8. CallsOK'
  <2>1. \A u \in Tasks : (caller'[u].pc = "queued" => caller[u].pc = "queued") /\ worker'[u] = worker[u]
    <3> TAKE u \in Tasks
    <3>1. worker'[u] = worker[u]
      BY <1>1
    <3>2. CASE u = t
      BY <1>1, <1>2, <3>1, <3>2
    <3>3. CASE u # t
      BY <1>2, <3>1, <3>3
    <3> QED
      BY <3>2, <3>3
  <2> SUFFICES ASSUME NEW u \in Tasks
               PROVE  /\ caller'[u].pc = "queued" \/ worker'[u].pc = "started" => Clean(u)'
                      /\ worker'[u].pc = "sent" => TransactionOK(u)'
    BY DEF CallsOK
  <2>2. /\ caller[u].pc = "queued" \/ worker[u].pc = "started" => Clean(u)
        /\ worker[u].pc = "sent" => TransactionOK(u)
    BY DEF IInv, CallsOK
  <2> QED
    BY <1>7, <2>1, <2>2
<1>9. OwnReply'
  BY <1>2 DEF IInv, OwnReply
<1>10. NotAppliedIsFinal'
  BY <1>1, <1>2 DEF IInv, NotAppliedIsFinal, wire
<1> QED
  BY <1>4, <1>5, <1>6, <1>7, <1>8, <1>9, <1>10 DEF IInv

\* close takes its place in the queue.
LEMMA CloseOK == ASSUME IInv, Close PROVE IInv'
<1>1. /\ ~closing /\ closing' = TRUE /\ queue' = Append(queue, Closer)
      /\ UNCHANGED <<closed, holder, caller, worker, wire, ran, settled>>
  BY DEF Close
<1>2. /\ queue' \in Seq(Tasks \cup {Closer}) /\ DOMAIN queue' = 1..(Len(queue) + 1)
      /\ queue'[Len(queue) + 1] = Closer
      /\ \A i \in DOMAIN queue : queue'[i] = queue[i]
      /\ DOMAIN queue = 1..Len(queue) /\ Len(queue) \in Nat
  BY <1>1, Appended DEF IInv, AsyncOK
<1>3. AsyncOK'
  BY <1>1, <1>2 DEF IInv, AsyncOK
<1>4. LockOK'
  BY <1>1 DEF IInv, LockOK, wire
<1>5. QueueOK'
  BY <1>1, <1>2, TasksAssumption DEF IInv, QueueOK
<1>6. /\ WireOK' /\ FramesOK' /\ SettledOK'
      /\ \A u \in Tasks : (Clean(u) => Clean(u)')
      /\ \A u \in Tasks : TransactionOK(u) /\ worker'[u] = worker[u] => TransactionOK(u)'
  BY <1>1, WireAlone
<1>7. CallsOK'
  BY <1>1, <1>6 DEF IInv, CallsOK
<1>8. OwnReply' /\ NotAppliedIsFinal'
  BY <1>1 DEF IInv, OwnReply, NotAppliedIsFinal, wire
<1>9. CloserOK'
  BY <1>1 DEF CloserOK
<1> QED
  BY <1>9, <1>3, <1>4, <1>5, <1>6, <1>7, <1>8 DEF IInv

\* What closing the connection leaves: nothing on it, and at most the writes among the
\* requests as orphans.
LEMMA Dropped ==
    ASSUME IInv, NEW requests \in SUBSET Requests, Drop(requests)
    PROVE  /\ sock' = FALSE /\ up' = <<>> /\ down' = <<>> /\ orphans' \subseteq Requests
           /\ \A r \in orphans' : r \in orphans \cup requests
           /\ "orphan" \notin Faults => orphans' = orphans
BY DEF Drop, IInv, WireOK

\* The requests under way, as a set.
LEMMA SetOfUp == ASSUME IInv PROVE ToSet(up) \subseteq Requests
BY DEF IInv, WireOK, ToSet

\* A thread ends: what holds of the tasks afterwards.
LEMMA FinishAsync ==
    ASSUME IInv, NEW t \in Tasks, NEW end \in {"ok", "refused", "notsent", "noanswer"}, NEW own \in BOOLEAN,
           worker[t].pc # "none", Finish(t, end, own)
    PROVE  /\ AsyncOK' /\ QueueOK' /\ CloserOK' /\ ~closed /\ closed' = closed /\ ran' = ran
           /\ settled' = (settled \/ (caller[t].kind = "read" /\ end = "ok"))
           /\ \A u \in Tasks : worker'[u].pc = "none" /\ (caller'[u].pc = "gone" => caller'[u].res = "cancelled")
           /\ \A u \in Tasks \ {t} : caller'[u] = caller[u]
           /\ caller'[t].pc = "idle" /\ caller'[t].kind = caller[t].kind /\ caller'[t].own = own
           /\ caller'[t].res \in {"refused", "error"} =>
                 end \in {"refused", "notsent"} \/ caller[t].kind = "read"
<1> DEFINE res == Outcome(caller[t].kind, end)
           new == IF caller[t].pc = "gone" THEN caller[t].res ELSE res
<1>1. /\ worker' = [worker EXCEPT ![t] = NoWorker] /\ holder' = Nobody
      /\ caller' = [caller EXCEPT ![t].pc = "idle", ![t].own = own,
                                  ![t].res = IF caller[t].pc = "gone" THEN @ ELSE res]
      /\ settled' = (settled \/ (caller[t].kind = "read" /\ end = "ok"))
      /\ UNCHANGED <<closing, closed, queue, ran>>
  BY DEF Finish, Release
<1>2. /\ holder = t /\ caller[t].pc \in {"waiting", "gone"} /\ t # Nobody
      /\ caller[t].pc = "gone" => caller[t].res = "cancelled"
  BY TasksAssumption DEF IInv, LockOK
<1>3. caller[t] \in Calls /\ caller \in [Tasks -> Calls]
  BY DEF IInv, AsyncOK
<1>4. res \in {"ok", "refused", "error", "unknown"}
  BY DEF Outcome
<1>5. res \in {"refused", "error"} => end \in {"refused", "notsent"} \/ caller[t].kind = "read"
  BY <1>3 DEF Outcome, Calls
<1>6. caller' = [caller EXCEPT ![t] = [caller[t] EXCEPT !.pc = "idle", !.own = own, !.res = new]]
  BY <1>1, <1>3
<1> HIDE DEF res
<1>7. [caller[t] EXCEPT !.pc = "idle", !.own = own, !.res = new] \in Calls
  BY <1>3, <1>4 DEF Calls
<1>8. /\ \A u \in Tasks \ {t} : caller'[u] = caller[u]
      /\ caller'[t].pc = "idle" /\ caller'[t].kind = caller[t].kind /\ caller'[t].own = own
      /\ caller'[t].res = new
  BY <1>3, <1>6 DEF Calls
<1>9. NoWorker \in Workers /\ NoWorker.pc = "none"
  BY Range3 DEF NoWorker, Workers, Tids
<1>10. worker' \in [Tasks -> Workers] /\ caller' \in [Tasks -> Calls]
  BY <1>1, <1>3, <1>6, <1>7, <1>9 DEF IInv, AsyncOK
<1>11. AsyncOK'
  BY <1>1, <1>10 DEF IInv, AsyncOK, Owners
<1>12. \A u \in Tasks : worker'[u].pc = "none"
  BY <1>1, <1>2, <1>9 DEF IInv, LockOK, AsyncOK
<1>13. \A u \in Tasks : caller'[u].pc = "gone" => caller'[u].res = "cancelled"
  BY <1>8 DEF IInv, LockOK
<1>14. QueueOK'
  <2>1. \A i \in DOMAIN queue : queue[i] # t
    BY <1>2 DEF IInv, QueueOK
  <2> QED
    BY <1>1, <1>8, <2>1 DEF IInv, QueueOK
<1>15. ~closed /\ CloserOK'
  BY <1>1, <1>2 DEF IInv, LockOK, CloserOK
<1>16. caller'[t].res \in {"refused", "error"} => res \in {"refused", "error"}
  BY <1>2, <1>8
<1> QED
  BY <1>1, <1>5, <1>8, <1>11, <1>12, <1>13, <1>14, <1>15, <1>16

\* A thread ends: the invariant holds afterwards if it holds of the wire, no frame of
\* another task came out of nothing, and the caller was told the truth.
LEMMA FinishOK ==
    ASSUME IInv, NEW t \in Tasks, NEW end \in {"ok", "refused", "notsent", "noanswer"}, NEW own \in BOOLEAN,
           worker[t].pc # "none", Finish(t, end, own),
           WireOK', FramesOK', SettledOK', own,
           \A u \in Tasks \ {t} : Keeps(u) /\ ((\A i \in DOMAIN down : down[i].by # u) =>
                                                 \A i \in DOMAIN down' : down'[i].by # u),
           end \in {"refused", "notsent"} /\ caller[t].kind = "write" =>
               /\ ~ran[t] /\ \A i \in DOMAIN up' : up'[i].by # t
               /\ \A r \in orphans' : r.by # t
    PROVE  IInv'
<1>1. /\ AsyncOK' /\ QueueOK' /\ CloserOK' /\ ~closed /\ closed' = closed /\ ran' = ran
      /\ \A u \in Tasks : worker'[u].pc = "none" /\ (caller'[u].pc = "gone" => caller'[u].res = "cancelled")
      /\ \A u \in Tasks \ {t} : caller'[u] = caller[u]
      /\ caller'[t].pc = "idle" /\ caller'[t].kind = caller[t].kind /\ caller'[t].own = own
      /\ caller'[t].res \in {"refused", "error"} =>
             end \in {"refused", "notsent"} \/ caller[t].kind = "read"
  BY FinishAsync
<1>2. LockOK'
  BY <1>1 DEF LockOK
<1>3. CallsOK'
  <2> SUFFICES ASSUME NEW u \in Tasks, caller'[u].pc = "queued" PROVE Clean(u)'
    BY <1>1 DEF CallsOK
  <2>1. u # t /\ caller[u].pc = "queued"
    BY <1>1
  <2>2. Clean(u)
    BY <2>1 DEF IInv, CallsOK
  <2> QED
    BY <1>1, <2>1, <2>2 DEF Clean, Keeps
<1>4. OwnReply'
  BY <1>1 DEF IInv, OwnReply
<1>5. NotAppliedIsFinal'
  <2> SUFFICES ASSUME NEW u \in Tasks, caller'[u].pc = "idle", caller'[u].kind = "write",
                      caller'[u].res \in {"refused", "error"}
               PROVE  ~ran'[u] /\ \A r \in ToSet(up') \cup orphans' : r.by # u
    BY DEF NotAppliedIsFinal
  <2>1. CASE u = t
    BY <1>1, <2>1 DEF ToSet
  <2>2. CASE u # t
    <3>1. ~ran[u] /\ \A r \in ToSet(up) \cup orphans : r.by # u
      BY <1>1, <2>2 DEF IInv, NotAppliedIsFinal
    <3>2. /\ \A i \in DOMAIN up' : up'[i].by # u
          /\ \A r \in orphans' : r.by # u
      BY <2>2, <3>1 DEF Keeps, ToSet
    <3> QED
      BY <1>1, <3>1, <3>2 DEF ToSet
  <2> QED
    BY <2>1, <2>2
<1> QED
  BY <1>1, <1>2, <1>3, <1>4, <1>5 DEF IInv

\* A thread ends by closing the connection.
LEMMA DropFinishOK ==
    ASSUME IInv, NEW t \in Tasks, worker[t].pc # "none", tid' \in Tids,
           NEW requests \in SUBSET (ToSet(up) \cup {Request(t)}), Request(t) \in Requests,
           Drop(requests), Finish(t, "noanswer", TRUE)
    PROVE  IInv'
<1>1. requests \in SUBSET Requests
  BY SetOfUp
<1>2. /\ sock' = FALSE /\ up' = <<>> /\ down' = <<>> /\ orphans' \subseteq Requests
      /\ \A r \in orphans' : r \in orphans \cup requests
      /\ "orphan" \notin Faults => orphans' = orphans
  BY <1>1, Dropped
<1>3. ran' = ran /\ settled' = (settled \/ (caller[t].kind = "read" /\ "noanswer" = "ok"))
  BY FinishAsync
<1>4. WireOK'
  BY <1>2, <1>3, EmptySeq, Zenon DEF IInv, WireOK
<1>5. FramesOK'
  BY <1>2 DEF FramesOK
<1>6. SettledOK'
  BY <1>2 DEF IInv, SettledOK, ReadSettlesTheWrite, ToSet
<1>7. \A u \in Tasks \ {t} : Keeps(u)
  BY <1>2 DEF Keeps, ToSet, Request
<1>8. \A u \in Tasks : \A i \in DOMAIN down' : down'[i].by # u
  BY <1>2
<1> QED
  BY <1>4, <1>5, <1>6, <1>7, <1>8, FinishOK

\* What a request looks like.
LEMMA RequestOK ==
    ASSUME IInv, NEW t \in Tasks
    PROVE  /\ Request(t) \in Requests /\ Request(t).by = t /\ Request(t).tid = NextTid
           /\ Request(t).kind = caller[t].kind
<1>1. NextTid \in Tids
  BY NextTidOK DEF IInv, WireOK
<1>2. caller[t].kind \in {"read", "write"}
  BY DEF IInv, AsyncOK, Calls
<1> QED
  BY <1>1, <1>2 DEF Request, Requests, Owners

\* sendall fails.
LEMMA SendFailsOK == ASSUME IInv, NEW t \in Tasks, SendFails(t) PROVE IInv'
<1>1. tid' \in Tids
  BY NextTidOK DEF SendFails, IInv, WireOK
<1> QED
  BY <1>1, RequestOK, DropFinishOK DEF SendFails

\* The connection breaks while the thread waits for its reply.
LEMMA BrokenOK == ASSUME IInv, NEW t \in Tasks, Broken(t) PROVE IInv'
<1>1. tid' \in Tids
  BY DEF Broken, IInv, WireOK
<1> QED
  BY <1>1, RequestOK, DropFinishOK DEF Broken

\* The connection cannot be opened: nothing was sent.
LEMMA ConnectFailsOK == ASSUME IInv, NEW t \in Tasks, ConnectFails(t) PROVE IInv'
<1>1. /\ worker[t].pc = "started" /\ ~sock /\ tid' = NextTid /\ Finish(t, "notsent", TRUE)
      /\ UNCHANGED <<sock, up, down, orphans>>
  BY DEF ConnectFails
<1>2. up = <<>> /\ down = <<>>
  BY <1>1 DEF IInv, FramesOK
<1>3. Clean(t)
  BY <1>1 DEF IInv, CallsOK
<1>4. ran' = ran /\ settled' = (settled \/ (caller[t].kind = "read" /\ "notsent" = "ok"))
  BY <1>1, FinishAsync
<1>5. NextTid \in Tids
  BY NextTidOK DEF IInv, WireOK
<1>6. WireOK'
  BY <1>1, <1>4, <1>5, Zenon DEF IInv, WireOK
<1>7. FramesOK'
  BY <1>1, <1>2 DEF FramesOK
<1>8. SettledOK'
  BY <1>1, <1>4 DEF IInv, SettledOK, ReadSettlesTheWrite
<1>9. \A u \in Tasks : Keeps(u)
  BY <1>1 DEF Keeps
<1> QED
  BY <1>1, <1>3, <1>6, <1>7, <1>8, <1>9, FinishOK DEF Clean

\* The deadline passes; the connection stays open with the request on it.
LEMMA NoReplyOK == ASSUME IInv, NEW t \in Tasks, NoReply(t) PROVE IInv'
<1>1. worker[t].pc = "sent" /\ Finish(t, "noanswer", TRUE) /\ UNCHANGED wire
  BY DEF NoReply
<1>2. ran' = ran /\ settled' = (settled \/ (caller[t].kind = "read" /\ "noanswer" = "ok"))
  BY <1>1, FinishAsync
<1>3. settled' = settled
  BY <1>2 DEF IInv, WireOK
<1>4. WireOK' /\ FramesOK' /\ SettledOK'
  BY <1>1, <1>2, <1>3, WireAlone
<1>5. \A u \in Tasks : Keeps(u)
  BY <1>1 DEF Keeps, wire
<1> QED
  BY <1>1, <1>4, <1>5, FinishOK DEF wire

\* A frame arrives while t waits: the reply to t's request has t's transaction ID and
\* leaves nothing behind it on the wire, any other is recognised as late.
LEMMA Arrived ==
    ASSUME IInv, NEW t \in Tasks, worker[t].pc = "sent", down # <<>>
    PROVE  /\ down' = Tail(down) =>
                 /\ down' \in Seq(Replies)
                 /\ \A i \in DOMAIN down' : i + 1 \in DOMAIN down /\ down'[i] = down[i + 1]
           /\ Head(down) = down[1] /\ 1 \in DOMAIN down /\ Head(down) \in Replies
           /\ Matches(Head(down), worker[t].tid) =>
                 /\ Head(down).by = t /\ up = <<>>
                 /\ \A r \in orphans : r.by # t
                 /\ Head(down).res = "refused" => ~ran[t]
<1>1. TransactionOK(t)
  BY DEF IInv, CallsOK
<1>2. down \in Seq(Replies)
  BY DEF IInv, WireOK
<1>3. /\ down' = Tail(down) =>
             /\ down' \in Seq(Replies)
             /\ \A i \in DOMAIN down' : i + 1 \in DOMAIN down /\ down'[i] = down[i + 1]
      /\ Head(down) = down[1] /\ 1 \in DOMAIN down /\ Head(down) \in Replies
  BY <1>2, Tailed
<1> QED
  BY <1>1, <1>3 DEF TransactionOK, Matches

\* A reply is taken off the wire.
LEMMA ReceiveOK == ASSUME IInv, NEW t \in Tasks, Receive(t) PROVE IInv'
<1> DEFINE r == Head(down)
<1>1. worker[t].pc = "sent" /\ down # <<>>
  BY DEF Receive
<1>2. /\ down' = Tail(down) =>
             /\ down' \in Seq(Replies)
             /\ \A i \in DOMAIN down' : i + 1 \in DOMAIN down /\ down'[i] = down[i + 1]
      /\ r = down[1] /\ 1 \in DOMAIN down /\ r \in Replies
      /\ Matches(r, worker[t].tid) =>
             /\ r.by = t /\ up = <<>>
             /\ \A q \in orphans : q.by # t
             /\ r.res = "refused" => ~ran[t]
  BY <1>1, Arrived
<1>3. CASE /\ Matches(r, worker[t].tid) /\ r.res \in {"ok", "refused"}
           /\ down' = Tail(down)
           /\ Finish(t, r.res, r.by = t)
           /\ UNCHANGED <<tid, sock, up, orphans>>
  <2>1. Finish(t, r.res, TRUE) /\ r.by = t /\ up = <<>>
    BY <1>2, <1>3
  <2>2. ran' = ran /\ settled' = (settled \/ (caller[t].kind = "read" /\ r.res = "ok"))
    BY <1>1, <1>3, <2>1, FinishAsync
  <2>3. settled' \in BOOLEAN
    BY <2>2, Zenon DEF IInv, WireOK
  <2>4. WireOK'
    BY <1>2, <1>3, <2>2, <2>3, Zenon DEF IInv, WireOK
  <2>5. FramesOK'
    BY <1>2, <1>3 DEF IInv, FramesOK, Ahead
  <2>6. SettledOK'
    BY <1>3, <2>1 DEF IInv, SettledOK, ReadSettlesTheWrite, ToSet
  <2>7. \A u \in Tasks : Keeps(u)
    BY <1>3 DEF Keeps
  <2>8. \A u \in Tasks : (\A i \in DOMAIN down : down[i].by # u) => \A i \in DOMAIN down' : down'[i].by # u
    BY <1>2, <1>3
  <2>9. r.res = "refused" => ~ran[t] /\ (\A i \in DOMAIN up' : up'[i].by # t) /\ \A q \in orphans' : q.by # t
    BY <1>2, <1>3, <2>1
  <2> HIDE DEF r
  <2> QED
    BY <1>1, <1>3, <2>1, <2>4, <2>5, <2>6, <2>7, <2>8, <2>9, FinishOK
<1>4. CASE /\ down' = Tail(down)
           /\ UNCHANGED <<async, caller, worker, tid, sock, up, orphans, ran, settled>>
  <2>1. AsyncOK' /\ LockOK' /\ QueueOK' /\ CloserOK'
    BY <1>4 DEF IInv, AsyncOK, LockOK, QueueOK, CloserOK, async
  <2>2. WireOK'
    BY <1>2, <1>4 DEF IInv, WireOK
  <2>3. FramesOK'
    BY <1>2, <1>4 DEF IInv, FramesOK, Ahead
  <2>4. \A u \in Tasks : Clean(u) => Clean(u)'
    BY <1>2, <1>4 DEF Clean
  <2>5. \A u \in Tasks : TransactionOK(u) => TransactionOK(u)'
    BY <1>2, <1>4 DEF TransactionOK
  <2>6. CallsOK'
    BY <1>4, <2>4, <2>5 DEF IInv, CallsOK
  <2>7. SettledOK' /\ OwnReply' /\ NotAppliedIsFinal'
    BY <1>4 DEF IInv, SettledOK, ReadSettlesTheWrite, OwnReply, NotAppliedIsFinal
  <2> QED
    BY <2>1, <2>2, <2>3, <2>6, <2>7 DEF IInv
<1>5. CASE Drop(ToSet(up)) /\ Finish(t, "noanswer", TRUE) /\ UNCHANGED tid
  <2>1. tid' \in Tids
    BY <1>5 DEF IInv, WireOK
  <2> QED
    BY <1>1, <1>5, <2>1, RequestOK, DropFinishOK
<1> QED
  BY <1>3, <1>4, <1>5 DEF Receive

\* The disconnect: no thread is under way, and none will be.
LEMMA DisconnectOK == ASSUME IInv, Disconnect PROVE IInv'
<1>1. /\ queue # <<>> /\ Head(queue) = Closer /\ holder = Nobody /\ queue' = Tail(queue)
      /\ closed' = TRUE /\ Drop(ToSet(up))
      /\ UNCHANGED <<closing, holder, caller, worker, tid, ran, settled>>
  BY DEF Disconnect, Drained
<1>2. /\ Head(queue) = queue[1] /\ 1 \in DOMAIN queue
      /\ queue' \in Seq(Tasks \cup {Closer}) /\ DOMAIN queue' = 1..(Len(queue) - 1)
      /\ \A i \in DOMAIN queue' : i + 1 \in DOMAIN queue /\ queue'[i] = queue[i + 1]
  BY <1>1, Tailed DEF IInv, AsyncOK
<1>3. closing
  BY <1>1, <1>2 DEF IInv, CloserOK
<1>4. /\ sock' = FALSE /\ up' = <<>> /\ down' = <<>> /\ orphans' \subseteq Requests
      /\ \A r \in orphans' : r \in orphans \cup ToSet(up)
      /\ "orphan" \notin Faults => orphans' = orphans
  BY <1>1, SetOfUp, Dropped
<1>5. AsyncOK'
  BY <1>1, <1>2, Zenon DEF IInv, AsyncOK
<1>6. WireOK'
  BY <1>1, <1>4, EmptySeq, Zenon DEF IInv, WireOK
<1>7. LockOK'
  BY <1>1, <1>3, <1>4 DEF IInv, LockOK
<1>8. QueueOK' /\ CloserOK'
  BY <1>1, <1>2 DEF IInv, QueueOK, CloserOK
<1>9. FramesOK'
  BY <1>4 DEF FramesOK
<1>10. \A u \in Tasks : worker'[u].pc = "none"
  BY <1>1, TasksAssumption DEF IInv, LockOK
<1>11. CallsOK'
  BY <1>1, <1>4, <1>10 DEF IInv, CallsOK, Clean, ToSet
<1>12. SettledOK'
  BY <1>1, <1>4 DEF IInv, SettledOK, ReadSettlesTheWrite, ToSet
<1>13. OwnReply' /\ NotAppliedIsFinal'
  BY <1>1, <1>4 DEF IInv, OwnReply, NotAppliedIsFinal, ToSet
<1> QED
  BY <1>5, <1>6, <1>7, <1>8, <1>9, <1>11, <1>12, <1>13 DEF IInv

\* A request goes out: it is the only frame with its transaction ID.
LEMMA SendOK == ASSUME IInv, NEW t \in Tasks, Send(t) PROVE IInv'
<1>1. /\ worker[t].pc = "started"
      /\ \A i \in DOMAIN up : Age(up[i]) <= MaxLate
      /\ \A i \in DOMAIN down : Age(down[i]) <= MaxLate
      /\ tid' = NextTid /\ sock' = TRUE /\ up' = Append(up, Request(t))
      /\ worker' = [worker EXCEPT ![t] = [pc |-> "sent", tid |-> NextTid]]
      /\ settled' = (settled /\ caller[t].kind # "write")
      /\ UNCHANGED <<async, caller, down, orphans, ran>>
  BY DEF Send
<1>2. /\ NextTid \in Tids
      /\ \A x \in Tids : /\ Ahead(x, tid) <= MaxLate => Ahead(x, NextTid) = Ahead(x, tid) + 1
                         /\ Ahead(x, NextTid) = 0 <=> x = NextTid
  BY NextTidOK DEF IInv, WireOK
<1>3. /\ Request(t) \in Requests /\ Request(t).by = t /\ Request(t).tid = NextTid
      /\ Request(t).kind = caller[t].kind
  BY RequestOK
<1>4. /\ up' \in Seq(Requests) /\ Len(up') = Len(up) + 1 /\ DOMAIN up' = 1..(Len(up) + 1)
      /\ \A i \in DOMAIN up : up'[i] = up[i]
      /\ up'[Len(up) + 1] = Request(t) /\ DOMAIN up = 1..Len(up) /\ Len(up) \in Nat
  BY <1>1, <1>3, Appended DEF IInv, WireOK
<1>5. /\ \A i \in DOMAIN up : up[i].tid \in Tids
      /\ \A i \in DOMAIN down : down[i].tid \in Tids
  <2>1. (\A i \in DOMAIN up : up[i] \in Requests) /\ (\A i \in DOMAIN down : down[i] \in Replies)
    BY DEF IInv, WireOK
  <2> QED
    BY <2>1 DEF Requests, Replies
<1>6. /\ \A i \in DOMAIN up : Ahead(up[i].tid, NextTid) <= MaxLate /\ up[i].tid # NextTid
      /\ \A i \in DOMAIN down : Ahead(down[i].tid, NextTid) <= MaxLate /\ down[i].tid # NextTid
  <2>1. /\ \A i \in DOMAIN up : Ahead(up[i].tid, NextTid) <= MaxLate
        /\ \A i \in DOMAIN down : Ahead(down[i].tid, NextTid) <= MaxLate
    BY <1>1, <1>5, AgeIsAhead DEF IInv, WireOK
  <2>2. \A x \in Tids : Ahead(x, tid) \in Nat
    BY Range3 DEF IInv, WireOK, Ahead, Tids
  <2>3. \A x \in Tids : Ahead(x, tid) <= MaxLate => x # NextTid
    BY <1>2, <2>2
  <2> QED
    BY <1>5, <2>1, <2>3 DEF IInv, FramesOK
<1>7. Clean(t)
  BY <1>1 DEF IInv, CallsOK
<1>8. worker' \in [Tasks -> Workers] /\ \A u \in Tasks \ {t} : worker'[u] = worker[u]
  BY <1>1, <1>2 DEF IInv, AsyncOK, Workers
<1>9. worker'[t].pc = "sent" /\ worker'[t].tid = NextTid
  BY <1>1 DEF IInv, AsyncOK
<1>10. AsyncOK'
  BY <1>1, <1>8 DEF IInv, AsyncOK, async
<1>11. settled' \in BOOLEAN
  BY <1>1, Zenon DEF IInv, WireOK
<1>12. WireOK'
  BY <1>1, <1>2, <1>4, <1>11, Zenon DEF IInv, WireOK
<1>13. LockOK'
  <2>1. holder = t /\ caller[t].pc \in {"waiting", "gone"} /\ t # Nobody
    BY <1>1, TasksAssumption DEF IInv, LockOK
  <2> QED
    BY <1>1, <1>8, <2>1 DEF IInv, LockOK, async
<1>14. QueueOK' /\ CloserOK'
  BY <1>1 DEF IInv, QueueOK, CloserOK, async
<1>15. FramesOK'
  <2>1. Ahead(Request(t).tid, NextTid) = 0 /\ MaxLate \in Nat
    BY <1>2, <1>3, Range3
  <2>2. \A i \in DOMAIN up' : Ahead(up'[i].tid, tid') <= MaxLate
    BY <1>1, <1>4, <1>6, <2>1
  <2>3. \A i \in DOMAIN down' : Ahead(down'[i].tid, tid') <= MaxLate
    BY <1>1, <1>6
  <2>4. sock'
    BY <1>1
  <2>5. /\ \A i \in DOMAIN up' : Ahead(up[i].tid, tid)' <= MaxLate
        /\ \A i \in DOMAIN down' : Ahead(down[i].tid, tid)' <= MaxLate
    BY <2>2, <2>3 DEF Ahead
  <2> QED
    BY <2>4, <2>5 DEF FramesOK
<1>16. CallsOK'
  <2> SUFFICES ASSUME NEW u \in Tasks
               PROVE  /\ caller'[u].pc = "queued" \/ worker'[u].pc = "started" => Clean(u)'
                      /\ worker'[u].pc = "sent" => TransactionOK(u)'
    BY DEF CallsOK
  <2>1. CASE u = t
    <3>1. TransactionOK(t)'
      BY <1>1, <1>3, <1>4, <1>6, <1>7, <1>9 DEF TransactionOK, Clean
    <3>2. caller[t].pc # "queued"
      BY <1>1 DEF IInv, LockOK
    <3> QED
      BY <1>1, <1>9, <2>1, <3>1, <3>2
  <2>2. CASE u # t
    <3>1. worker'[u].pc = "none"
      BY <1>1, <1>8, <2>2 DEF IInv, LockOK
    <3>2. Clean(u) => Clean(u)'
      BY <1>1, <1>3, <1>4, <2>2 DEF Clean
    <3> QED
      BY <1>1, <3>1, <3>2 DEF IInv, CallsOK
  <2> QED
    BY <2>1, <2>2
<1>17. SettledOK'
  <2> SUFFICES ASSUME "orphan" \notin Faults
               PROVE  orphans' = {} /\ (settled' => \A i \in DOMAIN up' : up'[i].kind # "write")
    BY DEF SettledOK, ReadSettlesTheWrite, ToSet
  <2>1. orphans = {} /\ (settled => \A i \in DOMAIN up : up[i].kind # "write")
    BY DEF IInv, SettledOK, ReadSettlesTheWrite, ToSet
  <2>2. settled' => settled /\ caller[t].kind # "write"
    BY <1>1, Zenon
  <2> QED
    BY <1>1, <1>3, <1>4, <2>1, <2>2
<1>18. OwnReply'
  BY <1>1 DEF IInv, OwnReply
<1>19. NotAppliedIsFinal'
  <2>1. caller[t].pc # "idle"
    BY <1>1 DEF IInv, LockOK
  <2> QED
    BY <1>1, <1>3, <1>4, <2>1 DEF IInv, NotAppliedIsFinal, ToSet
<1> QED
  BY <1>10, <1>12, <1>13, <1>14, <1>15, <1>16, <1>17, <1>18, <1>19 DEF IInv

\* The charger takes the first request: what it does to the frames of each task.
LEMMA RequestTaken ==
    ASSUME IInv, up # <<>>, up' = Tail(up)
    PROVE  /\ up' \in Seq(Requests) /\ Len(up') = Len(up) - 1 /\ DOMAIN up' = 1..(Len(up) - 1)
           /\ \A i \in DOMAIN up' : i + 1 \in DOMAIN up /\ up'[i] = up[i + 1]
           /\ Head(up) = up[1] /\ 1 \in DOMAIN up /\ Head(up) \in Requests
           /\ DOMAIN up = 1..Len(up) /\ Len(up) \in Nat
BY Tailed DEF IInv, WireOK

\* The charger answers the first request.
LEMMA AnswerOK == ASSUME IInv, Answer PROVE IInv'
<1> DEFINE q == Head(up)
<1>1. PICK res \in {"ok", "refused", "garbled"} :
        /\ down' = Append(down, [tid |-> q.tid, res |-> res, by |-> q.by])
        /\ IF res = "refused" THEN UNCHANGED ran ELSE Execute(q)
  BY DEF Answer
<1>2. up # <<>> /\ up' = Tail(up) /\ UNCHANGED <<async, caller, worker, tid, sock, orphans, settled>>
  BY DEF Answer
<1>3. /\ up' \in Seq(Requests) /\ Len(up') = Len(up) - 1 /\ DOMAIN up' = 1..(Len(up) - 1)
      /\ \A i \in DOMAIN up' : i + 1 \in DOMAIN up /\ up'[i] = up[i + 1]
      /\ q = up[1] /\ 1 \in DOMAIN up /\ q \in Requests
      /\ DOMAIN up = 1..Len(up) /\ Len(up) \in Nat
  BY <1>2, RequestTaken
<1> DEFINE e == [tid |-> q.tid, res |-> res, by |-> q.by]
<1> HIDE DEF q
<1>4. e \in Replies /\ e.tid = q.tid /\ e.by = q.by /\ e.res = res
  BY <1>3 DEF Requests, Replies
<1>5. /\ down' \in Seq(Replies) /\ DOMAIN down' = 1..(Len(down) + 1) /\ down'[Len(down) + 1] = e
      /\ \A i \in DOMAIN down : down'[i] = down[i]
      /\ DOMAIN down = 1..Len(down) /\ Len(down) \in Nat
  BY <1>1, <1>4, Appended DEF IInv, WireOK
<1> HIDE DEF e
<1>6. /\ ran' \in [Tasks -> BOOLEAN]
      /\ \A u \in Tasks : u # q.by \/ res = "refused" => ran'[u] = ran[u]
  <2>1. CASE res = "refused" \/ q.by = Nobody
    <3>1. ran' = ran
      BY <1>1, <2>1 DEF Execute
    <3> QED
      BY <3>1 DEF IInv, WireOK
  <2>2. CASE ~(res = "refused" \/ q.by = Nobody)
    <3>1. ran' = [ran EXCEPT ![q.by] = TRUE] /\ q.by \in Tasks
      BY <1>1, <1>3, <2>2 DEF Execute, Requests, Owners
    <3> QED
      BY <2>2, <3>1 DEF IInv, WireOK
  <2> QED
    BY <2>1, <2>2
<1>7. AsyncOK' /\ LockOK' /\ QueueOK' /\ CloserOK'
  BY <1>2 DEF IInv, AsyncOK, LockOK, QueueOK, CloserOK, async
<1>8. WireOK'
  BY <1>2, <1>3, <1>5, <1>6, Zenon DEF IInv, WireOK
<1>9. FramesOK'
  <2>1. sock
    BY <1>2 DEF IInv, FramesOK
  <2>2. \A i \in DOMAIN up' : Ahead(up'[i].tid, tid) <= MaxLate
    BY <1>3 DEF IInv, FramesOK
  <2>3. \A i \in DOMAIN down' : Ahead(down'[i].tid, tid) <= MaxLate
    BY <1>3, <1>4, <1>5 DEF IInv, FramesOK
  <2> QED
    BY <1>2, <2>1, <2>2, <2>3 DEF FramesOK, Ahead
<1>10. \A u \in Tasks : Clean(u) => Clean(u)'
  BY <1>2, <1>3, <1>4, <1>5, <1>6 DEF Clean
<1>11. ASSUME NEW u \in Tasks, TransactionOK(u) PROVE TransactionOK(u)'
  <2>1. CASE q.by = u
    <3>1. Len(up) = 1 /\ q.tid = tid /\ ~ran[u]
      BY <1>3, <1>11, <2>1 DEF TransactionOK
    <3>2. up' = <<>> /\ DOMAIN up' = {}
      BY <1>3, <3>1
    <3>3. res = "refused" => ~ran'[u]
      BY <1>6, <3>1
    <3>4. \A i \in DOMAIN down : down[i].by # u
      BY <1>2, <1>11 DEF TransactionOK
    <3>5. \A i \in DOMAIN down' : /\ down'[i].by = u <=> down'[i].tid = tid
                                  /\ down'[i].by = u /\ down'[i].res = "refused" => ~ran'[u]
      BY <1>4, <1>5, <1>11, <2>1, <3>1, <3>3, <3>4 DEF TransactionOK
    <3> QED
      BY <1>2, <1>11, <3>2, <3>5 DEF TransactionOK
  <2>2. CASE q.by # u
    <3>1. ran'[u] = ran[u] /\ q.tid # tid
      BY <1>3, <1>6, <1>11, <2>2 DEF TransactionOK
    <3>2. \A i \in DOMAIN up' : /\ up'[i].by = u <=> up'[i].tid = tid
                                /\ up'[i].by = u => i = Len(up') /\ ~ran'[u]
      BY <1>3, <1>11, <3>1 DEF TransactionOK
    <3>3. \A i \in DOMAIN down : down[i].by # u
      BY <1>2, <1>11 DEF TransactionOK
    <3>4. \A i \in DOMAIN down' : down'[i].by # u /\ down'[i].tid # tid
      BY <1>4, <1>5, <1>11, <2>2, <3>1, <3>3 DEF TransactionOK
    <3> QED
      BY <1>2, <1>11, <3>2, <3>4 DEF TransactionOK
  <2> QED
    BY <2>1, <2>2
<1>12. CallsOK'
  BY <1>2, <1>10, <1>11 DEF IInv, CallsOK
<1>13. SettledOK'
  BY <1>2, <1>3 DEF IInv, SettledOK, ReadSettlesTheWrite, ToSet
<1>14. OwnReply'
  BY <1>2 DEF IInv, OwnReply
<1>15. NotAppliedIsFinal'
  <2> SUFFICES ASSUME NEW u \in Tasks, caller[u].pc = "idle", caller[u].kind = "write",
                      caller[u].res \in {"refused", "error"}
               PROVE  ~ran'[u] /\ \A r \in ToSet(up') \cup orphans' : r.by # u
    BY <1>2 DEF NotAppliedIsFinal
  <2>1. ~ran[u] /\ \A r \in ToSet(up) \cup orphans : r.by # u
    BY DEF IInv, NotAppliedIsFinal
  <2> QED
    BY <1>2, <1>3, <1>6, <2>1 DEF ToSet
<1> QED
  BY <1>7, <1>8, <1>9, <1>12, <1>13, <1>14, <1>15 DEF IInv

\* A request is lost.
LEMMA IgnoreOK == ASSUME IInv, Ignore PROVE IInv'
<1>1. up # <<>> /\ up' = Tail(up) /\ UNCHANGED <<async, caller, worker, tid, sock, down, orphans, ran, settled>>
  BY DEF Ignore
<1>2. /\ up' \in Seq(Requests) /\ Len(up') = Len(up) - 1 /\ DOMAIN up' = 1..(Len(up) - 1)
      /\ \A i \in DOMAIN up' : i + 1 \in DOMAIN up /\ up'[i] = up[i + 1]
      /\ DOMAIN up = 1..Len(up) /\ Len(up) \in Nat
  BY <1>1, RequestTaken
<1>3. AsyncOK' /\ LockOK' /\ QueueOK' /\ CloserOK'
  BY <1>1 DEF IInv, AsyncOK, LockOK, QueueOK, CloserOK, async
<1>4. WireOK'
  BY <1>1, <1>2, Zenon DEF IInv, WireOK
<1>5. FramesOK'
  BY <1>1, <1>2 DEF IInv, FramesOK, Ahead
<1>6. \A u \in Tasks : Clean(u) => Clean(u)'
  BY <1>1, <1>2 DEF Clean
<1>7. \A u \in Tasks : TransactionOK(u) => TransactionOK(u)'
  BY <1>1, <1>2 DEF TransactionOK
<1>8. CallsOK'
  BY <1>1, <1>6, <1>7 DEF IInv, CallsOK
<1>9. SettledOK' /\ OwnReply' /\ NotAppliedIsFinal'
  BY <1>1, <1>2 DEF IInv, SettledOK, ReadSettlesTheWrite, OwnReply, NotAppliedIsFinal, ToSet
<1> QED
  BY <1>3, <1>4, <1>5, <1>8, <1>9 DEF IInv

\* A write of a closed connection arrives after all, or never.
LEMMA OrphanOK == ASSUME IInv, Orphan PROVE IInv'
<1>1. PICK q \in orphans : orphans' = orphans \ {q} /\ (Execute(q) \/ UNCHANGED ran)
  BY DEF Orphan
<1>2. UNCHANGED <<async, caller, worker, tid, sock, up, down, settled>>
  BY DEF Orphan
<1>3. q \in Requests
  BY DEF IInv, WireOK
<1>4. ran' \in [Tasks -> BOOLEAN] /\ \A u \in Tasks : u # q.by => ran'[u] = ran[u]
  <2>1. CASE UNCHANGED ran
    BY <2>1 DEF IInv, WireOK
  <2>2. CASE Execute(q) /\ q.by # Nobody
    <3>1. ran' = [ran EXCEPT ![q.by] = TRUE] /\ q.by \in Tasks
      BY <1>3, <2>2 DEF Execute, Requests, Owners
    <3> QED
      BY <3>1 DEF IInv, WireOK
  <2>3. CASE Execute(q) /\ q.by = Nobody
    BY <2>3 DEF Execute, IInv, WireOK
  <2> QED
    BY <1>1, <2>1, <2>2, <2>3
<1>5. AsyncOK' /\ LockOK' /\ QueueOK' /\ CloserOK'
  BY <1>2 DEF IInv, AsyncOK, LockOK, QueueOK, CloserOK, async
<1>6. WireOK' /\ FramesOK'
  <2>1. orphans' \subseteq Requests
    BY <1>1 DEF IInv, WireOK
  <2>2. WireOK'
    BY <1>2, <1>4, <2>1, Zenon DEF IInv, WireOK
  <2> QED
    BY <1>2, <2>2 DEF IInv, FramesOK, Ahead
<1>7. \A u \in Tasks : Clean(u) => Clean(u)'
  BY <1>1, <1>2, <1>4 DEF Clean
<1>8. \A u \in Tasks : TransactionOK(u) => TransactionOK(u)'
  BY <1>1, <1>2, <1>4 DEF TransactionOK
<1>9. CallsOK'
  BY <1>2, <1>7, <1>8 DEF IInv, CallsOK
<1>10. SettledOK' /\ OwnReply'
  BY <1>1, <1>2 DEF IInv, SettledOK, ReadSettlesTheWrite, OwnReply
<1>11. NotAppliedIsFinal'
  BY <1>1, <1>2, <1>4 DEF IInv, NotAppliedIsFinal
<1> QED
  BY <1>5, <1>6, <1>9, <1>10, <1>11 DEF IInv

\* Every step keeps the invariant.
LEMMA NextOK == IInv /\ [Next]_vars => IInv'
<1> SUFFICES ASSUME IInv, [Next]_vars PROVE IInv'
  OBVIOUS
<1>1. CASE UNCHANGED vars
  <2> USE <1>1 DEF vars, async, wire
  <2>1. AsyncOK' /\ LockOK' /\ QueueOK' /\ CloserOK'
    BY DEF IInv, AsyncOK, LockOK, QueueOK, CloserOK
  <2>2. /\ WireOK' /\ FramesOK' /\ SettledOK'
        /\ \A u \in Tasks : (Clean(u) => Clean(u)')
        /\ \A u \in Tasks : TransactionOK(u) /\ worker'[u] = worker[u] => TransactionOK(u)'
    BY WireAlone
  <2>3. CallsOK'
    BY <2>2 DEF IInv, CallsOK
  <2>4. OwnReply' /\ NotAppliedIsFinal'
    BY DEF IInv, OwnReply, NotAppliedIsFinal
  <2> QED
    BY <2>1, <2>2, <2>3, <2>4 DEF IInv
<1>2. CASE \E t \in Tasks : Call(t) \/ Begin(t) \/ Cancel(t)
  BY <1>2, CallOK, BeginOK, CancelOK
<1>3. CASE \E t \in Tasks : WorkerStep(t)
  BY <1>3, SendOK, ConnectFailsOK, SendFailsOK, ReceiveOK, NoReplyOK, BrokenOK DEF WorkerStep
<1>4. CASE Close \/ Disconnect \/ Answer \/ Ignore \/ Orphan
  BY <1>4, CloseOK, DisconnectOK, AnswerOK, IgnoreOK, OrphanOK
<1> QED
  BY <1>1, <1>2, <1>3, <1>4 DEF Next

(***************************************************************************)
(* The theorems.                                                           *)
(***************************************************************************)

\* The inductive invariant holds in every reachable state of the transport.
THEOREM Invariance == Spec => []IInv
BY InitOK, NextOK, PTL DEF Spec

\* The invariant leaves room for one thread on the connection: the holder's.
LEMMA OneThread == IInv => WireIsExclusive
<1> SUFFICES ASSUME IInv PROVE WireIsExclusive
  OBVIOUS
<1> DEFINE busy == {t \in Tasks : worker[t].pc # "none"}
<1>1. busy \subseteq {holder}
  BY DEF IInv, LockOK
<1>2. IsFiniteSet({holder}) /\ Cardinality({holder}) = 1
  BY FS_Singleton
<1>3. Cardinality(busy) <= 1
  BY <1>1, <1>2, FS_Subset
<1> QED
  BY <1>3 DEF WireIsExclusive

\* Two threads never use the connection at the same time, whoever was cancelled
\* (ModbusRegisterIO._run).
THEOREM ExclusiveTheorem == Spec => []WireIsExclusive
BY Invariance, OneThread, PTL

\* An operation that succeeded or was refused was told so by the reply to its own
\* request (_transact).
THEOREM OwnReplyTheorem == Spec => []OwnReply
<1>1. IInv => OwnReply
  BY DEF IInv
<1> QED
  BY <1>1, Invariance, PTL

\* A frame that is not the reply to t's request is recognised as late.
LEMMA LateIsStale == IInv => LateReplyIsRecognised
<1> SUFFICES ASSUME IInv, NEW t \in Tasks, worker[t].pc = "sent", NEW i \in DOMAIN down, down[i].by # t
             PROVE  IsStale(down[i].tid, worker[t].tid)
  BY DEF LateReplyIsRecognised
<1>1. worker[t].tid = tid /\ down[i].tid # tid
  BY DEF IInv, CallsOK, TransactionOK
<1>2. down[i] \in Replies /\ tid \in Tids
  BY DEF IInv, WireOK
<1>3. down[i].tid \in Tids /\ Ahead(down[i].tid, tid) <= MaxLate
  BY <1>2 DEF IInv, FramesOK, Replies
<1> QED
  BY <1>1, <1>2, <1>3, StaleIsRecognised

\* The late reply to an abandoned request is always recognised, also when transaction IDs
\* wrap, for every even range of IDs with room for twice the late ones (_is_stale_tid).
THEOREM LateReplyTheorem == Spec => []LateReplyIsRecognised
BY Invariance, LateIsStale, PTL

\* A write reported as refused or failed was not executed and never will be, not even
\* from a connection closed since (TransportError, CommandRefused).
THEOREM NotAppliedTheorem == Spec => []NotAppliedIsFinal
<1>1. IInv => NotAppliedIsFinal
  BY DEF IInv
<1> QED
  BY <1>1, Invariance, PTL

\* Reading back settles an unknown write, on a network that does not deliver requests of a
\* connection after its close (UnknownOutcome, _transact).
THEOREM ReadBackTheorem ==
    ASSUME "orphan" \notin Faults
    PROVE  Spec => []ReadSettlesTheWrite
<1>1. IInv => ReadSettlesTheWrite
  BY DEF IInv, SettledOK
<1> QED
  BY <1>1, Invariance, PTL

\* After close() has returned there is neither a connection nor a thread (close, _run).
THEOREM ClosedTheorem == Spec => []ClosedIsQuiet
<1>1. IInv => ClosedIsQuiet
  BY TasksAssumption DEF IInv, LockOK, ClosedIsQuiet
<1> QED
  BY <1>1, Invariance, PTL

\* Once the transport is closing no operation starts any more (the second look at
\* _closing in _run).
THEOREM ClosingTheorem == Spec => ClosingStartsNothing
<1> DEFINE quiet == closing => \A t \in Tasks : worker[t].pc = "none" => worker'[t].pc = "none"
<1>1. IInv /\ [Next]_vars => [quiet]_vars
  <2> SUFFICES ASSUME IInv, Next, closing, NEW t \in Tasks, worker[t].pc = "none"
               PROVE  worker'[t].pc = "none"
    OBVIOUS
  <2>1. ASSUME NEW u \in Tasks, Begin(u) PROVE worker' = worker
    BY <2>1 DEF Begin, Refused
  <2>2. ASSUME NEW u \in Tasks, WorkerStep(u), worker' # worker PROVE worker'[t] = worker[t] \/ worker'[t].pc = "none"
    <3>1. worker[u].pc # "none" /\ u # t
      BY <2>2 DEF WorkerStep, Send, ConnectFails, SendFails, Receive, NoReply, Broken
    <3>2. worker \in [Tasks -> Workers]
      BY DEF IInv, AsyncOK
    <3>3. CASE Send(u)
      BY <3>1, <3>2, <3>3 DEF Send
    <3>4. CASE ~Send(u)
      <4>1. worker' = [worker EXCEPT ![u] = NoWorker]
        BY <2>2, <3>4 DEF WorkerStep, ConnectFails, SendFails, Receive, NoReply, Broken, Finish
      <4> QED
        BY <3>1, <3>2, <4>1
    <3> QED
      BY <3>3, <3>4
  <2>3. ASSUME NEW u \in Tasks, Call(u) \/ Cancel(u) PROVE worker' = worker
    BY <2>3 DEF Call, Cancel
  <2>4. ASSUME Close \/ Disconnect \/ Answer \/ Ignore \/ Orphan PROVE worker' = worker
    BY <2>4 DEF Close, Disconnect, Answer, Ignore, Orphan
  <2> QED
    BY <2>1, <2>2, <2>3, <2>4 DEF Next
<1> QED
  BY <1>1, Invariance, PTL DEF Spec, ClosingStartsNothing
=============================================================================
