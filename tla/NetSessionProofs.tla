-------------------------- MODULE NetSessionProofs --------------------------
(***************************************************************************)
(* Proofs about NetSession, for any number of completion threads, packets  *)
(* and sessions: in which order packets leave, that the pending list never *)
(* keeps the session from sending for good, when an exception ends the     *)
(* process, and that a peer that waits for its answers loses none before   *)
(* one is repeated.                                                        *)
(***************************************************************************)
EXTENDS NetSession, SequenceTheorems, TLAPS

Types ==
    /\ setting \in Settings
    /\ enqueued \in Seq(Nat) /\ sendQueue \in Seq(Nat) /\ pending \in Seq(Nat)
    /\ wire \in Seq(Nat) /\ tasks \in Seq(Nat)
    /\ args \in [op : {"free", "busy"}, list : Seq(Nat), result : {"ok", "zero", "error"}]
    /\ current \in Nat /\ cut \in Nat /\ pushes \in Nat /\ callbacks \in Nat
    /\ DOMAIN pc = Thread

\* What has left the queue, the n oldest packets, is in front of the rest.
Moved == Len(enqueued) - Len(sendQueue)
Before(s, x, y) == \E a, b \in 1..Len(s) : a < b /\ s[a] = x /\ s[b] = y
Early(s, n, x) == \E a \in 1..n : s[a] = x

Order ==
    /\ Len(sendQueue) <= Len(enqueued)
    /\ \A i \in 1..Len(sendQueue) : sendQueue[i] = enqueued[Moved + i]
    /\ \A i \in 1..Len(wire) : Early(enqueued, Moved, wire[i])
    /\ \A i \in 1..Len(pending) : Early(enqueued, Moved, pending[i])
    /\ \A i, j \in 1..Len(pending) : i < j => Before(enqueued, pending[i], pending[j])
    /\ \A i \in 1..Len(wire), j \in 1..Len(pending) :
         pending[j] \notin Range1(wire) => Before(enqueued, wire[i], pending[j])
    /\ Len(args.list) <= Len(pending)
    /\ \A i \in 1..Len(args.list) : args.list[i] = pending[i]
    /\ FirstSendsInOrder

\* Threads of Io are in the send path only, and hold _sendLock there until
\* they have posted.
IoPath ==
    \A t \in Io :
        /\ pc[t] \in {"idle", "test", "move", "list", "post", "completed", "clear",
                      "exchange", "close", "null"}
        /\ pc[t] \in {"test", "move", "list", "post"} => sendLock = t

\* One thread closes the socket, once.
Closing(t) == pc[t] \in {"close", "null"}
OneCloser ==
    /\ socket \in {"open", "closed", "null"}
    /\ \A t, u \in Thread : Closing(t) /\ Closing(u) => t = u
    /\ socket # "open" => disconnected
    /\ \A t \in Thread : pc[t] = "close" => socket = "open" /\ disconnected
    /\ \A t \in Thread : pc[t] = "null" => socket = "closed" /\ closedBy.thread = t
    /\ socket = "open" /\ disconnected => \E t \in Thread : pc[t] = "close"
    /\ socket = "open" => closedBy.thread = None

\* After rx has closed it does not receive again.
RxCloser ==
    closedBy.thread = "rx" =>
        /\ pc["rx"] \in {"null", "taskdone", "execute", "enqueue", "test", "dorecv", "end"}
        /\ pc["rx"] = "null" \/ socket = "null"

\* Closed with nothing to come: nothing comes.
Quiet ==
    socket # "open" /\ ~closedBy.early =>
        /\ args.op = "free" /\ callbacks = 0
        /\ \A t \in Io : pc[t] = "idle" \/ (pc[t] = "null" /\ t = closedBy.thread)
        /\ closedBy.thread # "rx" => pc["rx"] \in {"idle", "end"}

CloseInv == IoPath /\ OneCloser /\ RxCloser /\ Quiet /\ NeverMute /\ DiesOnlyOnLateCallback

-----------------------------------------------------------------------------
(* Types.                                                                  *)

LEMMA InitTypes == Init => Types
  BY DEF Init, Types

LEMMA GoDomain ==
    ASSUME Types, NEW t, NEW label, Go(t, label)
    PROVE  DOMAIN pc' = Thread
  BY Zenon DEF Types, Go

LEMMA FinishDomain ==
    ASSUME Types, NEW t, Finish(t) \/ Throw(t)
    PROVE  DOMAIN pc' = Thread
  BY GoDomain, Zenon DEF Finish, Throw, Types

LEMMA OutgoingType == ASSUME Types, NEW t PROVE Outgoing(t) \in Nat
  BY NetSessionAssumption, SMTT(30) DEF Types, Outgoing

LEMMA TakenBound == ASSUME NEW n \in Nat PROVE Taken(n) \in 0..n
  BY NetSessionAssumption DEF Taken

LEMMA SplitProperties ==
    ASSUME NEW q \in Seq(Nat)
    PROVE  /\ Split(q).batch \in Seq(Nat) /\ Split(q).rest \in Seq(Nat)
           /\ Len(Split(q).batch) = Taken(Len(q))
           /\ Len(Split(q).rest) = Len(q) - Taken(Len(q))
           /\ Taken(Len(q)) \in 0..Len(q)
           /\ \A i \in 1..Taken(Len(q)) : Split(q).batch[i] = q[i]
           /\ \A i \in 1..Len(q) - Taken(Len(q)) : Split(q).rest[i] = q[Taken(Len(q)) + i]
<1> DEFINE n == Taken(Len(q))
<1>1. Len(q) \in Nat /\ n \in 0..Len(q)
  BY TakenBound, LenProperties, Zenon
<1>2. Split(q).batch = SubSeq(q, 1, n) /\ Split(q).rest = SubSeq(q, n + 1, Len(q))
  BY Zenon DEF Split
<1> HIDE DEF n
<1>3. /\ SubSeq(q, 1, n) \in Seq(Nat) /\ Len(SubSeq(q, 1, n)) = n
      /\ \A i \in 1..n : SubSeq(q, 1, n)[i] = q[i]
  BY <1>1
<1>4. /\ SubSeq(q, n + 1, Len(q)) \in Seq(Nat)
      /\ Len(SubSeq(q, n + 1, Len(q))) = Len(q) - n
      /\ \A i \in 1..Len(q) - n : SubSeq(q, n + 1, Len(q))[i] = q[n + i]
  <2>1. PICK m \in Nat : m = n + 1
    BY <1>1
  <2>2. \A i \in m..Len(q) : q[i] \in Nat
    BY <1>1, <2>1, ElementOfSeq
  <2> DEFINE r == SubSeq(q, m, Len(q))
  <2>3. /\ r \in Seq(Nat)
        /\ Len(r) = IF m <= Len(q) THEN Len(q) - m + 1 ELSE 0
        /\ \A i \in 1..Len(q) - m + 1 : r[i] = q[m + i - 1]
    BY <1>1, <2>2, SubSeqProperties
  <2> HIDE DEF r
  <2>4. Len(r) = Len(q) - n /\ Len(q) - m + 1 = Len(q) - n /\ \A i \in Int : m + i - 1 = n + i
    BY <1>1, <2>1, <2>3
  <2>5. ASSUME NEW i \in 1..Len(q) - n PROVE r[i] = q[n + i]
    <3>1. i \in Int /\ i \in 1..Len(q) - m + 1
      BY <1>1, <2>1
    <3> QED  BY <2>3, <2>4, <3>1, Zenon
  <2> QED  BY <2>1, <2>3, <2>4, <2>5, Zenon DEF r
<1> QED  BY <1>1, <1>2, <1>3, <1>4, SMTT(30) DEF n

-----------------------------------------------------------------------------
(* The order of packets.                                                   *)

OInv == Types /\ Order

data == << enqueued, sendQueue, pending, wire, args >>

LEMMA InitOrder == Init => Order
<1> SUFFICES ASSUME Init PROVE Order
  BY Zenon
<1>1. /\ enqueued = << >> /\ sendQueue = << >> /\ pending = << >> /\ wire = << >>
      /\ args.list = << >>
  BY Zenon DEF Init
<1> QED  BY <1>1 DEF Order, FirstSendsInOrder, Moved

LEMMA DataKept == ASSUME Order, UNCHANGED data PROVE Order'
<1>1. /\ enqueued' = enqueued /\ sendQueue' = sendQueue /\ pending' = pending
      /\ wire' = wire /\ args' = args
  BY Zenon DEF data
<1>2. Moved' = Moved
  BY <1>1, Zenon DEF Moved
<1>3. \A x : Early(enqueued', Moved', x) <=> Early(enqueued, Moved, x)
  BY <1>1, <1>2, Zenon DEF Early
<1>4. \A x, y : Before(enqueued', x, y) <=> Before(enqueued, x, y)
  BY <1>1, Zenon DEF Before
<1>5. FirstSendsInOrder'
  BY <1>1 DEF Order, FirstSendsInOrder
<1> QED  BY <1>1, <1>2, <1>3, <1>4, <1>5 DEF Order, Range1

\* Steps that leave the lists alone.
LEMMA KeepsOInv ==
    ASSUME OInv, DOMAIN pc' = Thread, UNCHANGED << setting, data >>,
           tasks' \in Seq(Nat), current' \in Nat, cut' \in Nat, pushes' \in Nat,
           callbacks' \in Nat
    PROVE  OInv'
<1>1. Order'
  BY DataKept, Zenon DEF OInv
<1>2. Types'
  BY Zenon DEF OInv, Types, data
<1> QED  BY <1>1, <1>2, Zenon DEF OInv

LEMMA PeerOInv ==
    ASSUME OInv, PeerSends \/ PeerCloses \/ RecvEnds \/ OtherSends
    PROVE  OInv'
<1>1. Types
  BY Zenon DEF OInv
<1>2. UNCHANGED << setting, data, tasks, current, cut, callbacks >>
  BY Zenon DEF PeerSends, PeerCloses, RecvEnds, OtherSends, data, recvVars, sendVars, history
<1>3. DOMAIN pc' = Thread
  BY <1>1, Zenon DEF PeerSends, PeerCloses, RecvEnds, OtherSends, Go, Types
<1>4. pushes' \in Nat
  BY <1>1 DEF PeerSends, PeerCloses, RecvEnds, OtherSends, Types
<1> QED  BY <1>1, <1>2, <1>3, <1>4, KeepsOInv, Zenon DEF Types

LEMMA ReceiveOInv == ASSUME OInv, Receive PROVE OInv'
<1>1. Types
  BY Zenon DEF OInv
<1>2. UNCHANGED << setting, data, pushes, callbacks >>
  BY Zenon DEF Receive, OnRecvCompleted, TryExecuteTasks, TaskCompleted, DoRecv, ReceiveAsync,
         data, sendVars, history
<1>3. DOMAIN pc' = Thread
  BY <1>1, GoDomain, Zenon DEF Receive, OnRecvCompleted, TryExecuteTasks, TaskCompleted, DoRecv, ReceiveAsync,
         Types
<1>4. cut' \in Nat
  BY <1>1 DEF Receive, OnRecvCompleted, TryExecuteTasks, TaskCompleted, DoRecv, ReceiveAsync,
         Types, recvVars
<1>5. tasks' \in Seq(Nat) /\ current' \in Nat
  <2>1. CASE OnRecvCompleted
    <3>1. current' = current /\ (tasks' = tasks \/ tasks' = Append(tasks, cut + 1))
      BY <2>1, Zenon DEF OnRecvCompleted
    <3>2. tasks \in Seq(Nat) /\ cut + 1 \in Nat /\ current \in Nat
      BY <1>1 DEF Types
    <3> QED  BY <3>1, <3>2, AppendProperties
  <2>2. CASE TryExecuteTasks
    <3>1. \/ UNCHANGED << tasks, current >>
          \/ tasks # << >> /\ current' = Head(tasks) /\ tasks' = Tail(tasks)
      BY <2>2, Zenon DEF TryExecuteTasks
    <3>2. tasks \in Seq(Nat) /\ current \in Nat
      BY <1>1, Zenon DEF Types
    <3> QED  BY <3>1, <3>2, HeadTailProperties, SMTT(30)
  <2>3. CASE TaskCompleted
    BY <1>1, <2>3, Zenon DEF TaskCompleted, Types
  <2>4. CASE DoRecv \/ ReceiveAsync
    BY <1>1, <2>4, Zenon DEF DoRecv, ReceiveAsync, recvVars, Types
  <2> QED  BY <2>1, <2>2, <2>3, <2>4, Zenon DEF Receive
<1> QED  BY <1>1, <1>2, <1>3, <1>4, <1>5, KeepsOInv, Zenon DEF Types

LEMMA WalkOInv ==
    ASSUME OInv, NEW t \in Thread,
           \/ Test(t) \/ StartCallback(t) \/ OnSendCompleted(t)
           \/ Exchange(t) \/ Close(t) \/ SetNull(t)
    PROVE  OInv'
<1>1. Types
  BY Zenon DEF OInv
<1>2. UNCHANGED << setting, data, tasks, current, cut, pushes >>
  BY Zenon DEF Test, StartCallback, OnSendCompleted, Exchange, Close, SetNull,
         data, recvVars, sendVars, history
<1>3. DOMAIN pc' = Thread
  BY <1>1, GoDomain, FinishDomain, Zenon
     DEF Test, StartCallback, OnSendCompleted, Exchange, Close, SetNull
<1>4. callbacks' \in Nat
  BY <1>1 DEF Test, StartCallback, OnSendCompleted, Exchange, Close, SetNull, sendVars, Types
<1> QED  BY <1>1, <1>2, <1>3, <1>4, KeepsOInv, Zenon DEF Types

LEMMA EnqueueOInv == ASSUME OInv, NEW t \in Thread, Enqueue(t) PROVE OInv'
<1> DEFINE v == Outgoing(t)
<1>1. Types /\ Order
  BY Zenon DEF OInv
<1>2. v \in Nat
  BY <1>1, OutgoingType, Zenon
<1>3. /\ enqueued' = Append(enqueued, v) /\ sendQueue' = Append(sendQueue, v)
      /\ UNCHANGED << setting, pending, wire, args, tasks, current, cut, pushes, callbacks >>
      /\ Go(t, "test")
  BY Zenon DEF Enqueue, recvVars
<1> HIDE DEF v
<1>4. /\ enqueued' \in Seq(Nat) /\ Len(enqueued') = Len(enqueued) + 1
      /\ \A i \in 1..Len(enqueued) : enqueued'[i] = enqueued[i]
      /\ enqueued'[Len(enqueued) + 1] = v
  BY <1>1, <1>2, <1>3, AppendProperties DEF Types
<1>5. /\ sendQueue' \in Seq(Nat) /\ Len(sendQueue') = Len(sendQueue) + 1
      /\ \A i \in 1..Len(sendQueue) : sendQueue'[i] = sendQueue[i]
      /\ sendQueue'[Len(sendQueue) + 1] = v
  BY <1>1, <1>2, <1>3, AppendProperties DEF Types
<1>6. Len(enqueued) \in Nat /\ Len(sendQueue) \in Nat /\ Len(sendQueue) <= Len(enqueued)
  BY <1>1, LenProperties, Zenon DEF Types, Order
<1>7. Moved' = Moved /\ Moved \in 0..Len(enqueued)
  BY <1>4, <1>5, <1>6 DEF Moved
<1>8. \A x : Early(enqueued, Moved, x) => Early(enqueued', Moved', x)
  <2>1. \A a \in 1..Moved : a \in 1..Len(enqueued)
    BY <1>6, <1>7
  <2> QED  BY <1>4, <1>7, <2>1, Zenon DEF Early
<1>9. \A x, y : Before(enqueued, x, y) => Before(enqueued', x, y)
  BY <1>4, <1>6 DEF Before
<1>10. \A i \in 1..Len(sendQueue') : sendQueue'[i] = enqueued'[Moved' + i]
  <2> SUFFICES ASSUME NEW i \in 1..Len(sendQueue') PROVE sendQueue'[i] = enqueued'[Moved + i]
    BY <1>7, Zenon
  <2>1. CASE i \in 1..Len(sendQueue)
    <3>1. Moved + i \in 1..Len(enqueued)
      BY <1>6, <2>1 DEF Moved
    <3> QED  BY <1>1, <1>4, <1>5, <2>1, <3>1, Zenon DEF Order
  <2>2. CASE i = Len(sendQueue) + 1
    <3>1. Moved + i = Len(enqueued) + 1
      BY <1>6, <2>2 DEF Moved
    <3> QED  BY <1>4, <1>5, <2>2, <3>1, Zenon
  <2> QED  BY <1>5, <1>6, <2>1, <2>2
<1>11. FirstSendsInOrder'
  <2>1. ASSUME NEW i \in 1..Len(wire), NEW j \in 1..Len(wire), i < j,
               wire[j] \notin {wire[k] : k \in 1..j-1}
        PROVE  Before(enqueued', wire'[i], wire'[j])
    <3>1. Before(enqueued, wire[i], wire[j])
      BY <1>1, <2>1, Zenon DEF Order, FirstSendsInOrder, Before
    <3> QED  BY <1>3, <1>9, <3>1, Zenon
  <2>2. \A i, j \in 1..Len(wire') :
            i < j /\ wire'[j] \notin {wire'[k] : k \in 1..j-1} =>
                Before(enqueued', wire'[i], wire'[j])
    BY <1>3, <2>1, Zenon
  <2> QED  BY <2>2, Zenon DEF FirstSendsInOrder, Before
<1>12. Order'
  <2>1. Len(sendQueue') <= Len(enqueued')
    BY <1>4, <1>5, <1>6
  <2>2. /\ \A i \in 1..Len(wire) : Early(enqueued', Moved', wire[i])
        /\ \A i \in 1..Len(pending) : Early(enqueued', Moved', pending[i])
    BY <1>1, <1>8, Zenon DEF Order
  <2>3. \A i, j \in 1..Len(pending) : i < j => Before(enqueued', pending[i], pending[j])
    BY <1>1, <1>9, Zenon DEF Order
  <2>4. \A i \in 1..Len(wire), j \in 1..Len(pending) :
            pending[j] \notin Range1(wire) => Before(enqueued', wire[i], pending[j])
    BY <1>1, <1>9, Zenon DEF Order
  <2>5. Range1(wire') = Range1(wire)
    BY <1>3, Zenon
  <2>6. /\ Len(args.list) <= Len(pending)
        /\ \A i \in 1..Len(args.list) : args.list[i] = pending[i]
    BY <1>1, Zenon DEF Order
  <2> QED  BY <1>3, <1>10, <1>11, <2>1, <2>2, <2>3, <2>4, <2>5, <2>6, Zenon DEF Order
<1>13. Types'
  BY <1>1, <1>3, <1>4, <1>5, GoDomain, Zenon DEF Types
<1> QED  BY <1>12, <1>13, Zenon DEF OInv

\* Moving packets keeps the order: they come behind all that has left.
LEMMA MoveOInv == ASSUME OInv, NEW t \in Thread, Move(t) PROVE OInv'
<1>1. Types /\ Order
  BY Zenon DEF OInv
<1>2. /\ UNCHANGED << setting, enqueued, wire, args, tasks, current, cut, pushes, callbacks >>
      /\ DOMAIN pc' = Thread
  BY <1>1, GoDomain, FinishDomain, Zenon DEF Move, recvVars, history
<1>3. CASE UNCHANGED << sendQueue, pending >>
  <2>1. UNCHANGED data
    BY <1>2, <1>3, Zenon DEF data
  <2> QED  BY <1>1, <1>2, <2>1, KeepsOInv, Zenon DEF Types
<1>4. CASE pending' = pending \o Split(sendQueue).batch /\ sendQueue' = Split(sendQueue).rest
  <2> DEFINE n == Taken(Len(sendQueue))
             batch == Split(sendQueue).batch
             p == Len(pending)
  <2>1. /\ batch \in Seq(Nat) /\ sendQueue' \in Seq(Nat)
        /\ Len(batch) = n /\ Len(sendQueue') = Len(sendQueue) - n
        /\ n \in 0..Len(sendQueue)
        /\ \A i \in 1..n : batch[i] = sendQueue[i]
        /\ \A i \in 1..Len(sendQueue) - n : sendQueue'[i] = sendQueue[n + i]
    BY <1>1, <1>4, SplitProperties, Zenon DEF Types
  <2>2. /\ pending' = pending \o batch /\ pending \in Seq(Nat)
        /\ Len(sendQueue) \in Nat /\ Len(enqueued) \in Nat /\ p \in Nat
        /\ Len(sendQueue) <= Len(enqueued)
    BY <1>1, <1>4, LenProperties, Zenon DEF Types, Order
  <2> HIDE DEF n, batch
  <2>3. /\ pending' \in Seq(Nat) /\ Len(pending') = p + n
        /\ \A i \in 1..p : pending'[i] = pending[i]
        /\ \A i \in 1..n : pending'[p + i] = batch[i]
    <3>1. /\ pending' \in Seq(Nat) /\ Len(pending') = p + Len(batch)
          /\ \A i \in 1..p + Len(batch) :
               pending'[i] = IF i <= p THEN pending[i] ELSE batch[i - p]
      BY <2>1, <2>2, ConcatProperties, ZenonT(40)
    <3>2. \A i \in 1..p : i \in 1..p + n /\ i <= p
      BY <2>1, <2>2
    <3>3. \A i \in 1..n : p + i \in 1..p + n /\ ~(p + i <= p) /\ (p + i) - p = i
      BY <2>1, <2>2
    <3>4. \A i \in 1..p : pending'[i] = pending[i]
      BY <2>1, <3>1, <3>2, Zenon
    <3>5. \A i \in 1..n : pending'[p + i] = batch[i]
      <4> SUFFICES ASSUME NEW i \in 1..n PROVE pending'[p + i] = batch[i]
        BY Zenon
      <4>1. pending'[p + i] = IF p + i <= p THEN pending[p + i] ELSE batch[(p + i) - p]
        BY <2>1, <3>1, <3>3, Zenon
      <4> QED  BY <3>3, <4>1, Zenon
    <3> QED  BY <2>1, <3>1, <3>4, <3>5, Zenon
  <2>4. Moved' = Moved + n /\ Moved \in Nat
    BY <1>2, <2>1, <2>2 DEF Moved
  <2>5. \A x, y : Before(enqueued', x, y) <=> Before(enqueued, x, y)
    BY <1>2, Zenon DEF Before
  <2>6. \A x : Early(enqueued, Moved, x) => Early(enqueued', Moved', x)
    BY <1>2, <2>1, <2>2, <2>4 DEF Early
  <2>7. \A i \in 1..n : Moved + i \in 1..Len(enqueued) /\ pending'[p + i] = enqueued[Moved + i]
    <3> SUFFICES ASSUME NEW i \in 1..n
                 PROVE  Moved + i \in 1..Len(enqueued) /\ pending'[p + i] = enqueued[Moved + i]
      BY Zenon
    <3>1. i \in 1..Len(sendQueue) /\ Moved + i \in 1..Len(enqueued)
      BY <2>1, <2>2 DEF Moved
    <3>2. sendQueue[i] = enqueued[Moved + i]
      BY <1>1, <3>1, Zenon DEF Order
    <3> QED  BY <2>1, <2>3, <3>1, <3>2, Zenon
  <2>8. \A x : \A i \in 1..n : Early(enqueued, Moved, x) => Before(enqueued, x, pending'[p + i])
    <3> SUFFICES ASSUME NEW x, NEW i \in 1..n, Early(enqueued, Moved, x) PROVE Before(enqueued, x, pending'[p + i])
      BY Zenon
    <3>1. PICK a \in 1..Moved : enqueued[a] = x
      BY Zenon DEF Early
    <3>2. a \in 1..Len(enqueued) /\ a < Moved + i
      BY <2>1, <2>2, <2>4, <2>7
    <3> QED  BY <2>7, <3>1, <3>2, Zenon DEF Before
  <2>9. \A i, j \in 1..n : i < j => Before(enqueued, pending'[p + i], pending'[p + j])
    <3> SUFFICES ASSUME NEW i \in 1..n, NEW j \in 1..n, i < j
                 PROVE  Before(enqueued, pending'[p + i], pending'[p + j])
      BY Zenon
    <3>1. Moved + i < Moved + j
      BY <2>4
    <3> QED  BY <2>7, <3>1, Zenon DEF Before
  <2>10. \A j \in 1..Len(pending') : j \in 1..p \/ \E i \in 1..n : j = p + i
    <3> SUFFICES ASSUME NEW j \in 1..Len(pending'), j \notin 1..p
                 PROVE  \E i \in 1..n : j = p + i
      BY Zenon
    <3>1. j - p \in 1..n /\ j = p + (j - p)
      BY <2>1, <2>2, <2>3
    <3> QED  BY <3>1, Zenon
  <2>11. \A i, j \in 1..Len(pending') : i < j => Before(enqueued, pending'[i], pending'[j])
    <3> SUFFICES ASSUME NEW i \in 1..Len(pending'), NEW j \in 1..Len(pending'), i < j
                 PROVE  Before(enqueued, pending'[i], pending'[j])
      BY Zenon
    <3>1. CASE j \in 1..p
      <4>1. i \in 1..p
        BY <2>2, <3>1
      <4> QED  BY <1>1, <2>3, <3>1, <4>1, Zenon DEF Order
    <3>2. CASE i \in 1..p /\ j \notin 1..p
      <4>1. Early(enqueued, Moved, pending[i]) /\ pending'[i] = pending[i]
        BY <1>1, <2>3, <3>2, Zenon DEF Order
      <4> QED  BY <2>8, <2>10, <3>2, <4>1, SMTT(30)
    <3>3. CASE i \notin 1..p /\ j \notin 1..p
      <4>1. PICK a \in 1..n, b \in 1..n : i = p + a /\ j = p + b
        BY <2>10, <3>3, Zenon
      <4>2. a < b
        BY <2>1, <2>2, <4>1
      <4> QED  BY <2>9, <4>1, <4>2, Zenon
    <3> QED  BY <3>1, <3>2, <3>3, Zenon
  <2>12. \A i \in 1..Len(wire), j \in 1..Len(pending') :
             pending'[j] \notin Range1(wire) => Before(enqueued, wire[i], pending'[j])
    <3> SUFFICES ASSUME NEW i \in 1..Len(wire), NEW j \in 1..Len(pending'),
                        pending'[j] \notin Range1(wire)
                 PROVE  Before(enqueued, wire[i], pending'[j])
      BY Zenon
    <3>1. Early(enqueued, Moved, wire[i])
      BY <1>1, Zenon DEF Order
    <3>2. CASE j \in 1..p
      BY <1>1, <2>3, <3>2, SMTT(30) DEF Order
    <3> QED  BY <2>8, <2>10, <3>1, <3>2, Zenon
  <2>13. \A j \in 1..Len(pending') : Early(enqueued', Moved', pending'[j])
    <3> SUFFICES ASSUME NEW j \in 1..Len(pending') PROVE \E a \in 1..Moved + n : enqueued[a] = pending'[j]
      BY <1>2, <2>4, Zenon DEF Early
    <3>1. CASE j \in 1..p
      BY <1>1, <2>1, <2>2, <2>3, <2>4, <3>1 DEF Order, Early
    <3>2. CASE \E i \in 1..n : j = p + i
      <4>1. PICK i \in 1..n : j = p + i
        BY <3>2, Zenon
      <4>2. Moved + i \in 1..Moved + n
        BY <2>1, <2>2, <2>4
      <4> QED  BY <2>7, <4>1, <4>2, Zenon
    <3> QED  BY <2>10, <3>1, <3>2, Zenon
  <2>14. \A i \in 1..Len(sendQueue') : sendQueue'[i] = enqueued[Moved' + i]
    <3> SUFFICES ASSUME NEW i \in 1..Len(sendQueue') PROVE sendQueue'[i] = enqueued[Moved' + i]
      BY Zenon
    <3>1. n + i \in 1..Len(sendQueue) /\ Moved + (n + i) = Moved' + i
      BY <2>1, <2>2, <2>4, SMTT(30)
    <3> QED  BY <1>1, <2>1, <3>1 DEF Order
  <2>15. \A i \in 1..Len(args.list) : i \in 1..p /\ args.list[i] = pending'[i]
    <3>1. Len(args.list) \in Nat /\ Len(args.list) <= p
      BY <1>1, LenProperties, Zenon DEF Types, Order
    <3> QED  BY <1>1, <2>2, <2>3, <3>1 DEF Order
  <2>16. Len(args.list) <= Len(pending')
    <3>1. Len(args.list) \in Nat /\ Len(args.list) <= p
      BY <1>1, LenProperties, Zenon DEF Types, Order
    <3> QED  BY <2>1, <2>2, <2>3, <3>1
  <2>17. Order'
    <3>1. Len(sendQueue') <= Len(enqueued')
      BY <1>2, <2>1, <2>2
    <3>2. FirstSendsInOrder'
      BY <1>1, <1>2 DEF Order, FirstSendsInOrder
    <3>3. \A i \in 1..Len(wire) : Early(enqueued', Moved', wire'[i])
      BY <1>1, <1>2, <2>6, Zenon DEF Order
    <3> QED  BY <1>2, <2>5, <2>11, <2>12, <2>13, <2>14, <2>15, <2>16, <3>1, <3>2, <3>3 DEF Order, Range1
  <2>18. Types'
    BY <1>1, <1>2, <2>1, <2>3, Zenon DEF Types
  <2> QED  BY <2>17, <2>18, Zenon DEF OInv
<1> QED  BY <1>3, <1>4, Zenon DEF Move

\* The property itself depends on the queue and the wire only.
LEMMA FirstKept ==
    ASSUME FirstSendsInOrder, UNCHANGED << enqueued, wire >>
    PROVE  FirstSendsInOrder'
<1>1. enqueued' = enqueued /\ wire' = wire
  BY Zenon
<1>2. SUFFICES ASSUME NEW i \in 1..Len(wire'), NEW j \in 1..Len(wire'), i < j,
                      wire'[j] \notin {wire'[k] : k \in 1..j-1}
               PROVE  \E a, b \in 1..Len(enqueued') :
                         a < b /\ enqueued'[a] = wire'[i] /\ enqueued'[b] = wire'[j]
  BY DEF FirstSendsInOrder
<1>3. i \in 1..Len(wire) /\ j \in 1..Len(wire) /\ wire[j] \notin {wire[k] : k \in 1..j-1}
  BY <1>1, <1>2, Zenon
<1>4. \E a, b \in 1..Len(enqueued) : a < b /\ enqueued[a] = wire[i] /\ enqueued[b] = wire[j]
  BY <1>2, <1>3, Zenon DEF FirstSendsInOrder
<1> QED  BY <1>1, <1>4, Zenon

\* A list that has been sent: its packets are behind those already sent, or
\* were sent before.
LEMMA TransmitOrder ==
    ASSUME OInv, wire' = wire \o args.list, args'.list = args.list,
           UNCHANGED << enqueued, sendQueue, pending >>
    PROVE  Order' /\ wire' \in Seq(Nat)
<1> DEFINE w == Len(wire)
           n == Len(args.list)
<1>1. Types /\ Order
  BY Zenon DEF OInv
<1>2. /\ w \in Nat /\ n \in Nat /\ wire \in Seq(Nat) /\ args.list \in Seq(Nat)
      /\ Len(pending) \in Nat /\ n <= Len(pending)
  BY <1>1, LenProperties, Zenon DEF Types, Order
<1>3. /\ wire' \in Seq(Nat) /\ Len(wire') = w + n
      /\ \A i \in 1..w + n : wire'[i] = IF i <= w THEN wire[i] ELSE args.list[i - w]
  BY <1>2, ConcatProperties
<1>4. \A i \in 1..w : i \in 1..w + n /\ wire'[i] = wire[i]
  BY <1>2, <1>3
<1>5. ASSUME NEW i \in 1..w + n, i \notin 1..w
      PROVE  i - w \in 1..n /\ i - w \in 1..Len(pending) /\ wire'[i] = pending[i - w]
  <2>1. i - w \in 1..n /\ i - w \in 1..Len(pending) /\ ~(i <= w)
    BY <1>2, <1>5
  <2> QED  BY <1>1, <1>3, <2>1, Zenon DEF Order
<1>6. \A k \in 1..n : w + k \in 1..w + n /\ wire'[w + k] = pending[k]
  <2> SUFFICES ASSUME NEW k \in 1..n PROVE w + k \in 1..w + n /\ wire'[w + k] = pending[k]
    BY Zenon
  <2>1. w + k \in 1..w + n /\ w + k \notin 1..w /\ (w + k) - w = k
    BY <1>2
  <2> QED  BY <1>5, <2>1, Zenon
<1> HIDE DEF w, n
<1>7. \A i \in 1..Len(wire') : Early(enqueued, Moved, wire'[i])
  BY <1>1, <1>3, <1>4, <1>5, SMTT(30) DEF Order, w
<1>8. \A i, j \in 1..Len(wire') :
          i < j /\ wire'[j] \notin {wire'[k] : k \in 1..j-1} => Before(enqueued, wire'[i], wire'[j])
  <2> SUFFICES ASSUME NEW i \in 1..w + n, NEW j \in 1..w + n, i < j,
                      wire'[j] \notin {wire'[k] : k \in 1..j-1}
               PROVE  Before(enqueued, wire'[i], wire'[j])
    BY <1>3, Zenon
  <2>1. CASE j \in 1..w
    <3>1. i \in 1..w /\ \A k \in 1..j-1 : k \in 1..w
      BY <1>2, <2>1
    <3>2. wire[j] \notin {wire[k] : k \in 1..j-1}
      BY <1>4, <2>1, <3>1, Zenon
    <3>3. Before(enqueued, wire[i], wire[j])
      BY <1>1, <2>1, <3>1, <3>2 DEF Order, FirstSendsInOrder, Before, w
    <3> QED  BY <1>4, <2>1, <3>1, <3>3, Zenon
  <2>2. CASE j \notin 1..w /\ i \in 1..w
    <3>1. \A k \in 1..w : k \in 1..j-1
      BY <1>2, <2>2
    <3>2. wire'[j] \notin Range1(wire)
      BY <1>4, <3>1, Zenon DEF Range1, w
    <3> QED  BY <1>1, <1>4, <1>5, <2>2, <3>2, Zenon DEF Order, w
  <2>3. CASE j \notin 1..w /\ i \notin 1..w
    <3>1. i - w < j - w
      BY <1>2
    <3> QED  BY <1>1, <1>5, <2>3, <3>1, Zenon DEF Order
  <2> QED  BY <2>1, <2>2, <2>3, Zenon
<1>9. \A i \in 1..Len(wire'), j \in 1..Len(pending) :
          pending[j] \notin Range1(wire') => Before(enqueued, wire'[i], pending[j])
  <2> SUFFICES ASSUME NEW i \in 1..w + n, NEW j \in 1..Len(pending),
                      pending[j] \notin Range1(wire')
               PROVE  Before(enqueued, wire'[i], pending[j])
    BY <1>3, Zenon
  <2>1. \A k \in 1..w + n : wire'[k] # pending[j]
    BY <1>3, Zenon DEF Range1
  <2>2. CASE i \in 1..w
    <3>1. pending[j] \notin Range1(wire)
      BY <1>4, <2>1, Zenon DEF Range1, w
    <3> QED  BY <1>1, <1>4, <2>2, <3>1, Zenon DEF Order, w
  <2>3. CASE i \notin 1..w
    <3>1. j \notin 1..n
      BY <1>6, <2>1, Zenon
    <3>2. i - w \in 1..n /\ i - w \in 1..Len(pending) /\ wire'[i] = pending[i - w] /\ i - w < j
      <4>1. i - w \in 1..n /\ i - w \in 1..Len(pending) /\ wire'[i] = pending[i - w]
        BY <1>5, <2>3, Zenon
      <4>2. i - w < j
        BY <1>2, <3>1, <4>1
      <4> QED  BY <4>1, <4>2, Zenon
    <3> QED  BY <1>1, <3>2, Zenon DEF Order
  <2> QED  BY <2>2, <2>3, Zenon
<1>10. FirstSendsInOrder'
  <2>1. \A i, j \in 1..Len(wire') :
            i < j /\ wire'[j] \notin {wire'[k] : k \in 1..j-1} =>
                Before(enqueued', wire'[i], wire'[j])
    BY <1>8, Zenon
  <2> QED  BY <2>1, Zenon DEF FirstSendsInOrder, Before
<1>11. Moved' = Moved
  BY Zenon DEF Moved
<1>12. Order'
  BY <1>1, <1>7, <1>9, <1>10, <1>11, Zenon DEF Order
<1> QED  BY <1>3, <1>12, Zenon

LEMMA SendAsyncOInv == ASSUME OInv, NEW t \in Thread, SendAsync(t) PROVE OInv'
<1>1. Types
  BY Zenon DEF OInv
<1>2. /\ UNCHANGED << setting, enqueued, sendQueue, pending, tasks, current, cut, pushes, callbacks >>
      /\ DOMAIN pc' = Thread
  BY <1>1, GoDomain, FinishDomain, Zenon DEF SendAsync, recvVars
<1>3. /\ args' \in [op : {"free", "busy"}, list : Seq(Nat), result : {"ok", "zero", "error"}]
      /\ args'.list = args.list
  BY <1>1, SMTT(30) DEF SendAsync, SendResult, Types
<1>4. wire' = wire \/ wire' = wire \o args.list
  BY Zenon DEF SendAsync
<1>5. Order' /\ wire' \in Seq(Nat)
  <2>1. CASE wire' = wire
    <3>1. Moved' = Moved
      BY <1>2, SMTT(30) DEF Moved
    <3>2. FirstSendsInOrder'
      BY <1>2, <2>1, FirstKept, Zenon DEF OInv, Order
    <3> QED  BY <1>1, <1>2, <1>3, <2>1, <3>1, <3>2, Zenon DEF OInv, Order, Types
  <2>2. CASE wire' = wire \o args.list
    BY <1>2, <1>3, <2>2, TransmitOrder, Zenon
  <2> QED  BY <1>4, <2>1, <2>2, Zenon
<1> QED  BY <1>1, <1>2, <1>3, <1>5, Zenon DEF OInv, Types

LEMMA SendEndsOInv == ASSUME OInv, SendEnds PROVE OInv'
<1>1. Types
  BY Zenon DEF OInv
<1>2. /\ UNCHANGED << setting, enqueued, sendQueue, pending, tasks, current, cut, pushes, pc >>
      /\ callbacks' \in Nat
  BY <1>1 DEF SendEnds, recvVars, Types
<1>3. /\ args' \in [op : {"free", "busy"}, list : Seq(Nat), result : {"ok", "zero", "error"}]
      /\ args'.list = args.list
  BY <1>1, Zenon DEF SendEnds, SendResult, Types
<1>4. wire' = wire \/ wire' = wire \o args.list
  BY Zenon DEF SendEnds
<1>5. Order' /\ wire' \in Seq(Nat)
  <2>1. CASE wire' = wire
    <3>1. Moved' = Moved
      BY <1>2, Zenon DEF Moved
    <3>2. FirstSendsInOrder'
      BY <1>2, <2>1, FirstKept, Zenon DEF OInv, Order
    <3> QED  BY <1>1, <1>2, <1>3, <2>1, <3>1, <3>2, Zenon DEF OInv, Order, Types
  <2>2. CASE wire' = wire \o args.list
    BY <1>2, <1>3, <2>2, TransmitOrder, Zenon
  <2> QED  BY <1>4, <2>1, <2>2, Zenon
<1> QED  BY <1>1, <1>2, <1>3, <1>5, Zenon DEF OInv, Types

\* The copy and the list are made equal, or emptied, together.
LEMMA ListsOInv ==
    ASSUME OInv, NEW t \in Thread, SetBufferList(t) \/ ClearPending(t)
    PROVE  OInv'
<1>1. Types /\ Order
  BY Zenon DEF OInv
<1>2. /\ UNCHANGED << setting, enqueued, sendQueue, wire, tasks, current, cut, pushes, callbacks >>
      /\ DOMAIN pc' = Thread
  BY <1>1, GoDomain, FinishDomain, Zenon DEF SetBufferList, ClearPending, recvVars, history, Types
<1>3. \/ UNCHANGED << args, pending >>
      \/ args' = [args EXCEPT !.list = pending] /\ pending' = pending
      \/ args' = [args EXCEPT !.list = << >>] /\ pending' = << >>
  BY Zenon DEF SetBufferList, ClearPending
<1>4. /\ args' \in [op : {"free", "busy"}, list : Seq(Nat), result : {"ok", "zero", "error"}]
      /\ pending' \in Seq(Nat)
  <2>1. << >> \in Seq(Nat)
    OBVIOUS
  <2> QED  BY <1>1, <1>3, <2>1, Zenon DEF Types
<1>5. /\ Len(args'.list) <= Len(pending')
      /\ \A i \in 1..Len(args'.list) : args'.list[i] = pending'[i]
  BY <1>1, <1>3, LenProperties, SMTT(30) DEF Types, Order
<1>6. pending' = pending \/ pending' = << >>
  BY <1>3, Zenon
<1>7. Order'
  <2>1. Moved' = Moved
    BY <1>2, SMTT(30) DEF Moved
  <2>2. FirstSendsInOrder'
    BY <1>1, <1>2, FirstKept, Zenon DEF Order
  <2> QED  BY <1>1, <1>2, <1>5, <1>6, <2>1, <2>2 DEF Order
<1> QED  BY <1>1, <1>2, <1>4, <1>7, Zenon DEF OInv, Types

LEMMA NextOInv == OInv /\ [Next]_vars => OInv'
<1> SUFFICES ASSUME OInv, [Next]_vars PROVE OInv'
  BY SMTT(30)
<1>1. CASE UNCHANGED vars
  <2>1. UNCHANGED << setting, data, tasks, current, cut, pushes, callbacks, pc >>
    BY <1>1, Zenon DEF vars, data, recvVars, sendVars, history
  <2> QED  BY <2>1, KeepsOInv, Zenon DEF OInv, Types
<1>2. CASE PeerSends \/ PeerCloses \/ RecvEnds \/ OtherSends
  BY <1>2, PeerOInv, Zenon
<1>3. CASE Receive
  BY <1>3, ReceiveOInv, Zenon
<1>4. CASE SendEnds
  BY <1>4, SendEndsOInv, Zenon
<1>5. CASE \E t \in Thread : ThreadStep(t)
  <2>1. PICK t \in Thread : ThreadStep(t)
    BY <1>5, Zenon
  <2> QED  BY <2>1, WalkOInv, EnqueueOInv, MoveOInv, ListsOInv, SendAsyncOInv, Zenon DEF ThreadStep
<1> QED  BY <1>1, <1>2, <1>3, <1>4, <1>5, Zenon DEF Next

\* Packets reach the wire for the first time in the order Send queued them,
\* for any number of completion threads and callers: the test of the pending
\* list outside of the lock (NetSession.cs:84) costs repeats, never order.
THEOREM PacketsLeaveInOrder == Spec => []FirstSendsInOrder
<1>1. Init => OInv
  BY InitTypes, InitOrder, SMTT(30) DEF OInv
<1>2. OInv => FirstSendsInOrder
  BY Zenon DEF OInv, Order
<1> QED  BY <1>1, <1>2, NextOInv, PTL DEF Spec

-----------------------------------------------------------------------------
(* Closing.                                                                *)

CInv == Types /\ CloseInv

LEMMA Returns ==
    /\ \A t : t # "rx" => Return(t) = "idle"
    /\ Return("rx") \in {"taskdone", "dorecv"}
<1>1. ASSUME NEW t, t # "rx" PROVE Return(t) = "idle"
  BY <1>1, Zenon DEF Return
<1>2. Return("rx") \in {"taskdone", "dorecv"}
  BY Zenon DEF Return
<1> QED  BY <1>1, <1>2, Zenon

LEMMA Threads ==
    /\ "rx" \in Thread /\ "other" \in Thread /\ Io \subseteq Thread
    /\ "rx" \notin Io /\ "other" \notin Io /\ None \notin Thread
  BY NetSessionAssumption, Zenon DEF Thread, None

\* Where a thread goes when it leaves the send path.
LEMMA Leaves ==
    ASSUME Types, NEW t \in Thread, Finish(t)
    PROVE  /\ DOMAIN pc' = Thread
           /\ \A u \in Thread : u # t => pc'[u] = pc[u]
           /\ pc'[t] = Return(t)
           /\ \A u \in Thread : u # t /\ sendLock = u => sendLock' = u
  BY Threads, Zenon DEF Types, Finish, Go

LEMMA Goes ==
    ASSUME Types, NEW t \in Thread, NEW label, Go(t, label)
    PROVE  /\ DOMAIN pc' = Thread
           /\ \A u \in Thread : u # t => pc'[u] = pc[u]
           /\ pc'[t] = label
  BY Zenon DEF Types, Go

LEMMA IoPathStep == ASSUME CInv, Next PROVE IoPath'
<1>1. Types /\ IoPath
  BY Zenon DEF CInv, CloseInv
<1>2. CASE PeerSends \/ PeerCloses \/ RecvEnds \/ OtherSends \/ SendEnds
  <2>1. sendLock' = sendLock /\ \A t \in Io : pc'[t] = pc[t]
    BY <1>1, <1>2, Threads, Zenon DEF PeerSends, PeerCloses, RecvEnds, OtherSends, SendEnds, Go, Types, sendVars
  <2> QED  BY <1>1, <2>1, SMTT(30) DEF IoPath
<1>3. CASE Receive
  <2>1. sendLock' = sendLock /\ \A t \in Io : pc'[t] = pc[t]
    BY <1>1, <1>3, Threads, SMTT(30)
       DEF Receive, OnRecvCompleted, TryExecuteTasks, TaskCompleted, DoRecv, ReceiveAsync, Go, Types,
           sendVars
  <2> QED  BY <1>1, <2>1, Zenon DEF IoPath
<1>4. CASE \E t \in Thread : ThreadStep(t)
  <2>1. PICK t \in Thread : ThreadStep(t)
    BY <1>4, Zenon
  <2>2. \A u \in Thread : u # t => pc'[u] = pc[u] /\ (sendLock = u => sendLock' = u)
    BY <1>1, <2>1, Leaves, Goes, Threads
       DEF ThreadStep, Enqueue, Test, Move, SetBufferList, SendAsync, StartCallback,
           OnSendCompleted, ClearPending, Exchange, Close, SetNull, Throw, sendVars
  <2>3. ASSUME t \in Io
        PROVE  /\ pc'[t] \in {"idle", "test", "move", "list", "post", "completed", "clear",
                              "exchange", "close", "null"}
               /\ pc'[t] \in {"test", "move", "list", "post"} => sendLock' = t
    <3>1. /\ pc[t] \in {"idle", "test", "move", "list", "post", "completed", "clear",
                        "exchange", "close", "null"}
          /\ pc[t] \in {"test", "move", "list", "post"} => sendLock = t
      BY <1>1, <2>3, Zenon DEF IoPath
    <3>2. Return(t) = "idle"
      BY <2>3, Returns, Threads, Zenon
    <3>3. CASE Enqueue(t) \/ Test(t) \/ Move(t) \/ SetBufferList(t)
      BY <1>1, <3>1, <3>2, <3>3, Leaves, Goes, Zenon DEF Enqueue, Test, Move, SetBufferList, Throw
    <3>4. CASE SendAsync(t) \/ StartCallback(t) \/ OnSendCompleted(t)
      BY <1>1, <3>1, <3>2, <3>4, Leaves, Goes
         DEF SendAsync, StartCallback, OnSendCompleted, Throw, AfterSend
    <3>5. CASE ClearPending(t) \/ Exchange(t) \/ Close(t) \/ SetNull(t)
      BY <1>1, <3>1, <3>2, <3>5, Leaves, Goes DEF ClearPending, Exchange, Close, SetNull
    <3> QED  BY <2>1, <3>3, <3>4, <3>5, Zenon DEF ThreadStep
  <2> QED  BY <1>1, <2>2, <2>3, Threads, Zenon DEF IoPath
<1> QED  BY <1>2, <1>3, <1>4, Zenon DEF Next

\* Steps that neither disconnect nor enter or leave Disconnect.
LEMMA OneCloserKept ==
    ASSUME OneCloser, UNCHANGED sockVars,
           \A t \in Thread : pc'[t] = pc[t] \/ (~Closing(t) /\ pc'[t] \notin {"close", "null"})
    PROVE  OneCloser'
<1>1. socket' = socket /\ disconnected' = disconnected /\ closedBy' = closedBy
  BY Zenon DEF sockVars
<1>2. \A t \in Thread : /\ pc'[t] = "close" <=> pc[t] = "close"
                        /\ pc'[t] = "null" <=> pc[t] = "null"
  BY Zenon DEF Closing
<1> QED  BY <1>1, <1>2, Zenon DEF OneCloser, Closing

LEMMA OneCloserStep == ASSUME CInv, Next PROVE OneCloser'
<1>1. Types /\ OneCloser
  BY Zenon DEF CInv, CloseInv
<1>2. CASE PeerSends \/ PeerCloses \/ RecvEnds \/ OtherSends \/ SendEnds
  <2>1. /\ UNCHANGED sockVars
        /\ \A t \in Thread : pc'[t] = pc[t] \/ (~Closing(t) /\ pc'[t] \notin {"close", "null"})
    BY <1>1, <1>2, Threads, Zenon
       DEF PeerSends, PeerCloses, RecvEnds, OtherSends, SendEnds, Go, Types, Closing
  <2> QED  BY <1>1, <2>1, OneCloserKept, SMTT(30)
<1>3. CASE Receive
  <2>1. /\ UNCHANGED sockVars
        /\ \A t \in Thread : pc'[t] = pc[t] \/ (~Closing(t) /\ pc'[t] \notin {"close", "null"})
    BY <1>1, <1>3, Threads, Zenon
       DEF Receive, OnRecvCompleted, TryExecuteTasks, TaskCompleted, DoRecv, ReceiveAsync, Go, Types,
           Closing
  <2> QED  BY <1>1, <2>1, OneCloserKept, Zenon
<1>4. ASSUME NEW t \in Thread,
             \/ Enqueue(t) \/ Test(t) \/ Move(t) \/ SetBufferList(t) \/ SendAsync(t)
             \/ StartCallback(t) \/ OnSendCompleted(t) \/ ClearPending(t)
      PROVE  OneCloser'
  <2>1. UNCHANGED sockVars
    BY <1>4, Zenon DEF Enqueue, Test, Move, SetBufferList, SendAsync, StartCallback, OnSendCompleted,
                ClearPending
  <2>2. \A u \in Thread : u # t => pc'[u] = pc[u]
    BY <1>1, <1>4, Leaves, Goes, Zenon
       DEF Enqueue, Test, Move, SetBufferList, SendAsync, StartCallback, OnSendCompleted,
           ClearPending, Throw
  <2>3. Return(t) \notin {"close", "null"}
    BY Returns, Zenon
  <2>4. ~Closing(t)
    BY <1>4, Zenon DEF Enqueue, Test, Move, SetBufferList, SendAsync, StartCallback, OnSendCompleted,
                ClearPending, Closing
  <2>5. pc'[t] = pc[t] \/ pc'[t] \notin {"close", "null"}
    BY <1>1, <1>4, <2>3, Leaves, Goes
       DEF Enqueue, Test, Move, SetBufferList, SendAsync, StartCallback, OnSendCompleted,
           ClearPending, Throw, AfterSend
  <2> QED  BY <1>1, <2>1, <2>2, <2>4, <2>5, OneCloserKept, Zenon
<1>5. ASSUME NEW t \in Thread, Exchange(t) PROVE OneCloser'
  <2>1. socket' = socket /\ closedBy' = closedBy /\ disconnected'
    BY <1>5, Zenon DEF Exchange
  <2>2. CASE disconnected
    <3>1. /\ \A u \in Thread : u # t => pc'[u] = pc[u]
          /\ pc[t] = "exchange" /\ pc'[t] \in {"idle", "taskdone", "dorecv"}
      BY <1>1, <1>5, <2>2, Leaves, Returns, Zenon DEF Exchange
    <3> QED  BY <1>1, <2>1, <2>2, <3>1, Zenon DEF OneCloser, Closing
  <2>3. CASE ~disconnected
    <3>1. /\ \A u \in Thread : u # t => pc'[u] = pc[u]
          /\ pc'[t] = "close"
      BY <1>1, <1>5, <2>3, Goes, Zenon DEF Exchange
    <3>2. socket = "open" /\ \A u \in Thread : ~Closing(u)
      BY <1>1, <2>3, Zenon DEF OneCloser, Closing
    <3> QED  BY <1>1, <2>1, <3>1, <3>2, SMTT(30) DEF OneCloser, Closing
  <2> QED  BY <2>2, <2>3, Zenon
<1>6. ASSUME NEW t \in Thread, Close(t) PROVE OneCloser'
  <2>1. /\ \A u \in Thread : u # t => pc'[u] = pc[u]
        /\ pc[t] = "close" /\ pc'[t] = "null"
        /\ socket' = "closed" /\ disconnected' = disconnected /\ closedBy'.thread = t
    BY <1>1, <1>6, Goes, Zenon DEF Close
  <2>2. disconnected /\ \A u \in Thread : u # t => ~Closing(u)
    BY <1>1, <2>1, Zenon DEF OneCloser, Closing
  <2> QED  BY <2>1, <2>2, Zenon DEF OneCloser, Closing
<1>7. ASSUME NEW t \in Thread, SetNull(t) PROVE OneCloser'
  <2>1. /\ \A u \in Thread : u # t => pc'[u] = pc[u]
        /\ pc[t] = "null" /\ pc'[t] \in {"idle", "taskdone", "dorecv"}
        /\ socket' = "null" /\ disconnected' = disconnected
    BY <1>1, <1>7, Leaves, Returns, Zenon DEF SetNull
  <2>2. disconnected /\ \A u \in Thread : u # t => ~Closing(u)
    BY <1>1, <2>1, Zenon DEF OneCloser, Closing
  <2> QED  BY <2>1, <2>2, Zenon DEF OneCloser, Closing
<1> QED  BY <1>2, <1>3, <1>4, <1>5, <1>6, <1>7, Zenon DEF Next, ThreadStep

\* What rx does once it has closed the socket.
LEMMA RxCloserStep == ASSUME CInv, Next PROVE RxCloser'
<1>1. Types /\ OneCloser /\ RxCloser
  BY Zenon DEF CInv, CloseInv
<1>2. ASSUME closedBy' = closedBy, socket' = socket \/ socket' = "null", pc'["rx"] = pc["rx"]
      PROVE  RxCloser'
  BY <1>1, <1>2, SMTT(30) DEF RxCloser
<1>3. CASE PeerSends \/ PeerCloses \/ OtherSends \/ SendEnds
  BY <1>1, <1>2, <1>3, Threads, Zenon DEF PeerSends, PeerCloses, OtherSends, SendEnds, Go, Types, sockVars
<1>4. CASE RecvEnds \/ Receive
  <2>1. closedBy' = closedBy /\ socket' = socket
    BY <1>4, Zenon DEF RecvEnds, Receive, OnRecvCompleted, TryExecuteTasks, TaskCompleted, DoRecv, ReceiveAsync,
                sockVars
  <2>2. SUFFICES ASSUME closedBy.thread = "rx" PROVE RxCloser'
    BY <2>1, Zenon DEF RxCloser
  <2>3. pc["rx"] \in {"null", "taskdone", "execute", "enqueue", "test", "dorecv", "end"}
        /\ (pc["rx"] = "null" \/ socket = "null")
    BY <1>1, <2>2, Zenon DEF RxCloser
  <2>4. pc'["rx"] \in {"execute", "enqueue", "dorecv", "end"} /\ pc["rx"] # "null"
    BY <1>1, <1>4, <2>3, Goes, Threads, Zenon
       DEF RecvEnds, Receive, OnRecvCompleted, TryExecuteTasks, TaskCompleted, DoRecv, ReceiveAsync
  <2> QED  BY <2>1, <2>3, <2>4, Zenon DEF RxCloser
<1>5. ASSUME NEW t \in Thread, ThreadStep(t), t # "rx" PROVE RxCloser'
  <2>1. pc'["rx"] = pc["rx"]
    BY <1>1, <1>5, Leaves, Goes, Threads, SMTT(30)
       DEF ThreadStep, Enqueue, Test, Move, SetBufferList, SendAsync, StartCallback,
           OnSendCompleted, ClearPending, Exchange, Close, SetNull, Throw
  <2>2. \/ closedBy' = closedBy /\ (socket' = socket \/ socket' = "null")
        \/ closedBy'.thread = t
    BY <1>5
       DEF ThreadStep, Enqueue, Test, Move, SetBufferList, SendAsync, StartCallback,
           OnSendCompleted, ClearPending, Exchange, Close, SetNull, sockVars
  <2> QED  BY <1>2, <1>5, <2>1, <2>2, SMTT(30) DEF RxCloser
<1>6. CASE ThreadStep("rx")
  <2>1. CASE Close("rx")
    BY <1>1, <2>1, Goes, Threads, Zenon DEF Close, RxCloser
  <2>2. CASE ~Close("rx")
    <3>1. closedBy' = closedBy
      BY <1>6, <2>2, Zenon DEF ThreadStep, Enqueue, Test, Move, SetBufferList, SendAsync, StartCallback,
                  OnSendCompleted, ClearPending, Exchange, SetNull, sockVars
    <3>2. SUFFICES ASSUME closedBy.thread = "rx" PROVE RxCloser'
      BY <3>1, Zenon DEF RxCloser
    <3>3. pc["rx"] \in {"null", "taskdone", "execute", "enqueue", "test", "dorecv", "end"}
          /\ (pc["rx"] = "null" \/ socket = "null")
      BY <1>1, <3>2, Zenon DEF RxCloser
    <3>4. Enqueue("rx") \/ Test("rx") \/ SetNull("rx")
      BY <1>6, <2>2, <3>3, SMTT(30) DEF ThreadStep, Move, SetBufferList, SendAsync, StartCallback,
                  OnSendCompleted, ClearPending, Exchange
    <3>5. socket' = "null" /\ pc'["rx"] \in {"test", "taskdone", "dorecv"}
      BY <1>1, <3>3, <3>4, Leaves, Goes, Returns, Threads, Zenon DEF Enqueue, Test, SetNull, GoesOn, sockVars
    <3> QED  BY <3>1, <3>2, <3>5, Zenon DEF RxCloser
  <2> QED  BY <2>1, <2>2, Zenon
<1> QED  BY <1>3, <1>4, <1>5, <1>6, Zenon DEF Next

\* A socket that was closed with nothing to come stays quiet.
LEMMA QuietStep == ASSUME CInv, Next PROVE Quiet'
<1>1. Types /\ IoPath /\ OneCloser /\ RxCloser /\ Quiet
  BY Zenon DEF CInv, CloseInv
<1>2. ASSUME NEW t \in Thread, Close(t) PROVE Quiet'
  <2>1. SUFFICES ASSUME ~closedBy'.early PROVE Quiet'
    BY SMTT(30) DEF Quiet
  <2>2. /\ \A u \in Thread : u # t => pc'[u] = pc[u]
        /\ pc[t] = "close" /\ pc'[t] = "null"
        /\ closedBy'.thread = t /\ args' = args /\ callbacks' = callbacks
    BY <1>1, <1>2, Goes, Zenon DEF Close, sendVars
  <2>3. ~CallbackToCome(t)
    BY <1>2, <2>1, Zenon DEF Close
  <2>4. args.op = "free" /\ callbacks = 0
    BY <1>1, <2>3 DEF CallbackToCome, Types
  <2>5. \A u \in (Io \cup {"rx"}) \ {t} : pc[u] \in {"idle", "end"}
    BY <2>3, Zenon DEF CallbackToCome
  <2>6. \A u \in Io : pc'[u] = "idle" \/ (pc'[u] = "null" /\ u = t)
    BY <1>1, <2>2, <2>5, Threads, Zenon DEF IoPath
  <2>7. t # "rx" => pc'["rx"] \in {"idle", "end"}
    BY <2>2, <2>5, Threads, Zenon
  <2> QED  BY <2>2, <2>4, <2>6, <2>7, Zenon DEF Quiet
<1>3. ASSUME Next, \A t \in Thread : ~Close(t) PROVE Quiet'
  <2>1. closedBy' = closedBy /\ (socket = "open" => socket' = "open")
    <3>1. ASSUME NEW t \in Thread, SetNull(t) PROVE socket # "open" /\ closedBy' = closedBy
      BY <1>1, <3>1, Zenon DEF SetNull, OneCloser
    <3> QED
      BY <1>3, <3>1, Zenon
         DEF Next, PeerSends, PeerCloses, OtherSends, RecvEnds, SendEnds, Receive, OnRecvCompleted,
             TryExecuteTasks, TaskCompleted, DoRecv, ReceiveAsync, ThreadStep, Enqueue, Test, Move,
             SetBufferList, SendAsync, StartCallback, OnSendCompleted, ClearPending, Exchange, sockVars
  <2>2. SUFFICES ASSUME socket # "open", ~closedBy.early PROVE Quiet'
    BY <2>1, Zenon DEF Quiet
  <2>3. /\ args.op = "free" /\ callbacks = 0
        /\ \A t \in Io : pc[t] = "idle" \/ (pc[t] = "null" /\ t = closedBy.thread)
        /\ closedBy.thread # "rx" => pc["rx"] \in {"idle", "end"}
    BY <1>1, <2>2, Zenon DEF Quiet
  <2>4. CASE PeerSends \/ PeerCloses \/ OtherSends \/ SendEnds
    <3>1. /\ args' = args /\ callbacks' = callbacks
          /\ \A t \in Io \cup {"rx"} : pc'[t] = pc[t]
      BY <1>1, <2>3, <2>4, Threads DEF PeerSends, PeerCloses, OtherSends, SendEnds, Go, Types, sendVars
    <3> QED  BY <2>1, <2>3, <3>1, Zenon DEF Quiet
  <2>5. CASE RecvEnds \/ Receive
    <3>1. /\ args' = args /\ callbacks' = callbacks
          /\ \A t \in Io : pc'[t] = pc[t]
      BY <1>1, <2>5, Threads, Zenon
         DEF RecvEnds, Receive, OnRecvCompleted, TryExecuteTasks, TaskCompleted, DoRecv, ReceiveAsync,
             Go, Types, sendVars
    <3>2. pc["rx"] \notin {"idle", "end"}
      BY <2>5, Zenon DEF RecvEnds, Receive, OnRecvCompleted, TryExecuteTasks, TaskCompleted, DoRecv, ReceiveAsync
    <3> QED  BY <2>1, <2>3, <3>1, <3>2, Zenon DEF Quiet
  <2>6. ASSUME NEW t \in Thread, ThreadStep(t) PROVE Quiet'
    <3>1. \A u \in Thread : u # t => pc'[u] = pc[u]
      BY <1>1, <2>6, Leaves, Goes, SMTT(30)
         DEF ThreadStep, Enqueue, Test, Move, SetBufferList, SendAsync, StartCallback,
             OnSendCompleted, ClearPending, Exchange, Close, SetNull, Throw
    <3>2. args'.op = "free"
      BY <1>1, <2>2, <2>3, <2>6, Zenon
         DEF ThreadStep, Enqueue, Test, Move, SetBufferList, SendAsync, StartCallback,
             OnSendCompleted, ClearPending, Exchange, Close, SetNull, sendVars, Types
    <3>3. callbacks' = 0
      BY <2>3, <2>6
         DEF ThreadStep, Enqueue, Test, Move, SetBufferList, SendAsync, StartCallback,
             OnSendCompleted, ClearPending, Exchange, Close, SetNull, sendVars
    <3>4. ASSUME t \in Io PROVE pc'[t] = "idle"
      <4>1. SetNull(t)
        BY <1>3, <2>3, <2>6, <3>4
           DEF ThreadStep, Enqueue, Test, Move, SetBufferList, SendAsync, StartCallback,
               OnSendCompleted, ClearPending, Exchange
      <4> QED  BY <1>1, <3>4, <4>1, Leaves, Returns, Threads, Zenon DEF SetNull
    <3>5. ASSUME t = "rx" PROVE closedBy.thread = "rx"
      BY <2>3, <2>6, <3>5, Threads, Zenon
         DEF ThreadStep, Enqueue, Test, Move, SetBufferList, SendAsync, StartCallback,
             OnSendCompleted, ClearPending, Exchange, Close, SetNull
    <3> QED  BY <2>1, <2>3, <3>1, <3>2, <3>3, <3>4, <3>5, Threads, SMTT(30) DEF Quiet
  <2> QED  BY <1>3, <2>4, <2>5, <2>6, SMTT(30) DEF Next
<1> QED  BY <1>2, <1>3, Zenon

\* Who keeps the pending list from being forgotten.
Caretaker(t) == pc[t] \in {"list", "post", "completed", "clear", "exchange", "close"}

LEMMA NeverMuteStep == ASSUME CInv, Next PROVE NeverMute'
<1>1. Types /\ OneCloser /\ NeverMute
  BY Zenon DEF CInv, CloseInv
<1>2. ~dead
  BY Zenon DEF Next
<1>3. SUFFICES ASSUME socket' = "open", pending' # << >>, ~dead', args'.op # "busy", ~(callbacks' > 0)
               PROVE  \E t \in Thread : Caretaker(t)'
  BY Zenon DEF NeverMute, Caretaker
<1>4. CASE PeerSends \/ PeerCloses \/ OtherSends \/ RecvEnds \/ Receive
  <2>1. /\ socket' = socket /\ pending' = pending /\ args' = args /\ callbacks' = callbacks
        /\ \A t \in Thread : Caretaker(t) => pc'[t] = pc[t]
    BY <1>1, <1>4, Threads, SMTT(30)
       DEF PeerSends, PeerCloses, OtherSends, RecvEnds, Receive, OnRecvCompleted, TryExecuteTasks,
           TaskCompleted, DoRecv, ReceiveAsync, Go, Types, sendVars, sockVars, Caretaker
  <2> QED  BY <1>1, <1>2, <1>3, <2>1, Zenon DEF NeverMute, Caretaker
<1>5. CASE SendEnds
  BY <1>1, <1>3, <1>5 DEF SendEnds, Types
<1>6. ASSUME NEW t \in Thread, ThreadStep(t) PROVE \E u \in Thread : Caretaker(u)'
  <2>1. \A u \in Thread : u # t => pc'[u] = pc[u]
    BY <1>1, <1>6, Leaves, Goes, Zenon
       DEF ThreadStep, Enqueue, Test, Move, SetBufferList, SendAsync, StartCallback,
           OnSendCompleted, ClearPending, Exchange, Close, SetNull, Throw
  <2>2. CASE Enqueue(t) \/ Test(t) \/ SetNull(t)
    <3>1. /\ pending' = pending /\ args' = args /\ callbacks' = callbacks /\ ~Caretaker(t)
          /\ socket' = socket
      BY <1>3, <2>2, Zenon DEF Enqueue, Test, SetNull, Caretaker, sockVars
    <3>2. \E u \in Thread : Caretaker(u)
      BY <1>1, <1>2, <1>3, <3>1, Zenon DEF NeverMute, Caretaker
    <3> QED  BY <2>1, <3>1, <3>2, Zenon DEF Caretaker
  <2>3. CASE Move(t) \/ SetBufferList(t) \/ SendAsync(t) \/ StartCallback(t) \/ OnSendCompleted(t)
    <3>1. pc'[t] \in {"list", "post", "completed", "clear", "exchange"}
      BY <1>1, <1>3, <2>3, Goes, Zenon
         DEF Move, SetBufferList, SendAsync, StartCallback, OnSendCompleted, LogThrows, AfterSend,
             sockVars, Types
    <3> QED  BY <3>1, Zenon DEF Caretaker
  <2>4. CASE ClearPending(t)
    BY <1>3, <2>4, Zenon DEF ClearPending
  <2>5. CASE Exchange(t)
    <3>1. CASE disconnected
      <4>1. PICK u \in Thread : pc[u] = "close"
        BY <1>1, <1>3, <2>5, <3>1, Zenon DEF OneCloser, Exchange
      <4>2. u # t
        BY <2>5, <4>1, SMTT(30) DEF Exchange
      <4> QED  BY <2>1, <4>1, <4>2, SMTT(30) DEF Caretaker
    <3>2. CASE ~disconnected
      BY <1>1, <2>5, <3>2, Goes, Zenon DEF Exchange, Caretaker
    <3> QED  BY <3>1, <3>2, Zenon
  <2>6. CASE Close(t)
    BY <1>3, <2>6, Zenon DEF Close
  <2> QED  BY <1>6, <2>2, <2>3, <2>4, <2>5, <2>6, Zenon DEF ThreadStep
<1> QED  BY <1>4, <1>5, <1>6, Zenon DEF Next

LEMMA DiesStep == ASSUME CInv, Next PROVE DiesOnlyOnLateCallback'
<1>1. Types /\ IoPath /\ OneCloser /\ RxCloser /\ Quiet
  BY Zenon DEF CInv, CloseInv
<1>2. ~dead
  BY Zenon DEF Next
<1>3. generation' = generation /\ (Readable' <=> Readable)
  <2>1. setting' = setting
    BY Zenon DEF Next, PeerSends, PeerCloses, OtherSends, RecvEnds, SendEnds, Receive, OnRecvCompleted,
           TryExecuteTasks, TaskCompleted, DoRecv, ReceiveAsync, ThreadStep, Enqueue, Test, Move,
           SetBufferList, SendAsync, StartCallback, OnSendCompleted, ClearPending, Exchange, Close,
           SetNull
  <2> QED  BY <2>1, SMTT(30) DEF generation, Readable, Request, body
<1>4. SUFFICES ASSUME dead' PROVE DiesOnlyOnLateCallback'
  BY Zenon DEF DiesOnlyOnLateCallback
\* On a completion thread: only v2, whose log lines use _socket.
<1>5. ASSUME NEW t \in Thread, ThreadStep(t) PROVE DiesOnlyOnLateCallback'
  <2>1. /\ t \in Io /\ generation = "v2" /\ socket = "null" /\ pc[t] \notin {"idle", "null"}
        /\ UNCHANGED sockVars
    <3>1. CASE Move(t) \/ SetBufferList(t) \/ SendAsync(t)
      <4>1. Throw(t) /\ UNCHANGED sockVars /\ pc[t] \in {"move", "list", "post"}
        BY <1>2, <1>4, <3>1, Zenon DEF Move, SetBufferList, SendAsync
      <4>2. t \in Io /\ (sendLock # t \/ (generation = "v2" /\ socket = "null"))
        BY <1>2, <1>4, <4>1, Zenon DEF Throw
      <4>3. sendLock = t
        BY <1>1, <4>1, <4>2, Zenon DEF IoPath
      <4> QED  BY <4>1, <4>2, <4>3, Zenon
    <3>2. CASE OnSendCompleted(t)
      <4>1. LogThrows /\ Throw(t) /\ UNCHANGED sockVars /\ pc[t] = "completed"
        BY <1>2, <1>4, <3>2, Zenon DEF OnSendCompleted
      <4> QED  BY <1>2, <1>4, <4>1, Zenon DEF Throw, LogThrows
    <3>3. CASE ClearPending(t)
      BY <1>2, <1>4, <3>3, Zenon DEF ClearPending, LogThrows
    <3>4. CASE Enqueue(t) \/ Test(t) \/ StartCallback(t) \/ Exchange(t) \/ Close(t) \/ SetNull(t)
      BY <1>2, <1>4, <3>4, Zenon DEF Enqueue, Test, StartCallback, Exchange, Close, SetNull
    <3> QED  BY <1>5, <3>1, <3>2, <3>3, <3>4, Zenon DEF ThreadStep
  <2>2. closedBy.early
    BY <1>1, <2>1, Zenon DEF Quiet
  <2> QED  BY <1>3, <2>1, <2>2, Zenon DEF DiesOnlyOnLateCallback, sockVars
\* On rx: a log line of v2, a packet that cannot be decoded, or a receive
\* posted on a socket some other thread has closed.
<1>6. CASE OnRecvCompleted
  <2>1. CASE LogThrows
    <3>1. closedBy.early /\ UNCHANGED sockVars
      BY <1>1, <1>6, <2>1, Zenon DEF OnRecvCompleted, LogThrows, Quiet, RxCloser
    <3> QED  BY <1>3, <2>1, <3>1, Zenon DEF DiesOnlyOnLateCallback, LogThrows, sockVars
  <2>2. CASE ~LogThrows
    <3>1. ~Readable /\ cut' = cut + 1
      BY <1>2, <1>4, <1>6, <2>2, Zenon DEF OnRecvCompleted
    <3> QED  BY <1>1, <1>3, <3>1 DEF DiesOnlyOnLateCallback, Types
  <2> QED  BY <2>1, <2>2, Zenon
<1>7. CASE ReceiveAsync
  <2>1. socket # "open" /\ pc["rx"] = "receive" /\ UNCHANGED sockVars
    BY <1>2, <1>4, <1>7, Zenon DEF ReceiveAsync
  <2>2. closedBy.thread # "rx"
    BY <1>1, <2>1, Zenon DEF RxCloser
  <2>3. closedBy.early
    BY <1>1, <2>1, <2>2, Zenon DEF Quiet
  <2> QED  BY <2>1, <2>2, <2>3, Zenon DEF DiesOnlyOnLateCallback, sockVars
<1>8. CASE PeerSends \/ PeerCloses \/ OtherSends \/ RecvEnds \/ SendEnds
           \/ TryExecuteTasks \/ TaskCompleted \/ DoRecv
  BY <1>2, <1>4, <1>8, Zenon
     DEF PeerSends, PeerCloses, OtherSends, RecvEnds, SendEnds, TryExecuteTasks, TaskCompleted, DoRecv
<1> QED  BY <1>5, <1>6, <1>7, <1>8, Zenon DEF Next, Receive

LEMMA InitClose == Init => CloseInv
<1> SUFFICES ASSUME Init PROVE CloseInv
  BY Zenon
<1>1. /\ socket = "open" /\ ~disconnected /\ closedBy.thread = None /\ pending = << >> /\ ~dead
      /\ \A t \in Thread : pc[t] = IF t = "rx" THEN "posted" ELSE "idle"
  BY Zenon DEF Init
<1>2. IoPath /\ OneCloser
  BY <1>1, Threads, Zenon DEF IoPath, OneCloser, Closing
<1>3. RxCloser /\ Quiet
  BY <1>1, Zenon DEF RxCloser, Quiet, None
<1>4. NeverMute /\ DiesOnlyOnLateCallback
  BY <1>1, Zenon DEF NeverMute, DiesOnlyOnLateCallback
<1> QED  BY <1>2, <1>3, <1>4, Zenon DEF CloseInv

LEMMA StutterClose == ASSUME CInv, UNCHANGED vars PROVE CloseInv'
<1>1. /\ UNCHANGED << setting, pc, sendLock, socket, disconnected, closedBy, args, callbacks, dead, cut >>
      /\ UNCHANGED pending
  BY SMTT(30) DEF vars, sendVars, sockVars, recvVars
<1>2. IoPath' /\ OneCloser'
  BY <1>1, Zenon DEF CInv, CloseInv, IoPath, OneCloser, Closing
<1>3. RxCloser' /\ Quiet'
  BY <1>1, Zenon DEF CInv, CloseInv, RxCloser, Quiet
<1>4. NeverMute'
  BY <1>1, Zenon DEF CInv, CloseInv, NeverMute
<1>5. DiesOnlyOnLateCallback'
  BY <1>1, Zenon DEF CInv, CloseInv, DiesOnlyOnLateCallback, generation, Readable, Request, body
<1> QED  BY <1>2, <1>3, <1>4, <1>5, Zenon DEF CloseInv

SInv == OInv /\ CloseInv

LEMMA SessionInvariant == Spec => []SInv
<1>1. Init => SInv
  BY InitTypes, InitOrder, InitClose, Zenon DEF SInv, OInv
<1>2. ASSUME SInv, [Next]_vars PROVE SInv'
  <2>1. OInv' /\ CInv
    BY <1>2, NextOInv, Zenon DEF SInv, OInv, CInv
  <2>2. CASE Next
    BY <2>1, <2>2, IoPathStep, OneCloserStep, RxCloserStep, QuietStep, NeverMuteStep, DiesStep, Zenon
       DEF SInv, CloseInv
  <2>3. CASE UNCHANGED vars
    BY <2>1, <2>3, StutterClose, Zenon DEF SInv
  <2> QED  BY <1>2, <2>2, <2>3, Zenon
<1> QED  BY <1>1, <1>2, PTL DEF Spec

\* A session whose socket is open is never left with a filled pending list and
\* nobody to empty it: the early return of DoSend (NetSession.cs:84) never
\* silences a session for good, however callers and completions interleave.
THEOREM SessionNeverMute == Spec => []NeverMute
<1>1. SInv => NeverMute
  BY Zenon DEF SInv, CloseInv
<1> QED  BY <1>1, SessionInvariant, PTL

\* An exception ends the process only if Disconnect (NetSession.cs:123-143)
\* closed the socket while a completion was to come, and in v1 only if a send
\* failed; or on a packet the decoder of v2 cannot read.
THEOREM DeathHasACause == Spec => []DiesOnlyOnLateCallback
<1>1. SInv => DiesOnlyOnLateCallback
  BY Zenon DEF SInv, CloseInv
<1> QED  BY <1>1, SessionInvariant, PTL

-----------------------------------------------------------------------------
(* Replies to a peer that waits for each answer.                           *)

Queued == Range1(enqueued)
Waiting == Range1(sendQueue)
Listed == Range1(pending)
Sent == Range1(wire)

\* The peer sends nothing any more.
Ended == peer = "gone" \/ socket # "open"

\* The last request that was cut from the stream has its reply.
Answered == cut = 0 \/ cut \in Sent

\* Nothing is to come and nothing is left to lose.
Done == Ended /\ requests = cut /\ Answered

\* A completion that is going to clear the pending list.
OkThread(t) == pc[t] = "clear" \/ (pc[t] = "completed" /\ args.result = "ok")
OkCallback == callbacks > 0 /\ args.result = "ok"
NoOk == ~OkCallback /\ \A t \in Thread : ~OkThread(t)

\* The peer is at most one request ahead of what was cut, and the rest of that
\* request is in the stream, in the buffer or in the hands of rx.
Cutting ==
    /\ requests \in Nat /\ stream \in Nat /\ buffered \in Nat /\ arrived \in Nat
    /\ requests = cut \/ requests = cut + 1
    /\ stream + buffered + (IF pc["rx"] \in {"received", "garbled"} THEN arrived ELSE 0)
         = IF requests = cut THEN 0 ELSE PacketUnits

\* Only the last reply can be unsent, and it is queued by its own task.
Replies ==
    /\ \A j \in Nat : 0 < j /\ j < cut => j \in Sent
    /\ requests = cut + 1 => Answered
    /\ \A j \in Queued : 0 < j /\ j <= cut
    /\ tasks = << >> \/ (tasks = << cut >> /\ cut > 0 /\ cut \notin Queued /\ pc["rx"] # "enqueue")
    /\ pc["rx"] = "enqueue" => current = cut /\ cut > 0 /\ cut \notin Queued
    /\ pc["rx"] \in {"test", "move", "list", "post"} => cut \in Queued
    /\ pc["other"] = "idle"

\* One reply at a time: in the queue or in the list.
OneReply ==
    /\ sendQueue = << >> \/ (sendQueue = << cut >> /\ cut \notin Sent /\ cut \notin Listed)
    /\ Len(pending) <= 1
    /\ args.op = "busy" => args.list # << >>

\* An unsent reply in the list, or an empty list, is not going to be cleared,
\* and one completion at most is going to clear it.
OneClears ==
    /\ cut \in Listed /\ cut \notin Sent => NoOk
    /\ pending = << >> => NoOk /\ args.op = "free"
    /\ \A t, u \in Thread : OkThread(t) /\ OkThread(u) => t = u
    /\ OkCallback => callbacks = 1 /\ \A t \in Thread : ~OkThread(t)

\* Threads that are about to send, send the last reply.
Senders ==
    /\ \A t \in Io : pc[t] \in {"test", "move"} => pending = << >> /\ sendQueue = << cut >>
    /\ \A t \in Io : pc[t] \in {"list", "post"} =>
                        pending = << cut >> /\ cut \notin Sent /\ args.op = "free"
    /\ \A t \in Io : pc[t] \in {"test", "move", "list", "post"} => pc["rx"] \notin {"list", "post"}
    /\ pc["rx"] \in {"move", "list", "post"} => \A j \in Listed : j = cut
    /\ \A t \in Thread : pc[t] = "post" => args.list = pending
    /\ \A t \in Thread : pc[t] \in {"list", "post"} => sendQueue = << >>

\* Sends fail when the peer is gone; rx sends nothing when its reply is out.
Failures ==
    /\ callbacks > 0 /\ args.result # "ok" => Ended
    /\ \A t \in Io : pc[t] = "completed" /\ args.result # "ok" => Ended
    /\ pc["rx"] = "completed" /\ args.result = "error" => Ended
    /\ pc["rx"] = "completed" /\ args.result = "zero" => cut \in Sent

Core == OneReply /\ OneClears /\ Senders /\ Failures
Kept == cut \in Queued => cut \in Waiting \/ cut \in Listed \/ cut \in Sent
Going == Cutting /\ Replies /\ Kept /\ (Done \/ Core)

\* The property, and the invariant: until the process ends, all of the above.
AllKept == Queued = Waiting \cup Listed \cup Sent
KeepInv == use = "lockstep" /\ NoRepeat => AllKept /\ (dead \/ Going)

LEMMA Ranges ==
    /\ Range1(<< >>) = {}
    /\ \A x : Range1(<< x >>) = {x}
    /\ \A s \in Seq(Nat), x \in Nat : \A y : y \in Range1(Append(s, x)) <=> y \in Range1(s) \/ y = x
<1>1. Range1(<< >>) = {}
  BY DEF Range1
<1>2. ASSUME NEW x PROVE Range1(<< x >>) = {x}
  BY DEF Range1
<1>3. ASSUME NEW s \in Seq(Nat), NEW x \in Nat, NEW y
      PROVE  y \in Range1(Append(s, x)) <=> y \in Range1(s) \/ y = x
  <2>1. /\ Len(s) \in Nat /\ Len(Append(s, x)) = Len(s) + 1
        /\ \A i \in 1..Len(s) : Append(s, x)[i] = s[i]
        /\ Append(s, x)[Len(s) + 1] = x
    BY <1>3, AppendProperties, LenProperties
  <2>2. \A i : i \in 1..Len(s) + 1 <=> i \in 1..Len(s) \/ i = Len(s) + 1
    BY <2>1
  <2> QED  BY <2>1, <2>2, Zenon DEF Range1
<1> QED  BY <1>1, <1>2, <1>3, Zenon

\* What is in one of the lists was queued.
LEMMA Inside ==
    ASSUME OInv
    PROVE  Waiting \subseteq Queued /\ Listed \subseteq Queued /\ Sent \subseteq Queued
<1>1. Types /\ Order
  BY Zenon DEF OInv
<1>2. Len(enqueued) \in Nat /\ Len(sendQueue) \in Nat /\ Len(sendQueue) <= Len(enqueued)
  BY <1>1, LenProperties, Zenon DEF Types, Order
<1>3. \A a \in 1..Moved : a \in 1..Len(enqueued)
  BY <1>2 DEF Moved
<1>4. \A i \in 1..Len(sendQueue) : Moved + i \in 1..Len(enqueued)
  BY <1>2 DEF Moved
<1>5. \A x : Early(enqueued, Moved, x) => x \in Queued
  BY <1>3, Zenon DEF Early, Queued, Range1
<1>6. Waiting \subseteq Queued
  BY <1>1, <1>4, Zenon DEF Waiting, Queued, Range1, Order
<1>7. Listed \subseteq Queued
  BY <1>1, <1>5, Zenon DEF Listed, Range1, Order
<1>8. Sent \subseteq Queued
  BY <1>1, <1>5, Zenon DEF Sent, Range1, Order
<1> QED  BY <1>6, <1>7, <1>8, Zenon

\* The invariant is what the property needs.
LEMMA KeptIsEnough ==
    ASSUME OInv, Kept, Replies
    PROVE  AllKept
<1>1. ASSUME NEW j \in Queued PROVE j \in Waiting \/ j \in Listed \/ j \in Sent
  <2>1. j \in Nat /\ cut \in Nat
    BY <1>1, ElementOfSeq DEF OInv, Types, Queued, Range1
  <2>2. j = cut \/ (0 < j /\ j < cut)
    BY <1>1, <2>1 DEF Replies
  <2> QED  BY <1>1, <2>1, <2>2, Zenon DEF Kept, Replies
<1> QED  BY <1>1, Inside, Zenon DEF AllKept
-----------------------------------------------------------------------------
(* Steps that leave the lists, or the stream and the tasks, alone.         *)

OnPath == {"test", "move", "list", "post", "completed", "clear"}

LEMMA SameLists ==
    ASSUME UNCHANGED data
    PROVE  /\ Queued' = Queued /\ Waiting' = Waiting /\ Listed' = Listed /\ Sent' = Sent
           /\ enqueued' = enqueued /\ sendQueue' = sendQueue /\ pending' = pending
           /\ wire' = wire /\ args' = args
<1>1. /\ enqueued' = enqueued /\ sendQueue' = sendQueue /\ pending' = pending
      /\ wire' = wire /\ args' = args
  BY Zenon DEF data
<1> QED  BY <1>1, Zenon DEF Queued, Waiting, Listed, Sent

LEMMA CoreKept ==
    ASSUME Core, UNCHANGED << data, cut, callbacks >>, Ended => Ended',
           \A t \in Thread : pc'[t] = pc[t] \/ pc'[t] \notin OnPath
    PROVE  Core'
<1>1. /\ Listed' = Listed /\ Sent' = Sent /\ sendQueue' = sendQueue /\ pending' = pending
      /\ args' = args /\ cut' = cut /\ callbacks' = callbacks
  BY SameLists, Zenon
<1>2. \A t \in Thread : \A l \in OnPath : pc'[t] = l => pc[t] = l
  BY Zenon
<1>3. "rx" \in Thread /\ \A t \in Io : t \in Thread
  BY Threads, Zenon
<1>4. OkCallback' <=> OkCallback
  BY <1>1, Zenon DEF OkCallback
<1>5. \A t \in Thread : OkThread(t)' => OkThread(t)
  BY <1>1, <1>2, Zenon DEF OkThread, OnPath
<1>6. NoOk => NoOk'
  BY <1>4, <1>5, Zenon DEF NoOk
<1>7. OneReply'
  BY <1>1, Zenon DEF Core, OneReply
<1>8. OneClears'
  BY <1>1, <1>4, <1>5, <1>6, Zenon DEF Core, OneClears
<1>9. Senders'
  <2>1. /\ \A t \in Io : pc'[t] \in {"test", "move"} => pending = << >> /\ sendQueue = << cut >>
        /\ \A t \in Io : pc'[t] \in {"list", "post"} =>
                            pending = << cut >> /\ cut \notin Sent /\ args.op = "free"
    BY <1>2, <1>3, Zenon DEF Core, Senders, OnPath
  <2>2. \A t \in Io : pc'[t] \in {"test", "move", "list", "post"} => pc'["rx"] \notin {"list", "post"}
    BY <1>2, <1>3, Zenon DEF Core, Senders, OnPath
  <2>3. /\ pc'["rx"] \in {"move", "list", "post"} => \A j \in Listed : j = cut
        /\ \A t \in Thread : pc'[t] = "post" => args.list = pending
        /\ \A t \in Thread : pc'[t] \in {"list", "post"} => sendQueue = << >>
    BY <1>2, <1>3, Zenon DEF Core, Senders, OnPath
  <2> QED  BY <1>1, <2>1, <2>2, <2>3, Zenon DEF Senders
<1>10. Failures'
  BY <1>1, <1>2, <1>3, Zenon DEF Core, Failures, OnPath
<1> QED  BY <1>7, <1>8, <1>9, <1>10, Zenon DEF Core

LEMMA DoneKept ==
    ASSUME Done, Ended => Ended', requests' = requests, cut' = cut, Sent \subseteq Sent'
    PROVE  Done'
  BY Zenon DEF Done, Answered

\* rx outside of the receive path, and the other threads anywhere.
LEMMA StreamKept ==
    ASSUME Cutting, Replies, UNCHANGED << requests, stream, recvVars >>, Queued' = Queued,
           Sent \subseteq Sent',
           pc'["rx"] = pc["rx"]
             \/ /\ {pc["rx"], pc'["rx"]} \cap {"received", "garbled"} = {}
                /\ pc'["rx"] # "enqueue"
                /\ pc'["rx"] \in {"test", "move", "list", "post"} => cut \in Queued,
           pc'["other"] = pc["other"]
    PROVE  Cutting' /\ Replies'
<1>1. /\ requests' = requests /\ stream' = stream /\ arrived' = arrived /\ buffered' = buffered
      /\ tasks' = tasks /\ current' = current /\ cut' = cut
  BY Zenon DEF recvVars
<1>2. pc'["rx"] \in {"received", "garbled"} <=> pc["rx"] \in {"received", "garbled"}
  BY Zenon
<1>3. Cutting'
  BY <1>1, <1>2, Zenon DEF Cutting
<1>4. Answered => Answered'
  BY <1>1, Zenon DEF Answered
<1>5. Replies'
  <2>1. \A j \in Nat : 0 < j /\ j < cut' => j \in Sent'
    BY <1>1, Zenon DEF Replies
  <2>2. pc'["rx"] = "enqueue" => pc["rx"] = "enqueue"
    BY Zenon
  <2>3. pc'["rx"] \in {"test", "move", "list", "post"} => cut \in Queued
    BY Zenon DEF Replies
  <2> QED  BY <1>1, <1>4, <2>1, <2>2, <2>3, Zenon DEF Replies
<1> QED  BY <1>3, <1>5, Zenon
LEMMA EndedKept == ASSUME Next PROVE Ended => Ended'
<1>1. peer' = peer \/ peer' = "gone"
  BY Zenon DEF Next, PeerSends, PeerCloses, OtherSends, RecvEnds, SendEnds, Receive, OnRecvCompleted,
         TryExecuteTasks, TaskCompleted, DoRecv, ReceiveAsync, ThreadStep, Enqueue, Test, Move,
         SetBufferList, SendAsync, StartCallback, OnSendCompleted, ClearPending, Exchange, Close,
         SetNull, peerVars
<1>2. socket' = socket \/ socket' \in {"closed", "null"}
  BY Zenon DEF Next, PeerSends, PeerCloses, OtherSends, RecvEnds, SendEnds, Receive, OnRecvCompleted,
         TryExecuteTasks, TaskCompleted, DoRecv, ReceiveAsync, ThreadStep, Enqueue, Test, Move,
         SetBufferList, SendAsync, StartCallback, OnSendCompleted, ClearPending, Exchange, Close,
         SetNull, sockVars
<1> QED  BY <1>1, <1>2, Zenon DEF Ended

\* The lists and the position in the stream stay: so do Kept and Done \/ Core.
LEMMA RestKept ==
    ASSUME Going, UNCHANGED << data, cut, callbacks, requests >>, Ended => Ended',
           \A t \in Thread : pc'[t] = pc[t] \/ pc'[t] \notin OnPath
    PROVE  Kept' /\ (Done' \/ Core')
<1>1. /\ Queued' = Queued /\ Waiting' = Waiting /\ Listed' = Listed /\ Sent' = Sent
      /\ requests' = requests /\ cut' = cut
  BY SameLists, Zenon
<1>2. Kept'
  BY <1>1, Zenon DEF Going, Kept
<1>3. CASE Done
  <2>1. Sent \subseteq Sent'
    BY <1>1, Zenon
  <2> QED  BY <1>1, <1>2, <1>3, <2>1, DoneKept, Zenon
<1>4. CASE Core
  BY <1>2, <1>4, CoreKept, Zenon
<1> QED  BY <1>3, <1>4, Zenon DEF Going

LEMMA PeerSendsGoing ==
    ASSUME OInv, Going, use = "lockstep", PeerSends
    PROVE  Going'
<1>1. /\ peer = "up" /\ socket = "open" /\ requests \in {0} \cup Range1(wire)
      /\ requests' = requests + 1 /\ stream' = stream + PacketUnits
      /\ UNCHANGED << data, cut, callbacks, pc, recvVars, peer, socket >>
  BY Zenon DEF PeerSends, data, recvVars, sendVars, history, sockVars
<1>2. /\ Queued' = Queued /\ Waiting' = Waiting /\ Listed' = Listed /\ Sent' = Sent
      /\ cut' = cut /\ pc' = pc /\ arrived' = arrived /\ buffered' = buffered
      /\ tasks' = tasks /\ current' = current
  BY <1>1, SameLists, Zenon DEF recvVars
<1>3. Types /\ Cutting /\ Replies /\ Kept /\ ~Done
  BY <1>1, Zenon DEF OInv, Going, Done, Ended
<1>4. requests \in Nat /\ cut \in Nat /\ PacketUnits \in Nat \ {0}
  BY <1>3, NetSessionAssumption DEF Types, Cutting
<1>5. requests = cut /\ Answered
  <2>1. CASE requests = 0
    BY <1>3, <1>4, <2>1 DEF Cutting, Answered
  <2>2. CASE requests \in Sent
    <3>1. requests \in Queued
      BY <2>2, Inside, Zenon
    <3>2. requests <= cut
      BY <1>3, <3>1, Zenon DEF Replies
    <3>3. requests = cut
      BY <1>3, <1>4, <3>2 DEF Cutting
    <3> QED  BY <2>2, <3>3, Zenon DEF Answered
  <2> QED  BY <1>1, <2>1, <2>2, Zenon DEF Sent
<1>6. Cutting'
  <2>1. pc'["rx"] = pc["rx"]
    BY <1>2, Zenon
  <2> QED  BY <1>1, <1>2, <1>3, <1>4, <1>5, <2>1 DEF Cutting
<1>7. Replies'
  BY <1>2, <1>3, <1>5, Zenon DEF Replies, Answered
<1>8. Kept'
  BY <1>2, <1>3, Zenon DEF Kept
<1>9. Core'
  <2>1. Core /\ (Ended => Ended') /\ \A t \in Thread : pc'[t] = pc[t]
    BY <1>1, <1>2, <1>3, Zenon DEF Going, Ended
  <2> QED  BY <1>1, <2>1, CoreKept, Zenon
<1> QED  BY <1>6, <1>7, <1>8, <1>9, Zenon DEF Going

LEMMA PeerClosesGoing == ASSUME Going, PeerCloses PROVE Going'
<1>1. UNCHANGED << data, cut, callbacks, pc, recvVars, requests, stream >> /\ Ended'
  BY Zenon DEF PeerCloses, data, recvVars, sendVars, history, sockVars, Ended
<1>2. Queued' = Queued /\ Sent' = Sent
  BY <1>1, SameLists, Zenon
<1>3. Cutting' /\ Replies'
  BY <1>1, <1>2, StreamKept, Zenon DEF Going
<1> QED  BY <1>1, <1>3, RestKept, Zenon DEF Going

LEMMA RecvEndsGoing == ASSUME Types, Going, RecvEnds PROVE Going'
<1>1. /\ UNCHANGED << data, cut, callbacks, requests, buffered, tasks, current, peer, socket >>
      /\ pc["rx"] = "posted" /\ Go("rx", "received")
      /\ \/ \E n \in 1..stream : arrived' = n /\ stream' = stream - n
         \/ arrived' = 0 /\ stream' = stream
  BY Zenon DEF RecvEnds, data, sendVars, history, sockVars
<1>2. /\ pc'["rx"] = "received" /\ \A t \in Thread : t # "rx" => pc'[t] = pc[t]
      /\ pc'["other"] = pc["other"]
  BY <1>1, Goes, Threads, Zenon
<1>3. Queued' = Queued /\ Sent' = Sent
  BY <1>1, SameLists, Zenon
<1>4. Cutting'
  <2>1. /\ requests \in Nat /\ stream \in Nat /\ buffered \in Nat
        /\ requests = cut \/ requests = cut + 1
        /\ stream + buffered + 0 = IF requests = cut THEN 0 ELSE PacketUnits
    BY <1>1, Zenon DEF Going, Cutting
  <2>2. arrived' \in Nat /\ stream' \in Nat /\ stream' + buffered + arrived' = stream + buffered + 0
    BY <1>1, <2>1
  <2> QED  BY <1>1, <1>2, <2>1, <2>2, Zenon DEF Cutting
<1>5. Replies'
  BY <1>1, <1>2, <1>3, Zenon DEF Going, Replies, Answered
<1>6. Ended => Ended'
  BY <1>1, Zenon DEF Ended
<1>7. \A t \in Thread : pc'[t] = pc[t] \/ pc'[t] \notin OnPath
  BY <1>2, Zenon DEF OnPath
<1> QED  BY <1>1, <1>4, <1>5, <1>6, <1>7, RestKept, Zenon DEF Going
\* A packet is cut: the one the peer has sent after the last answer.
LEMMA CutGoing ==
    ASSUME Types, Going, IoPath, ~dead',
           UNCHANGED << data, callbacks, pushes, requests, stream, arrived, current, peer, socket >>,
           pc["rx"] = "received", arrived > 0, ~Incomplete(buffered + arrived),
           buffered' = Trimmed(buffered + arrived), cut' = cut + 1,
           tasks' = Append(tasks, cut + 1), Go("rx", "execute"), OInv
    PROVE  Going'
<1>1. /\ pc'["rx"] = "execute" /\ \A t \in Thread : t # "rx" => pc'[t] = pc[t]
      /\ pc'["other"] = pc["other"]
  BY Goes, Threads, Zenon
<1>2. /\ Queued' = Queued /\ Waiting' = Waiting /\ Listed' = Listed /\ Sent' = Sent
      /\ sendQueue' = sendQueue /\ pending' = pending /\ args' = args
      /\ requests' = requests /\ stream' = stream /\ arrived' = arrived /\ current' = current
      /\ callbacks' = callbacks
  BY SameLists, Zenon
<1>3. Cutting /\ Replies /\ Kept
  BY Zenon DEF Going
<1>4. cut \in Nat /\ PacketUnits \in Nat \ {0} /\ tasks \in Seq(Nat)
  BY NetSessionAssumption DEF Types
<1>5. requests = cut + 1 /\ requests # cut /\ stream = 0 /\ buffered + arrived = PacketUnits
  <2>1. stream + buffered + arrived = IF requests = cut THEN 0 ELSE PacketUnits
    BY <1>3, Zenon DEF Cutting
  <2> QED  BY <1>3, <1>4, <2>1 DEF Cutting, Incomplete
<1>6. Answered /\ ~Done /\ Core
  BY <1>3, <1>5, Zenon DEF Going, Done, Replies
<1>7. tasks = << >> /\ tasks' = << cut + 1 >>
  <2>1. cut = 0 \/ cut \in Queued
    BY <1>6, Inside, Zenon DEF Answered
  <2>2. ~(cut > 0 /\ cut \notin Queued)
    BY <1>4, <2>1
  <2>3. tasks = << >>
    BY <1>3, <2>2, Zenon DEF Replies
  <2> QED  BY <1>4, <2>3
<1>8. cut + 1 \notin Queued /\ cut' # 0 /\ cut' > 0
  BY <1>3, <1>4 DEF Replies
<1>9. cut + 1 \notin Waiting /\ cut + 1 \notin Listed /\ cut + 1 \notin Sent
  BY <1>8, Inside, Zenon
<1>10. sendQueue = << >>
  <2>1. ASSUME sendQueue = << cut >> PROVE cut \in Queued /\ cut # 0 /\ cut \in Sent
    <3>1. cut \in Queued
      <4>1. Waiting = {cut}
        BY <2>1, Ranges, Zenon DEF Waiting
      <4> QED  BY <4>1, Inside, Zenon
    <3>2. cut # 0
      BY <1>3, <1>4, <3>1 DEF Replies
    <3> QED  BY <1>6, <3>1, <3>2, Zenon DEF Answered
  <2> QED  BY <1>6, <2>1, Zenon DEF Core, OneReply
<1>11. Cutting'
  BY <1>1, <1>2, <1>3, <1>4, <1>5 DEF Cutting, Trimmed
<1>12. Replies'
  <2>1. \A j \in Nat : 0 < j /\ j < cut' => j \in Sent'
    <3> SUFFICES ASSUME NEW j \in Nat, 0 < j, j < cut' PROVE j \in Sent
      BY <1>2, Zenon
    <3>1. j < cut \/ (j = cut /\ cut # 0)
      BY <1>4
    <3> QED  BY <1>3, <1>6, <3>1, Zenon DEF Replies, Answered
  <2>2. requests' # cut' + 1
    BY <1>2, <1>4, <1>5
  <2>3. \A j \in Queued' : 0 < j /\ j <= cut'
    <3> SUFFICES ASSUME NEW j \in Queued PROVE 0 < j /\ j <= cut + 1
      BY <1>2, Zenon
    <3>1. j \in Nat
      BY ElementOfSeq DEF Types, Queued, Range1
    <3> QED  BY <1>3, <1>4, <3>1 DEF Replies
  <2>4. tasks' = << cut' >> /\ cut' \notin Queued'
    BY <1>2, <1>7, <1>8, Zenon
  <2> QED  BY <1>1, <1>3, <1>8, <2>1, <2>2, <2>3, <2>4, Zenon DEF Replies
<1>13. Kept'
  BY <1>2, <1>8, Zenon DEF Kept
<1>14. NoOk => NoOk'
  BY <1>1, <1>2, Zenon DEF NoOk, OkThread, OkCallback
<1>15. OneReply'
  BY <1>2, <1>6, <1>10, Zenon DEF Core, OneReply
<1>16. OneClears'
  <2>1. \A t \in Thread : OkThread(t)' => OkThread(t)
    BY <1>1, <1>2, Zenon DEF OkThread
  <2>2. OkCallback' <=> OkCallback
    BY <1>2, Zenon DEF OkCallback
  <2> QED  BY <1>2, <1>6, <1>9, <1>14, <2>1, <2>2, Zenon DEF Core, OneClears
<1>17. Senders'
  <2>1. \A t \in Io : pc[t] \notin {"test", "move", "list", "post"}
    <3>1. << cut >> # << >>
      OBVIOUS
    <3>2. \A t \in Io : pc[t] \notin {"test", "move"}
      BY <1>6, <1>10, <3>1, Zenon DEF Core, Senders
    <3>3. \A t \in Io : pc[t] \in {"list", "post"} => pending = << cut >> /\ cut \notin Sent
      BY <1>6, Zenon DEF Core, Senders
    <3>4. pending = << cut >> => cut \in Queued
      <4>1. pending = << cut >> => Listed = {cut}
        BY Ranges, Zenon DEF Listed
      <4> QED  BY <4>1, Inside, Zenon
    <3>5. cut \in Queued => cut # 0
      BY <1>3, <1>4 DEF Replies
    <3> QED  BY <1>6, <3>2, <3>3, <3>4, <3>5, Zenon DEF Answered
  <2> QED  BY <1>1, <1>2, <1>6, <1>10, <2>1, Threads, Zenon DEF Core, Senders
<1>18. Failures'
  BY <1>1, <1>2, <1>6, Threads, Zenon DEF Core, Failures, Ended
<1> QED  BY <1>11, <1>12, <1>13, <1>15, <1>16, <1>17, <1>18, Zenon DEF Going, Core
LEMMA ReceiveGoing ==
    ASSUME OInv, CInv, Going, ~dead, Receive
    PROVE  UNCHANGED data /\ (dead' \/ Going')
<1>1. Types /\ IoPath /\ Cutting /\ Replies
  BY Zenon DEF CInv, CloseInv, Going
<1>2. UNCHANGED << data, callbacks, pushes, requests, stream, arrived, peer, socket >>
  BY Zenon DEF Receive, OnRecvCompleted, TryExecuteTasks, TaskCompleted, DoRecv, ReceiveAsync,
         data, peerVars, recvVars, sendVars, sockVars, history
<1>3. /\ Queued' = Queued /\ Sent' = Sent /\ requests' = requests /\ stream' = stream
      /\ arrived' = arrived
  BY <1>2, SameLists, Zenon
<1>4. Ended => Ended'
  BY <1>2, Zenon DEF Ended
<1>5. CASE OnRecvCompleted
  <2>1. pc["rx"] = "received" /\ UNCHANGED << runningTasks, current >>
    BY <1>5, Zenon DEF OnRecvCompleted
  <2>2. CASE Go("rx", "exchange") /\ arrived = 0 /\ UNCHANGED << buffered, tasks, cut, dead >>
    <3>1. /\ pc'["rx"] = "exchange" /\ \A t \in Thread : t # "rx" => pc'[t] = pc[t]
          /\ pc'["other"] = pc["other"]
      BY <1>1, <2>2, Goes, Threads, Zenon
    <3>2. Cutting'
      <4>1. stream + buffered + 0 = IF requests = cut THEN 0 ELSE PacketUnits
        BY <1>1, <2>1, <2>2, Zenon DEF Cutting
      <4> QED  BY <1>1, <1>3, <2>2, <3>1, <4>1, Zenon DEF Cutting
    <3>3. Replies'
      BY <1>1, <1>3, <2>1, <2>2, <3>1, Zenon DEF Replies, Answered
    <3>4. \A t \in Thread : pc'[t] = pc[t] \/ pc'[t] \notin OnPath
      BY <3>1, Zenon DEF OnPath
    <3> QED  BY <1>2, <1>4, <2>2, <3>2, <3>3, <3>4, RestKept, Zenon DEF Going
  <2>3. CASE Go("rx", "garbled") /\ UNCHANGED << buffered, tasks, cut, dead >>
    <3>1. /\ pc'["rx"] = "garbled" /\ \A t \in Thread : t # "rx" => pc'[t] = pc[t]
          /\ pc'["other"] = pc["other"]
      BY <1>1, <2>3, Goes, Threads, Zenon
    <3>2. Cutting'
      <4>1. stream + buffered + arrived = IF requests = cut THEN 0 ELSE PacketUnits
        BY <1>1, <2>1, Zenon DEF Cutting
      <4> QED  BY <1>1, <1>3, <2>3, <3>1, <4>1, Zenon DEF Cutting
    <3>3. Replies'
      BY <1>1, <1>3, <2>1, <2>3, <3>1, Zenon DEF Replies, Answered
    <3>4. \A t \in Thread : pc'[t] = pc[t] \/ pc'[t] \notin OnPath
      BY <3>1, Zenon DEF OnPath
    <3> QED  BY <1>2, <1>4, <2>3, <3>2, <3>3, <3>4, RestKept, Zenon DEF Going
  <2>4. CASE Go("rx", "dorecv") /\ buffered' = buffered + arrived /\ UNCHANGED << tasks, cut, dead >>
    <3>1. /\ pc'["rx"] = "dorecv" /\ \A t \in Thread : t # "rx" => pc'[t] = pc[t]
          /\ pc'["other"] = pc["other"]
      BY <1>1, <2>4, Goes, Threads, Zenon
    <3>2. Cutting'
      <4>1. stream + buffered + arrived = IF requests = cut THEN 0 ELSE PacketUnits
        BY <1>1, <2>1, Zenon DEF Cutting
      <4>2. buffered + arrived \in Nat /\ stream + (buffered + arrived) + 0 = stream + buffered + arrived
        BY <1>1 DEF Cutting
      <4> QED  BY <1>1, <1>3, <2>4, <3>1, <4>1, <4>2, Zenon DEF Cutting
    <3>3. Replies'
      BY <1>1, <1>3, <2>1, <2>4, <3>1, Zenon DEF Replies, Answered
    <3>4. \A t \in Thread : pc'[t] = pc[t] \/ pc'[t] \notin OnPath
      BY <3>1, Zenon DEF OnPath
    <3> QED  BY <1>2, <1>4, <2>4, <3>2, <3>3, <3>4, RestKept, Zenon DEF Going
  <2>5. CASE /\ arrived > 0 /\ ~Incomplete(buffered + arrived)
             /\ buffered' = Trimmed(buffered + arrived) /\ cut' = cut + 1 /\ ~dead'
             /\ tasks' = Append(tasks, cut + 1) /\ Go("rx", "execute")
    BY <1>1, <1>2, <2>1, <2>5, CutGoing, Zenon
  <2>6. \/ dead'
        \/ Go("rx", "exchange") /\ arrived = 0 /\ UNCHANGED << buffered, tasks, cut, dead >>
        \/ Go("rx", "garbled") /\ UNCHANGED << buffered, tasks, cut, dead >>
        \/ Go("rx", "dorecv") /\ buffered' = buffered + arrived /\ UNCHANGED << tasks, cut, dead >>
        \/ /\ arrived > 0 /\ ~Incomplete(buffered + arrived)
           /\ buffered' = Trimmed(buffered + arrived) /\ cut' = cut + 1 /\ ~dead'
           /\ tasks' = Append(tasks, cut + 1) /\ Go("rx", "execute")
    <3>1. arrived = 0 \/ arrived > 0
      BY <1>1 DEF Cutting
    <3> QED  BY <1>5, <3>1 DEF OnRecvCompleted
  <2> QED  BY <1>2, <2>2, <2>3, <2>4, <2>5, <2>6, Zenon
<1>6. ASSUME TryExecuteTasks \/ TaskCompleted \/ DoRecv \/ ReceiveAsync, ~dead' PROVE Going'
  <2>1. UNCHANGED << buffered, cut >>
    BY <1>6, Zenon DEF TryExecuteTasks, TaskCompleted, DoRecv, ReceiveAsync, recvVars
  <2>2. \/ /\ Go("rx", "enqueue") /\ pc["rx"] = "execute"
           /\ tasks # << >> /\ current' = Head(tasks) /\ tasks' = Tail(tasks)
        \/ \E l \in {"dorecv", "execute", "end", "receive", "posted"} :
             /\ Go("rx", l) /\ pc["rx"] \in {"execute", "taskdone", "dorecv", "receive"}
             /\ tasks' = tasks
    BY <1>6, Zenon DEF TryExecuteTasks, TaskCompleted, DoRecv, ReceiveAsync, recvVars
  <2>3. /\ pc["rx"] \notin {"received", "garbled"}
        /\ pc'["rx"] \notin {"received", "garbled"} \cup OnPath
        /\ \A t \in Thread : t # "rx" => pc'[t] = pc[t]
        /\ pc'["other"] = pc["other"]
    <3>1. PICK l \in {"enqueue", "dorecv", "execute", "end", "receive", "posted"} : Go("rx", l)
      BY <2>2, Zenon
    <3>2. pc'["rx"] = l /\ \A t \in Thread : t # "rx" => pc'[t] = pc[t]
      BY <1>1, <3>1, Goes, Threads, Zenon
    <3>3. l \notin {"received", "garbled"} \cup OnPath
      BY <3>1 DEF OnPath
    <3>4. pc["rx"] \notin {"received", "garbled"}
      BY <2>2, Zenon
    <3>5. pc'["other"] = pc["other"]
      BY <3>2, Threads
    <3> QED  BY <3>2, <3>3, <3>4, <3>5, Zenon
  <2>4. Cutting'
    BY <1>1, <1>3, <2>1, <2>3, Zenon DEF Cutting
  <2>5. Replies'
    <3>1. CASE pc'["rx"] = "enqueue"
      <4>1. /\ pc["rx"] = "execute" /\ tasks # << >>
            /\ current' = Head(tasks) /\ tasks' = Tail(tasks)
        BY <1>1, <2>2, <3>1, Goes, Threads, Zenon
      <4>2. tasks = << cut >> /\ cut > 0 /\ cut \notin Queued
        BY <1>1, <4>1, Zenon DEF Replies
      <4>3. Head(<< cut >>) = cut /\ Tail(<< cut >>) = << >>
        OBVIOUS
      <4>4. current' = cut /\ tasks' = << >>
        BY <4>1, <4>2, <4>3, Zenon
      <4> QED  BY <1>1, <1>3, <2>1, <2>3, <3>1, <4>2, <4>4, Zenon DEF Replies, Answered
    <3>2. CASE pc'["rx"] # "enqueue"
      <4>1. tasks' = tasks /\ pc'["rx"] \notin {"test", "move", "list", "post"}
        BY <1>1, <2>2, <2>3, <3>2, Goes, Threads, Zenon DEF OnPath
      <4> QED  BY <1>1, <1>3, <2>1, <2>3, <3>2, <4>1, Zenon DEF Replies, Answered
    <3> QED  BY <3>1, <3>2, Zenon
  <2>6. \A t \in Thread : pc'[t] = pc[t] \/ pc'[t] \notin OnPath
    BY <2>3, Zenon
  <2> QED  BY <1>2, <1>4, <2>1, <2>4, <2>5, <2>6, RestKept, Zenon DEF Going
<1> QED  BY <1>2, <1>5, <1>6, Zenon DEF Receive
-----------------------------------------------------------------------------
(* Sending.                                                                *)

\* Only rx and the threads of Io take steps.
LEMMA Actors ==
    ASSUME Going, CInv, NEW t \in Thread, ThreadStep(t)
    PROVE  t \in Io \/ t = "rx"
<1>1. pc["other"] = "idle" /\ "other" \notin Io
  BY Threads, Zenon DEF Going, Replies
<1>2. t = "other" => FALSE
  BY <1>1, Zenon DEF ThreadStep, Enqueue, Test, Move, SetBufferList, SendAsync, StartCallback,
         OnSendCompleted, ClearPending, Exchange, Close, SetNull
<1> QED  BY <1>2, Zenon DEF Thread

\* A thread leaves the send path, or goes on in Disconnect.
LEMMA OffPath ==
    ASSUME OInv, CInv, Going, Next, NEW t \in Thread, ThreadStep(t), UNCHANGED data, callbacks' = callbacks,
           \A u \in Thread : u # t => pc'[u] = pc[u],
           pc'[t] \in {"idle", "taskdone", "dorecv", "exchange", "close", "null"}
    PROVE  Going'
<1>1. UNCHANGED << requests, stream, recvVars, cut >>
  BY Zenon DEF ThreadStep, Enqueue, Test, Move, SetBufferList, SendAsync, StartCallback,
         OnSendCompleted, ClearPending, Exchange, Close, SetNull, peerVars, recvVars
<1>2. Queued' = Queued /\ Sent' = Sent
  BY SameLists, Zenon
<1>3. pc[t] \notin {"received", "garbled"}
  BY Zenon DEF ThreadStep, Enqueue, Test, Move, SetBufferList, SendAsync, StartCallback,
         OnSendCompleted, ClearPending, Exchange, Close, SetNull
<1>4. t # "other" /\ "rx" \in Thread /\ "other" \in Thread
  BY Actors, Threads, Zenon
<1>5. \/ pc'["rx"] = pc["rx"]
      \/ /\ {pc["rx"], pc'["rx"]} \cap {"received", "garbled"} = {}
         /\ pc'["rx"] # "enqueue"
         /\ pc'["rx"] \notin {"test", "move", "list", "post"}
  <2>1. CASE t = "rx"
    BY <1>3, <2>1, Zenon
  <2> QED  BY <1>4, <2>1, Zenon
<1>6. Cutting' /\ Replies'
  <2>1. pc'["other"] = pc["other"]
    BY <1>4, Zenon
  <2>2. Sent \subseteq Sent' /\ Cutting /\ Replies
    BY <1>2, Zenon DEF Going
  <2> QED  BY <1>1, <1>2, <1>5, <2>1, <2>2, StreamKept, Zenon
<1>7. \A u \in Thread : pc'[u] = pc[u] \/ pc'[u] \notin OnPath
  <2>1. pc'[t] \notin OnPath
    BY Zenon DEF OnPath
  <2> QED  BY <2>1, Zenon
<1>8. Kept' /\ (Done' \/ Core')
  BY <1>1, <1>7, EndedKept, RestKept, Zenon
<1> QED  BY <1>6, <1>8, Zenon DEF Going

\* The thread's own label changes, to one outside of the receive path, and the
\* stream and the tasks do not.
LEMMA SendStream ==
    ASSUME Going, CInv, NEW t \in Thread, ThreadStep(t), ~Enqueue(t), Queued' = Queued,
           Sent \subseteq Sent', \A u \in Thread : u # t => pc'[u] = pc[u],
           pc'[t] \in OnPath \cup {"idle", "taskdone", "dorecv"},
           t = "rx" /\ pc'[t] \in {"test", "move", "list", "post"} => cut \in Queued
    PROVE  /\ Cutting' /\ Replies' /\ cut' = cut /\ requests' = requests
           /\ t \in Io \/ t = "rx"
<1>1. UNCHANGED << requests, stream, recvVars >> /\ cut' = cut
  BY Zenon DEF ThreadStep, Enqueue, Test, Move, SetBufferList, SendAsync, StartCallback,
         OnSendCompleted, ClearPending, Exchange, Close, SetNull, peerVars, recvVars
<1>2. pc[t] \notin {"received", "garbled"}
  BY Zenon DEF ThreadStep, Enqueue, Test, Move, SetBufferList, SendAsync, StartCallback,
         OnSendCompleted, ClearPending, Exchange, Close, SetNull
<1>3. t # "other" /\ "rx" \in Thread /\ "other" \in Thread
  BY Actors, Threads, Zenon
<1>4. \/ pc'["rx"] = pc["rx"]
      \/ /\ {pc["rx"], pc'["rx"]} \cap {"received", "garbled"} = {}
         /\ pc'["rx"] # "enqueue"
         /\ pc'["rx"] \in {"test", "move", "list", "post"} => cut \in Queued
  <2>1. CASE t = "rx"
    <3>1. pc'["rx"] \notin {"received", "garbled", "enqueue"}
      BY <2>1, Zenon DEF OnPath
    <3> QED  BY <1>2, <2>1, <3>1, Zenon
  <2> QED  BY <1>3, <2>1, Zenon
<1>5. pc'["other"] = pc["other"] /\ Cutting /\ Replies
  BY <1>3, Zenon DEF Going
<1>6. Cutting' /\ Replies'
  BY <1>1, <1>4, <1>5, StreamKept, Zenon
<1> QED  BY <1>1, <1>6, Actors, Zenon
LEMMA DoneStep ==
    ASSUME Types, Going, Done, cut' = cut, requests' = requests, Ended => Ended', Sent \subseteq Sent',
           Queued' = Queued
    PROVE  Kept' /\ Done'
<1>1. cut \in Queued => cut # 0
  BY DEF Going, Replies, Types
<1>2. cut \in Queued => cut \in Sent
  BY <1>1, Zenon DEF Done, Answered
<1>3. Kept'
  BY <1>2, Zenon DEF Kept
<1> QED  BY <1>3, DoneKept, Zenon

\* The reply is queued: by the task of the last request, with no lock held.
LEMMA EnqueueGoing ==
    ASSUME OInv, CInv, Going, NEW t \in Thread, ThreadStep(t), Enqueue(t)
    PROVE  Going'
<1>1. Types /\ IoPath /\ Cutting /\ Replies /\ Kept
  BY Zenon DEF CInv, CloseInv, Going
<1>2. t = "rx"
  BY <1>1, Actors, Zenon DEF IoPath, Enqueue
<1>3. /\ current = cut /\ cut > 0 /\ cut # 0 /\ cut \in Nat /\ cut \notin Queued
  BY <1>1, <1>2 DEF Replies, Enqueue, Types
<1>4. cut \notin Waiting /\ cut \notin Listed /\ cut \notin Sent
  BY <1>3, Inside, Zenon
<1>5. Core
  BY <1>3, <1>4, Zenon DEF Going, Done, Answered
<1>6. sendQueue = << >>
  <2>1. sendQueue = << cut >> => Waiting = {cut}
    BY Ranges, Zenon DEF Waiting
  <2> QED  BY <1>4, <1>5, <2>1, Zenon DEF Core, OneReply
<1>7. /\ sendLock = None /\ sendQueue' = Append(sendQueue, cut) /\ enqueued' = Append(enqueued, cut)
      /\ Go("rx", "test") /\ pending' = pending /\ args' = args /\ wire' = wire /\ callbacks' = callbacks
      /\ peer' = peer /\ socket' = socket /\ requests' = requests /\ stream' = stream
      /\ arrived' = arrived /\ buffered' = buffered /\ tasks' = tasks /\ current' = current
      /\ cut' = cut /\ pc["rx"] = "enqueue"
  BY <1>2, <1>3, Zenon DEF Enqueue, Outgoing, peerVars, recvVars, sockVars
<1>8. sendQueue' = << cut >>
  BY <1>6, <1>7
<1>9. \A j : j \in Queued' <=> j \in Queued \/ j = cut
  BY <1>1, <1>3, <1>7, Ranges, Zenon DEF Queued, Types
<1>10. Listed' = Listed /\ Sent' = Sent
  BY <1>7, Zenon DEF Listed, Sent
<1>11. /\ pc'["rx"] = "test" /\ \A u \in Thread : u # "rx" => pc'[u] = pc[u]
       /\ pc'["other"] = pc["other"]
  BY <1>1, <1>7, Goes, Threads, Zenon
<1>12. Cutting'
  BY <1>1, <1>7, <1>11, Zenon DEF Cutting
<1>13. Replies'
  <2>1. tasks = << >>
    BY <1>1, <1>7, Zenon DEF Replies
  <2>2. \A j \in Queued' : 0 < j /\ j <= cut
    BY <1>1, <1>3, <1>9 DEF Replies
  <2> QED  BY <1>1, <1>7, <1>9, <1>10, <1>11, <2>1, <2>2, Zenon DEF Replies, Answered
<1>14. Kept'
  <2>1. Waiting' = {cut}
    BY <1>8, Ranges, Zenon DEF Waiting
  <2> QED  BY <1>7, <2>1, Zenon DEF Kept
<1>15. \A u \in Io : pc[u] \notin {"test", "move", "list", "post"} /\ u # "rx" /\ u \in Thread
  BY <1>1, <1>7, Threads, Zenon DEF IoPath
<1>16. OneReply'
  BY <1>4, <1>5, <1>7, <1>8, <1>10, Zenon DEF Core, OneReply
<1>17. OneClears'
  <2>1. \A u \in Thread : OkThread(u)' => OkThread(u)
    BY <1>7, <1>11, Zenon DEF OkThread
  <2>2. OkCallback' <=> OkCallback
    BY <1>7, Zenon DEF OkCallback
  <2>3. NoOk => NoOk'
    BY <2>1, <2>2, Zenon DEF NoOk
  <2> QED  BY <1>5, <1>7, <1>10, <2>1, <2>2, <2>3, Zenon DEF Core, OneClears
<1>18. Senders'
  <2>1. \A u \in Io : pc'[u] \notin {"test", "move", "list", "post"}
    BY <1>11, <1>15, Zenon
  <2>2. \A u \in Thread : pc'[u] \notin {"list", "post"}
    BY <1>1, <1>11, <2>1, Zenon DEF Thread, Replies
  <2> QED  BY <1>11, <2>1, <2>2, Zenon DEF Senders
<1>19. Failures'
  BY <1>5, <1>7, <1>10, <1>11, <1>15, Zenon DEF Core, Failures, Ended
<1> QED  BY <1>12, <1>13, <1>14, <1>16, <1>17, <1>18, <1>19, Zenon DEF Going, Core

\* The test of the list succeeds: it is empty, and no completion will clear it.
LEMMA TestGoing ==
    ASSUME OInv, CInv, Going, Next, NEW t \in Thread, ThreadStep(t), Test(t)
    PROVE  Going'
<1>1. Types /\ IoPath /\ Kept /\ (Done \/ Core) /\ Replies
  BY Zenon DEF CInv, CloseInv, Going
<1>2. UNCHANGED data /\ callbacks' = callbacks /\ peer' = peer /\ socket' = socket /\ pc[t] = "test"
  BY Zenon DEF Test, data, history, peerVars, sockVars
<1>3. /\ Queued' = Queued /\ Waiting' = Waiting /\ Listed' = Listed /\ Sent' = Sent
      /\ sendQueue' = sendQueue /\ pending' = pending /\ args' = args
  BY <1>2, SameLists, Zenon
<1>4. CASE Finish(t)
  <2>1. \A u \in Thread : u # t => pc'[u] = pc[u]
    BY <1>1, <1>4, Leaves, Zenon
  <2>2. pc'[t] \in {"idle", "taskdone", "dorecv"}
    BY <1>1, <1>4, Leaves, Returns, Zenon
  <2> QED  BY <1>2, <2>1, <2>2, OffPath, Zenon
<1>5. CASE pending = << >> /\ Go(t, "move")
  <2>1. pc'[t] = "move" /\ \A u \in Thread : u # t => pc'[u] = pc[u]
    BY <1>1, <1>5, Goes, Zenon
  <2>2. Cutting' /\ Replies' /\ cut' = cut /\ requests' = requests /\ (t \in Io \/ t = "rx")
    <3>1. t = "rx" => cut \in Queued
      BY <1>1, <1>2, Zenon DEF Replies
    <3>2. ~Enqueue(t) /\ pc'[t] \in OnPath /\ Sent \subseteq Sent'
      BY <1>2, <1>3, <2>1, Zenon DEF Enqueue, OnPath
    <3> QED  BY <1>3, <2>1, <3>1, <3>2, SendStream, Zenon
  <2>3. Kept'
    BY <1>1, <1>3, <2>2, Zenon DEF Kept
  <2>4. CASE Done
    BY <1>1, <1>3, <2>2, <2>4, DoneStep, EndedKept, Zenon DEF Going
  <2>5. CASE Core
    <3>1. \A u \in Thread : OkThread(u)' => OkThread(u)
      BY <1>3, <2>1, Zenon DEF OkThread
    <3>2. OkCallback' <=> OkCallback
      BY <1>2, <1>3, Zenon DEF OkCallback
    <3>3. NoOk => NoOk'
      BY <3>1, <3>2, Zenon DEF NoOk
    <3>4. OneReply'
      BY <1>3, <2>2, <2>5, Zenon DEF Core, OneReply
    <3>5. OneClears'
      BY <1>2, <1>3, <2>2, <2>5, <3>1, <3>2, <3>3, Zenon DEF Core, OneClears
    <3>6. Senders'
      <4>1. Listed = {}
        BY <1>5, Ranges, Zenon DEF Listed
      <4>2. \A u \in Thread : \A l \in {"test", "list", "post"} : pc'[u] = l => pc[u] = l
        BY <2>1, Zenon
      <4>3. \A u \in Thread : pc'[u] = "move" => pc[u] = "move" \/ pc[u] = "test"
        BY <1>2, <2>1, Zenon
      <4>4. \A u \in Io : u \in Thread
        BY Threads, Zenon
      <4>5. \A u \in Io : /\ pc'[u] \in {"test", "move"} => pc[u] \in {"test", "move"}
                          /\ pc'[u] \in {"list", "post"} => pc[u] \in {"list", "post"}
        BY <4>2, <4>3, <4>4, Zenon
      <4>6. \A u \in Io : pc'[u] \in {"test", "move", "list", "post"} => pc'["rx"] \notin {"list", "post"}
        BY <2>5, <4>2, <4>5, Threads, Zenon DEF Core, Senders
      <4>7. /\ \A u \in Thread : pc'[u] = "post" => pc[u] = "post"
            /\ \A u \in Thread : pc'[u] \in {"list", "post"} => pc[u] \in {"list", "post"}
        BY <4>2, Zenon
      <4> QED  BY <1>3, <2>2, <2>5, <4>1, <4>5, <4>6, <4>7, Zenon DEF Core, Senders
    <3>7. Failures'
      BY <1>2, <1>3, <2>1, <2>2, <2>5, Threads, Zenon DEF Core, Failures, Ended
    <3> QED  BY <2>2, <2>3, <3>4, <3>5, <3>6, <3>7, Zenon DEF Going, Core
  <2> QED  BY <1>1, <2>2, <2>4, <2>5, Zenon DEF Going
<1> QED  BY <1>4, <1>5, Zenon DEF Test, GoesOn
LEMMA SplitShort ==
    /\ Split(<< >>).batch = << >> /\ Split(<< >>).rest = << >>
    /\ \A x \in Nat : Split(<< x >>).batch = << x >> /\ Split(<< x >>).rest = << >>
<1>1. Taken(0) = 0 /\ Taken(1) = 1
  BY NetSessionAssumption DEF Taken
<1>2. Split(<< >>).batch = << >> /\ Split(<< >>).rest = << >>
  <2>1. << >> \in Seq(Nat) /\ Len(<< >>) = 0
    OBVIOUS
  <2>2. /\ Split(<< >>).batch \in Seq(Nat) /\ Split(<< >>).rest \in Seq(Nat)
        /\ Len(Split(<< >>).batch) = 0 /\ Len(Split(<< >>).rest) = 0 - 0
    BY <1>1, <2>1, SplitProperties, Zenon
  <2> QED  BY <2>2
<1>3. ASSUME NEW x \in Nat PROVE Split(<< x >>).batch = << x >> /\ Split(<< x >>).rest = << >>
  <2> DEFINE q == << x >>
             p == Split(q).batch
             r == Split(q).rest
  <2>1. q \in Seq(Nat) /\ Len(q) = 1 /\ q[1] = x /\ 1 \in 1..1
    OBVIOUS
  <2> HIDE DEF q
  <2>2. /\ p \in Seq(Nat) /\ r \in Seq(Nat) /\ Len(p) = 1 /\ Len(r) = 1 - 1
        /\ \A i \in 1..1 : p[i] = q[i]
    <3>1. /\ p \in Seq(Nat) /\ r \in Seq(Nat) /\ Len(p) = Taken(Len(q))
          /\ Len(r) = Len(q) - Taken(Len(q)) /\ \A i \in 1..Taken(Len(q)) : p[i] = q[i]
      BY <2>1, SplitProperties, Zenon
    <3>2. Len(q) = 1 /\ Taken(Len(q)) = 1
      BY <1>1, <2>1, Zenon
    <3> QED  BY <3>1, <3>2, Zenon
  <2> HIDE DEF p, r
  <2>3. p = << x >> /\ r = << >>
    BY <2>1, <2>2
  <2> QED  BY <2>3, Zenon DEF p, q, r
<1> QED  BY <1>2, <1>3, Zenon

\* What a thread at "move" finds: nothing, or the last reply and an empty list.
LEMMA MoveFinds ==
    ASSUME OInv, Core, Replies, NEW t, t \in Io \/ t = "rx", pc[t] = "move"
    PROVE  \/ sendQueue = << >> /\ t = "rx"
           \/ sendQueue = << cut >> /\ pending = << >> /\ cut \notin Sent
<1>1. CASE t \in Io
  <2>1. << cut >> # << >>
    OBVIOUS
  <2> QED  BY <1>1, <2>1, Zenon DEF Core, Senders, OneReply
<1>2. CASE t = "rx" /\ sendQueue # << >>
  <2>1. sendQueue = << cut >> /\ cut \notin Sent /\ cut \notin Listed /\ \A j \in Listed : j = cut
    BY <1>2, Zenon DEF Core, Senders, OneReply
  <2>2. Listed = {}
    BY <2>1, Zenon
  <2>3. pending = << >>
    <3>1. pending \in Seq(Nat)
      BY Zenon DEF OInv, Types
    <3>2. Len(pending) > 0 => pending[1] \in Listed
      BY <3>1 DEF Listed, Range1
    <3> QED  BY <2>2, <3>1, <3>2
  <2> QED  BY <2>1, <2>3, Zenon
<1> QED  BY <1>1, <1>2, Zenon

LEMMA MoveGoing ==
    ASSUME OInv, CInv, Going, Next, NEW t \in Thread, ThreadStep(t), Move(t), ~dead'
    PROVE  Going'
<1>1. Types /\ IoPath /\ Kept /\ (Done \/ Core) /\ Replies
  BY Zenon DEF CInv, CloseInv, Going
<1>2. /\ enqueued' = enqueued /\ wire' = wire /\ args' = args /\ callbacks' = callbacks
      /\ peer' = peer /\ socket' = socket /\ pc[t] = "move"
  BY Zenon DEF Move, history, peerVars, sockVars
<1>3. Queued' = Queued /\ Sent' = Sent
  BY <1>2, Zenon DEF Queued, Sent
<1>4. CASE Throw(t) /\ UNCHANGED << sendQueue, pending >>
  <2>1. Finish(t)
    BY <1>4, Zenon DEF Throw
  <2>2. \A u \in Thread : u # t => pc'[u] = pc[u]
    BY <1>1, <2>1, Leaves, Zenon
  <2>3. pc'[t] \in {"idle", "taskdone", "dorecv"}
    BY <1>1, <2>1, Leaves, Returns, Zenon
  <2>4. UNCHANGED data
    BY <1>2, <1>4, Zenon DEF data
  <2> QED  BY <1>2, <2>2, <2>3, <2>4, OffPath, Zenon
<1>5. CASE /\ sendLock \in {None, t} /\ Go(t, "list")
           /\ pending' = pending \o Split(sendQueue).batch /\ sendQueue' = Split(sendQueue).rest
  <2>1. pc'[t] = "list" /\ \A u \in Thread : u # t => pc'[u] = pc[u]
    BY <1>1, <1>5, Goes, Zenon
  <2>2. Cutting' /\ Replies' /\ cut' = cut /\ requests' = requests /\ (t \in Io \/ t = "rx")
    <3>1. t = "rx" => cut \in Queued
      BY <1>1, <1>2, Zenon DEF Replies
    <3>2. ~Enqueue(t) /\ pc'[t] \in OnPath /\ Sent \subseteq Sent'
      BY <1>2, <1>3, <2>1, Zenon DEF Enqueue, OnPath
    <3> QED  BY <1>3, <2>1, <3>1, <3>2, SendStream, Zenon
  <2>3. CASE Done
    <3>1. Sent \subseteq Sent'
      BY <1>3, Zenon
    <3> QED  BY <1>1, <1>3, <2>2, <2>3, <3>1, DoneStep, EndedKept, Zenon DEF Going
  <2>4. CASE Core
    <3>1. \A u \in Thread : OkThread(u)' => OkThread(u)
      BY <1>2, <2>1, Zenon DEF OkThread
    <3>2. OkCallback' <=> OkCallback
      BY <1>2, Zenon DEF OkCallback
    <3>3. NoOk => NoOk'
      BY <3>1, <3>2, Zenon DEF NoOk
    <3>4. \A u \in Io : /\ u \in Thread /\ u # "rx"
                        /\ u # t => pc[u] \notin {"test", "move", "list", "post"}
                                    /\ pc'[u] \notin {"test", "move", "list", "post"}
      BY <1>1, <1>5, <2>1, Threads, Zenon DEF IoPath
    <3>5. Failures'
      BY <1>2, <1>3, <2>1, <2>2, <2>4, Threads, Zenon DEF Core, Failures, Ended
    <3>6. CASE sendQueue = << >> /\ t = "rx"
      <4>1. pending' = pending /\ sendQueue' = << >>
        <5>1. pending' = pending \o << >> /\ sendQueue' = << >>
          BY <1>5, <3>6, SplitShort, Zenon
        <5>2. pending \in Seq(Nat)
          BY <1>1, Zenon DEF Types
        <5> QED  BY <5>1, <5>2
      <4>2. Listed' = Listed /\ Waiting' = Waiting
        BY <3>6, <4>1, Zenon DEF Listed, Waiting
      <4>3. Kept'
        BY <1>1, <1>3, <2>2, <4>2, Zenon DEF Kept
      <4>4. OneReply'
        BY <1>2, <2>4, <4>1, Zenon DEF Core, OneReply
      <4>5. OneClears'
        BY <1>2, <1>3, <2>2, <2>4, <3>1, <3>2, <3>3, <4>1, <4>2, Zenon DEF Core, OneClears
      <4>6. Senders'
        <5>1. \A u \in Io : pc'[u] \notin {"test", "move", "list", "post"}
          BY <3>4, <3>6, Zenon
        <5>2. \A u \in Thread : pc'[u] = "post" => pc[u] = "post"
          BY <2>1, Zenon
        <5>3. \A j \in Listed : j = cut
          BY <1>2, <2>4, <3>6, Zenon DEF Core, Senders
        <5> QED  BY <1>2, <2>2, <2>4, <4>1, <4>2, <5>1, <5>2, <5>3, Zenon DEF Core, Senders
      <4> QED  BY <2>2, <3>5, <4>3, <4>4, <4>5, <4>6, Zenon DEF Going, Core
    <3>7. CASE sendQueue = << cut >> /\ pending = << >> /\ cut \notin Sent
      <4>1. pending' = << cut >> /\ sendQueue' = << >>
        <5>1. cut \in Nat
          BY <1>1, Zenon DEF Types
        <5>2. pending' = << >> \o << cut >> /\ sendQueue' = << >>
          <6>1. Split(<< cut >>).batch = << cut >> /\ Split(<< cut >>).rest = << >>
            BY <5>1, SplitShort, Zenon
          <6> QED  BY <1>5, <3>7, <6>1, Zenon
        <5> QED  BY <5>1, <5>2
      <4>2. Listed' = {cut}
        BY <4>1, Ranges, Zenon DEF Listed
      <4>3. Kept'
        BY <2>2, <4>2, Zenon DEF Kept
      <4>4. NoOk' /\ args'.op = "free" /\ args.op # "busy"
        BY <1>2, <2>4, <3>3, <3>7, Zenon DEF Core, OneClears
      <4>5. OneReply'
        <5>1. Len(<< cut >>) <= 1
          OBVIOUS
        <5> QED  BY <1>2, <4>1, <4>4, <5>1, Zenon DEF OneReply
      <4>6. OneClears'
        <5>1. << cut >> # << >>
          OBVIOUS
        <5> QED  BY <4>1, <4>4, <5>1, Zenon DEF OneClears, NoOk
      <4>7. Senders'
        <5>1. << cut >> # << >>
          OBVIOUS
        <5>2. \A u \in Thread : pc[u] \notin {"list", "post"}
          BY <2>4, <3>7, <5>1, Zenon DEF Core, Senders
        <5>3. \A u \in Thread : pc'[u] # "post" /\ (pc'[u] = "list" => u = t)
          BY <2>1, <5>2, Zenon
        <5>4. \A u \in Io : pc'[u] \notin {"test", "move"}
          BY <2>1, <3>4, Zenon
        <5>5. \A u \in Io : pc'[u] \in {"test", "move", "list", "post"} => pc'["rx"] \notin {"list", "post"}
          BY <3>4, <5>3, Threads, Zenon
        <5> QED  BY <1>2, <1>3, <2>2, <3>7, <4>1, <4>2, <4>4, <5>3, <5>4, <5>5, Zenon DEF Senders
      <4> QED  BY <2>2, <3>5, <4>3, <4>5, <4>6, <4>7, Zenon DEF Going, Core
    <3> QED  BY <1>1, <1>2, <2>2, <2>4, <3>6, <3>7, MoveFinds, Zenon
  <2> QED  BY <1>1, <2>2, <2>3, <2>4, Zenon DEF Going
<1> QED  BY <1>4, <1>5, Zenon DEF Move
LEMMA SetBufferListGoing ==
    ASSUME OInv, CInv, Going, Next, NEW t \in Thread, ThreadStep(t), SetBufferList(t), ~dead'
    PROVE  Going'
<1>1. Types /\ IoPath /\ Kept /\ (Done \/ Core) /\ Replies
  BY Zenon DEF CInv, CloseInv, Going
<1>2. /\ enqueued' = enqueued /\ sendQueue' = sendQueue /\ pending' = pending /\ wire' = wire
      /\ callbacks' = callbacks /\ peer' = peer /\ socket' = socket /\ pc[t] = "list"
  BY Zenon DEF SetBufferList, history, peerVars, sockVars
<1>3. Queued' = Queued /\ Sent' = Sent /\ Listed' = Listed /\ Waiting' = Waiting
  BY <1>2, Zenon DEF Queued, Sent, Listed, Waiting
<1>4. CASE Throw(t) /\ args' = args
  <2>1. Finish(t)
    BY <1>4, Zenon DEF Throw
  <2>2. \A u \in Thread : u # t => pc'[u] = pc[u]
    BY <1>1, <2>1, Leaves, Zenon
  <2>3. pc'[t] \in {"idle", "taskdone", "dorecv"}
    BY <1>1, <2>1, Leaves, Returns, Zenon
  <2>4. UNCHANGED data
    BY <1>2, <1>4, Zenon DEF data
  <2> QED  BY <1>2, <2>2, <2>3, <2>4, OffPath, Zenon
<1>5. CASE Go(t, "post") /\ args.op # "busy" /\ args' = [args EXCEPT !.list = pending]
  <2>1. pc'[t] = "post" /\ \A u \in Thread : u # t => pc'[u] = pc[u]
    BY <1>1, <1>5, Goes, Zenon
  <2>2. args'.op = args.op /\ args'.result = args.result /\ args'.list = pending
    BY <1>1, <1>5 DEF Types
  <2>3. Cutting' /\ Replies' /\ cut' = cut /\ requests' = requests /\ (t \in Io \/ t = "rx")
    <3>1. t = "rx" => cut \in Queued
      BY <1>1, <1>2, Zenon DEF Replies
    <3>2. ~Enqueue(t) /\ pc'[t] \in OnPath /\ Sent \subseteq Sent'
      BY <1>2, <1>3, <2>1, Zenon DEF Enqueue, OnPath
    <3> QED  BY <1>3, <2>1, <3>1, <3>2, SendStream, Zenon
  <2>4. Kept'
    BY <1>1, <1>3, <2>3, Zenon DEF Kept
  <2>5. CASE Done
    <3>1. Sent \subseteq Sent'
      BY <1>3, Zenon
    <3> QED  BY <1>1, <1>3, <2>3, <2>5, <3>1, DoneStep, EndedKept, Zenon DEF Going
  <2>6. CASE Core
    <3>1. \A u \in Thread : OkThread(u)' => OkThread(u)
      BY <2>1, <2>2, Zenon DEF OkThread
    <3>2. OkCallback' <=> OkCallback
      BY <1>2, <2>2, Zenon DEF OkCallback
    <3>3. NoOk => NoOk'
      BY <3>1, <3>2, Zenon DEF NoOk
    <3>4. OneReply'
      BY <1>2, <1>3, <1>5, <2>2, <2>3, <2>6, Zenon DEF Core, OneReply
    <3>5. OneClears'
      BY <1>2, <1>3, <2>2, <2>3, <2>6, <3>1, <3>2, <3>3, Zenon DEF Core, OneClears
    <3>6. Senders'
      <4>1. \A u \in Thread : \A l \in {"test", "move", "list"} : pc'[u] = l => pc[u] = l
        BY <2>1, Zenon
      <4>2. \A u \in Thread : pc'[u] \in {"list", "post"} => pc[u] \in {"list", "post"}
        BY <1>2, <2>1, Zenon
      <4>3. \A u \in Io : u \in Thread
        BY Threads, Zenon
      <4>4. \A u \in Io : /\ pc'[u] \in {"test", "move"} => pc[u] \in {"test", "move"}
                          /\ pc'[u] \in {"list", "post"} => pc[u] \in {"list", "post"}
        BY <4>1, <4>2, <4>3, Zenon
      <4>5. \A u \in Io : pc'[u] \in {"test", "move", "list", "post"} => pc'["rx"] \notin {"list", "post"}
        BY <2>6, <4>2, <4>4, Threads, Zenon DEF Core, Senders
      <4>6. pc'["rx"] \in {"move", "list", "post"} => \A j \in Listed : j = cut
        BY <2>6, <4>1, <4>2, Threads, Zenon DEF Core, Senders
      <4> QED  BY <1>2, <1>3, <2>2, <2>3, <2>6, <4>2, <4>4, <4>5, <4>6, Zenon DEF Core, Senders
    <3>7. Failures'
      BY <1>2, <1>3, <2>1, <2>2, <2>3, <2>6, Threads, Zenon DEF Core, Failures, Ended
    <3> QED  BY <2>3, <2>4, <3>4, <3>5, <3>6, <3>7, Zenon DEF Going, Core
  <2> QED  BY <1>1, <2>3, <2>5, <2>6, Zenon DEF Going
<1> QED  BY <1>4, <1>5, Zenon DEF SetBufferList

\* A completion starts, or is found successful: it is still the same one.
LEMMA CompletionGoing ==
    ASSUME OInv, CInv, Going, Next, NEW t \in Thread, ThreadStep(t), ~dead',
           StartCallback(t) \/ OnSendCompleted(t)
    PROVE  Going'
<1>1. Types /\ IoPath /\ Kept /\ (Done \/ Core) /\ Replies
  BY Zenon DEF CInv, CloseInv, Going
<1>2. UNCHANGED data /\ peer' = peer /\ socket' = socket
  BY Zenon DEF StartCallback, OnSendCompleted, data, history, peerVars, sockVars
<1>3. /\ Queued' = Queued /\ Waiting' = Waiting /\ Listed' = Listed /\ Sent' = Sent
      /\ sendQueue' = sendQueue /\ pending' = pending /\ args' = args
  BY <1>2, SameLists, Zenon
<1>4. CASE callbacks' = callbacks /\ Finish(t)
  <2>1. \A u \in Thread : u # t => pc'[u] = pc[u]
    BY <1>1, <1>4, Leaves, Zenon
  <2>2. pc'[t] \in {"idle", "taskdone", "dorecv"}
    BY <1>1, <1>4, Leaves, Returns, Zenon
  <2> QED  BY <1>2, <1>4, <2>1, <2>2, OffPath, Zenon
<1>5. CASE callbacks' = callbacks /\ Go(t, "exchange")
  <2>1. pc'[t] = "exchange" /\ \A u \in Thread : u # t => pc'[u] = pc[u]
    BY <1>1, <1>5, Goes, Zenon
  <2> QED  BY <1>2, <1>5, <2>1, OffPath, Zenon
<1>6. CASE \/ callbacks' = callbacks /\ Go(t, "clear") /\ pc[t] = "completed" /\ args.result = "ok"
           \/ t \in Io /\ callbacks > 0 /\ callbacks' = callbacks - 1 /\ Go(t, "completed") /\ pc[t] = "idle"
  <2>1. /\ pc'[t] \in {"clear", "completed"} /\ pc[t] \in {"completed", "idle"}
        /\ \A u \in Thread : u # t => pc'[u] = pc[u]
    BY <1>1, <1>6, Goes, Zenon
  <2>2. Cutting' /\ Replies' /\ cut' = cut /\ requests' = requests /\ (t \in Io \/ t = "rx")
    <3>1. pc'[t] \notin {"test", "move", "list", "post"}
      BY <2>1, Zenon
    <3>2. ~Enqueue(t) /\ pc'[t] \in OnPath /\ Sent \subseteq Sent'
      BY <1>3, <2>1, Zenon DEF Enqueue, OnPath
    <3> QED  BY <1>3, <2>1, <3>1, <3>2, SendStream, Zenon
  <2>3. Kept'
    BY <1>1, <1>3, <2>2, Zenon DEF Kept
  <2>4. CASE Done
    <3>1. Sent \subseteq Sent'
      BY <1>3, Zenon
    <3> QED  BY <1>1, <1>3, <2>2, <2>4, <3>1, DoneStep, EndedKept, Zenon DEF Going
  <2>5. CASE Core
    <3>1. OneReply'
      BY <1>3, <2>2, <2>5, Zenon DEF Core, OneReply
    <3>2. Senders'
      <4>1. \A u \in Thread : \A l \in {"test", "move", "list", "post"} : pc'[u] = l => pc[u] = l
        BY <2>1, Zenon
      <4>2. \A u \in Io : u \in Thread
        BY Threads, Zenon
      <4>3. \A u \in Io : /\ pc'[u] \in {"test", "move"} => pc[u] \in {"test", "move"}
                          /\ pc'[u] \in {"list", "post"} => pc[u] \in {"list", "post"}
        BY <4>1, <4>2, Zenon
      <4>4. \A u \in Io : pc'[u] \in {"test", "move", "list", "post"} => pc'["rx"] \notin {"list", "post"}
        BY <2>5, <4>1, <4>3, Threads, Zenon DEF Core, Senders
      <4>5. /\ pc'["rx"] \in {"move", "list", "post"} => \A j \in Listed : j = cut
            /\ \A u \in Thread : pc'[u] = "post" => args.list = pending
            /\ \A u \in Thread : pc'[u] \in {"list", "post"} => sendQueue = << >>
        BY <2>5, <4>1, Threads, Zenon DEF Core, Senders
      <4> QED  BY <1>3, <2>2, <2>5, <4>3, <4>4, <4>5, Zenon DEF Core, Senders
    <3>3. CASE /\ callbacks' = callbacks /\ pc'[t] = "clear" /\ pc[t] = "completed" /\ args.result = "ok"
      <4>1. \A u \in Thread : OkThread(u)' => OkThread(u)
        BY <1>3, <2>1, <3>3, Zenon DEF OkThread
      <4>2. OkCallback' <=> OkCallback
        BY <1>3, <3>3, Zenon DEF OkCallback
      <4>3. NoOk => NoOk'
        BY <4>1, <4>2, Zenon DEF NoOk
      <4>4. OneClears'
        BY <1>3, <2>2, <2>5, <3>3, <4>1, <4>2, <4>3, Zenon DEF Core, OneClears
      <4>5. Failures'
        BY <1>2, <1>3, <2>1, <2>2, <2>5, <3>3, Threads, Zenon DEF Core, Failures, Ended
      <4> QED  BY <2>2, <2>3, <2>5, <3>1, <3>2, <4>4, <4>5, Zenon DEF Going, Core
    <3>4. CASE t \in Io /\ callbacks > 0 /\ callbacks' = callbacks - 1 /\ pc'[t] = "completed" /\ pc[t] = "idle"
      <4>1. callbacks \in Nat /\ (callbacks = 1 => ~(callbacks' > 0)) /\ t # "rx"
        BY <1>1, <3>4, Threads DEF Types
      <4>2. \A u \in Thread : u # t /\ OkThread(u)' => OkThread(u)
        BY <1>3, <2>1, Zenon DEF OkThread
      <4>3. OkThread(t)' => OkCallback
        BY <1>3, <3>4, Zenon DEF OkThread, OkCallback
      <4>4. OkCallback' => OkCallback /\ callbacks # 1
        BY <1>3, <3>4, <4>1, Zenon DEF OkCallback
      <4>5. NoOk => NoOk'
        BY <4>2, <4>3, <4>4, Zenon DEF NoOk
      <4>6. OneClears'
        <5>1. /\ \A u, v \in Thread : OkThread(u) /\ OkThread(v) => u = v
              /\ OkCallback => callbacks = 1 /\ \A u \in Thread : ~OkThread(u)
          BY <2>5, Zenon DEF Core, OneClears
        <5>2. ~OkCallback'
          BY <4>4, <5>1, Zenon
        <5>3. \A u, v \in Thread : OkThread(u)' /\ OkThread(v)' => u = v
          BY <4>2, <4>3, <5>1, Zenon
        <5> QED  BY <1>3, <2>2, <2>5, <4>5, <5>2, <5>3, Zenon DEF Core, OneClears
      <4>7. Failures'
        BY <1>2, <1>3, <2>1, <2>2, <2>5, <3>4, <4>1, Threads, Zenon DEF Core, Failures, Ended
      <4> QED  BY <2>2, <2>3, <2>5, <3>1, <3>2, <4>6, <4>7, Zenon DEF Going, Core
    <3> QED  BY <1>1, <1>6, <3>3, <3>4, Goes, Zenon
  <2> QED  BY <1>1, <2>2, <2>4, <2>5, Zenon DEF Going
<1> QED  BY <1>4, <1>5, <1>6, Zenon DEF StartCallback, OnSendCompleted, Throw, AfterSend
\* The list is cleared: what is in it has been sent.
LEMMA ClearPendingGoing ==
    ASSUME OInv, CInv, Going, Next, NEW t \in Thread, ThreadStep(t), ClearPending(t), ~dead'
    PROVE  Going'
<1>1. Types /\ IoPath /\ Kept /\ (Done \/ Core) /\ Replies
  BY Zenon DEF CInv, CloseInv, Going
<1>2. /\ enqueued' = enqueued /\ sendQueue' = sendQueue /\ wire' = wire /\ callbacks' = callbacks
      /\ peer' = peer /\ socket' = socket /\ pc[t] = "clear" /\ sendLock \in {None, t}
  BY Zenon DEF ClearPending, history, peerVars, sockVars
<1>3. Queued' = Queued /\ Sent' = Sent /\ Waiting' = Waiting
  BY <1>2, Zenon DEF Queued, Sent, Waiting
<1>4. CASE Finish(t) /\ UNCHANGED << args, pending >>
  <2>1. \A u \in Thread : u # t => pc'[u] = pc[u]
    BY <1>1, <1>4, Leaves, Zenon
  <2>2. pc'[t] \in {"idle", "taskdone", "dorecv"}
    BY <1>1, <1>4, Leaves, Returns, Zenon
  <2>3. UNCHANGED data
    BY <1>2, <1>4, Zenon DEF data
  <2> QED  BY <1>2, <2>1, <2>2, <2>3, OffPath, Zenon
<1>5. CASE /\ args.op # "busy" /\ args' = [args EXCEPT !.list = << >>] /\ pending' = << >>
           /\ (sendQueue # << >> /\ Go(t, "test")) \/ Finish(t)
  <2>1. /\ \A u \in Thread : u # t => pc'[u] = pc[u]
        /\ pc'[t] \in {"test", "idle", "taskdone", "dorecv"}
        /\ pc'[t] = "test" => sendQueue # << >>
    <3>1. CASE sendQueue # << >> /\ Go(t, "test")
      BY <1>1, <3>1, Goes, Zenon
    <3>2. CASE Finish(t)
      BY <1>1, <3>2, Leaves, Returns, Zenon
    <3> QED  BY <1>5, <3>1, <3>2, Zenon
  <2>2. args'.op = args.op /\ args'.result = args.result /\ args'.list = << >> /\ args.op = "free"
    BY <1>1, <1>5 DEF Types
  <2>3. Listed' = {}
    BY <1>5, Ranges, Zenon DEF Listed
  <2>4. sendQueue # << >> => cut \in Queued
    <3> SUFFICES ASSUME sendQueue # << >> PROVE cut \in Queued
      BY Zenon
    <3>1. sendQueue \in Seq(Nat) /\ cut \in Nat
      BY <1>1, Zenon DEF Types
    <3>2. sendQueue[1] \in Waiting /\ sendQueue[1] \in Nat
      BY <3>1 DEF Waiting, Range1
    <3>3. 0 < sendQueue[1] /\ sendQueue[1] <= cut
      BY <1>1, <3>2, Inside, Zenon DEF Replies
    <3>4. CASE Done
      <4>1. cut # 0
        BY <3>1, <3>2, <3>3
      <4> QED  BY <3>4, <4>1, Inside, Zenon DEF Done, Answered
    <3>5. CASE Core
      <4>1. sendQueue = << cut >>
        BY <3>5, Zenon DEF Core, OneReply
      <4>2. Waiting = {cut}
        BY <4>1, Ranges, Zenon DEF Waiting
      <4> QED  BY <4>2, Inside, Zenon
    <3> QED  BY <1>1, <3>4, <3>5, Zenon
  <2>5. Cutting' /\ Replies' /\ cut' = cut /\ requests' = requests /\ (t \in Io \/ t = "rx")
    <3>1. pc'[t] \in {"test", "move", "list", "post"} => cut \in Queued
      BY <2>1, <2>4, Zenon
    <3>2. ~Enqueue(t) /\ pc'[t] \in OnPath \cup {"idle", "taskdone", "dorecv"} /\ Sent \subseteq Sent'
      BY <1>2, <1>3, <2>1, Zenon DEF Enqueue, OnPath
    <3> QED  BY <1>3, <2>1, <3>1, <3>2, SendStream, Zenon
  <2>6. CASE Done
    <3>1. Sent \subseteq Sent'
      BY <1>3, Zenon
    <3> QED  BY <1>1, <1>3, <2>5, <2>6, <3>1, DoneStep, EndedKept, Zenon DEF Going
  <2>7. CASE Core
    <3>1. OkThread(t) /\ ~NoOk
      BY <1>2, Zenon DEF OkThread, NoOk
    <3>2. Kept'
      <4>1. cut \in Listed => cut \in Sent
        BY <2>7, <3>1, Zenon DEF Core, OneClears
      <4> QED  BY <1>1, <1>3, <2>5, <4>1, Zenon DEF Kept
    <3>3. NoOk'
      <4>1. ~OkCallback'
        <5>1. ~OkCallback
          BY <2>7, <3>1, Zenon DEF Core, OneClears
        <5> QED  BY <1>2, <2>2, <5>1, Zenon DEF OkCallback
      <4>2. ASSUME NEW u \in Thread PROVE ~OkThread(u)'
        <5>1. CASE u = t
          BY <2>1, <5>1, Zenon DEF OkThread
        <5>2. CASE u # t
          <6>1. ~OkThread(u)
            BY <2>7, <3>1, <5>2, Zenon DEF Core, OneClears
          <6> QED  BY <2>1, <2>2, <5>2, <6>1, Zenon DEF OkThread
        <5> QED  BY <5>1, <5>2, Zenon
      <4> QED  BY <4>1, <4>2, Zenon DEF NoOk
    <3>4. OneReply'
      <4>1. Len(<< >>) <= 1
        OBVIOUS
      <4>2. args'.op # "busy"
        BY <2>2, Zenon
      <4> QED  BY <1>2, <1>3, <1>5, <2>3, <2>5, <2>7, <4>1, <4>2, Zenon DEF Core, OneReply
    <3>5. OneClears'
      BY <2>2, <3>3, Zenon DEF OneClears, NoOk
    <3>6. Senders'
      <4>1. \A u \in Thread : \A l \in {"move", "list", "post"} : pc'[u] = l => pc[u] = l
        BY <2>1, Zenon
      <4>2. \A u \in Io : u \in Thread /\ pc'[u] \notin {"list", "post"}
        BY <1>1, <1>2, <4>1, Threads, Zenon DEF IoPath
      <4>3. \A u \in Thread : pc'[u] \in {"list", "post"} => sendQueue = << >>
        BY <2>7, <4>1, Zenon DEF Core, Senders
      <4>4. \A u \in Io : pc'[u] \in {"test", "move"} => sendQueue = << cut >>
        <5> SUFFICES ASSUME NEW u \in Io, pc'[u] \in {"test", "move"} PROVE sendQueue = << cut >>
          BY Zenon
        <5>1. CASE u = t
          BY <2>1, <2>7, <5>1, Zenon DEF Core, OneReply
        <5>2. CASE u # t
          BY <2>1, <2>7, <4>2, <5>2, Zenon DEF Core, Senders
        <5> QED  BY <5>1, <5>2, Zenon
      <4>5. \A u \in Io : pc'[u] \in {"test", "move", "list", "post"} => pc'["rx"] \notin {"list", "post"}
        <5>1. << cut >> # << >>
          OBVIOUS
        <5> QED  BY <4>2, <4>3, <4>4, <5>1, Threads, Zenon
      <4> QED  BY <1>2, <1>5, <2>2, <2>3, <2>5, <4>2, <4>3, <4>4, <4>5, Zenon DEF Senders
    <3>7. Failures'
      BY <1>2, <1>3, <2>1, <2>2, <2>5, <2>7, Threads, Zenon DEF Core, Failures, Ended
    <3> QED  BY <2>5, <3>2, <3>4, <3>5, <3>6, <3>7, Zenon DEF Going, Core
  <2> QED  BY <1>1, <2>5, <2>6, <2>7, Zenon DEF Going
<1> QED  BY <1>4, <1>5, Zenon DEF ClearPending
LEMMA SentGrows ==
    ASSUME OInv, wire' = wire \o args.list
    PROVE  /\ Sent \subseteq Sent'
           /\ NoRepeat' => NoRepeat
           /\ \A x : x \in Sent' <=> x \in Sent \/ \E i \in 1..Len(args.list) : args.list[i] = x
           /\ NoRepeat' => \A i \in 1..Len(args.list) : args.list[i] \notin Sent
<1> DEFINE w == Len(wire)
           n == Len(args.list)
<1>1. wire \in Seq(Nat) /\ args.list \in Seq(Nat) /\ w \in Nat /\ n \in Nat
  BY LenProperties, Zenon DEF OInv, Types
<1>2. /\ Len(wire') = w + n
      /\ \A i \in 1..w + n : wire'[i] = IF i <= w THEN wire[i] ELSE args.list[i - w]
  BY <1>1, ConcatProperties
<1> HIDE DEF w, n
<1>3. \A i \in 1..w : i \in 1..w + n /\ wire'[i] = wire[i]
  BY <1>1, <1>2
<1>4. \A i \in 1..n : w + i \in 1..w + n /\ wire'[w + i] = args.list[i] /\ w + i \notin 1..w
  BY <1>1, <1>2
<1>5. \A i \in 1..w + n : i \in 1..w \/ \E k \in 1..n : i = w + k
  <2> SUFFICES ASSUME NEW i \in 1..w + n, i \notin 1..w PROVE \E k \in 1..n : i = w + k
    BY Zenon
  <2>1. i - w \in 1..n /\ i = w + (i - w)
    BY <1>1
  <2> QED  BY <2>1, Zenon
<1>6. /\ \A x : x \in Sent <=> \E i \in 1..w : wire[i] = x
      /\ \A x : x \in Sent' <=> \E i \in 1..w + n : wire'[i] = x
  BY <1>2, Zenon DEF Sent, Range1, w
<1>7. \A x : x \in Sent' <=> x \in Sent \/ \E i \in 1..n : args.list[i] = x
  <2>1. ASSUME NEW x, x \in Sent' PROVE x \in Sent \/ \E i \in 1..n : args.list[i] = x
    <3>1. PICK i \in 1..w + n : wire'[i] = x
      BY <1>6, <2>1, Zenon
    <3>2. CASE i \in 1..w
      BY <1>3, <1>6, <3>1, <3>2, Zenon
    <3>3. CASE \E k \in 1..n : i = w + k
      BY <1>4, <3>1, <3>3, Zenon
    <3> QED  BY <1>5, <3>2, <3>3, Zenon
  <2>2. ASSUME NEW x, x \in Sent PROVE x \in Sent'
    BY <1>3, <1>6, <2>2, Zenon
  <2>3. ASSUME NEW x, \E i \in 1..n : args.list[i] = x PROVE x \in Sent'
    BY <1>4, <1>6, <2>3, Zenon
  <2> QED  BY <2>1, <2>2, <2>3, Zenon
<1>8. ASSUME NoRepeat' PROVE NoRepeat /\ \A i \in 1..n : args.list[i] \notin Sent
  <2>1. \A i, j \in 1..w + n : wire'[i] = wire'[j] => i = j
    BY <1>2, <1>8, Zenon DEF NoRepeat
  <2>2. NoRepeat
    <3>1. ASSUME NEW i \in 1..w, NEW j \in 1..w, wire[i] = wire[j] PROVE i = j
      BY <1>3, <2>1, <3>1, Zenon
    <3> QED  BY <3>1, Zenon DEF NoRepeat, w
  <2>3. ASSUME NEW i \in 1..n, args.list[i] \in Sent PROVE FALSE
    <3>1. PICK j \in 1..w : wire[j] = args.list[i]
      BY <1>6, <2>3, Zenon
    <3>2. wire'[j] = wire'[w + i] /\ j \in 1..w + n /\ w + i \in 1..w + n
      BY <1>3, <1>4, <2>3, <3>1, Zenon
    <3>3. j = w + i
      BY <2>1, <3>2, Zenon
    <3> QED  BY <1>4, <2>3, <3>1, <3>3, Zenon
  <2> QED  BY <2>2, <2>3, Zenon
<1> QED  BY <1>7, <1>8, Zenon DEF n

\* A list that is sent without repeating anything holds the last reply.
LEMMA Transmits ==
    ASSUME OInv, Core, Replies, wire' = wire \o args.list, args.list # << >>, NoRepeat'
    PROVE  /\ cut \in Listed /\ cut \notin Sent /\ cut # 0 /\ pending # << >>
           /\ \A x : x \in Sent' <=> x \in Sent \/ x = cut
<1>1. /\ args.list \in Seq(Nat) /\ pending \in Seq(Nat) /\ cut \in Nat
      /\ Len(args.list) <= Len(pending) /\ Len(pending) <= 1
      /\ \A i \in 1..Len(args.list) : args.list[i] = pending[i]
  BY Zenon DEF OInv, Types, Order, Core, OneReply
<1>2. Len(args.list) = 1 /\ Len(pending) = 1
  <2>1. \A s \in Seq(Nat) : s # << >> => Len(s) \in Nat /\ Len(s) > 0
    BY LenProperties, EmptySeq
  <2>2. Len(args.list) \in Nat /\ Len(args.list) > 0 /\ Len(pending) \in Nat
    BY <1>1, <2>1, LenProperties, Zenon
  <2>3. \A a, p \in Nat : a > 0 /\ a <= p /\ p <= 1 => a = 1 /\ p = 1
    OBVIOUS
  <2> QED  BY <1>1, <2>2, <2>3, Zenon
<1> DEFINE x == pending[1]
<1>3. 1 \in 1..1 /\ x \in Nat
  BY <1>1, <1>2
<1>4. args.list[1] = x /\ x \in Listed
  BY <1>1, <1>2, <1>3, Zenon DEF Listed, Range1
<1>5. x \in Queued
  BY <1>4, Inside, Zenon
<1> HIDE DEF x
<1>6. x \notin Sent
  BY <1>2, <1>3, <1>4, SentGrows
<1>7. 0 < x /\ x <= cut
  BY <1>5, Zenon DEF Replies
<1>8. x < cut \/ x = cut
  BY <1>1, <1>3, <1>7
<1>9. x = cut
  BY <1>3, <1>6, <1>7, <1>8, Zenon DEF Replies
<1>10. cut # 0 /\ pending # << >>
  BY <1>1, <1>2, <1>3, <1>7, <1>9
<1>11. \A i \in 1..1 : args.list[i] = x
  BY <1>4
<1>12. \A y : y \in Sent' <=> y \in Sent \/ \E i \in 1..1 : args.list[i] = y
  BY <1>2, SentGrows
<1>13. \A y : y \in Sent' <=> y \in Sent \/ y = x
  BY <1>3, <1>11, <1>12, Zenon
<1> QED  BY <1>4, <1>6, <1>9, <1>10, <1>13, Zenon

\* While the last reply is unsent in the list, no other completion is under way
\* unless the peer is gone, and then there is no further request.
LEMMA Alone ==
    ASSUME OInv, Core, Cutting, Replies, cut \in Listed, cut \notin Sent, cut # 0
    PROVE  /\ requests = cut
           /\ ~Ended => callbacks = 0 /\ \A u \in Thread : pc[u] \notin {"completed", "clear"}
<1>1. requests = cut
  BY Zenon DEF Cutting, Replies, Answered
<1>2. ASSUME ~Ended PROVE callbacks = 0 /\ \A u \in Thread : pc[u] \notin {"completed", "clear"}
  <2>1. NoOk
    BY Zenon DEF Core, OneClears
  <2>2. ~(callbacks > 0)
    BY <1>2, <2>1, Zenon DEF Core, Failures, NoOk, OkCallback
  <2>3. callbacks = 0
    BY <2>2 DEF OInv, Types
  <2>4. \A u \in Thread : pc[u] # "clear" /\ (pc[u] = "completed" => args.result # "ok")
    BY <2>1, Zenon DEF NoOk, OkThread
  <2>5. \A u \in Io : u \in Thread => pc[u] # "completed"
    BY <1>2, <2>4, Zenon DEF Core, Failures
  <2>6. pc["rx"] # "completed"
    <3>1. args.result \in {"ok", "zero", "error"}
      BY DEF OInv, Types
    <3> QED  BY <1>2, <2>4, <3>1, Threads, Zenon DEF Core, Failures
  <2>7. \A u \in Thread : pc[u] # "completed"
    BY <2>5, <2>6, Zenon DEF Thread, Replies
  <2> QED  BY <2>3, <2>4, <2>7, Zenon
<1> QED  BY <1>1, <1>2, Zenon
\* The list is sent successfully, by t at once or at the end of a send: the
\* peer has its answer, and one completion is to clear the list.
LEMMA OkGoing ==
    ASSUME OInv, Going, Core, Cutting', Replies', NoRepeat', wire' = wire \o args.list, args.list # << >>,
           UNCHANGED << enqueued, sendQueue, pending, cut, requests, peer, socket >>,
           args'.op \in {"free", "busy"}, args'.op = "free", args'.list = args.list, args'.result = "ok",
           NEW t \in Thread,
           \/ /\ callbacks' = callbacks /\ pc'[t] = "completed"
              /\ \A u \in Thread : u # t => pc'[u] = pc[u]
           \/ callbacks' = callbacks + 1 /\ \A u \in Thread : pc'[u] = pc[u],
           \A u \in Io : pc'[u] \notin {"list", "post"}
    PROVE  Going'
<1>1. /\ cut \in Listed /\ cut \notin Sent /\ cut # 0 /\ pending # << >>
      /\ \A x : x \in Sent' <=> x \in Sent \/ x = cut
  BY Transmits, Zenon DEF Going
<1>2. /\ requests = cut
      /\ ~Ended => callbacks = 0 /\ \A u \in Thread : pc[u] \notin {"completed", "clear"}
  BY <1>1, Alone, Zenon DEF Going
<1>3. /\ sendQueue' = sendQueue /\ pending' = pending /\ cut' = cut /\ requests' = requests
      /\ Ended' = Ended
  BY Zenon DEF Ended
<1>4. cut' \in Sent'
  BY <1>1, <1>3, Zenon
<1>5. Kept'
  BY <1>4, Zenon DEF Kept
<1>6. CASE Ended
  BY <1>2, <1>3, <1>4, <1>5, <1>6, Zenon DEF Going, Done, Answered
<1>7. CASE ~Ended
  <2>1. OneReply'
    <3>1. sendQueue = << >> /\ Len(pending) <= 1
      BY <1>1, Zenon DEF Core, OneReply
    <3> QED  BY <1>3, <3>1, Zenon DEF OneReply
  <2>2. OneClears'
    <3>1. CASE /\ callbacks' = callbacks /\ pc'[t] = "completed"
               /\ \A u \in Thread : u # t => pc'[u] = pc[u]
      <4>1. \A u \in Thread : OkThread(u)' => u = t
        BY <1>2, <1>7, <3>1, Zenon DEF OkThread
      <4>2. ~OkCallback'
        <5>1. ~(0 > 0)
          OBVIOUS
        <5> QED  BY <1>2, <1>7, <3>1, <5>1, Zenon DEF OkCallback
      <4> QED  BY <1>1, <1>3, <1>4, <4>1, <4>2, Zenon DEF OneClears
    <3>2. CASE callbacks' = callbacks + 1 /\ \A u \in Thread : pc'[u] = pc[u]
      <4>1. \A u \in Thread : ~OkThread(u)'
        BY <1>2, <1>7, <3>2, Zenon DEF OkThread
      <4>2. callbacks' = 1
        BY <1>2, <1>7, <3>2
      <4> QED  BY <1>1, <1>3, <1>4, <4>1, <4>2, Zenon DEF OneClears
    <3> QED  BY <3>1, <3>2, Zenon
  <2>3. Senders'
    <3>1. \A u \in Thread : \A l \in {"test", "move", "list", "post"} : pc'[u] = l => pc[u] = l
      BY Zenon
    <3>2. \A u \in Io : u \in Thread /\ pc'[u] \notin {"test", "move", "list", "post"}
      BY <1>1, <3>1, Threads, Zenon DEF Core, Senders
    <3>3. /\ pc'["rx"] \in {"move", "list", "post"} => \A j \in Listed : j = cut
          /\ \A u \in Thread : pc'[u] = "post" => args.list = pending
          /\ \A u \in Thread : pc'[u] \in {"list", "post"} => sendQueue = << >>
      BY <3>1, Threads, Zenon DEF Core, Senders
    <3>4. Listed' = Listed
      BY <1>3, Zenon DEF Listed
    <3> QED  BY <1>3, <3>2, <3>3, <3>4, Zenon DEF Senders
  <2>4. Failures'
    BY Zenon DEF Failures
  <2> QED  BY <1>5, <2>1, <2>2, <2>3, <2>4, Zenon DEF Going, Core
<1> QED  BY <1>6, <1>7, Zenon

\* The list is not sent: the send failed because the peer is gone, or there
\* was nothing to send and rx finds its reply sent.
LEMMA FailGoing ==
    ASSUME OInv, Going, Core, Cutting', Replies', wire' = wire,
           UNCHANGED << enqueued, sendQueue, pending, cut, requests, peer, socket >>,
           args'.op = "free", args'.list = args.list,
           \/ args'.result = "error" /\ Ended
           \/ args'.result = "zero" /\ pending = << >> /\ (pc'["rx"] = "completed" => cut \in Sent),
           NEW t \in Thread,
           \/ /\ callbacks' = callbacks /\ pc'[t] = "completed"
              /\ args'.result = "zero" => t = "rx"
              /\ \A u \in Thread : u # t => pc'[u] = pc[u]
           \/ args'.result = "error" /\ \A u \in Thread : pc'[u] = pc[u]
    PROVE  Going'
<1>1. /\ sendQueue' = sendQueue /\ pending' = pending /\ cut' = cut /\ requests' = requests
      /\ Ended' = Ended /\ Listed' = Listed /\ Sent' = Sent /\ Queued' = Queued /\ Waiting' = Waiting
  BY Zenon DEF Ended, Listed, Sent, Queued, Waiting
<1>2. Kept'
  BY <1>1, Zenon DEF Going, Kept
<1>3. ~OkCallback' /\ \A u \in Thread : OkThread(u)' => OkThread(u)
  BY Zenon DEF OkCallback, OkThread
<1>4. NoOk => NoOk'
  BY <1>3, Zenon DEF NoOk
<1>5. OneReply'
  BY <1>1, Zenon DEF Core, OneReply
<1>6. OneClears'
  BY <1>1, <1>3, <1>4, Zenon DEF Core, OneClears
<1>7. \A u \in Thread : \A l \in {"test", "move", "list", "post"} : pc'[u] = l => pc[u] = l
  BY Zenon
<1>8. Senders'
  <2>1. \A u \in Io : u \in Thread
    BY Threads, Zenon
  <2>2. \A u \in Io : /\ pc'[u] \in {"test", "move"} => pc[u] \in {"test", "move"}
                      /\ pc'[u] \in {"list", "post"} => pc[u] \in {"list", "post"}
    BY <1>7, <2>1, Zenon
  <2>3. \A u \in Io : pc'[u] \in {"test", "move", "list", "post"} => pc'["rx"] \notin {"list", "post"}
    BY <1>7, <2>2, Threads, Zenon DEF Core, Senders
  <2>4. /\ pc'["rx"] \in {"move", "list", "post"} => \A j \in Listed : j = cut
        /\ \A u \in Thread : pc'[u] = "post" => args.list = pending
        /\ \A u \in Thread : pc'[u] \in {"list", "post"} => sendQueue = << >>
    BY <1>7, Threads, Zenon DEF Core, Senders
  <2> QED  BY <1>1, <2>2, <2>3, <2>4, Zenon DEF Core, Senders
<1>9. Failures'
  <2>1. CASE args'.result = "error" /\ Ended
    BY <1>1, <2>1, Zenon DEF Failures
  <2>2. CASE args'.result = "zero"
    <3>1. NoOk /\ callbacks' = callbacks /\ t = "rx" /\ \A u \in Thread : u # t => pc'[u] = pc[u]
      BY <2>2, Zenon DEF Core, OneClears
    <3>2. callbacks > 0 => Ended
      BY <3>1, Zenon DEF NoOk, OkCallback, Core, Failures
    <3>3. \A u \in Io : u \in Thread /\ u # "rx"
      BY Threads, Zenon
    <3>4. \A u \in Io : pc'[u] = "completed" => Ended
      BY <3>1, <3>3, Zenon DEF NoOk, OkThread, Core, Failures
    <3> QED  BY <1>1, <2>2, <3>1, <3>2, <3>4, Zenon DEF Failures
  <2> QED  BY <2>1, <2>2, Zenon
<1> QED  BY <1>2, <1>5, <1>6, <1>8, <1>9, Zenon DEF Going, Core
LEMMA SendAsyncGoing ==
    ASSUME OInv, CInv, Going, Next, NoRepeat', NEW t \in Thread, ThreadStep(t), SendAsync(t), ~dead'
    PROVE  Going'
<1>1. Types /\ IoPath /\ Kept /\ (Done \/ Core) /\ Cutting /\ Replies
  BY Zenon DEF CInv, CloseInv, Going
<1>2. /\ enqueued' = enqueued /\ sendQueue' = sendQueue /\ pending' = pending
      /\ callbacks' = callbacks /\ peer' = peer /\ socket' = socket /\ pc[t] = "post"
      /\ cut' = cut /\ requests' = requests
  BY Zenon DEF SendAsync, peerVars, recvVars, sockVars
<1>3. Queued' = Queued /\ Listed' = Listed /\ Waiting' = Waiting /\ (Ended => Ended')
  BY <1>2, Zenon DEF Queued, Listed, Waiting, Ended
<1>4. ~Enqueue(t) /\ (t = "rx" => cut \in Queued)
  BY <1>1, <1>2, Zenon DEF Enqueue, Replies
<1>5. CASE Throw(t) /\ args' = args /\ wire' = wire
  <2>1. Finish(t)
    BY <1>5, Zenon DEF Throw
  <2>2. \A u \in Thread : u # t => pc'[u] = pc[u]
    BY <1>1, <2>1, Leaves, Zenon
  <2>3. pc'[t] \in {"idle", "taskdone", "dorecv"}
    BY <1>1, <2>1, Leaves, Returns, Zenon
  <2>4. UNCHANGED data
    BY <1>2, <1>5, Zenon DEF data
  <2> QED  BY <1>2, <2>2, <2>3, <2>4, OffPath, Zenon
<1>6. ASSUME Core
      PROVE  /\ t \in Io \/ t = "rx"
             /\ args.list = pending /\ sendQueue = << >>
             /\ \A u \in Io : u # t => pc[u] \notin {"test", "move", "list", "post"}
             /\ t \in Io => pc["rx"] \notin {"list", "post"} /\ pending = << cut >>
  BY <1>1, <1>2, <1>6, Actors, Zenon DEF IoPath, Core, Senders
<1>7. CASE /\ socket = "open" /\ args.op # "busy" /\ args.list # << >>
           /\ args' = [args EXCEPT !.op = "busy"] /\ Finish(t) /\ wire' = wire
  <2>1. \A u \in Thread : u # t => pc'[u] = pc[u]
    BY <1>1, <1>7, Leaves, Zenon
  <2>2. pc'[t] \in {"idle", "taskdone", "dorecv"}
    BY <1>1, <1>7, Leaves, Returns, Zenon
  <2>3. args'.op = "busy" /\ args'.list = args.list /\ args'.result = args.result
    BY <1>1, <1>7 DEF Types
  <2>4. Sent' = Sent
    BY <1>7, Zenon DEF Sent
  <2>5. Cutting' /\ Replies'
    <3>1. pc'[t] \in OnPath \cup {"idle", "taskdone", "dorecv"} /\ Sent \subseteq Sent'
      BY <2>2, <2>4, Zenon
    <3> QED  BY <1>3, <1>4, <2>1, <3>1, SendStream, Zenon
  <2>6. Kept'
    BY <1>1, <1>2, <1>3, <2>4, Zenon DEF Kept
  <2>7. CASE Done
    <3>1. Sent \subseteq Sent'
      BY <2>4, Zenon
    <3> QED  BY <1>1, <1>2, <1>3, <2>5, <2>7, <3>1, DoneStep, Zenon DEF Going
  <2>8. CASE Core
    <3>1. \A u \in Thread : OkThread(u)' => OkThread(u)
      BY <2>1, <2>2, <2>3, Zenon DEF OkThread
    <3>2. OkCallback' <=> OkCallback
      BY <1>2, <2>3, Zenon DEF OkCallback
    <3>3. NoOk => NoOk'
      BY <3>1, <3>2, Zenon DEF NoOk
    <3>4. pending # << >>
      BY <1>6, <1>7, <2>8, Zenon
    <3>5. OneReply'
      BY <1>2, <1>3, <1>7, <2>3, <2>4, <2>8, Zenon DEF Core, OneReply
    <3>6. OneClears'
      BY <1>2, <1>3, <2>3, <2>4, <2>8, <3>1, <3>2, <3>3, <3>4, Zenon DEF Core, OneClears
    <3>7. Senders'
      <4>1. \A u \in Thread : \A l \in {"test", "move", "list", "post"} : pc'[u] = l => pc[u] = l /\ u # t
        BY <2>1, <2>2, Zenon
      <4>2. \A u \in Io : u \in Thread /\ pc'[u] \notin {"test", "move", "list", "post"}
        BY <1>6, <2>8, <4>1, Threads, Zenon
      <4>3. /\ pc'["rx"] \in {"move", "list", "post"} => \A j \in Listed : j = cut
            /\ \A u \in Thread : pc'[u] = "post" => args.list = pending
            /\ \A u \in Thread : pc'[u] \in {"list", "post"} => sendQueue = << >>
        BY <2>8, <4>1, Threads, Zenon DEF Core, Senders
      <4> QED  BY <1>2, <1>3, <2>3, <4>2, <4>3, Zenon DEF Senders
    <3>8. Failures'
      BY <1>2, <1>3, <2>1, <2>2, <2>3, <2>4, <2>8, Threads, Zenon DEF Core, Failures
    <3> QED  BY <2>5, <2>6, <3>5, <3>6, <3>7, <3>8, Zenon DEF Going, Core
  <2> QED  BY <1>1, <2>5, <2>7, <2>8, Zenon DEF Going
<1>8. ASSUME NEW r \in SendResult(args.list), args' = [args EXCEPT !.result = r], Go(t, "completed"),
             wire' = IF r = "ok" THEN wire \o args.list ELSE wire, socket = "open", args.op # "busy"
      PROVE  Going'
  <2>1. pc'[t] = "completed" /\ \A u \in Thread : u # t => pc'[u] = pc[u]
    BY <1>1, <1>8, Goes, Zenon
  <2>2. args'.op = "free" /\ args'.list = args.list /\ args'.result = r
    BY <1>1, <1>8 DEF Types
  <2>3. \/ r = "ok" /\ args.list # << >>
        \/ r = "zero" /\ args.list = << >>
        \/ r = "error" /\ Ended
    BY <1>8, Zenon DEF SendResult, Ended
  <2>4. Sent \subseteq Sent'
    <3>1. CASE wire' = wire
      BY <3>1, Zenon DEF Sent
    <3>2. CASE wire' = wire \o args.list
      BY <3>2, SentGrows, Zenon
    <3> QED  BY <1>8, <3>1, <3>2, Zenon
  <2>5. Cutting' /\ Replies'
    <3>1. pc'[t] \in OnPath
      BY <2>1, Zenon DEF OnPath
    <3> QED  BY <1>3, <1>4, <2>1, <2>4, <3>1, SendStream, Zenon
  <2>6. CASE Done
    BY <1>1, <1>2, <1>3, <2>4, <2>5, <2>6, DoneStep, Zenon DEF Going
  <2>7. CASE Core /\ r = "ok" /\ args.list # << >>
    <3>1. \A u \in Io : pc'[u] \notin {"list", "post"}
      BY <1>6, <2>1, <2>7, Threads, Zenon
    <3>2. wire' = wire \o args.list
      BY <1>8, <2>7, Zenon
    <3> QED  BY <1>2, <2>1, <2>2, <2>5, <2>7, <3>1, <3>2, OkGoing, Zenon
  <2>8. CASE Core /\ r = "error" /\ Ended
    <3>1. wire' = wire
      BY <1>8, <2>8, Zenon
    <3> QED  BY <1>2, <2>1, <2>2, <2>5, <2>8, <3>1, FailGoing, Zenon
  <2>9. CASE Core /\ r = "zero" /\ args.list = << >>
    <3>1. wire' = wire
      BY <1>8, <2>9, Zenon
    <3>2. pending = << >> /\ sendQueue = << >> /\ t = "rx"
      <4>1. << cut >> # << >>
        OBVIOUS
      <4> QED  BY <1>6, <2>9, <4>1, Zenon
    <3>3. Listed = {} /\ Waiting = {}
      BY <3>2, Ranges, Zenon DEF Listed, Waiting
    <3>4. cut \in Sent
      BY <1>1, <1>4, <3>2, <3>3, Zenon DEF Kept
    <3> QED  BY <1>2, <2>1, <2>2, <2>5, <2>9, <3>1, <3>2, <3>4, FailGoing, Zenon
  <2> QED  BY <1>1, <2>3, <2>6, <2>7, <2>8, <2>9, Zenon
<1> QED  BY <1>5, <1>7, <1>8, Zenon DEF SendAsync

LEMMA SendEndsGoing ==
    ASSUME OInv, CInv, Going, NoRepeat', SendEnds
    PROVE  Going'
<1>1. Types /\ IoPath /\ Kept /\ (Done \/ Core) /\ Cutting /\ Replies
  BY Zenon DEF CInv, CloseInv, Going
<1>2. /\ enqueued' = enqueued /\ sendQueue' = sendQueue /\ pending' = pending /\ pc' = pc
      /\ callbacks' = callbacks + 1 /\ peer' = peer /\ socket' = socket
      /\ cut' = cut /\ requests' = requests /\ args.op = "busy"
      /\ UNCHANGED << requests, stream, recvVars >>
  BY Zenon DEF SendEnds, peerVars, recvVars, sockVars
<1>3. Queued' = Queued /\ Listed' = Listed /\ Waiting' = Waiting /\ (Ended => Ended')
  BY <1>2, Zenon DEF Queued, Listed, Waiting, Ended
<1>4. PICK r \in SendResult(args.list) :
             /\ args' = [args EXCEPT !.op = "free", !.result = r]
             /\ wire' = IF r = "ok" THEN wire \o args.list ELSE wire
  BY Zenon DEF SendEnds
<1>5. args'.op = "free" /\ args'.list = args.list /\ args'.result = r
  BY <1>1, <1>4 DEF Types
<1>6. \/ r = "ok" /\ args.list # << >>
      \/ r = "zero" /\ args.list = << >>
      \/ r = "error" /\ Ended
  BY Zenon DEF SendResult, Ended
<1>7. Sent \subseteq Sent'
  <2>1. CASE wire' = wire
    BY <2>1, Zenon DEF Sent
  <2>2. CASE wire' = wire \o args.list
    BY <2>2, SentGrows, Zenon
  <2> QED  BY <1>4, <2>1, <2>2, Zenon
<1>8. pc'["rx"] = pc["rx"] /\ pc'["other"] = pc["other"] /\ \A u \in Thread : pc'[u] = pc[u]
  BY <1>2, Zenon
<1>9. Cutting' /\ Replies'
  BY <1>1, <1>2, <1>3, <1>7, <1>8, StreamKept, Zenon
<1>10. CASE Done
  BY <1>1, <1>2, <1>3, <1>7, <1>9, <1>10, DoneStep, Zenon DEF Going
<1>11. CASE Core /\ r = "ok" /\ args.list # << >>
  <2>1. \A u \in Io : pc'[u] \notin {"list", "post"}
    BY <1>2, <1>8, <1>11, Threads, Zenon DEF Core, Senders
  <2>2. wire' = wire \o args.list
    BY <1>4, <1>11, Zenon
  <2> QED  BY <1>2, <1>5, <1>8, <1>9, <1>11, <2>1, <2>2, OkGoing, Threads, Zenon
<1>12. CASE Core /\ r = "error" /\ Ended
  <2>1. wire' = wire
    BY <1>4, <1>12, Zenon
  <2> QED  BY <1>2, <1>5, <1>8, <1>9, <1>12, <2>1, FailGoing, Threads, Zenon
<1>13. CASE Core /\ args.list = << >>
  BY <1>2, <1>13, Zenon DEF Core, OneReply
<1> QED  BY <1>1, <1>6, <1>10, <1>11, <1>12, <1>13, Zenon
LEMMA ThreadGoing ==
    ASSUME OInv, CInv, Going, Next, NoRepeat', NEW t \in Thread, ThreadStep(t), ~dead'
    PROVE  Going'
<1>1. Types
  BY Zenon DEF OInv
<1>2. CASE Exchange(t) \/ Close(t) \/ SetNull(t)
  <2>1. UNCHANGED data /\ callbacks' = callbacks
    BY <1>2, Zenon DEF Exchange, Close, SetNull, data, sendVars, history
  <2>2. Finish(t) \/ Go(t, "close") \/ Go(t, "null")
    BY <1>2, Zenon DEF Exchange, Close, SetNull
  <2>3. /\ \A u \in Thread : u # t => pc'[u] = pc[u]
        /\ pc'[t] \in {"idle", "taskdone", "dorecv", "exchange", "close", "null"}
    <3>1. CASE Finish(t)
      BY <1>1, <3>1, Leaves, Returns, Zenon
    <3>2. CASE Go(t, "close") \/ Go(t, "null")
      BY <1>1, <3>2, Goes, Zenon
    <3> QED  BY <2>2, <3>1, <3>2, Zenon
  <2> QED  BY <2>1, <2>3, OffPath, Zenon
<1>3. CASE Enqueue(t) \/ Test(t) \/ Move(t)
  BY <1>3, EnqueueGoing, TestGoing, MoveGoing, Zenon
<1>4. CASE SetBufferList(t) \/ SendAsync(t)
  BY <1>4, SetBufferListGoing, SendAsyncGoing, Zenon
<1>5. CASE StartCallback(t) \/ OnSendCompleted(t) \/ ClearPending(t)
  BY <1>5, CompletionGoing, ClearPendingGoing, Zenon
<1> QED  BY <1>2, <1>3, <1>4, <1>5, Zenon DEF ThreadStep

LEMMA InitKeep == Init => KeepInv
<1> SUFFICES ASSUME Init PROVE AllKept /\ Going
  BY Zenon DEF KeepInv
<1>1. /\ enqueued = << >> /\ sendQueue = << >> /\ pending = << >> /\ wire = << >> /\ tasks = << >>
      /\ requests = 0 /\ stream = 0 /\ arrived = 0 /\ buffered = 0 /\ cut = 0 /\ current = 0
      /\ callbacks = 0 /\ args.op = "free" /\ args.list = << >> /\ args.result = "ok"
      /\ pc["rx"] = "posted" /\ pc["other"] = "idle"
      /\ \A t \in Thread : pc[t] \in {"posted", "idle"}
  BY Threads, Zenon DEF Init
<1>2. Queued = {} /\ Waiting = {} /\ Listed = {} /\ Sent = {}
  BY <1>1, Ranges, Zenon DEF Queued, Waiting, Listed, Sent
<1>3. AllKept /\ Kept
  BY <1>2, Zenon DEF AllKept, Kept
<1>4. Cutting
  BY <1>1 DEF Cutting
<1>5. Replies
  <2>1. requests # cut + 1 /\ \A j \in Nat : ~(0 < j /\ j < cut)
    BY <1>1
  <2> QED  BY <1>1, <1>2, <2>1, Zenon DEF Replies
<1>6. \A t \in Thread : pc[t] \notin OnPath
  BY <1>1 DEF OnPath
<1>7. NoOk
  <2>1. ~(callbacks > 0)
    BY <1>1
  <2> QED  BY <1>6, <2>1, Zenon DEF NoOk, OkCallback, OkThread, OnPath
<1>8. OneReply /\ OneClears
  <2>1. Len(<< >>) <= 1
    OBVIOUS
  <2> QED  BY <1>1, <1>7, <2>1, Zenon DEF OneReply, OneClears, NoOk
<1>9. Senders /\ Failures
  <2>1. ~(callbacks > 0)
    BY <1>1
  <2> QED  BY <1>6, <2>1, Threads, Zenon DEF Senders, Failures, OnPath
<1> QED  BY <1>3, <1>4, <1>5, <1>8, <1>9, Zenon DEF Going, Core

\* A step that ends the process leaves the lists as they are.
LEMMA DeathKeeps == ASSUME Next, ~dead, dead' PROVE UNCHANGED data
<1>1. CASE Receive
  BY <1>1, Zenon DEF Receive, OnRecvCompleted, TryExecuteTasks, TaskCompleted, DoRecv, ReceiveAsync,
         data, sendVars, history
<1>2. CASE PeerSends \/ PeerCloses \/ OtherSends \/ RecvEnds \/ SendEnds
  BY <1>2, Zenon DEF PeerSends, PeerCloses, OtherSends, RecvEnds, SendEnds
<1>3. CASE \E t \in Thread : ThreadStep(t)
  <2>1. PICK t \in Thread : ThreadStep(t)
    BY <1>3, Zenon
  <2>2. CASE Enqueue(t) \/ Test(t) \/ StartCallback(t) \/ Exchange(t) \/ Close(t) \/ SetNull(t)
    BY <2>2, Zenon DEF Enqueue, Test, StartCallback, Exchange, Close, SetNull
  <2>3. CASE Move(t) \/ SetBufferList(t) \/ SendAsync(t) \/ OnSendCompleted(t) \/ ClearPending(t)
    BY <2>3, Zenon DEF Move, SetBufferList, SendAsync, OnSendCompleted, ClearPending, data, history
  <2> QED  BY <2>1, <2>2, <2>3, Zenon DEF ThreadStep
<1> QED  BY <1>1, <1>2, <1>3, Zenon DEF Next

LEMMA RepeatStays == ASSUME OInv, Next, NoRepeat' PROVE NoRepeat /\ setting' = setting
<1>1. setting' = setting
  BY ZenonT(40) DEF Next, PeerSends, PeerCloses, OtherSends, RecvEnds, SendEnds, Receive, OnRecvCompleted,
         TryExecuteTasks, TaskCompleted, DoRecv, ReceiveAsync, ThreadStep, Enqueue, Test, Move,
         SetBufferList, SendAsync, StartCallback, OnSendCompleted, ClearPending, Exchange, Close, SetNull
<1>2. wire' = wire \/ wire' = wire \o args.list
  BY ZenonT(40) DEF Next, PeerSends, PeerCloses, OtherSends, RecvEnds, SendEnds, Receive, OnRecvCompleted,
         TryExecuteTasks, TaskCompleted, DoRecv, ReceiveAsync, ThreadStep, Enqueue, Test, Move,
         SetBufferList, SendAsync, StartCallback, OnSendCompleted, ClearPending, Exchange, Close, SetNull,
         history
<1>3. CASE wire' = wire
  BY <1>1, <1>3, Zenon DEF NoRepeat
<1>4. CASE wire' = wire \o args.list
  BY <1>1, <1>4, SentGrows, Zenon
<1> QED  BY <1>1, <1>2, <1>3, <1>4, Zenon

LEMMA KeepStep == ASSUME SInv, KeepInv, Next PROVE KeepInv'
<1>1. OInv /\ CInv /\ ~dead
  BY Zenon DEF SInv, OInv, CInv, Next
<1>2. SUFFICES ASSUME use' = "lockstep", NoRepeat' PROVE AllKept' /\ (dead' \/ Going')
  BY Zenon DEF KeepInv
<1>3. NoRepeat /\ use = "lockstep"
  BY <1>1, <1>2, RepeatStays, Zenon DEF use
<1>4. AllKept /\ Going
  BY <1>1, <1>3, Zenon DEF KeepInv
<1>5. CASE dead'
  <2>1. Queued' = Queued /\ Waiting' = Waiting /\ Listed' = Listed /\ Sent' = Sent
    BY <1>1, <1>5, DeathKeeps, SameLists, Zenon
  <2> QED  BY <1>4, <1>5, <2>1, Zenon DEF AllKept
<1>6. CASE ~dead'
  <2>1. Going'
    <3>1. CASE PeerSends \/ PeerCloses \/ RecvEnds \/ SendEnds
      BY <1>1, <1>2, <1>3, <1>4, <3>1, PeerSendsGoing, PeerClosesGoing, RecvEndsGoing, SendEndsGoing, Zenon
         DEF OInv
    <3>2. CASE OtherSends
      BY <1>3, <3>2, Zenon DEF OtherSends
    <3>3. CASE Receive
      BY <1>1, <1>4, <1>6, <3>3, ReceiveGoing, Zenon
    <3>4. CASE \E t \in Thread : ThreadStep(t)
      BY <1>1, <1>2, <1>4, <1>6, <3>4, ThreadGoing, Zenon
    <3> QED  BY <3>1, <3>2, <3>3, <3>4, Zenon DEF Next
  <2>2. OInv'
    BY <1>1, NextOInv, Zenon
  <2>3. AllKept'
    <3>1. Kept' /\ Replies'
      BY <2>1, Zenon DEF Going
    <3> QED  BY <2>2, <3>1, KeptIsEnough, PTL
  <2> QED  BY <2>1, <2>3, Zenon
<1> QED  BY <1>5, <1>6, Zenon
LEMMA StutterKeep == ASSUME KeepInv, UNCHANGED vars PROVE KeepInv'
<1>1. /\ UNCHANGED << data, cut, callbacks, requests >> /\ UNCHANGED << requests, stream, recvVars >>
      /\ setting' = setting /\ dead' = dead /\ pc' = pc /\ wire' = wire
      /\ peer' = peer /\ socket' = socket
  BY Zenon DEF vars, data, peerVars, recvVars, sendVars, sockVars, history
<1>2. Queued' = Queued /\ Waiting' = Waiting /\ Listed' = Listed /\ Sent' = Sent
  BY <1>1, SameLists, Zenon
<1>3. (use = "lockstep" /\ NoRepeat)' => use = "lockstep" /\ NoRepeat
  BY <1>1, Zenon DEF use, NoRepeat
<1>4. AllKept => AllKept'
  BY <1>2, Zenon DEF AllKept
<1>5. ASSUME Going PROVE Going'
  <2>1. Ended => Ended'
    BY <1>1, Zenon DEF Ended
  <2>2. Kept' /\ (Done' \/ Core')
    BY <1>1, <1>5, <2>1, RestKept, Zenon
  <2>3. Sent \subseteq Sent' /\ pc'["rx"] = pc["rx"] /\ pc'["other"] = pc["other"]
    BY <1>1, <1>2, Zenon
  <2>4. Cutting' /\ Replies'
    BY <1>1, <1>2, <1>5, <2>3, StreamKept, Zenon DEF Going
  <2> QED  BY <2>2, <2>4, Zenon DEF Going
<1> QED  BY <1>1, <1>3, <1>4, <1>5, Zenon DEF KeepInv

\* A peer that sends its next request only when it has the answer to the last
\* one loses no reply as long as none has been repeated: what Send enqueued is
\* still queued, is in the pending list, or was transmitted, although DoSend
\* tests that list outside of its lock (NetSession.cs:84) while the completion
\* of an earlier send clears it.
THEOREM RepliesAreKept == Spec => []LockstepKeepsReplies
<1>1. ASSUME SInv, KeepInv, [Next]_vars PROVE KeepInv'
  BY <1>1, KeepStep, StutterKeep, Zenon
<1>2. KeepInv => LockstepKeepsReplies
  BY Zenon DEF KeepInv, AllKept, Queued, Waiting, Listed, Sent, LockstepKeepsReplies
<1> QED  BY <1>1, <1>2, InitKeep, SessionInvariant, PTL DEF Spec
=============================================================================
