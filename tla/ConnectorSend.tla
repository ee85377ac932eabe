---------------------------- MODULE ConnectorSend ----------------------------
(***************************************************************************)
(* The send side of one Connector (connector.cpp, Network::Write and       *)
(* Network::DoSend).  Threads of the server queue messages with Write; a   *)
(* Write that finds no send outstanding (_dwSendRef) starts one with       *)
(* SendPrepare and WSASend; the worker thread that gets the completion     *)
(* goes on with the rest of a buffer or with the next message.  Only the   *)
(* queue itself is locked: _dwSendRef and _SendRequest are not.            *)
(*                                                                         *)
(* A message is Size units long, and the wire shows the units that left.   *)
(* The Connector object outlives its client: when the client has gone the  *)
(* object is accepted into again, as it is.                                *)
(***************************************************************************)
EXTENDS Integers, Sequences

CONSTANTS Writer,     \* threads that call Write
          Worker,     \* worker threads of the network
          Null,       \* nullptr
          Size,       \* units of a message
          MaxWrites,  \* bound on the messages written for one client
          MaxClients  \* bound on the clients of this object, one after another

ASSUME SendAssumption ==
    /\ Writer \cap Worker = {}
    /\ {Size, MaxWrites, MaxClients} \subseteq Nat \ {0}

VARIABLES overlap,   \* threads may be inside Write and DoSend together, in
                     \* this behaviour
          open,      \* _socket is valid
          client,    \* number of the client
          written,   \* how many messages were queued for this client
          sendQueue, \* _SendQueue
          sendRef,   \* _dwSendRef (-1 stands for the wrapped DWORD)
          pBuffer,   \* _SendRequest.pBuffer
          inflight,  \* sends the system has accepted and not completed
          wire,      \* units sent to this client
          pc,        \* where each thread is
          done       \* units reported by the completion a worker handles

vars == <<overlap, open, client, written, sendQueue, sendRef, pBuffer, inflight, wire, pc, done>>

Thread == Writer \cup Worker
Message == [client : 1..MaxClients, no : 1..MaxWrites]
Buffer == [msg : Message, left : 1..Size]

ASSUME NullAssumption == Null \notin Buffer

TypeOK ==
    /\ overlap \in BOOLEAN
    /\ open \in BOOLEAN
    /\ client \in 1..MaxClients
    /\ written \in 0..MaxWrites
    /\ sendQueue \in Seq(Message)
    /\ sendRef \in Int
    /\ pBuffer \in Buffer \cup {Null}
    /\ inflight \in Seq(Buffer)
    /\ wire \in Seq(Message \X (1..Size))
    /\ pc \in [Thread -> {"idle", "ref", "empty", "check", "lock", "send", "complete", "clear", "crash"}]
    /\ done \in [Worker -> 0..Size]

Init ==
    /\ overlap \in BOOLEAN
    /\ open = TRUE /\ client = 1 /\ written = 0
    /\ sendQueue = << >> /\ sendRef = 0 /\ pBuffer = Null
    /\ inflight = << >> /\ wire = << >>
    /\ pc = [t \in Thread |-> "idle"]
    /\ done = [w \in Worker |-> 0]

MayStart == overlap \/ \A t \in Thread : pc[t] = "idle"
Goto(t, where) == pc' = [pc EXCEPT ![t] = where]

-----------------------------------------------------------------------------
(* Network::Write.                                                         *)

(* A closed socket is refused; AddSendQueue queues a copy.                 *)
AddSendQueue(t) ==
    /\ pc[t] = "idle" /\ MayStart
    /\ open /\ written < MaxWrites
    /\ written' = written + 1
    /\ sendQueue' = Append(sendQueue, [client |-> client, no |-> written + 1])
    /\ Goto(t, "ref")
    /\ UNCHANGED <<overlap, open, client, sendRef, pBuffer, inflight, wire, done>>

(* Only the thread that sees no send outstanding starts one.               *)
TestSendRef(t) ==
    /\ pc[t] = "ref"
    /\ Goto(t, IF sendRef = 0 THEN "empty" ELSE "idle")
    /\ UNCHANGED <<overlap, open, client, written, sendQueue, sendRef, pBuffer, inflight, wire, done>>

-----------------------------------------------------------------------------
(* Connector::SendPrepare, for both callers.  Its result 0 (nothing        *)
(* prepared) stops DoSend; Write only looks for a negative one and calls   *)
(* WSASend all the same.                                                   *)

Unprepared(t) == Goto(t, IF t \in Worker THEN "idle" ELSE "send")

PrepareEmpty(t) ==
    /\ pc[t] = "empty"
    /\ IF sendQueue = << >> THEN Unprepared(t) ELSE Goto(t, "check")
    /\ UNCHANGED <<overlap, open, client, written, sendQueue, sendRef, pBuffer, inflight, wire, done>>

PrepareRef(t) ==
    /\ pc[t] = "check"
    /\ IF sendRef # 0 THEN Unprepared(t) ELSE Goto(t, "lock")
    /\ UNCHANGED <<overlap, open, client, written, sendQueue, sendRef, pBuffer, inflight, wire, done>>

(* Mutants of PreparePop: the message stays in the queue; the newest one   *)
(* is taken.                                                               *)
PrepareCopy(t) ==
    /\ pc[t] = "lock" /\ sendQueue # << >>
    /\ pBuffer' = [msg |-> Head(sendQueue), left |-> Size]
    /\ sendRef' = sendRef + 1
    /\ Goto(t, "send")
    /\ UNCHANGED <<overlap, open, client, written, sendQueue, inflight, wire, done>>

PrepareNewest(t) ==
    /\ pc[t] = "lock" /\ sendQueue # << >>
    /\ pBuffer' = [msg |-> sendQueue[Len(sendQueue)], left |-> Size]
    /\ sendQueue' = SubSeq(sendQueue, 1, Len(sendQueue) - 1)
    /\ sendRef' = sendRef + 1
    /\ Goto(t, "send")
    /\ UNCHANGED <<overlap, open, client, written, inflight, wire, done>>

(* Under the queue's lock; front() of an empty queue is undefined.         *)
PreparePop(t) ==
    /\ pc[t] = "lock"
    /\ \/ /\ sendQueue # << >>
          /\ pBuffer' = [msg |-> Head(sendQueue), left |-> Size]
          /\ sendQueue' = Tail(sendQueue)
          /\ sendRef' = sendRef + 1
          /\ Goto(t, "send")
       \/ /\ sendQueue = << >>
          /\ Goto(t, "crash")
          /\ UNCHANGED <<sendQueue, sendRef, pBuffer>>
    /\ UNCHANGED <<overlap, open, client, written, inflight, wire, done>>

(* WSASend of _SendRequest.pBuffer.  It fails on a closed socket or        *)
(* without a buffer; DoSend then disconnects, which also ends what is      *)
(* outstanding, and Write returns.                                         *)
WSASend(t) ==
    /\ pc[t] = "send"
    /\ \/ /\ open /\ pBuffer # Null
          /\ inflight' = Append(inflight, pBuffer)
          /\ UNCHANGED open
       \/ /\ ~open \/ pBuffer = Null
          /\ open' = (open /\ t \in Writer)
          /\ inflight' = IF t \in Worker THEN << >> ELSE inflight
    /\ Goto(t, "idle")
    /\ UNCHANGED <<overlap, client, written, sendQueue, sendRef, pBuffer, wire, done>>

-----------------------------------------------------------------------------
(* Completions: Network::DoSend.                                           *)

(* The system has sent n units of the oldest outstanding send.             *)
Completion(w, n) ==
    /\ pc[w] = "idle" /\ MayStart
    /\ open /\ inflight # << >>
    /\ LET b == Head(inflight)
       IN  /\ n <= b.left
           /\ wire' = wire \o [i \in 1..n |-> <<b.msg, Size - b.left + i>>]
    /\ inflight' = Tail(inflight)
    /\ done' = [done EXCEPT ![w] = n]
    /\ Goto(w, "complete")
    /\ UNCHANGED <<overlap, open, client, written, sendQueue, sendRef, pBuffer>>

(* Mutant of SendComplete: the reference is kept.                          *)
CompleteKeepRef(w) ==
    /\ pc[w] = "complete" /\ pBuffer # Null
    /\ \/ /\ done[w] < pBuffer.left
          /\ pBuffer' = [pBuffer EXCEPT !.left = @ - done[w]]
          /\ Goto(w, "send")
       \/ /\ done[w] >= pBuffer.left
          /\ Goto(w, "clear")
          /\ UNCHANGED pBuffer
    /\ UNCHANGED <<overlap, open, client, written, sendQueue, sendRef, inflight, wire, done>>

(* Connector::SendComplete, up to DecSendRef.                              *)
SendComplete(w) ==
    /\ pc[w] = "complete"
    /\ \/ /\ pBuffer = Null
          /\ Goto(w, "empty")
          /\ UNCHANGED <<sendRef, pBuffer>>
       \/ /\ pBuffer # Null /\ done[w] < pBuffer.left
          /\ pBuffer' = [pBuffer EXCEPT !.left = @ - done[w]]
          /\ Goto(w, "send")
          /\ UNCHANGED sendRef
       \/ /\ pBuffer # Null /\ done[w] >= pBuffer.left
          /\ sendRef' = sendRef - 1
          /\ Goto(w, "clear")
          /\ UNCHANGED pBuffer
    /\ UNCHANGED <<overlap, open, client, written, sendQueue, inflight, wire, done>>

(* ... and the rest of it, which forgets the buffer.                       *)
ForgetBuffer(w) ==
    /\ pc[w] = "clear"
    /\ pBuffer' = Null
    /\ Goto(w, "empty")
    /\ UNCHANGED <<overlap, open, client, written, sendQueue, sendRef, inflight, wire, done>>

-----------------------------------------------------------------------------
(* The client goes: outstanding sends complete with an error, for which    *)
(* WorkerThread only calls Disconnect.                                     *)
PeerClose ==
    /\ open
    /\ open' = FALSE
    /\ inflight' = << >>
    /\ UNCHANGED <<overlap, client, written, sendQueue, sendRef, pBuffer, wire, pc, done>>

(* The object was released (Release deletes the buffer, nothing else) and  *)
(* the next client is accepted into it.                                    *)
Reaccept ==
    /\ ~open /\ \A t \in Thread : pc[t] = "idle"
    /\ client < MaxClients
    /\ open' = TRUE /\ client' = client + 1
    /\ pBuffer' = Null
    /\ written' = 0 /\ wire' = << >>
    /\ UNCHANGED <<overlap, sendQueue, sendRef, inflight, pc, done>>

(* Nobody writes any more.                                                 *)
Rest ==
    /\ written = MaxWrites \/ ~open \/ \E t \in Thread : pc[t] = "crash"
    /\ UNCHANGED vars

ThreadStep(t) == TestSendRef(t) \/ PrepareEmpty(t) \/ PrepareRef(t) \/ PreparePop(t) \/ WSASend(t)
WorkerStep(w) == (\E n \in 1..Size : Completion(w, n)) \/ SendComplete(w) \/ ForgetBuffer(w)

Next ==
    \/ \E t \in Writer : AddSendQueue(t)
    \/ \E t \in Thread : ThreadStep(t)
    \/ \E w \in Worker : WorkerStep(w)
    \/ PeerClose \/ Reaccept \/ Rest

Spec == Init /\ [][Next]_vars

(* Threads run, and sends the system has accepted complete.  Nothing makes *)
(* a thread write, or a client come or go.                                 *)
FairSpec ==
    /\ Spec
    /\ \A t \in Thread : WF_vars(ThreadStep(t))
    /\ \A w \in Worker : WF_vars(SendComplete(w) \/ ForgetBuffer(w))
    /\ \A w \in Worker : SF_vars(\E n \in 1..Size : Completion(w, n))

-----------------------------------------------------------------------------
(* What leaves for a client is what was written for it: nothing twice, out *)
(* of order, missing in the middle, or meant for somebody else, as long as *)
(* Write and DoSend do not overlap.  Unit k of the message number m is the *)
(* ((m - 1) * Size + k)th unit the client gets.                            *)
InOrder ==
    ~overlap =>
        \A i \in DOMAIN wire :
            LET m == wire[i][1]  k == wire[i][2]
            IN  /\ m.client = client /\ m.no \in 1..written
                /\ k \in 1..Size /\ i = (m.no - 1) * Size + k

(* Two messages never overtake each other, whatever the threads do (a      *)
(* message may be lost or sent twice).                                     *)
NotOvertaken ==
    \A i, j \in DOMAIN wire : i < j =>
        LET m == wire[i][1]  n == wire[j][1]
        IN  m.client < n.client \/ (m.client = n.client /\ m.no <= n.no)

(* Everything in the send queue of the object's first client is sent,      *)
(* unless the connection is lost, as long as Write and DoSend do not       *)
(* overlap.  A later client may find _dwSendRef stuck.                     *)
Sent(m) == \E i \in DOMAIN wire : wire[i] = <<m, Size>>
QueuedIsSent ==
    \A m \in Message : ((\E i \in DOMAIN sendQueue : sendQueue[i] = m) /\ client = 1 /\ ~overlap) ~> (~open \/ Sent(m))
=============================================================================
