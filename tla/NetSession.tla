----------------------------- MODULE NetSession -----------------------------
(***************************************************************************)
(* A session of the C# servers: NetSession with the DataParsing of the     *)
(* session classes and the IPacketHandler scheduler (second generation,    *)
(* "v2"), and PlayerSession, PacketParser and their scheduler (first       *)
(* generation, "v1").  The two share the algorithm; v2 also writes _socket *)
(* into every log line and reads packets with another overload.            *)
(*                                                                         *)
(* Threads: "rx" is whichever pool thread runs the receive completion; it  *)
(* parses, runs the handler of the packet inline (QueueTask executes under *)
(* its lock) and sends the reply before it posts the next receive.  A      *)
(* thread of Io runs a send completion.  "other" is a handler of another   *)
(* scheduler that sends on the same session (the world server's db         *)
(* session is used by the player handlers and by the db handlers).         *)
(***************************************************************************)
EXTENDS PacketCodec

CONSTANTS Io,             \* threads that run send completions
          PacketUnits,    \* a packet, in the units a receive may return
          MaxBuffer,      \* _maxBufferSize, in the same units
          Batch,          \* buffers one DoSend takes (10)
          MaxParallelism, \* _maxParallelism (4)
          Settings        \* the sessions to look at: which of the two programs
                          \* (generation), how the session is used (use), the
                          \* data of a request (body), the task counter of the
                          \* server so far (running), and the bounds: packets
                          \* of the peer (requests) and of "other" (pushes)

ASSUME NetSessionAssumption ==
    /\ Io \cap {"rx", "other", "none"} = {}
    /\ {MaxBuffer, MaxParallelism} \subseteq Nat
    /\ {PacketUnits, Batch} \subseteq Nat \ {0}
    /\ \A s \in Settings : s.requests \in Nat /\ s.pushes \in Nat

Thread == {"rx", "other"} \cup Io
None == "none"
IntMax == 2147483647
IntMin == -IntMax - 1

VARIABLES
    setting,      \* the member of Settings; never changes
    peer,         \* "up", or "gone": it has closed the connection
    requests,     \* packets the peer has sent
    stream,       \* units sent by the peer and not received yet
    socket,       \* _socket: "open", "closed", or "null"
    disconnected, \* _disconnected
    arrived,      \* BytesTransferred of the receive; 0: end or error
    buffered,     \* _recvLength
    tasks,        \* _tasks of the handler
    runningTasks, \* _runningTasks, an Int32
    current,      \* the task being executed by rx; 0 if none
    cut,          \* packets cut from the stream so far
    sendLock,     \* owner of _sendLock
    sendQueue,    \* _sendQueue
    pending,      \* _sendPendingList
    args,         \* _sendArgs: in progress or not, its buffers, its result
    callbacks,    \* completed sends whose callback has not started
    pc,           \* what each thread does next
    pushes,       \* packets sent by "other" so far
    dead,         \* the process ended with an unhandled exception
    enqueued,     \* history: packets in the order they were queued
    wire,         \* history: packets in the order they were transmitted
    closedBy      \* history: who closed the socket, and whether a callback
                  \* was still to come then

peerVars == << peer, requests, stream >>
recvVars == << arrived, buffered, tasks, runningTasks, current, cut >>
sendVars == << sendLock, sendQueue, pending, args, callbacks >>
sockVars == << socket, disconnected, closedBy >>
history  == << enqueued, wire >>
vars == << setting, peerVars, recvVars, sendVars, sockVars, history,
           pc, pushes, dead >>

generation == setting.generation
use == setting.use
body == setting.body

Range1(s) == {s[i] : i \in 1..Len(s)}
Go(t, label) == pc' = [pc EXCEPT ![t] = label]

\* The request on the wire; whether it can be read, and arrives unchanged.
Request == PacketSerializer(1, body)
Readable == Decodes(generation, Request)
Unchanged == Readable /\ Decode(generation, Request) = body

Init ==
    /\ setting \in Settings
    /\ peer = "up" /\ requests = 0 /\ stream = 0
    /\ socket = "open" /\ disconnected = FALSE /\ closedBy = [thread |-> None, early |-> FALSE]
    /\ arrived = 0 /\ buffered = 0 /\ tasks = << >> /\ cut = 0
    /\ runningTasks = setting.running
    /\ current = 0
    /\ sendLock = None /\ sendQueue = << >> /\ pending = << >>
    /\ args = [op |-> "free", list |-> << >>, result |-> "ok"]
    /\ callbacks = 0
    /\ pc = [t \in Thread |-> IF t = "rx" THEN "posted" ELSE "idle"]
    /\ pushes = 0 /\ dead = FALSE
    /\ enqueued = << >> /\ wire = << >>

-----------------------------------------------------------------------------
(* The peer.  The client of the repository writes a request and reads the  *)
(* answer before it writes the next one; a pipelined peer does not wait.   *)

PeerSends ==
    /\ peer = "up" /\ socket = "open"
    /\ requests < setting.requests
    /\ use = "pipelined" \/ requests \in {0} \cup Range1(wire)
    /\ requests' = requests + 1
    /\ stream' = stream + PacketUnits
    /\ UNCHANGED << setting, peer, recvVars, sendVars, sockVars, history,
                    pc, pushes, dead >>

PeerCloses ==
    /\ peer = "up"
    /\ peer' = "gone"
    /\ UNCHANGED << setting, requests, stream, recvVars, sendVars, sockVars,
                    history, pc, pushes, dead >>

-----------------------------------------------------------------------------
(* How a thread leaves the send path.  rx goes back to the scheduler when  *)
(* it runs a task, and to DoRecv when it disconnected from the receive     *)
(* path.  _sendLock is released when the thread still holds it.            *)

Return(t) == IF t # "rx" THEN "idle"
             ELSE IF current # 0 THEN "taskdone" ELSE "dorecv"

Finish(t) ==
    /\ Go(t, Return(t))
    /\ sendLock' = IF sendLock = t THEN None ELSE sendLock

\* An exception.  A task keeps it.  On a completion thread it ends the
\* process, unless it is raised below the try of OnSendCompleted, that is
\* with _sendLock held; v2 uses _socket in that catch block too.
Throw(t) ==
    IF t \in Io /\ (sendLock # t \/ (generation = "v2" /\ socket = "null"))
    THEN dead' = TRUE /\ UNCHANGED << pc, sendLock >>
    ELSE Finish(t) /\ UNCHANGED dead

\* _socket.ToString() in a log line of v2.
LogThrowsInBoth == socket = "null"
LogThrows == generation = "v2" /\ socket = "null"

-----------------------------------------------------------------------------
(* Sending.                                                                *)

\* The packet t is about to queue: the reply to the request it handles, or
\* a packet of its own.
Outgoing(t) == IF t = "rx" THEN current ELSE setting.requests + pushes

Enqueue(t) ==
    /\ pc[t] = "enqueue"
    /\ sendLock = None
    /\ sendQueue' = Append(sendQueue, Outgoing(t))
    /\ enqueued' = Append(enqueued, Outgoing(t))
    /\ Go(t, "test")
    /\ UNCHANGED << setting, peerVars, recvVars, sendLock, pending, args,
                    callbacks, sockVars, wire, pushes, dead >>

\* DoSend up to its lock: the session is connected and nothing is pending.
GoesOnWhilePending == socket = "open"
GoesOn == socket = "open" /\ pending = << >>

Test(t) ==
    /\ pc[t] = "test"
    /\ IF GoesOn
       THEN Go(t, "move") /\ UNCHANGED << sendLock, dead >>
       ELSE Finish(t) /\ UNCHANGED dead
    /\ UNCHANGED << setting, peerVars, recvVars, sendQueue, pending, args,
                    callbacks, sockVars, history, pushes >>

\* cnt counts up while the queue gets shorter: half of it, rounded up.
Taken(n) == IF (n + 1) \div 2 < Batch THEN (n + 1) \div 2 ELSE Batch

SplitNewest(q) ==
    LET n == Len(q) - Taken(Len(q))
    IN  [batch |-> SubSeq(q, n + 1, Len(q)), rest |-> SubSeq(q, 1, n)]
Split(q) ==
    LET n == Taken(Len(q))
    IN  [batch |-> SubSeq(q, 1, n), rest |-> SubSeq(q, n + 1, Len(q))]

Move(t) ==
    /\ pc[t] = "move"
    /\ IF LogThrows
       THEN Throw(t) /\ UNCHANGED << sendQueue, pending >>
       ELSE /\ sendLock \in {None, t}
            /\ pending' = pending \o Split(sendQueue).batch
            /\ sendQueue' = Split(sendQueue).rest
            /\ Go(t, "list")
            /\ UNCHANGED << sendLock, dead >>
    /\ UNCHANGED << setting, peerVars, recvVars, args, callbacks, sockVars,
                    history, pushes >>

\* BufferList = _sendPendingList copies the list; it throws while a send is
\* in progress on these arguments.
SetBufferList(t) ==
    /\ pc[t] = "list"
    /\ IF args.op = "busy"
       THEN Throw(t) /\ UNCHANGED args
       ELSE /\ args' = [args EXCEPT !.list = pending]
            /\ Go(t, "post")
            /\ UNCHANGED << sendLock, dead >>
    /\ UNCHANGED << setting, peerVars, recvVars, sendQueue, pending,
                    callbacks, sockVars, history, pushes >>

\* What the operating system reports for the buffers of a send.
SendResult(list) ==
    (IF list = << >> THEN {"zero"}
     ELSE IF socket = "open" THEN {"ok"} ELSE {})
    \cup (IF peer = "gone" \/ socket # "open" THEN {"error"} ELSE {})

\* SendAsync: it completes at once, and the caller runs the completion, or
\* later on another thread.
SendAsync(t) ==
    /\ pc[t] = "post"
    /\ IF socket # "open" \/ args.op = "busy"
       THEN Throw(t) /\ UNCHANGED << args, wire >>
       ELSE /\ \/ \E r \in SendResult(args.list) :
                    /\ args' = [args EXCEPT !.result = r]
                    /\ wire' = IF r = "ok" THEN wire \o args.list ELSE wire
                    /\ Go(t, "completed")
                    /\ UNCHANGED sendLock
               \/ /\ args.list # << >>
                  /\ args' = [args EXCEPT !.op = "busy"]
                  /\ Finish(t)
                  /\ UNCHANGED wire
            /\ UNCHANGED dead
    /\ UNCHANGED << setting, peerVars, recvVars, sendQueue, pending,
                    callbacks, sockVars, enqueued, pushes >>

\* The send ends: the arguments are free again before the callback runs.
SendEnds ==
    /\ args.op = "busy"
    /\ \E r \in SendResult(args.list) :
         /\ args' = [args EXCEPT !.op = "free", !.result = r]
         /\ wire' = IF r = "ok" THEN wire \o args.list ELSE wire
    /\ callbacks' = callbacks + 1
    /\ UNCHANGED << setting, peerVars, recvVars, sendLock, sendQueue,
                    pending, sockVars, enqueued, pc, pushes, dead >>

StartCallback(t) ==
    /\ t \in Io /\ pc[t] = "idle" /\ callbacks > 0
    /\ callbacks' = callbacks - 1
    /\ Go(t, "completed")
    /\ UNCHANGED << setting, peerVars, recvVars, sendLock, sendQueue,
                    pending, args, sockVars, history, pushes, dead >>

\* OnSendCompleted up to its lock; the result is read from the shared args.
AfterSendIgnored(result) == IF result = "ok" THEN "clear" ELSE "idle"
AfterSend(result) == IF result = "ok" THEN "clear" ELSE "exchange"

OnSendCompleted(t) ==
    /\ pc[t] = "completed"
    /\ IF LogThrows THEN Throw(t)
       ELSE /\ Go(t, AfterSend(args.result))
            /\ UNCHANGED << sendLock, dead >>
    /\ UNCHANGED << setting, peerVars, recvVars, sendQueue, pending, args,
                    callbacks, sockVars, history, pushes >>

\* The locked part: forget the list, and send what was queued meanwhile
\* with the lock still held.  BufferList = null throws like above.
ClearPending(t) ==
    /\ pc[t] = "clear"
    /\ sendLock \in {None, t}
    /\ IF args.op = "busy"
       THEN IF t \in Io /\ LogThrows
            THEN dead' = TRUE /\ UNCHANGED << pc, sendLock, args, pending >>
            ELSE Finish(t) /\ UNCHANGED << args, pending, dead >>
       ELSE /\ args' = [args EXCEPT !.list = << >>]
            /\ pending' = << >>
            /\ IF sendQueue # << >>
               THEN Go(t, "test") /\ sendLock' = t
               ELSE Finish(t)
            /\ UNCHANGED dead
    /\ UNCHANGED << setting, peerVars, recvVars, sendQueue, callbacks,
                    sockVars, history, pushes >>

-----------------------------------------------------------------------------
(* Disconnect: once per session; the socket is closed before _socket is    *)
(* set to null.                                                            *)

Exchange(t) ==
    /\ pc[t] = "exchange"
    /\ disconnected' = TRUE
    /\ IF disconnected THEN Finish(t)
       ELSE Go(t, "close") /\ UNCHANGED sendLock
    /\ UNCHANGED << setting, peerVars, recvVars, sendQueue, pending, args,
                    callbacks, socket, closedBy, history, pushes, dead >>

\* A completion other than the one t runs has not been handled yet.
CallbackToCome(t) ==
    \/ args.op = "busy" \/ callbacks > 0
    \/ \E u \in (Io \cup {"rx"}) \ {t} : pc[u] \notin {"idle", "end"}

Close(t) ==
    /\ pc[t] = "close"
    /\ socket' = "closed"
    /\ closedBy' = [thread |-> t, early |-> CallbackToCome(t)]
    /\ Go(t, "null")
    /\ UNCHANGED << setting, peerVars, recvVars, sendVars, disconnected,
                    history, pushes, dead >>

SetNull(t) ==
    /\ pc[t] = "null"
    /\ socket' = "null"
    /\ Finish(t)
    /\ UNCHANGED << setting, peerVars, recvVars, sendQueue, pending, args,
                    callbacks, disconnected, closedBy, history, pushes,
                    dead >>

-----------------------------------------------------------------------------
(* Receiving.                                                              *)

RecvEnds ==
    /\ pc["rx"] = "posted"
    /\ \/ /\ socket = "open"
          /\ \E n \in 1..stream :
               /\ n <= MaxBuffer
               /\ arrived' = n
               /\ stream' = stream - n
       \/ /\ socket # "open" \/ (peer = "gone" /\ stream = 0)
          /\ arrived' = 0
          /\ UNCHANGED stream
    /\ Go("rx", "received")
    /\ UNCHANGED << setting, peer, requests, buffered, tasks, runningTasks,
                    current, cut, sendVars, sockVars, history, pushes, dead >>

\* The tests and the trimming of DataParsing and BufferTrim.
Overflows(length) == MaxBuffer < length
IncompleteYet(length) == length <= PacketUnits
Incomplete(length) == length < PacketUnits
Trimmed(length) == length - PacketUnits

\* OnRecvCompleted and DataParsing.  At most one packet is cut; data beyond
\* the buffer is dropped, and what the following bytes then mean depends on
\* their values: the model does not follow the session any further.
OnRecvCompleted ==
    /\ pc["rx"] = "received"
    /\ LET length == buffered + arrived
       IN  CASE LogThrows ->
                  dead' = TRUE /\ UNCHANGED << buffered, tasks, cut, pc >>
             [] ~LogThrows /\ arrived = 0 ->
                  Go("rx", "exchange")
                  /\ UNCHANGED << buffered, tasks, cut, dead >>
             [] ~LogThrows /\ arrived > 0 /\ Overflows(length) ->
                  Go("rx", "garbled")
                  /\ UNCHANGED << buffered, tasks, cut, dead >>
             [] ~LogThrows /\ arrived > 0 /\ ~Overflows(length) /\ Incomplete(length) ->
                  /\ buffered' = length
                  /\ Go("rx", "dorecv")
                  /\ UNCHANGED << tasks, cut, dead >>
             [] OTHER ->
                  /\ buffered' = Trimmed(length)
                  /\ cut' = cut + 1
                  /\ IF ~Readable
                     THEN dead' = TRUE /\ UNCHANGED << tasks, pc >>
                     ELSE /\ tasks' = Append(tasks, cut + 1)
                          /\ Go("rx", "execute")
                          /\ UNCHANGED dead
    /\ UNCHANGED << setting, peerVars, arrived, runningTasks, current,
                    sendVars, sockVars, history, pushes >>

\* TryExecuteTasks: run the next task, or leave QueueTask.
TryExecuteTasks ==
    /\ pc["rx"] = "execute"
    /\ IF runningTasks < MaxParallelism /\ tasks # << >>
       THEN /\ current' = Head(tasks)
            /\ tasks' = Tail(tasks)
            /\ Go("rx", "enqueue")
       ELSE Go("rx", "dorecv") /\ UNCHANGED << current, tasks >>
    /\ UNCHANGED << setting, peerVars, arrived, buffered, runningTasks, cut,
                    sendVars, sockVars, history, pushes, dead >>

Decrement(n) == IF n = IntMin THEN IntMax ELSE n - 1

TaskCompleted ==
    /\ pc["rx"] = "taskdone"
    /\ runningTasks' = Decrement(runningTasks)
    /\ current' = 0
    /\ Go("rx", "execute")
    /\ UNCHANGED << setting, peerVars, arrived, buffered, tasks, cut,
                    sendVars, sockVars, history, pushes, dead >>

\* DoRecv: the test of _socket, then ReceiveAsync on what it is by then.
DoRecv ==
    /\ pc["rx"] = "dorecv"
    /\ Go("rx", IF socket = "null" THEN "end" ELSE "receive")
    /\ UNCHANGED << setting, peerVars, recvVars, sendVars, sockVars,
                    history, pushes, dead >>

ReceiveAsync ==
    /\ pc["rx"] = "receive"
    /\ IF socket = "open" THEN Go("rx", "posted") /\ UNCHANGED dead
       ELSE dead' = TRUE /\ UNCHANGED pc
    /\ UNCHANGED << setting, peerVars, recvVars, sendVars, sockVars,
                    history, pushes >>

\* Another scheduler's handler calls Send.
OtherSends ==
    /\ use = "shared"
    /\ pc["other"] = "idle" /\ pushes < setting.pushes
    /\ pushes' = pushes + 1
    /\ Go("other", "enqueue")
    /\ UNCHANGED << setting, peerVars, recvVars, sendVars, sockVars,
                    history, dead >>

ThreadStep(t) ==
    \/ Enqueue(t) \/ Test(t) \/ Move(t) \/ SetBufferList(t) \/ SendAsync(t)
    \/ StartCallback(t) \/ OnSendCompleted(t) \/ ClearPending(t)
    \/ Exchange(t) \/ Close(t) \/ SetNull(t)

Receive ==
    \/ OnRecvCompleted \/ TryExecuteTasks \/ TaskCompleted
    \/ DoRecv \/ ReceiveAsync

Next ==
    /\ ~dead
    /\ \/ PeerSends \/ PeerCloses \/ OtherSends
       \/ RecvEnds \/ SendEnds
       \/ Receive
       \/ \E t \in Thread : ThreadStep(t)

Spec == Init /\ [][Next]_vars

\* The operating system ends what it was given, and threads go on.
Fairness ==
    /\ WF_vars(~dead /\ RecvEnds)
    /\ WF_vars(~dead /\ SendEnds)
    /\ WF_vars(~dead /\ (Receive \/ ThreadStep("rx")))
    /\ \A t \in Thread \ {"rx"} : WF_vars(~dead /\ ThreadStep(t))

FairSpec == Spec /\ Fairness

-----------------------------------------------------------------------------
Label == {"idle", "posted", "received", "execute", "taskdone", "dorecv",
          "receive", "end", "garbled", "enqueue", "test", "move", "list",
          "post", "completed", "clear", "exchange", "close", "null"}

\* Types of the session's fields (NetSession.cs:12-26, PacketHandler.cs:13-16).
TypeOK ==
    /\ socket \in {"open", "closed", "null"}
    /\ disconnected \in BOOLEAN /\ dead \in BOOLEAN
    /\ buffered \in 0..MaxBuffer
    /\ runningTasks \in IntMin..IntMax
    /\ sendLock \in Thread \cup {None}
    /\ args.op \in {"free", "busy"}
    /\ pc \in [Thread -> Label]

\* Packets reach the wire for the first time in the order they were queued,
\* whatever threads call Send and whatever is repeated or lost: DoSend moves
\* them to the pending list in order and under the lock, and a list that is
\* sent a second time holds no packet that overtakes an earlier one.
FirstSendsInOrder ==
    \A i, j \in 1..Len(wire) :
        /\ i < j
        /\ wire[j] \notin {wire[k] : k \in 1..j-1}
        => \E a, b \in 1..Len(enqueued) :
             a < b /\ enqueued[a] = wire[i] /\ enqueued[b] = wire[j]

\* No packet has been transmitted twice so far.
NoRepeat == \A i, j \in 1..Len(wire) : wire[i] = wire[j] => i = j

\* A peer that waits for each answer loses none as long as none has been
\* repeated: every reply that was queued is still queued, is in the pending
\* list, or has been transmitted, although the list is tested outside of the
\* lock (NetSession.cs:84) while a completion clears it.  The first thing that
\* goes wrong with that test is a repeated reply; only then, with two
\* completions under way at once, can a reply be cleared unsent.
LockstepKeepsReplies ==
    use = "lockstep" /\ NoRepeat =>
        Range1(enqueued) = Range1(sendQueue) \cup Range1(pending) \cup Range1(wire)

\* The pending list is never left filled with nobody to empty it.  Every later
\* Send returns at the test of that list (NetSession.cs:84), so the session
\* would be mute for good: a send is in progress, its callback is to come, or
\* a thread is on its way to send or to clear the list.
NeverMute ==
    socket = "open" /\ pending # << >> /\ ~dead =>
        \/ args.op = "busy" \/ callbacks > 0
        \/ \E t \in Thread : pc[t] \in {"list", "post", "completed", "clear",
                                        "exchange", "close"}

\* The process ends by an exception only when Disconnect closes the socket
\* under a completion that is still to be handled, or on a packet that v2
\* cannot decode.  In v1, whose log lines do not use _socket, the first takes
\* a send that failed: the receive path then posts on the closed socket.
DiesOnlyOnLateCallback ==
    dead => \/ closedBy.early
               /\ (generation = "v1" => closedBy.thread # "rx")
            \/ ~Readable /\ cut > 0

\* A peer that waits for its answers and does not close gets every request
\* answered with the data it sent, unless the server disconnects or dies, a
\* reply is repeated, the data is not carried by the generation's decoder, or
\* the task counter wraps.
LockstepAnswered ==
    \A k \in 1..3 :
        (use = "lockstep" /\ requests = k /\ Unchanged)
            ~> (k \in Range1(wire) \/ disconnected \/ dead \/ peer = "gone"
                \/ ~NoRepeat \/ runningTasks = IntMax)
==============================================================================
