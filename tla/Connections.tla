----------------------------- MODULE Connections -----------------------------
(***************************************************************************)
(* The life of an accepted connection in Network and Connector: the accept *)
(* thread takes a Connector object from the pool and starts a receive, two *)
(* worker threads take completions from the port, and what the sessions do *)
(* to a connector (bind, write, close, release) happens at any time.       *)
(*                                                                         *)
(* A connector has no generation: a completion names the object, not the   *)
(* connection it was started for, and the object goes back into the pool   *)
(* when its socket is closed, not when its last operation is over.         *)
(*                                                                         *)
(* Clients are accepted by AcceptThread, as the server's configuration has *)
(* it.  What the bytes are is ConnectorRecv and ConnectorSend; here a      *)
(* completion brings a packet, nothing (the client closed), or failure.    *)
(***************************************************************************)
EXTENDS ObjectPoolMgr

CONSTANTS Worker,    \* the WorkerThreads
          MaxConns,  \* bound on the connections accepted
          RefSize,   \* values of the DWORD counters _dwSendRef, _dwRecvRef
          Settings,  \* what a behaviour takes for granted, see Setting
          Listed(_)  \* the order in which the system queues the completions
                     \* of operations that fail together, see Failure

Setting == [prompt  : BOOLEAN,  \* a session may be released while completions
                                \* of its closed connection are under way
            handles : BOOLEAN,  \* the system reuses socket handles
            sends   : BOOLEAN,  \* sessions write to their connector
            rejects : BOOLEAN,  \* data of a client without session is refused
            faults  : BOOLEAN]  \* the receive of a new connection may fail

ASSUME ConnectionsAssumption ==
    /\ Settings \subseteq Setting
    /\ MaxConns \in Nat \ {0} /\ RefSize \in Nat /\ RefSize > 2

Conn == 1..MaxConns      \* connections in the order they are accepted
Handle == 1..MaxConns
Slot == 1..MaxPool       \* Connector objects
None == 0                \* no connection, INVALID_SOCKET, no object

VARIABLES setting,  \* the Setting of this behaviour; it never changes
          net,      \* fields of the connectors, the system's sockets and port
          accept,   \* AcceptThread's pConnector and AcceptSock
          worker    \* the completion a WorkerThread is in the middle of

netVars == <<setting, net, accept, worker>>
vars == <<poolVars, netVars>>

Completion == [kind : {"packet", "zero", "failed"}, op : {"recv", "send"},
               obj : Slot, conn : Conn]   \* conn is history: whose it is
Operation == [op : {"recv", "send"}, obj : Slot, conn : Conn]

Failure == [kind : {"failed"}, op : {"recv", "send"}, obj : Slot, conn : Conn]

ASSUME ListedAssumption ==
    \A S \in SUBSET Failure :
        /\ Listed(S) \in Seq(S)
        /\ \A e \in S : \E i \in DOMAIN Listed(S) : Listed(S)[i] = e
        /\ \A i, j \in DOMAIN Listed(S) : Listed(S)[i] = Listed(S)[j] => i = j

NoCompletion == [kind |-> "none"]
NotAccepting == [obj |-> None, conn |-> None, handle |-> None]

(* Types; the counts stay values of their width.                           *)
TypeOK ==
    /\ setting \in Settings
    /\ net \in [socket  : [Slot -> Handle \cup {None}],   \* _socket
                sendRef : [Slot -> 0..RefSize - 1],       \* _dwSendRef
                recvRef : [Slot -> 0..RefSize - 1],       \* _dwRecvRef
                param   : [Slot -> BOOLEAN],              \* _param is set
                buffer  : [Slot -> BOOLEAN],              \* pBuffer of its send is set
                queued  : SUBSET Slot,                    \* RecvPacketQueue
                os      : [Handle -> Conn \cup {None}],   \* open connections
                pending : SUBSET Operation,               \* started, not over
                port    : Seq(Completion),                \* completion port
                last    : 0..MaxConns,                    \* connections so far
                foreign : BOOLEAN,      \* history: one was closed for another
                late    : BOOLEAN]      \* history: a connector went back with
                                        \* a packet of it still queued
    /\ accept \in [obj : Slot \cup {None}, conn : Conn \cup {None}, handle : Handle \cup {None}]
    /\ worker \in [Worker -> Completion \cup {NoCompletion}]

Init ==
    /\ PoolInit
    /\ setting \in Settings
    /\ net = [socket |-> [c \in Slot |-> None],
              sendRef |-> [c \in Slot |-> 0], recvRef |-> [c \in Slot |-> 0],
              param |-> [c \in Slot |-> FALSE], buffer |-> [c \in Slot |-> FALSE], queued |-> {},
              os |-> [h \in Handle |-> None], pending |-> {}, port |-> << >>,
              last |-> 0, foreign |-> FALSE, late |-> FALSE]
    /\ accept = NotAccepting
    /\ worker = [w \in Worker |-> NoCompletion]

-----------------------------------------------------------------------------
(* What the calls do to s, the value of net.  n is the connection on whose *)
(* behalf they are made.                                                   *)

(* closesocket: the operations under way on the connection fail.  A handle *)
(* that is not open is refused.                                            *)
CloseSocket(s, h, n) ==
    IF h = None \/ s.os[h] = None THEN s
    ELSE LET cut == {o \in s.pending : o.conn = s.os[h]}
             failed == {[kind |-> "failed", op |-> o.op, obj |-> o.obj, conn |-> o.conn] : o \in cut}
         IN  [s EXCEPT !.os[h] = None, !.pending = @ \ cut,
                       !.port = @ \o Listed(failed),
                       !.foreign = @ \/ s.os[h] # n]

(* shutdown, closesocket, _socket = INVALID_SOCKET.                        *)
Shut(s, c, n) == [CloseSocket(s, s.socket[c], n) EXCEPT !.socket[c] = None]

(* Network::Disconnect: a receive that is counted as under way is answered *)
(* with an empty completion.                                               *)
Disconnect(s, c, n) ==
    LET shut == Shut(s, c, n)
    IN  IF shut.recvRef[c] = 0 THEN shut
        ELSE [shut EXCEPT !.port = Append(@, [kind |-> "zero", op |-> "recv", obj |-> c, conn |-> n])]

(* History: an object that goes back now is still named by a queued packet. *)
GoesLate(s, c) == ~s.param[c] /\ c \in s.queued

(* Mutants of TryRelease: the socket stays open; the send's buffer is      *)
(* deleted though a session refers to the object.                          *)
TryReleaseOpen(s, c, n) ==
    /\ net' = [s EXCEPT !.socket[c] = None, !.buffer[c] = @ /\ s.param[c], !.late = @ \/ GoesLate(s, c)]
    /\ IF s.param[c] THEN UNCHANGED poolVars ELSE SetFreeObject(c)
TryReleaseBuffer(s, c, n) ==
    /\ net' = [Shut(s, c, n) EXCEPT !.buffer[c] = FALSE, !.late = @ \/ GoesLate(s, c)]
    /\ IF s.param[c] THEN UNCHANGED poolVars ELSE SetFreeObject(c)

(* Connector::TryRelease: close, and unless a session refers to the object *)
(* delete the buffer of its send and put it back into the pool.            *)
TryRelease(s, c, n) ==
    /\ net' = [Shut(s, c, n) EXCEPT !.buffer[c] = @ /\ s.param[c], !.late = @ \/ GoesLate(s, c)]
    /\ IF s.param[c] THEN UNCHANGED poolVars ELSE SetFreeObject(c)

(* The counters are unsigned and wrap.                                     *)
Dec(ref) == (ref + RefSize - 1) % RefSize
Inc(ref) == (ref + 1) % RefSize

(* Mutant of StartRecv: the receive is not counted.                        *)
StartRecvUncounted(s, c) == [s EXCEPT !.pending = @ \cup {[op |-> "recv", obj |-> c, conn |-> s.os[s.socket[c]]]}]

(* RecvPrepare and a WSARecv the system accepts.  (A second one on the     *)
(* same connection would use the same OVERLAPPED and is not told apart.)   *)
StartRecv(s, c) ==
    [s EXCEPT !.recvRef[c] = Inc(@),
              !.pending = @ \cup {[op |-> "recv", obj |-> c, conn |-> s.os[s.socket[c]]]}]

(* WSARecv and WSASend fail on a socket that is closed.                    *)
Usable(s, c) == s.socket[c] # None /\ s.os[s.socket[c]] # None

(* SendPrepare and WSASend; what WSASend refuses stays counted.            *)
StartSend(s, c) ==
    [s EXCEPT !.sendRef[c] = Inc(@), !.buffer[c] = TRUE,
              !.pending = IF Usable(s, c) THEN @ \cup {[op |-> "send", obj |-> c, conn |-> s.os[s.socket[c]]]}
                          ELSE @]

-----------------------------------------------------------------------------
(* AcceptThread.                                                           *)

(* WSAAccept, GetFreeObject and SetSocket.                                 *)
Accept(h) ==
    /\ accept = NotAccepting /\ net.last < MaxConns
    /\ net.os[h] = None
    /\ setting.handles \/ h = net.last + 1
    /\ GetFreeObject
    /\ LET c == ret'[1]
           n == net.last + 1
       IN  /\ net' = [net EXCEPT !.os[h] = n, !.last = n, !.socket[c] = h]
           /\ accept' = [obj |-> c, conn |-> n, handle |-> h]
    /\ UNCHANGED <<setting, worker>>

(* CreateIoCompletionPort, RecvPrepare and the first WSARecv.  If one of   *)
(* the calls fails the socket is closed and the object given back, with    *)
(* its _socket and its count as they are by then.                          *)
AcceptRecv ==
    /\ accept # NotAccepting
    /\ LET c == accept.obj IN
       \/ /\ Usable(net, c)
          /\ net' = StartRecv(net, c)
          /\ UNCHANGED poolVars
       \/ /\ setting.faults \/ ~Usable(net, c)
          /\ \E ref \in {net.recvRef[c], Inc(net.recvRef[c])} :
                net' = CloseSocket([net EXCEPT !.recvRef[c] = ref, !.late = @ \/ c \in net.queued],
                                   accept.handle, accept.conn)
          /\ SetFreeObject(c)
    /\ accept' = NotAccepting
    /\ UNCHANGED <<setting, worker>>

-----------------------------------------------------------------------------
(* The clients and the network.                                            *)

(* An operation is over: a packet arrived or was sent, the client closed   *)
(* its end, or the connection was reset.                                   *)
Complete(o, kind) ==
    /\ kind = "zero" => o.op = "recv"
    /\ net' = [net EXCEPT !.pending = @ \ {o},
                          !.port = Append(@, [kind |-> kind, op |-> o.op, obj |-> o.obj, conn |-> o.conn])]
    /\ UNCHANGED <<poolVars, setting, accept, worker>>

-----------------------------------------------------------------------------
(* WorkerThread.                                                           *)

Popped == [net EXCEPT !.port = Tail(@)]

Take(w, kind, op) ==
    /\ worker[w] = NoCompletion
    /\ net.port # << >> /\ Head(net.port).kind = kind /\ Head(net.port).op = op

(* Mutant of Failed: the object is given back after a send that failed.    *)
FailedFrees(w) ==
    /\ \E op \in {"recv", "send"} : Take(w, "failed", op)
    /\ net' = Disconnect(Popped, Head(net.port).obj, Head(net.port).conn)
    /\ IF Head(net.port).op = "send" THEN SetFreeObject(Head(net.port).obj) ELSE UNCHANGED poolVars
    /\ UNCHANGED <<setting, accept, worker>>

(* GetQueuedCompletionStatus returns FALSE.                                *)
Failed(w) ==
    /\ \E op \in {"recv", "send"} : Take(w, "failed", op)
    /\ net' = Disconnect(Popped, Head(net.port).obj, Head(net.port).conn)
    /\ UNCHANGED <<poolVars, setting, accept, worker>>

(* An empty completion: the socket is closed, _socket keeps the handle ... *)
Closed(w) ==
    /\ Take(w, "zero", "recv")
    /\ LET e == Head(net.port) IN
          /\ net' = CloseSocket(Popped, net.socket[e.obj], e.conn)
          /\ worker' = [worker EXCEPT ![w] = e]
    /\ UNCHANGED <<poolVars, setting, accept>>

(* ... then the receive is counted off, if either count says that anything *)
(* is under way, and the object is released, if either says nothing is.    *)
Uncounted(w) ==
    /\ worker[w] # NoCompletion
    /\ LET c == worker[w].obj
           s == IF net.sendRef[c] # 0 \/ net.recvRef[c] # 0
                THEN [net EXCEPT !.recvRef[c] = Dec(@)] ELSE net
       IN  IF s.sendRef[c] = 0 \/ s.recvRef[c] = 0
           THEN TryRelease(s, c, worker[w].conn)
           ELSE net' = s /\ UNCHANGED poolVars
    /\ worker' = [worker EXCEPT ![w] = NoCompletion]
    /\ UNCHANGED <<setting, accept>>

(* DoSend: SendComplete counts off what has a buffer.  If nothing is       *)
(* counted now and a Write has queued more meanwhile, it is sent.          *)
DoSend(w) ==
    /\ Take(w, "packet", "send")
    /\ LET c == Head(net.port).obj
           s == IF net.buffer[c] THEN [Popped EXCEPT !.sendRef[c] = Dec(@), !.buffer[c] = FALSE]
                ELSE Popped
           more == StartSend(s, c)
       IN  \/ net' = s
           \/ /\ s.sendRef[c] = 0
              /\ net' = IF Usable(s, c) THEN more ELSE Disconnect(more, c, Head(net.port).conn)
    /\ UNCHANGED <<poolVars, setting, accept, worker>>

(* DoRecv: RecvComplete refuses the data, or queues a packet and receives  *)
(* on.                                                                     *)
DoRecv(w) ==
    /\ Take(w, "packet", "recv")
    /\ LET c == Head(net.port).obj
           n == Head(net.port).conn
           s == [Popped EXCEPT !.recvRef[c] = Dec(@)]
           q == [s EXCEPT !.queued = @ \cup {c}]
       IN  \/ /\ setting.rejects \/ net.param[c]
              /\ net' = Disconnect(s, c, n)
           \/ net' = IF Usable(q, c) THEN StartRecv(q, c)
                     ELSE Disconnect([q EXCEPT !.recvRef[c] = Inc(@)], c, n)
    /\ UNCHANGED <<poolVars, setting, accept, worker>>

WorkerThread(w) == Failed(w) \/ Closed(w) \/ Uncounted(w) \/ DoSend(w) \/ DoRecv(w)

-----------------------------------------------------------------------------
(* The sessions: App::ProcessThread and UserSessionMgr::DoUpdate.          *)

(* A packet is handled; its connector has a session from here on.          *)
Bind(c) ==
    /\ c \in net.queued
    /\ net' = [net EXCEPT !.queued = @ \ {c}, !.param[c] = TRUE]
    /\ UNCHANGED <<poolVars, setting, accept, worker>>

(* Network::Write with nothing counted as under way.                       *)
Write(c) ==
    /\ setting.sends /\ net.param[c] /\ net.socket[c] # None
    /\ net.sendRef[c] = 0
    /\ net' = StartSend(net, c)
    /\ UNCHANGED <<poolVars, setting, accept, worker>>

(* Heartbeats were not answered: TryRelease, the session still there.      *)
HeartbeatOver(c) ==
    /\ net.param[c] /\ net.socket[c] # None
    /\ TryRelease(net, c, net.os[net.socket[c]])
    /\ UNCHANGED <<setting, accept, worker>>

(* The completions that name a connector and are not dealt with.           *)
UnderWay(c) ==
    \/ \E o \in net.pending : o.obj = c
    \/ \E i \in DOMAIN net.port : net.port[i].obj = c
    \/ \E w \in Worker : worker[w] # NoCompletion /\ worker[w].obj = c

(* Mutant of SessionRelease: the connector is not released.                *)
SessionReleaseKeeps(c) ==
    /\ net.param[c] /\ net.socket[c] = None
    /\ setting.prompt \/ ~UnderWay(c)
    /\ net' = [net EXCEPT !.param[c] = FALSE]
    /\ UNCHANGED <<poolVars, setting, accept, worker>>

(* UserSession::Release of a session whose connector is closed.  The scan  *)
(* that finds it comes every five seconds.                                 *)
SessionRelease(c) ==
    /\ net.param[c] /\ net.socket[c] = None
    /\ setting.prompt \/ ~UnderWay(c)
    /\ TryRelease([net EXCEPT !.param[c] = FALSE], c, None)
    /\ UNCHANGED <<setting, accept, worker>>

-----------------------------------------------------------------------------
(* ConnectorMgr checks what is given back; the manager that does not is    *)
(* exercised by PoolNext, without connections.                             *)
NetNext ==
    \/ \E h \in Handle : Accept(h)
    \/ AcceptRecv
    \/ \E o \in net.pending, kind \in {"packet", "zero", "failed"} : Complete(o, kind)
    \/ \E w \in Worker : WorkerThread(w)
    \/ \E c \in Object : Bind(c) \/ Write(c) \/ HeartbeatOver(c) \/ SessionRelease(c)

Next == \/ checked /\ NetNext
        \/ ~checked /\ PoolNext /\ UNCHANGED netVars

(* The network's threads go on, and the scan of the sessions comes round.  *)
Fairness ==
    /\ WF_vars(checked /\ AcceptRecv)
    /\ \A w \in Worker : WF_vars(checked /\ WorkerThread(w))
    /\ WF_vars(checked /\ \E c \in Object : SessionRelease(c))

Spec == Init /\ [][Next]_vars /\ Fairness

-----------------------------------------------------------------------------
(* No accepted connection is forgotten: while it is open, a connector that *)
(* is in use, and so will be closed, holds its socket.                     *)
OpenIsHeld ==
    \A h \in Handle : net.os[h] # None => \E c \in usedList : net.socket[c] = h

(* No connection is closed on behalf of another one that had the same      *)
(* Connector object before, as long as the scan of the sessions is slower  *)
(* than the completions, socket handles are not reused, and no connector   *)
(* has gone back to the pool with a packet of its client still queued: the *)
(* packet names the object, and a session of the lost client may then be   *)
(* bound to the next connection (process.cpp, SetParam) and release it.    *)
OwnCause == (~setting.prompt /\ ~setting.handles /\ ~net.late) => ~net.foreign

(* The buffer of a send is there when its completion is taken: DoSend      *)
(* reads through _SendRequest.pBuffer before it checks the pointer.  Again *)
(* as long as the scan of the sessions is slower than the completions.     *)
BufferThere ==
    ~setting.prompt =>
        \A i \in DOMAIN net.port :
            net.port[i].kind = "packet" /\ net.port[i].op = "send" => net.buffer[net.port[i].obj]

(* The count of receives never passes zero: _dwRecvRef stays below the     *)
(* values DecRecvRef would wrap to, while nothing else is counted and what *)
(* OwnCause excludes does not happen.                                      *)
NoWrap ==
    (/\ ~setting.prompt /\ ~setting.handles /\ ~setting.sends /\ ~setting.faults
     /\ ~net.late)
        => \A c \in Slot : net.recvRef[c] \in {0, 1}

(* A connector whose socket is closed is free again some day, whatever     *)
(* closed it.  It is not where data of a client without session may be     *)
(* refused (Disconnect then wakes nobody up), nor where a count is left    *)
(* over from a send.                                                       *)
Returned ==
    \A c \in Slot :
        (/\ checked /\ ~setting.rejects /\ ~setting.sends
         /\ c \in usedList /\ ~Usable(net, c))
            ~> (c \notin usedList \/ Usable(net, c))
=============================================================================
