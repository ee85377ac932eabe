---------------------------- MODULE UserSessions ----------------------------
(***************************************************************************)
(* The life of a user session in the game server (svr): UserSession,       *)
(* UserSessionMgr, Zone/ZoneMgr, the commands of command_unit_process.cpp  *)
(* and the two App threads that drive them, on top of the Connector        *)
(* objects of the network layer.                                           *)
(*                                                                         *)
(* ProcessThread takes received packets one by one; it looks the session   *)
(* up through the connector (or allocates and binds one) and runs the      *)
(* packet's handler under the session's lock.  UpdateThread alternates     *)
(* UserSessionMgr::DoUpdate, which finds sessions whose connector is       *)
(* closed, releases them and frees them, with CommandUnitQueue::Tick.      *)
(* Sessions are pooled objects: a freed one keeps its bytes until it is    *)
(* handed out again, and a pointer to it can still be followed.            *)
(* There is one zone (C2S_Enter always uses zone 1).                       *)
(***************************************************************************)
EXTENDS Naturals, Sequences

CONSTANTS Session,     \* UserSession objects of the pool
          Connector,   \* Connector objects of the pool
          Null,        \* nullptr
          Settings,    \* what clients and scheduler may do, see Setting
          MaxToken,    \* bound on the number of authentications
          MaxPackets,  \* bound on the received packets waiting
          MaxCmds      \* bound on the commands waiting when a packet is taken

ClientOps == {"auth", "enter", "leave", "move"}   \* types of packets

(* What a behaviour takes for granted, so that a property can say what it  *)
(* depends on.                                                             *)
Setting == [ops     : SUBSET ClientOps, \* packets the clients send
            reauth  : BOOLEAN,   \* a client may authenticate repeatedly
            overlap : BOOLEAN,   \* DoUpdate may run during a packet's handling
            late    : BOOLEAN]   \* a Connector may be reused while something of
                                 \* its previous connection is left

ASSUME ConstantsAssumption ==
    /\ Null \notin Session \cup Connector
    /\ Settings \subseteq Setting
    /\ {MaxToken, MaxPackets, MaxCmds} \subseteq Nat

VARIABLES setting,  \* the Setting of this behaviour; it never changes
          session,  \* the fields of each UserSession object
          conn,     \* the fields of each Connector object
          sent,     \* has the connection's client sent auth yet
          recvQueue,\* RecvPacketQueue
          process,  \* ProcessThread: where it is and its locals
          update,   \* UpdateThread: where it is and its local lists
          userMap,  \* UserSessionMgr::_userMap
          zone,     \* Zone::_characterMap of zone 1
          cmds,     \* CommandUnitQueue::_cmds
          firing,   \* FireOps' local firingCmds
          nextToken

vars == <<setting, session, conn, sent, recvQueue, process, update, userMap, zone, cmds, firing, nextToken>>

Token == 1..MaxToken
NoToken == 0                \* Character::_token before authentication
ZoneId == {0, 1}            \* 0: in no zone

Packets == [conn : Connector, op : ClientOps]
Command == [op : {"Enter", "List"}, token : Token \cup {NoToken}]
           \cup [op : {"Leave"}, token : Token \cup {NoToken}, zone : ZoneId]
           \cup [op : {"Broadcast"}, zone : ZoneId]

TypeOK ==
    /\ setting \in Settings
    /\ session \in [Session -> [used  : BOOLEAN,              \* in _usedList
                                conn  : Connector \cup {Null},
                                token : Token \cup {NoToken},
                                zone  : ZoneId]]
    /\ conn \in [Connector -> [used   : BOOLEAN,              \* in _usedList
                               active : BOOLEAN,              \* _socket is valid
                               param  : Session \cup {Null}]]
    /\ sent \in [Connector -> BOOLEAN]
    /\ recvQueue \in Seq(Packets)
    /\ process \in [pc   : {"pop", "bind", "handle"},
                    sess : Session \cup {Null},
                    conn : Connector \cup {Null},
                    op   : ClientOps \cup {Null}]
    /\ update \in [pc : {"scan", "release", "free", "tick", "fire"},
                   list : SUBSET Session, done : SUBSET Session]
    /\ userMap \in [Token -> Session \cup {Null}]
    /\ zone \in [Token \cup {NoToken} -> Session \cup {Null}]
    /\ cmds \in Seq(Command) /\ firing \in Seq(Command)
    /\ nextToken \in 1..(MaxToken + 1)

NewSession == [used |-> TRUE, conn |-> Null, token |-> NoToken, zone |-> 0]
FreeSession == [NewSession EXCEPT !.used = FALSE]
Idle == [pc |-> "pop", sess |-> Null, conn |-> Null, op |-> Null]

Init ==
    /\ setting \in Settings
    /\ session = [s \in Session |-> FreeSession]
    /\ conn = [c \in Connector |-> [used |-> FALSE, active |-> FALSE, param |-> Null]]
    /\ sent = [c \in Connector |-> FALSE]
    /\ recvQueue = << >>
    /\ process = Idle
    /\ update = [pc |-> "scan", list |-> {}, done |-> {}]
    /\ userMap = [t \in Token |-> Null]
    /\ zone = [t \in Token \cup {NoToken} |-> Null]
    /\ cmds = << >> /\ firing = << >>
    /\ nextToken = 1

-----------------------------------------------------------------------------
(* The network layer, as far as sessions see it.                           *)

(* Connector::TryRelease: close the socket, and put the object back into   *)
(* the pool when no session refers to it (a second put-back is ignored).   *)
TryRelease(k) == [k EXCEPT !.active = FALSE, !.used = @ /\ k.param # Null]

(* Nothing of c's previous connection is left: no received packet, no      *)
(* packet in hand, no session.                                             *)
Drained(c) ==
    /\ \A i \in DOMAIN recvQueue : recvQueue[i].conn # c
    /\ process.conn # c
    /\ conn[c].param = Null

(* An accepted client gets a free Connector and a new socket.              *)
Accept(c) ==
    /\ ~conn[c].used
    /\ setting.late \/ Drained(c)
    /\ conn' = [conn EXCEPT ![c].used = TRUE, ![c].active = TRUE]
    /\ sent' = [sent EXCEPT ![c] = FALSE]
    /\ UNCHANGED <<setting, session, recvQueue, process, update, userMap, zone, cmds, firing, nextToken>>

AuthsInFlight ==
    Len(SelectSeq(recvQueue, LAMBDA p : p.op = "auth")) + (IF process.op = "auth" THEN 1 ELSE 0)

(* A worker thread queues a complete packet of an open connection.         *)
Receive(c, op) ==
    /\ conn[c].active /\ op \in setting.ops
    /\ Len(recvQueue) < MaxPackets
    /\ op = "auth" => /\ setting.reauth \/ ~sent[c]
                      /\ nextToken + AuthsInFlight <= MaxToken
    /\ recvQueue' = Append(recvQueue, [conn |-> c, op |-> op])
    /\ sent' = [sent EXCEPT ![c] = @ \/ op = "auth"]
    /\ UNCHANGED <<setting, session, conn, process, update, userMap, zone, cmds, firing, nextToken>>

(* The client closes: a zero-byte completion reaches a worker thread.      *)
PeerClose(c) ==
    /\ conn[c].active
    /\ conn' = [conn EXCEPT ![c] = TryRelease(@)]
    /\ UNCHANGED <<setting, session, sent, recvQueue, process, update, userMap, zone, cmds, firing, nextToken>>

(* A worker thread rejects the client's data: Network::Disconnect with no  *)
(* receive outstanding closes the socket and posts nothing.                *)
Disconnect(c) ==
    /\ conn[c].active
    /\ conn' = [conn EXCEPT ![c].active = FALSE]
    /\ UNCHANGED <<setting, session, sent, recvQueue, process, update, userMap, zone, cmds, firing, nextToken>>

-----------------------------------------------------------------------------
(* ProcessThread.                                                          *)

(* Mutant of GetSession: the object is not listed as used.                 *)
GetSessionUnlisted ==
    /\ process.pc = "pop" /\ recvQueue # << >>
    /\ Len(cmds) < MaxCmds
    /\ recvQueue' = Tail(recvQueue)
    /\ LET p == Head(recvQueue)
           s == conn[p.conn].param
           At(pc, x) == [pc |-> pc, sess |-> x, conn |-> p.conn, op |-> p.op]
       IN  \/ s # Null /\ process' = At("handle", s)
           \/ s = Null /\ \E free \in {x \in Session : ~session[x].used} : process' = At("bind", free)
    /\ UNCHANGED <<setting, session, conn, sent, update, userMap, zone, cmds, firing, nextToken>>

(* Take the next packet and look its session up.  A connector without one  *)
(* gets an object of the pool, which is already listed as used.            *)
GetSession ==
    /\ process.pc = "pop" /\ recvQueue # << >>
    /\ Len(cmds) < MaxCmds
    /\ recvQueue' = Tail(recvQueue)
    /\ LET p == Head(recvQueue)
           s == conn[p.conn].param
           At(pc, x) == [pc |-> pc, sess |-> x, conn |-> p.conn, op |-> p.op]
       IN  \/ /\ s # Null
              /\ process' = At("handle", s)
              /\ UNCHANGED session
           \/ /\ s = Null
              /\ \E free \in {x \in Session : ~session[x].used} :
                    /\ session' = [session EXCEPT ![free] = NewSession]
                    /\ process' = At("bind", free)
    /\ UNCHANGED <<setting, conn, sent, update, userMap, zone, cmds, firing, nextToken>>

(* SetParam, then SetConnector.                                            *)
BindSession ==
    /\ process.pc = "bind"
    /\ conn' = [conn EXCEPT ![process.conn].param = process.sess]
    /\ session' = [session EXCEPT ![process.sess].conn = process.conn]
    /\ process' = [process EXCEPT !.pc = "handle"]
    /\ UNCHANGED <<setting, sent, recvQueue, update, userMap, zone, cmds, firing, nextToken>>

(* C2S_Auth: a new token, and the session under that token in _userMap.    *)
C2S_Auth(s) ==
    /\ session' = [session EXCEPT ![s].token = nextToken]
    /\ userMap' = [userMap EXCEPT ![nextToken] = s]
    /\ nextToken' = nextToken + 1
    /\ UNCHANGED cmds

(* C2S_Enter: the session says it is in zone 1 at once; its character gets *)
(* there when the command runs.                                            *)
C2S_Enter(s) ==
    /\ session' = [session EXCEPT ![s].zone = 1]
    /\ cmds' = Append(cmds, [op |-> "Enter", token |-> session[s].token])
    /\ UNCHANGED <<userMap, nextToken>>

C2S_Leave(s) ==
    /\ cmds' = Append(cmds, [op |-> "Leave", token |-> session[s].token, zone |-> session[s].zone])
    /\ UNCHANGED <<session, userMap, nextToken>>

(* C2S_Move, C2S_Interaction and C2S_Echo: tell everybody in the zone.     *)
C2S_Move(s) ==
    /\ cmds' = Append(cmds, [op |-> "Broadcast", zone |-> session[s].zone])
    /\ UNCHANGED <<session, userMap, nextToken>>

(* UserSession::MessageProcess.                                            *)
MessageProcess ==
    /\ process.pc = "handle"
    /\ \/ process.op = "auth" /\ C2S_Auth(process.sess)
       \/ process.op = "enter" /\ C2S_Enter(process.sess)
       \/ process.op = "leave" /\ C2S_Leave(process.sess)
       \/ process.op = "move" /\ C2S_Move(process.sess)
    /\ process' = Idle
    /\ UNCHANGED <<setting, conn, sent, recvQueue, update, zone, firing>>

ProcessThread == GetSession \/ BindSession \/ MessageProcess

-----------------------------------------------------------------------------
(* UpdateThread: UserSessionMgr::DoUpdate.                                 *)

MayUpdate == setting.overlap \/ process.pc = "pop"

(* Mutant of Dead: the whole pool is scanned, not the used list.           *)
DeadOfPool(s) == session[s].conn = Null \/ ~conn[session[s].conn].active

Dead(s) == session[s].used /\ (session[s].conn = Null \/ ~conn[session[s].conn].active)

(* The scan, under the manager's lock: UserSession::DoUpdate puts sessions *)
(* without an open connection on the release list.  (The timers only delay *)
(* a scan.)                                                                *)
Scan ==
    /\ update.pc = "scan" /\ MayUpdate
    /\ LET dead == {s \in Session : Dead(s)}
       IN  update' = IF dead = {} THEN [update EXCEPT !.pc = "tick"]
                                  ELSE [pc |-> "release", list |-> dead, done |-> {}]
    /\ UNCHANGED <<setting, session, conn, sent, recvQueue, process, userMap, zone, cmds, firing, nextToken>>

(* The scan finds a session whose heartbeats were not answered: its socket *)
(* is closed, and a later scan will find it dead.                          *)
HeartbeatOver(s) ==
    /\ update.pc = "scan" /\ MayUpdate
    /\ session[s].used /\ ~Dead(s)
    /\ conn' = [conn EXCEPT ![session[s].conn] = TryRelease(@)]
    /\ UNCHANGED <<setting, session, sent, recvQueue, process, update, userMap, zone, cmds, firing, nextToken>>

ReleaseNext(s) ==
    update' = IF update.list = {s}
              THEN [pc |-> "free", list |-> update.done \cup {s}, done |-> {}]
              ELSE [update EXCEPT !.list = @ \ {s}, !.done = @ \cup {s}]

LeaveOnRelease(s) ==
    cmds' = IF session[s].zone = 0 THEN cmds
            ELSE Append(cmds, [op |-> "Leave", token |-> session[s].token, zone |-> session[s].zone])

(* Mutants of Release: the zone is not told; the connector keeps its       *)
(* pointer to the session; the connector is not given back.                *)
ReleaseQuietly(s) ==
    /\ update.pc = "release" /\ MayUpdate /\ s \in update.list
    /\ conn' = IF session[s].conn = Null THEN conn
               ELSE [conn EXCEPT ![session[s].conn] = TryRelease([@ EXCEPT !.param = Null])]
    /\ ReleaseNext(s)
    /\ UNCHANGED <<setting, session, sent, recvQueue, process, userMap, zone, cmds, firing, nextToken>>

ReleaseKeepParam(s) ==
    /\ update.pc = "release" /\ MayUpdate /\ s \in update.list
    /\ LeaveOnRelease(s)
    /\ conn' = IF session[s].conn = Null THEN conn ELSE [conn EXCEPT ![session[s].conn] = TryRelease(@)]
    /\ ReleaseNext(s)
    /\ UNCHANGED <<setting, session, sent, recvQueue, process, userMap, zone, firing, nextToken>>

ReleaseKeepConnector(s) ==
    /\ update.pc = "release" /\ MayUpdate /\ s \in update.list
    /\ LeaveOnRelease(s)
    /\ conn' = IF session[s].conn = Null THEN conn ELSE [conn EXCEPT ![session[s].conn].param = Null]
    /\ ReleaseNext(s)
    /\ UNCHANGED <<setting, session, sent, recvQueue, process, userMap, zone, firing, nextToken>>

(* UserSession::Release.                                                   *)
Release(s) ==
    /\ update.pc = "release" /\ MayUpdate
    /\ s \in update.list
    /\ LeaveOnRelease(s)
    /\ conn' = IF session[s].conn = Null THEN conn
               ELSE [conn EXCEPT ![session[s].conn] = TryRelease([@ EXCEPT !.param = Null])]
    /\ ReleaseNext(s)
    /\ UNCHANGED <<setting, session, sent, recvQueue, process, userMap, zone, firing, nextToken>>

(* Mutant of Free: the token stays in _userMap.                            *)
FreeKeepToken(s) ==
    /\ update.pc = "free" /\ MayUpdate /\ s \in update.list
    /\ session' = [session EXCEPT ![s] = FreeSession]
    /\ update' = [update EXCEPT !.pc = IF update.list = {s} THEN "tick" ELSE @, !.list = @ \ {s}]
    /\ UNCHANGED <<setting, conn, sent, recvQueue, process, userMap, zone, cmds, firing, nextToken>>

(* DelUserSessionMap and SetFreeObject.                                    *)
Free(s) ==
    /\ update.pc = "free" /\ MayUpdate
    /\ s \in update.list
    /\ userMap' = [t \in Token |-> IF t = session[s].token THEN Null ELSE userMap[t]]
    /\ session' = [session EXCEPT ![s] = FreeSession]
    /\ update' = [update EXCEPT !.pc = IF update.list = {s} THEN "tick" ELSE @, !.list = @ \ {s}]
    /\ UNCHANGED <<setting, conn, sent, recvQueue, process, zone, cmds, firing, nextToken>>

-----------------------------------------------------------------------------
(* UpdateThread: CommandUnitQueue::Tick.                                   *)

(* FireOps takes every command that is waiting.  The loop comes here after *)
(* DoUpdate, or without it while its timer has not run out.                *)
SwapOpList ==
    /\ update.pc = "tick" \/ (update.pc = "scan" /\ cmds # << >>)
    /\ firing' = cmds /\ cmds' = << >>
    /\ update' = [update EXCEPT !.pc = "fire"]
    /\ UNCHANGED <<setting, session, conn, sent, recvQueue, process, userMap, zone, nextToken>>

GetUserSession(t) == IF t \in Token THEN userMap[t] ELSE Null

(* EnterCharacter: insert keeps an entry that is there.                    *)
EnterCharacter(cmd) ==
    LET user == GetUserSession(cmd.token)
        key == session[user].token
    IN  \/ user = Null /\ UNCHANGED <<zone, cmds>>
        \/ /\ user # Null
           /\ zone' = IF zone[key] = Null THEN [zone EXCEPT ![key] = user] ELSE zone
           /\ cmds' = cmds \o <<[op |-> "Broadcast", zone |-> 1], [op |-> "List", token |-> cmd.token]>>

(* Mutant of LeaveCharacter: nothing is done for a user who has gone.      *)
LeaveOnlyUser(cmd) ==
    LET user == GetUserSession(cmd.token)
    IN  IF user = Null THEN UNCHANGED <<session, zone, cmds>>
        ELSE /\ session' = [session EXCEPT ![user].zone = 0]
             /\ zone' = IF cmd.zone = 1 THEN [zone EXCEPT ![cmd.token] = Null] ELSE zone
             /\ cmds' = Append(cmds, [op |-> "Broadcast", zone |-> cmd.zone])

(* LeaveCharacter.                                                         *)
LeaveCharacter(cmd) ==
    LET user == GetUserSession(cmd.token)
    IN  /\ session' = IF user = Null THEN session ELSE [session EXCEPT ![user].zone = 0]
        /\ zone' = IF cmd.zone = 1 THEN [zone EXCEPT ![cmd.token] = Null] ELSE zone
        /\ cmds' = Append(cmds, [op |-> "Broadcast", zone |-> cmd.zone])

(* One command of FireOps.  SendBroadcastToAllUser and SendCharacterList   *)
(* walk through the zone's pointers; what they produce are packets, which  *)
(* SendPacketToUser hands to the connectors of sessions in _userMap.       *)
FireOps ==
    /\ update.pc = "fire" /\ firing # << >>
    /\ LET cmd == Head(firing)
       IN  \/ cmd.op = "Enter" /\ EnterCharacter(cmd) /\ UNCHANGED session
           \/ cmd.op = "Leave" /\ LeaveCharacter(cmd)
           \/ cmd.op \in {"Broadcast", "List"} /\ UNCHANGED <<session, zone, cmds>>
    /\ firing' = Tail(firing)
    /\ UNCHANGED <<setting, conn, sent, recvQueue, process, update, userMap, nextToken>>

TickEnds ==
    /\ update.pc = "fire" /\ firing = << >>
    /\ update' = [update EXCEPT !.pc = "scan"]
    /\ UNCHANGED <<setting, session, conn, sent, recvQueue, process, userMap, zone, cmds, firing, nextToken>>

DoUpdate == Scan \/ \E s \in Session : Release(s) \/ Free(s)
Tick == SwapOpList \/ FireOps \/ TickEnds

Next ==
    \/ \E c \in Connector :
          \/ Accept(c) \/ PeerClose(c) \/ Disconnect(c)
          \/ \E op \in ClientOps : Receive(c, op)
    \/ ProcessThread
    \/ DoUpdate \/ Tick
    \/ \E s \in Session : HeartbeatOver(s)

Spec == Init /\ [][Next]_vars

(* Both threads are scheduled, and the update timers run out.              *)
FairSpec == /\ Spec
            /\ WF_vars(ProcessThread)
            /\ WF_vars(DoUpdate \/ Tick)
            /\ SF_vars(Scan)

-----------------------------------------------------------------------------
(* Properties.                                                             *)

(* Nothing overlaps: connectors start clean, clients authenticate once,    *)
(* and DoUpdate does not run during a packet's handling.                   *)
Calm == ~setting.overlap /\ ~setting.late /\ ~setting.reauth

(* _userMap leads from a token to the session that carries it: the object  *)
(* is in use, has that token and has a connector to send through.  The     *)
(* commands follow these pointers without a check (SendPacketToUser).      *)
(* This needs a calm setting: a session that authenticates again leaves    *)
(* its first token behind.                                                 *)
UserMapLive == Calm =>
    \A t \in Token : userMap[t] # Null =>
        LET s == session[userMap[t]]
        IN  s.used /\ s.token = t /\ s.conn # Null

(* A connector's param and the session's connector point at each other,    *)
(* and the session is in use: a packet is never handled by the session of  *)
(* another connection, or by one that was given back to the pool.  Only    *)
(* the overlap of DoUpdate with a packet's handling can break this.        *)
ParamBound == ~setting.overlap =>
    \A c \in Connector : conn[c].param # Null =>
        session[conn[c].param].used /\ session[conn[c].param].conn = c

LeavePending(t) ==
    \E i \in DOMAIN (firing \o cmds) :
        (firing \o cmds)[i] = [op |-> "Leave", token |-> t, zone |-> 1]

(* A character in the zone belongs to a session that is still registered   *)
(* under its token, or a LeaveCharacter for it is on its way: nobody stays *)
(* in the zone after their session has gone.                               *)
NoGhost == Calm =>
    \A t \in DOMAIN zone : zone[t] # Null =>
        LeavePending(t) \/ (t \in Token /\ userMap[t] = zone[t])

(* A session is handed to SetFreeObject only while it is in use, in every  *)
(* schedule: ObjectMgrBase would put it into the pool a second time.       *)
NoDoubleFree ==
    \A s \in update.list \cup update.done : session[s].used

(* The session whose packet ProcessThread has in hand is in use, unless    *)
(* DoUpdate overlaps and finds it before it has its connector.             *)
HandledInUse == ~setting.overlap /\ process.pc # "pop" => session[process.sess].used

(* A Connector whose client has gone while a session used it goes back to  *)
(* the pool.                                                               *)
ClosedGoesBack ==
    \A c \in Connector :
        (conn[c].used /\ ~conn[c].active /\ conn[c].param # Null) ~> ~conn[c].used

(* When the connection of a character in the zone is gone, the character   *)
(* leaves the zone.                                                        *)
LostLeavesZone ==
    \A t \in Token, s \in Session : (zone[t] = s /\ Dead(s)) ~> zone[t] = Null
=============================================================================
