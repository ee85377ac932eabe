---------------------------- MODULE SessionLocks ----------------------------
(***************************************************************************)
(* The locks of the server and the order its threads take them in.  A      *)
(* SafeLock is held to the end of its scope, so what a function does to    *)
(* the locks is a script of takes and drops, nested like its calls.  Lock  *)
(* is a shared_mutex: a thread that takes one it holds waits for itself.   *)
(* The handlers that take a session's lock read-only take it here like the *)
(* others: ProcessThread is the only thread that does.                     *)
(***************************************************************************)
EXTENDS Integers, Sequences

CONSTANTS Session,    \* the sessions of UserSessionMgr
          None        \* no thread, no session

VARIABLES owner,    \* which thread holds a lock
          todo,     \* what each thread still does to the locks
          scanning, \* UpdateThread is in the scan of UserSessionMgr::DoUpdate
          visit     \* the sessions of _usedList it has yet to come to

lockVars == <<owner, todo, scanning, visit>>

Thread == {"process", "update", "worker"}

ASSUME NoneAssumption == None \notin Thread

(* The locks there is one of, and those of each session and its connector. *)
Mgr     == <<"UserSessionMgr", None>>
ConnMgr == <<"ConnectorMgr", None>>
ZoneMgr == <<"ZoneMgr", None>>
Zone    == <<"Zone", None>>
Cmds    == <<"CommandUnitQueue", None>>
Of(s)   == <<"UserSession", s>>
Send(s) == <<"SendQueue", s>>
Locks   == {Mgr, ConnMgr, ZoneMgr, Zone, Cmds}
           \cup {Of(s) : s \in Session} \cup {Send(s) : s \in Session}

(* SafeLock lock(l), then what the rest of its scope does.                 *)
Under(l, rest) == <<<<"take", l>>>> \o rest \o <<<<"drop", l>>>>
Brief(l) == Under(l, << >>)

-----------------------------------------------------------------------------
Add == Brief(Cmds)                               \* CommandUnitQueue::Add
SendPacket(s) == Brief(Send(s)) \o Brief(Send(s)) \* AddSendQueue, SendPrepare
TryRelease == {<< >>, Brief(ConnMgr)}            \* without _param: back to the pool

(* ProcessThread: the handlers of one packet.                              *)
C2S_Auth(s) == Under(Of(s), Brief(Mgr) \o SendPacket(s))
C2S_Queued(s) == Under(Of(s), Add)   \* Enter, LEAVE, Move, Interaction, Echo
C2S_HeartbeatScript(s) == Brief(Of(s))

ProcessScripts ==
    {Brief(Mgr)}                                 \* GetFreeObject
    \cup UNION {{C2S_Auth(s), C2S_Queued(s), C2S_HeartbeatScript(s)} : s \in Session}

(* UserSession::DoUpdate: nothing is due, or the session goes to the       *)
(* release list (the caller's lock covers it), or it sends a heartbeat, or *)
(* gives its connector up.                                                 *)
DoUpdateLocked(s) ==
    {Under(Of(s), rest) : rest \in {Brief(Mgr), SendPacket(s)} \cup TryRelease}

DoUpdateScripts(s) == {Under(Of(s), rest) : rest \in {<< >>, SendPacket(s)} \cup TryRelease}

(* UserSessionMgr::DoUpdate after the scan: SwapReleaseList, and Release,  *)
(* DelUserSessionMap and SetFreeObject of those that are released.         *)
ReleaseScripts(s) ==
    {Under(Of(s), Add) \o rel \o Brief(Mgr) \o Brief(Mgr) : rel \in TryRelease}

(* The commands Tick runs; SwapOpList has dropped the queue's lock.        *)
Commands ==
    {Brief(Mgr) \o SendPacket(s) : s \in Session}               \* SendPacketToUser
    \cup {Brief(ZoneMgr) \o Under(Zone, Add),                   \* SendBroadcastToAllUser
          Brief(Mgr) \o Under(ZoneMgr, Brief(Zone)) \o Add,     \* Enter, LeaveCharacter
          Brief(Mgr) \o Brief(ZoneMgr) \o Brief(Zone) \o Add}   \* SendCharacterList

UpdateScripts ==
    {Brief(Mgr), Brief(Cmds)} \cup Commands \cup UNION {ReleaseScripts(s) : s \in Session}

(* Worker and accept threads: DoSend, and taking or giving back connectors.*)
WorkerScripts == {Brief(ConnMgr)} \cup {Brief(Send(s)) : s \in Session}

Scripts == [process |-> ProcessScripts, update |-> UpdateScripts, worker |-> WorkerScripts]

-----------------------------------------------------------------------------
LocksInit ==
    /\ owner = [l \in Locks |-> None]
    /\ todo = [t \in Thread |-> << >>]
    /\ scanning = FALSE /\ visit = {}

Begin(t) ==
    /\ todo[t] = << >>
    /\ t = "update" => ~scanning
    /\ \E script \in Scripts[t] : todo' = [todo EXCEPT ![t] = script]
    /\ UNCHANGED <<owner, scanning, visit>>

(* The scan: with the manager's lock, DoUpdate of each session of          *)
(* _usedList in turn.                                                      *)
BeginScan ==
    /\ todo["update"] = << >> /\ ~scanning
    /\ todo' = [todo EXCEPT !["update"] = <<<<"take", Mgr>>>>]
    /\ scanning' = TRUE
    /\ visit' \in SUBSET Session
    /\ UNCHANGED owner

ScanSession(s) ==
    /\ todo["update"] = << >> /\ scanning /\ s \in visit
    /\ \E script \in DoUpdateScripts(s) : todo' = [todo EXCEPT !["update"] = script]
    /\ visit' = visit \ {s}
    /\ UNCHANGED <<owner, scanning>>

EndScan ==
    /\ todo["update"] = << >> /\ scanning /\ visit = {}
    /\ todo' = [todo EXCEPT !["update"] = <<<<"drop", Mgr>>>>]
    /\ scanning' = FALSE
    /\ UNCHANGED <<owner, visit>>

Take(t) ==
    /\ todo[t] # << >>
    /\ LET step == Head(todo[t])
       IN  /\ step[1] = "take"
           /\ owner[step[2]] = None
           /\ owner' = [owner EXCEPT ![step[2]] = t]
    /\ todo' = [todo EXCEPT ![t] = Tail(@)]
    /\ UNCHANGED <<scanning, visit>>

Drop(t) ==
    /\ todo[t] # << >>
    /\ LET step == Head(todo[t])
       IN  /\ step[1] = "drop"
           /\ owner' = [owner EXCEPT ![step[2]] = None]
    /\ todo' = [todo EXCEPT ![t] = Tail(@)]
    /\ UNCHANGED <<scanning, visit>>

LocksNext ==
    \/ \E t \in Thread : Begin(t) \/ Take(t) \/ Drop(t)
    \/ BeginScan \/ (\E s \in Session : ScanSession(s)) \/ EndScan

LocksSpec == LocksInit /\ [][LocksNext]_lockVars

-----------------------------------------------------------------------------
(* The thread that holds the lock t waits for.                             *)
WaitsFor(t) ==
    IF todo[t] # << >> /\ Head(todo[t])[1] = "take" THEN owner[Head(todo[t])[2]] ELSE None

(* Threads that wait for each other in a circle, or one for itself.        *)
Stuck(T) == \A t \in T : WaitsFor(t) \in T

(* ProcessThread is in C2S_Auth: it has the session's lock and is at       *)
(* AddUserSessionMap.                                                      *)
AtAddUserSessionMap ==
    /\ \E s \in Session : owner[Of(s)] = "process"
    /\ todo["process"] # << >> /\ Head(todo["process"]) = <<"take", Mgr>>

(* The only way for threads of the server to wait for each other forever   *)
(* is C2S_Auth, which takes a session's lock and then the manager's,       *)
(* against the scan, which takes them the other way round; no thread ever  *)
(* waits for itself.                                                       *)
OnlyAuthDeadlocks ==
    \A T \in (SUBSET Thread) \ {{}} : Stuck(T) => T = {"process", "update"} /\ AtAddUserSessionMap
=============================================================================
