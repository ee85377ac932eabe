------------------------- MODULE UserSessionsProofs -------------------------
(***************************************************************************)
(* Proofs about UserSessions, for any number of session and connector      *)
(* objects, tokens, packets and commands.  Three invariants, each resting  *)
(* on the ones before it:                                                  *)
(*                                                                         *)
(*   SInv  who may give a session back, and that a packet is handled by    *)
(*         the session of its own connection.  A session which has been    *)
(*         released, and waits to be freed, has lost its connector's       *)
(*         param, and ProcessThread cannot be about to bind it (Bound);    *)
(*   LInv  in a calm setting, _userMap and the sessions' tokens are        *)
(*         inverse to each other, because one authentication of each       *)
(*         connection at most is under way (OneAuth);                      *)
(*   GInv  in a calm setting without C2S_Leave, every command that waits   *)
(*         and every character in the zone is accounted for (Commanded,    *)
(*         Accounted).                                                     *)
(***************************************************************************)
EXTENDS UserSessions, SequenceTheorems, TLAPS

SessionShape ==
    /\ DOMAIN session = Session
    /\ \A s \in Session : /\ {"used", "conn", "token", "zone"} \subseteq DOMAIN session[s]
                          /\ session[s].conn \in Connector \cup {Null}

ConnShape ==
    /\ DOMAIN conn = Connector
    /\ \A c \in Connector : /\ {"used", "active", "param"} \subseteq DOMAIN conn[c]
                            /\ conn[c].param \in Session \cup {Null}

ProcessShape ==
    /\ {"pc", "sess", "conn"} \subseteq DOMAIN process
    /\ process.pc # "pop" => process.sess \in Session /\ process.conn \in Connector
    /\ recvQueue \in Seq(Packets)

(* The lists of DoUpdate are empty when it is over.                        *)
UpdateShape ==
    /\ {"pc", "list", "done"} \subseteq DOMAIN update
    /\ update.list \subseteq Session /\ update.done \subseteq Session
    /\ update.pc # "release" => update.done = {}
    /\ update.pc \notin {"release", "free"} => update.list = {}

(* The sessions that UserSession::Release has run for.                     *)
Released == IF update.pc = "free" THEN update.list ELSE update.done

Bound ==
    /\ \A c \in Connector : conn[c].param # Null =>
          session[conn[c].param].used /\ session[conn[c].param].conn = c
    /\ process.pc # "pop" => session[process.sess].used
    /\ process.pc = "bind" => /\ session[process.sess].conn = Null
                              /\ process.sess \notin update.list \cup update.done
    /\ \A c \in Connector : conn[c].param \notin Released

Shapes == SessionShape /\ ConnShape /\ ProcessShape /\ UpdateShape

SInv == Shapes /\ NoDoubleFree /\ (~setting.overlap => Bound)

-----------------------------------------------------------------------------
(* What most steps do to a session: nothing that matters here.             *)
KeepsSessions ==
    /\ SessionShape'
    /\ \A s \in Session : /\ session'[s].used <=> session[s].used
                          /\ session'[s].conn = session[s].conn

KeepsParams == ConnShape' /\ \A c \in Connector : conn'[c].param = conn[c].param

LEMMA UpdateUnused ==
    ASSUME SInv, KeepsSessions, KeepsParams, UNCHANGED <<setting, update>>,
           ProcessShape',
           \/ process' = process
           \/ process'.pc = "pop"
           \/ /\ process'.pc = "handle"
              /\ ~setting.overlap => session[process'.sess].used
    PROVE  SInv'
<1>1. UpdateShape'
  BY Zenon DEF UpdateShape, SInv, Shapes
<1>2. NoDoubleFree'
  BY Zenon DEF NoDoubleFree, KeepsSessions, SInv, Shapes, UpdateShape
<1>3. ASSUME ~setting.overlap PROVE Bound'
  <2>1. Bound
    BY <1>3, Zenon DEF SInv
  <2>2. ASSUME NEW c \in Connector, conn'[c].param # Null
        PROVE  session'[conn'[c].param].used /\ session'[conn'[c].param].conn = c
    <3>1. conn'[c].param = conn[c].param /\ conn[c].param \in Session
      BY <2>2, Zenon DEF KeepsParams, SInv, Shapes, ConnShape
    <3>2. session[conn[c].param].used /\ session[conn[c].param].conn = c
      BY <2>1, <2>2, <3>1, Zenon DEF Bound
    <3> QED  BY <3>1, <3>2, Zenon DEF KeepsSessions
  <2>3. process'.pc # "pop" => session'[process'.sess].used
    BY <1>3, <2>1, Zenon DEF Bound, KeepsSessions, ProcessShape
  <2>4. process'.pc = "bind" => /\ session'[process'.sess].conn = Null
                                /\ process'.sess \notin update'.list \cup update'.done
    BY <2>1, Zenon DEF Bound, KeepsSessions, ProcessShape
  <2>5. \A c \in Connector : conn'[c].param \notin Released'
    BY <2>1, Zenon DEF Bound, KeepsParams, Released
  <2> QED  BY <2>2, <2>3, <2>4, <2>5, Zenon DEF Bound
<1> QED  BY <1>1, <1>2, <1>3, Zenon DEF SInv, Shapes, KeepsSessions, KeepsParams

LEMMA KeptSessions == SInv /\ UNCHANGED session => KeepsSessions
  BY Zenon DEF SInv, Shapes, SessionShape, KeepsSessions

LEMMA KeptParams == SInv /\ UNCHANGED conn => KeepsParams
  BY Zenon DEF SInv, Shapes, ConnShape, KeepsParams

(* Accept, PeerClose, Disconnect, Receive and HeartbeatOver.               *)
NetworkStep(c) ==
    \/ Accept(c) \/ PeerClose(c) \/ Disconnect(c)
    \/ \E op \in ClientOps : Receive(c, op)
    \/ \E s \in Session : session[s].conn = c /\ HeartbeatOver(s)

(* None of them touches a param.                                           *)
LEMMA NetworkParams ==
    ASSUME SInv, NEW c \in Connector, NetworkStep(c)
    PROVE  KeepsParams
<1>1. \/ UNCHANGED conn
      \/ conn' = [conn EXCEPT ![c].used = TRUE, ![c].active = TRUE]
      \/ conn' = [conn EXCEPT ![c].active = FALSE]
      \/ conn' = [conn EXCEPT ![c] = TryRelease(@)]
  BY Zenon DEF NetworkStep, Accept, PeerClose, Disconnect, Receive, HeartbeatOver
<1>2. ConnShape
  BY Zenon DEF SInv, Shapes
<1>3. CASE UNCHANGED conn
  BY <1>3, KeptParams, Zenon
<1>4. CASE conn' = [conn EXCEPT ![c].used = TRUE, ![c].active = TRUE]
  BY <1>2, <1>4, Zenon DEF ConnShape, KeepsParams
<1>5. CASE conn' = [conn EXCEPT ![c].active = FALSE]
  BY <1>2, <1>5, Zenon DEF ConnShape, KeepsParams
<1>6. CASE conn' = [conn EXCEPT ![c] = TryRelease(@)]
  <2>1. \E u : TryRelease(conn[c]) = [conn[c] EXCEPT !.active = FALSE, !.used = u]
    BY Zenon DEF TryRelease
  <2>2. PICK u : conn' = [conn EXCEPT ![c] = [conn[c] EXCEPT !.active = FALSE, !.used = u]]
    BY <1>6, <2>1, Zenon
  <2> QED  BY <1>2, <2>2, Zenon DEF ConnShape, KeepsParams
<1> QED  BY <1>1, <1>3, <1>4, <1>5, <1>6, Zenon

LEMMA NetworkKeeps ==
    ASSUME SInv, NEW c \in Connector, NetworkStep(c)
    PROVE  SInv'
<1>1. UNCHANGED <<setting, session, process, update>>
  BY Zenon DEF NetworkStep, Accept, PeerClose, Disconnect, Receive, HeartbeatOver
<1>2. KeepsParams
  BY NetworkParams, Zenon
<1>3. recvQueue' \in Seq(Packets)
  <2>1. recvQueue \in Seq(Packets)
    BY Zenon DEF SInv, Shapes, ProcessShape
  <2>2. \/ UNCHANGED recvQueue
        \/ \E op \in ClientOps : recvQueue' = Append(recvQueue, [conn |-> c, op |-> op])
    BY SMTT(30) DEF NetworkStep, Accept, PeerClose, Disconnect, Receive, HeartbeatOver
  <2>3. \A op \in ClientOps : [conn |-> c, op |-> op] \in Packets
    BY Zenon DEF Packets
  <2> HIDE DEF Packets, ClientOps
  <2> QED  BY <2>1, <2>2, <2>3, AppendProperties, Zenon
<1>4. ProcessShape'
  BY <1>1, <1>3, Zenon DEF SInv, Shapes, ProcessShape
<1> QED  BY <1>1, <1>2, <1>4, KeptSessions, UpdateUnused, Zenon

-----------------------------------------------------------------------------
(* ProcessThread.                                                          *)

LEMMA GetSessionKeeps ==
    ASSUME SInv, GetSession
    PROVE  SInv'
<1> DEFINE p == Head(recvQueue)
           s == conn[p.conn].param
<1>1. p \in Packets /\ recvQueue' \in Seq(Packets)
  <2>1. recvQueue \in Seq(Packets) /\ recvQueue # << >> /\ recvQueue' = Tail(recvQueue)
    BY Zenon DEF SInv, Shapes, ProcessShape, GetSession
  <2> HIDE DEF Packets
  <2> QED  BY <2>1, HeadTailProperties, Zenon
<1>2. p.conn \in Connector /\ s \in Session \cup {Null}
  BY <1>1, Zenon DEF Packets, SInv, Shapes, ConnShape
<1>3. UNCHANGED <<setting, conn, update>>
  BY Zenon DEF GetSession
<1>4. CASE /\ s # Null /\ UNCHANGED session
           /\ process' = [pc |-> "handle", sess |-> s, conn |-> p.conn, op |-> p.op]
  <2>1. ProcessShape'
    BY <1>1, <1>2, <1>4, Zenon DEF ProcessShape
  <2>2. process'.pc = "handle" /\ (~setting.overlap => session[process'.sess].used)
    BY <1>2, <1>4, Zenon DEF SInv, Bound
  <2> QED  BY <1>3, <1>4, <2>1, <2>2, KeptSessions, KeptParams, UpdateUnused, SMTT(30)
<1>5. ASSUME s = Null, NEW free \in Session, ~session[free].used,
             session' = [session EXCEPT ![free] = NewSession],
             process' = [pc |-> "bind", sess |-> free, conn |-> p.conn, op |-> p.op]
      PROVE  SInv'
  <2>1. /\ SessionShape' /\ session'[free].used /\ session'[free].conn = Null
        /\ \A x \in Session \ {free} : session'[x] = session[x]
    BY <1>5, Zenon DEF SInv, Shapes, SessionShape, NewSession
  <2>2. ConnShape' /\ UpdateShape' /\ ProcessShape'
    BY <1>1, <1>2, <1>3, <1>5, Zenon DEF SInv, Shapes, ConnShape, UpdateShape, ProcessShape
  <2>3. free \notin update.list \cup update.done
    BY <1>5, Zenon DEF SInv, NoDoubleFree
  <2>4. NoDoubleFree'
    BY <1>3, <2>1, <2>3, Zenon DEF SInv, Shapes, UpdateShape, NoDoubleFree
  <2>5. ASSUME ~setting.overlap PROVE Bound'
    <3>1. Bound
      BY <2>5, Zenon DEF SInv
    <3>2. ASSUME NEW c \in Connector, conn'[c].param # Null
          PROVE  session'[conn'[c].param].used /\ session'[conn'[c].param].conn = c
      <4>1. conn[c].param \in Session \ {free}
        BY <1>3, <1>5, <3>1, <3>2, Zenon DEF Bound, SInv, Shapes, ConnShape
      <4> QED  BY <1>3, <2>1, <3>1, <3>2, <4>1, SMTT(30) DEF Bound
    <3>3. \A c \in Connector : conn'[c].param \notin Released'
      BY <1>3, <3>1, Zenon DEF Bound, Released
    <3> QED  BY <1>3, <1>5, <2>1, <2>3, <3>2, <3>3, Zenon DEF Bound
  <2> QED  BY <1>3, <2>1, <2>2, <2>4, <2>5, Zenon DEF SInv, Shapes
<1> QED  BY <1>4, <1>5, Zenon DEF GetSession

LEMMA BindSessionKeeps ==
    ASSUME SInv, BindSession
    PROVE  SInv'
<1> DEFINE s == process.sess
           k == process.conn
<1>1. /\ process.pc = "bind" /\ UNCHANGED <<setting, recvQueue, update>>
      /\ conn' = [conn EXCEPT ![k].param = s]
      /\ session' = [session EXCEPT ![s].conn = k]
      /\ process' = [process EXCEPT !.pc = "handle"]
  BY Zenon DEF BindSession
<1>2. s \in Session /\ k \in Connector
  BY <1>1, Zenon DEF SInv, Shapes, ProcessShape
<1>3. /\ ConnShape' /\ conn'[k].param = s
      /\ \A c \in Connector \ {k} : conn'[c] = conn[c]
  BY <1>1, <1>2, Zenon DEF SInv, Shapes, ConnShape
<1>4. /\ SessionShape' /\ session'[s].conn = k /\ (session'[s].used <=> session[s].used)
      /\ \A x \in Session \ {s} : session'[x] = session[x]
  BY <1>1, <1>2, Zenon DEF SInv, Shapes, SessionShape
<1>5. ProcessShape' /\ process'.pc = "handle" /\ process'.sess = s
  BY <1>1, <1>2, Zenon DEF SInv, Shapes, ProcessShape
<1>6. UpdateShape'
  BY <1>1, Zenon DEF SInv, Shapes, UpdateShape
<1>7. NoDoubleFree'
  BY <1>1, <1>4, Zenon DEF SInv, Shapes, UpdateShape, NoDoubleFree
<1>8. ASSUME ~setting.overlap PROVE Bound'
  <2>1. Bound
    BY <1>8, Zenon DEF SInv
  <2>2. session[s].used /\ session[s].conn = Null /\ s \notin update.list \cup update.done
    BY <1>1, <2>1, Zenon DEF Bound
  <2>3. ASSUME NEW c \in Connector, conn'[c].param # Null
        PROVE  session'[conn'[c].param].used /\ session'[conn'[c].param].conn = c
    <3>1. CASE c = k
      BY <1>3, <1>4, <2>2, <3>1, Zenon
    <3>2. CASE c # k
      <4>1. conn'[c].param = conn[c].param /\ conn[c].param \in Session
        BY <1>3, <2>3, <3>2, Zenon DEF SInv, Shapes, ConnShape
      <4>2. session[conn[c].param].used /\ session[conn[c].param].conn = c
        BY <2>1, <2>3, <4>1, Zenon DEF Bound
      <4>3. conn[c].param # s
        BY <2>2, <4>2, ConstantsAssumption, Zenon
      <4> QED  BY <1>4, <4>1, <4>2, <4>3, Zenon
    <3> QED  BY <3>1, <3>2, Zenon
  <2>4. \A c \in Connector : conn'[c].param \notin Released'
    BY <1>1, <1>3, <2>1, <2>2 DEF Bound, Released
  <2> QED  BY <1>4, <1>5, <2>2, <2>3, <2>4, Zenon DEF Bound
<1> QED  BY <1>1, <1>3, <1>4, <1>5, <1>6, <1>7, <1>8, Zenon DEF SInv, Shapes

LEMMA MessageProcessKeeps ==
    ASSUME SInv, MessageProcess
    PROVE  SInv'
<1>1. /\ process' = Idle /\ UNCHANGED <<setting, conn, recvQueue, update>>
  BY Zenon DEF MessageProcess
<1>2. \/ UNCHANGED session
      \/ session' = [session EXCEPT ![process.sess].token = nextToken]
      \/ session' = [session EXCEPT ![process.sess].zone = 1]
  BY Zenon DEF MessageProcess, C2S_Auth, C2S_Enter, C2S_Leave, C2S_Move
<1>3. SessionShape
  BY Zenon DEF SInv, Shapes
<1>4. KeepsSessions
  BY <1>2, <1>3 DEF SessionShape, KeepsSessions
<1>5. ProcessShape' /\ process'.pc = "pop"
  BY <1>1, Zenon DEF SInv, Shapes, ProcessShape, Idle
<1> QED  BY <1>1, <1>4, <1>5, KeptParams, UpdateUnused, Zenon

-----------------------------------------------------------------------------
(* UpdateThread.                                                           *)

(* DoUpdate's steps: ProcessThread has no session in hand, unless they may *)
(* overlap.                                                                *)
LEMMA NoOverlap ==
    ASSUME MayUpdate, ~setting.overlap
    PROVE  process.pc = "pop"
  BY Zenon DEF MayUpdate

LEMMA ScanKeeps ==
    ASSUME SInv, Scan
    PROVE  SInv'
<1> DEFINE dead == {s \in Session : Dead(s)}
<1>1. /\ update.pc = "scan" /\ MayUpdate
      /\ UNCHANGED <<setting, session, conn, recvQueue, process>>
      /\ update' = IF dead = {} THEN [update EXCEPT !.pc = "tick"]
                                ELSE [pc |-> "release", list |-> dead, done |-> {}]
  BY Zenon DEF Scan
<1>2. \A s \in dead : s \in Session /\ session[s].used
  BY Zenon DEF Dead
<1>3. update.list = {} /\ update.done = {}
  BY <1>1, Zenon DEF SInv, Shapes, UpdateShape
<1> HIDE DEF dead
<1>4. /\ UpdateShape' /\ update'.list \subseteq dead /\ update'.done = {}
      /\ update'.pc # "free"
  BY <1>1, <1>2, <1>3, Zenon DEF SInv, Shapes, UpdateShape
<1>5. NoDoubleFree'
  BY <1>1, <1>2, <1>4, Zenon DEF NoDoubleFree
<1>6. ASSUME ~setting.overlap PROVE Bound'
  <2>1. process.pc = "pop" /\ Bound
    BY <1>1, <1>6, NoOverlap, Zenon DEF SInv
  <2> QED  BY <1>1, <1>4, <2>1, Zenon DEF Bound, Released
<1>7. SessionShape' /\ ConnShape' /\ ProcessShape'
  BY <1>1, Zenon DEF SInv, Shapes, SessionShape, ConnShape, ProcessShape
<1> QED  BY <1>1, <1>4, <1>5, <1>6, <1>7, Zenon DEF SInv, Shapes

(* The connector of a released session has no param, and no other          *)
(* connector had the session for its param.                                *)
LEMMA ReleaseParams ==
    ASSUME SInv, NEW s \in Session, Release(s)
    PROVE  /\ ConnShape'
           /\ \A c \in Connector : \/ conn'[c].param = conn[c].param /\ c # session[s].conn
                                   \/ conn'[c].param = Null
<1> DEFINE k == session[s].conn
<1>1. ConnShape /\ k \in Connector \cup {Null}
  BY Zenon DEF SInv, Shapes, SessionShape
<1>2. conn' = IF k = Null THEN conn
              ELSE [conn EXCEPT ![k] = TryRelease([conn[k] EXCEPT !.param = Null])]
  BY Zenon DEF Release
<1> HIDE DEF k
<1>3. CASE k = Null
  BY <1>1, <1>2, <1>3, ConstantsAssumption, Zenon DEF ConnShape, k
<1>4. CASE k # Null
  <2>1. k \in Connector
    BY <1>1, <1>4, Zenon
  <2>2. PICK u : TryRelease([conn[k] EXCEPT !.param = Null])
                   = [[conn[k] EXCEPT !.param = Null] EXCEPT !.active = FALSE, !.used = u]
    BY Zenon DEF TryRelease
  <2>3. conn' = [conn EXCEPT ![k] = [[conn[k] EXCEPT !.param = Null] EXCEPT !.active = FALSE, !.used = u]]
    BY <1>2, <1>4, <2>2, Zenon
  <2>4. DOMAIN conn' = Connector /\ \A c \in Connector \ {k} : conn'[c] = conn[c]
    BY <1>1, <2>3, Zenon DEF ConnShape
  <2>5. DOMAIN conn'[k] = DOMAIN conn[k] /\ conn'[k].param = Null
    BY <1>1, <2>1, <2>3, Zenon DEF ConnShape
  <2> QED  BY <1>1, <2>4, <2>5, Zenon DEF ConnShape, k
<1> QED  BY <1>3, <1>4, Zenon

LEMMA ReleaseKeeps ==
    ASSUME SInv, NEW s \in Session, Release(s)
    PROVE  SInv'
<1>1. /\ update.pc = "release" /\ MayUpdate /\ s \in update.list
      /\ UNCHANGED <<setting, session, recvQueue, process>>
      /\ ReleaseNext(s)
  BY Zenon DEF Release
<1>2. ConnShape'
  BY ReleaseParams, Zenon
<1>3. /\ UpdateShape'
      /\ update'.list \cup update'.done \subseteq update.list \cup update.done
      /\ Released' \subseteq update.done \cup {s}
  <2>1. CASE update.list = {s}
    BY <1>1, <2>1, Zenon DEF SInv, Shapes, UpdateShape, ReleaseNext, Released
  <2>2. CASE update.list # {s}
    <3>1. update' = [update EXCEPT !.list = @ \ {s}, !.done = @ \cup {s}]
      BY <1>1, <2>2, Zenon DEF ReleaseNext
    <3>2. /\ update'.pc = "release" /\ update'.list = update.list \ {s}
          /\ update'.done = update.done \cup {s} /\ DOMAIN update' = DOMAIN update
      BY <1>1, <3>1, Zenon DEF SInv, Shapes, UpdateShape
    <3> QED  BY <1>1, <3>2, Zenon DEF SInv, Shapes, UpdateShape, Released
  <2> QED  BY <2>1, <2>2, Zenon
<1>4. NoDoubleFree'
  BY <1>1, <1>3, Zenon DEF SInv, NoDoubleFree
<1>5. ASSUME ~setting.overlap PROVE Bound'
  <2>1. process.pc = "pop" /\ Bound
    BY <1>1, <1>5, NoOverlap, Zenon DEF SInv
  <2>2. ASSUME NEW c \in Connector, conn'[c].param # Null
        PROVE  /\ session'[conn'[c].param].used /\ session'[conn'[c].param].conn = c
               /\ conn'[c].param \notin Released'
    <3>1. conn'[c].param = conn[c].param /\ c # session[s].conn
      BY <2>2, ReleaseParams, Zenon
    <3>2. /\ session[conn[c].param].used /\ session[conn[c].param].conn = c
          /\ conn[c].param \notin update.done
      BY <1>1, <2>1, <2>2, <3>1, Zenon DEF Bound, Released
    <3>3. conn[c].param # s
      BY <3>1, <3>2, Zenon
    <3> QED  BY <1>1, <1>3, <3>1, <3>2, <3>3, Zenon
  <2>3. Null \notin Released'
    BY <1>3, ConstantsAssumption, Zenon DEF UpdateShape, Released
  <2> QED  BY <1>1, <2>1, <2>2, <2>3, Zenon DEF Bound
<1>6. SessionShape' /\ ProcessShape'
  BY <1>1, Zenon DEF SInv, Shapes, SessionShape, ProcessShape
<1> QED  BY <1>1, <1>2, <1>3, <1>4, <1>5, <1>6, Zenon DEF SInv, Shapes

LEMMA FreeKeeps ==
    ASSUME SInv, NEW s \in Session, Free(s)
    PROVE  SInv'
<1>1. /\ update.pc = "free" /\ MayUpdate /\ s \in update.list
      /\ UNCHANGED <<setting, conn, recvQueue, process>>
      /\ session' = [session EXCEPT ![s] = FreeSession]
      /\ update' = [update EXCEPT !.pc = IF update.list = {s} THEN "tick" ELSE @, !.list = @ \ {s}]
  BY Zenon DEF Free
<1>2. /\ DOMAIN update' = DOMAIN update /\ update'.list = update.list \ {s}
      /\ update'.done = {} /\ update.done = {}
      /\ update'.pc = IF update.list = {s} THEN "tick" ELSE "free"
  BY <1>1, Zenon DEF SInv, Shapes, UpdateShape
<1>3. UpdateShape'
  BY <1>2, Zenon DEF SInv, Shapes, UpdateShape
<1>4. SessionShape' /\ \A x \in Session \ {s} : session'[x] = session[x]
  <2>1. {"used", "conn", "token", "zone"} = DOMAIN FreeSession /\ FreeSession.conn = Null
    BY Zenon DEF FreeSession, NewSession
  <2> QED  BY <1>1, <2>1, Zenon DEF SInv, Shapes, SessionShape
<1>5. NoDoubleFree'
  BY <1>2, <1>4, Zenon DEF SInv, Shapes, UpdateShape, NoDoubleFree
<1>6. ASSUME ~setting.overlap PROVE Bound'
  <2>1. process.pc = "pop" /\ Bound
    BY <1>1, <1>6, NoOverlap, Zenon DEF SInv
  <2>2. ASSUME NEW c \in Connector, conn[c].param # Null
        PROVE  session'[conn[c].param].used /\ session'[conn[c].param].conn = c
    <3>1. conn[c].param \in Session \ {s}
      BY <1>1, <2>1, <2>2, Zenon DEF Bound, Released, SInv, Shapes, ConnShape
    <3> QED  BY <1>4, <2>1, <2>2, <3>1, Zenon DEF Bound
  <2>3. Released' \subseteq Released
    BY <1>1, <1>2, Zenon DEF Released
  <2> QED  BY <1>1, <2>1, <2>2, <2>3, Zenon DEF Bound
<1>7. ConnShape' /\ ProcessShape'
  BY <1>1, Zenon DEF SInv, Shapes, ConnShape, ProcessShape
<1> QED  BY <1>1, <1>3, <1>4, <1>5, <1>6, <1>7, Zenon DEF SInv, Shapes

LEMMA FireOpsKeeps ==
    ASSUME SInv, FireOps
    PROVE  SInv'
<1>1. UNCHANGED <<setting, conn, recvQueue, process, update>>
  BY Zenon DEF FireOps
<1>2. UNCHANGED session \/ \E x : session' = [session EXCEPT ![x].zone = 0]
  BY Zenon DEF FireOps, LeaveCharacter
<1>3. SessionShape
  BY Zenon DEF SInv, Shapes
<1>4. KeepsSessions
  BY <1>2, <1>3 DEF SessionShape, KeepsSessions
<1>5. ProcessShape'
  BY <1>1, Zenon DEF SInv, Shapes, ProcessShape
<1> QED  BY <1>1, <1>4, <1>5, KeptParams, UpdateUnused, Zenon

(* SwapOpList and TickEnds only change update.pc, with empty lists.        *)
LEMMA TickKeeps ==
    ASSUME SInv, SwapOpList \/ TickEnds
    PROVE  SInv'
<1>1. UNCHANGED <<setting, session, conn, recvQueue, process>>
  BY Zenon DEF SwapOpList, TickEnds
<1>2. /\ update.pc \notin {"release", "free"}
      /\ \E pc \in {"fire", "scan"} : update' = [update EXCEPT !.pc = pc]
  BY Zenon DEF SwapOpList, TickEnds
<1>3. /\ UpdateShape' /\ update'.list = {} /\ update'.done = {}
      /\ update.list = {} /\ update.done = {}
  BY <1>2, Zenon DEF SInv, Shapes, UpdateShape
<1>4. Released' = {} /\ Released = {}
  BY <1>3, Zenon DEF Released
<1>5. NoDoubleFree' /\ (~setting.overlap => Bound')
  BY <1>1, <1>3, <1>4, Zenon DEF SInv, NoDoubleFree, Bound
<1>6. SessionShape' /\ ConnShape' /\ ProcessShape'
  BY <1>1, Zenon DEF SInv, Shapes, SessionShape, ConnShape, ProcessShape
<1> QED  BY <1>1, <1>3, <1>5, <1>6, Zenon DEF SInv, Shapes

-----------------------------------------------------------------------------
LEMMA SInitInv == Init => SInv
<1> SUFFICES ASSUME Init PROVE SInv
  BY Zenon
<1>1. \A s \in Session : session[s] = FreeSession
  BY Zenon DEF Init
<1>2. {"used", "conn", "token", "zone"} = DOMAIN FreeSession /\ FreeSession.conn = Null
  BY Zenon DEF FreeSession, NewSession
<1>3. SessionShape
  BY <1>1, <1>2, Zenon DEF Init, SessionShape
<1>4. ConnShape /\ \A c \in Connector : conn[c].param = Null
  BY Zenon DEF Init, ConnShape
<1>5. ProcessShape /\ process.pc = "pop"
  BY DEF Init, Idle, ProcessShape
<1>6. UpdateShape /\ update.list = {} /\ update.done = {}
  BY Zenon DEF Init, UpdateShape
<1> QED  BY <1>3, <1>4, <1>5, <1>6, Zenon DEF SInv, Shapes, NoDoubleFree, Bound, Released

LEMMA SNextInv == SInv /\ [Next]_vars => SInv'
<1> SUFFICES ASSUME SInv, [Next]_vars PROVE SInv'
  BY Zenon
<1>1. ASSUME NEW c \in Connector,
             \/ Accept(c) \/ PeerClose(c) \/ Disconnect(c)
             \/ \E op \in ClientOps : Receive(c, op)
      PROVE  SInv'
  BY <1>1, NetworkKeeps, Zenon DEF NetworkStep
<1>2. CASE ProcessThread
  BY <1>2, GetSessionKeeps, BindSessionKeeps, MessageProcessKeeps, Zenon DEF ProcessThread
<1>3. CASE DoUpdate
  BY <1>3, ScanKeeps, ReleaseKeeps, FreeKeeps, Zenon DEF DoUpdate
<1>4. CASE Tick
  BY <1>4, FireOpsKeeps, TickKeeps, Zenon DEF Tick
<1>5. ASSUME NEW s \in Session, HeartbeatOver(s) PROVE SInv'
  <2>1. session[s].conn # Null
    BY <1>5, Zenon DEF HeartbeatOver, Dead
  <2>2. session[s].conn \in Connector
    BY <2>1, Zenon DEF SInv, Shapes, SessionShape
  <2> QED  BY <1>5, <2>2, NetworkKeeps, Zenon DEF NetworkStep
<1>6. CASE UNCHANGED vars
  <2>1. UNCHANGED <<setting, session, conn, recvQueue, process, update>>
    BY <1>6, Zenon DEF vars
  <2>2. ProcessShape'
    BY <2>1, Zenon DEF SInv, Shapes, ProcessShape
  <2> QED  BY <2>1, <2>2, KeptSessions, KeptParams, UpdateUnused, Zenon
<1> QED  BY <1>1, <1>2, <1>3, <1>4, <1>5, <1>6, Zenon DEF Next

(* UserSessionMgr::DoUpdate gives a session to SetFreeObject only while it *)
(* is in _usedList, in every schedule: ObjectMgrBase, which does not look, *)
(* never gets an object twice.                                             *)
THEOREM NeverFreedTwice == Spec => []NoDoubleFree
<1>1. SInv => NoDoubleFree
  BY Zenon DEF SInv
<1> QED  BY <1>1, SInitInv, SNextInv, PTL DEF Spec

(* While DoUpdate does not run in the middle of a packet's handling, a     *)
(* connector's param leads to the session in use that has this connector.  *)
THEOREM ParamAlwaysBound == Spec => []ParamBound
<1>1. SInv => ParamBound
  BY Zenon DEF SInv, Bound, ParamBound
<1> QED  BY <1>1, SInitInv, SNextInv, PTL DEF Spec

(* Under the same assumption App::ProcessThread works on a session in use. *)
THEOREM HandledAlwaysInUse == Spec => []HandledInUse
<1>1. SInv => HandledInUse
  BY Zenon DEF SInv, Bound, HandledInUse
<1> QED  BY <1>1, SInitInv, SNextInv, PTL DEF Spec

-----------------------------------------------------------------------------
(* _userMap in a calm setting.                                             *)

(* An authentication of c's client is on its way to ProcessThread, or in   *)
(* its hands.                                                              *)
AuthAt(i, c) == i \in 1..Len(recvQueue) /\ recvQueue[i].conn = c /\ recvQueue[i].op = "auth"
AuthInHand(c) == process.pc # "pop" /\ process.conn = c /\ process.op = "auth"

(* The session of c, if it has one, has no token.                          *)
Unnamed(c) == conn[c].param # Null => session[conn[c].param].token = NoToken

(* A client that authenticates once: at most one authentication of each    *)
(* connection is under way, and while it is, the session has no token yet. *)
OneAuth ==
    /\ \A c \in Connector, i \in Nat : AuthAt(i, c) =>
          /\ sent[c] /\ Unnamed(c) /\ ~AuthInHand(c)
          /\ \A j \in Nat : AuthAt(j, c) => j = i
    /\ \A c \in Connector : AuthInHand(c) => sent[c] /\ Unnamed(c)
    /\ \A c \in Connector : ~sent[c] => Unnamed(c)

(* The session in ProcessThread's hands.                                   *)
InHand ==
    /\ process.pc = "bind" => session[process.sess].token = NoToken
    /\ process.pc = "handle" => conn[process.conn].param = process.sess

(* _userMap and the sessions' tokens are inverse to each other, and tokens *)
(* are not used twice.                                                     *)
Mapped ==
    /\ \A s \in Session : session[s].token \in Token => userMap[session[s].token] = s
    /\ \A t \in Token : userMap[t] # Null =>
          /\ session[userMap[t]].used /\ session[userMap[t]].token = t
          /\ session[userMap[t]].conn # Null

TokenShape ==
    /\ nextToken \in Nat \ {0}
    /\ DOMAIN userMap = Token /\ \A t \in Token : userMap[t] \in Session \cup {Null}
    /\ \A s \in Session : session[s].token \in Nat /\ session[s].token < nextToken
    /\ DOMAIN sent = Connector

LInv == Calm => TokenShape /\ Mapped /\ InHand /\ OneAuth

SameTokens == \A s \in Session : session'[s].token = session[s].token

(* Steps that leave the tokens and the packets alone; a param may be lost  *)
(* while ProcessThread has no packet.                                      *)
LEMMA LiveUnused ==
    ASSUME SInv, LInv, KeepsSessions, SameTokens, ConnShape',
           UNCHANGED <<setting, sent, recvQueue, process, userMap, nextToken>>,
           \A c \in Connector : \/ conn'[c].param = conn[c].param
                                \/ conn'[c].param = Null /\ (Calm => process.pc = "pop")
    PROVE  LInv'
<1> SUFFICES ASSUME Calm' PROVE (TokenShape /\ Mapped /\ InHand /\ OneAuth)'
  BY Zenon DEF LInv
<1>1. Calm /\ TokenShape /\ Mapped /\ InHand /\ OneAuth
  BY Zenon DEF Calm, LInv
<1>2. TokenShape'
  BY <1>1, Zenon DEF TokenShape, SameTokens
<1>3. Mapped'
  BY <1>1 DEF Mapped, TokenShape, SameTokens, KeepsSessions
<1>4. InHand'
  BY <1>1, Zenon DEF InHand, SameTokens, SInv, Shapes, ProcessShape
<1>5. \A c \in Connector : Unnamed(c) => Unnamed(c)'
  BY Zenon DEF Unnamed, SameTokens, SInv, Shapes, ConnShape
<1>6. OneAuth'
  BY <1>1, <1>5, Zenon DEF OneAuth, AuthAt, AuthInHand
<1> QED  BY <1>2, <1>3, <1>4, <1>6, Zenon

LEMMA LiveStill ==
    ASSUME SInv, LInv, UNCHANGED <<setting, session, conn, sent, recvQueue, process, userMap, nextToken>>
    PROVE  LInv'
<1>1. KeepsSessions /\ KeepsParams /\ SameTokens
  BY KeptSessions, KeptParams, Zenon DEF SameTokens
<1> QED  BY <1>1, LiveUnused, Zenon DEF KeepsParams

(* A calm Accept finds a connector without packets or a session.           *)
LEMMA AcceptLive ==
    ASSUME SInv, LInv, NEW c \in Connector, Accept(c)
    PROVE  LInv'
<1> SUFFICES ASSUME Calm' PROVE (TokenShape /\ Mapped /\ InHand /\ OneAuth)'
  BY Zenon DEF LInv
<1>1. /\ UNCHANGED <<setting, session, recvQueue, process, userMap, nextToken>>
      /\ sent' = [sent EXCEPT ![c] = FALSE]
      /\ setting.late \/ Drained(c)
  BY Zenon DEF Accept
<1>2. Calm /\ TokenShape /\ Mapped /\ InHand /\ OneAuth
  BY <1>1, Zenon DEF Calm, LInv
<1>3. Drained(c)
  BY <1>1, <1>2, Zenon DEF Calm
<1>4. \A k \in Connector : conn'[k].param = conn[k].param
  BY NetworkParams, Zenon DEF NetworkStep, KeepsParams
<1>5. TokenShape' /\ Mapped'
  BY <1>1, <1>2, Zenon DEF TokenShape, Mapped
<1>6. InHand'
  BY <1>1, <1>2, <1>4, Zenon DEF InHand, SInv, Shapes, ProcessShape
<1>7. \A k \in Connector : Unnamed(k) => Unnamed(k)'
  BY <1>1, <1>4, Zenon DEF Unnamed
<1>8. Unnamed(c) /\ ~AuthInHand(c) /\ \A i \in Nat : ~AuthAt(i, c)
  <2>1. DOMAIN recvQueue = 1..Len(recvQueue)
    BY DEF SInv, Shapes, ProcessShape
  <2> QED  BY <1>3, <2>1, Zenon DEF Drained, Unnamed, AuthInHand, AuthAt
<1>9. \A k \in Connector : (sent'[k] <=> sent[k] /\ k # c)
  BY <1>1, <1>2, Zenon DEF TokenShape
<1>10. \A k \in Connector : /\ AuthInHand(k)' <=> AuthInHand(k)
                            /\ \A i \in Nat : AuthAt(i, k)' <=> AuthAt(i, k)
  BY <1>1, Zenon DEF AuthInHand, AuthAt
<1>11. OneAuth'
  BY <1>2, <1>7, <1>8, <1>9, <1>10 DEF OneAuth
<1> QED  BY <1>5, <1>6, <1>11, Zenon

(* Receive: an authentication is the first one of its connection.          *)
LEMMA ReceiveLive ==
    ASSUME SInv, LInv, NEW c \in Connector, NEW op \in ClientOps, Receive(c, op)
    PROVE  LInv'
<1> SUFFICES ASSUME Calm' PROVE (TokenShape /\ Mapped /\ InHand /\ OneAuth)'
  BY Zenon DEF LInv
<1>1. /\ UNCHANGED <<setting, session, conn, process, userMap, nextToken>>
      /\ recvQueue' = Append(recvQueue, [conn |-> c, op |-> op])
      /\ sent' = [sent EXCEPT ![c] = @ \/ op = "auth"]
      /\ op = "auth" => setting.reauth \/ ~sent[c]
  BY Zenon DEF Receive
<1>2. Calm /\ TokenShape /\ Mapped /\ InHand /\ OneAuth
  BY <1>1, Zenon DEF Calm, LInv
<1>3. op = "auth" => ~sent[c]
  BY <1>1, <1>2, Zenon DEF Calm
<1>4. TokenShape' /\ Mapped' /\ InHand'
  BY <1>1, <1>2, Zenon DEF TokenShape, Mapped, InHand
<1>5. \A k \in Connector : /\ Unnamed(k)' <=> Unnamed(k)
                           /\ AuthInHand(k)' <=> AuthInHand(k)
  BY <1>1, Zenon DEF Unnamed, AuthInHand
<1>6. \A k \in Connector : (sent'[k] <=> sent[k] \/ (k = c /\ op = "auth"))
  BY <1>1, <1>2, Zenon DEF TokenShape
<1>7. \A k \in Connector, i \in Nat :
         AuthAt(i, k)' <=> AuthAt(i, k) \/ (i = Len(recvQueue) + 1 /\ k = c /\ op = "auth")
  <2>1. recvQueue \in Seq(Packets)
    BY Zenon DEF SInv, Shapes, ProcessShape
  <2>2. /\ Len(recvQueue) \in Nat /\ Len(recvQueue') = Len(recvQueue) + 1
        /\ \A i \in 1..Len(recvQueue) : recvQueue'[i] = recvQueue[i]
        /\ recvQueue'[Len(recvQueue) + 1] = [conn |-> c, op |-> op]
    <3> HIDE DEF Packets
    <3> QED  BY <1>1, <2>1
  <2> QED  BY <2>2 DEF AuthAt
<1>8. OneAuth'
  BY <1>2, <1>3, <1>5, <1>6, <1>7 DEF OneAuth
<1> QED  BY <1>4, <1>8, Zenon

(* GetSession takes the packet out of the queue; a new session has no      *)
(* token.                                                                  *)
LEMMA GetSessionLive ==
    ASSUME SInv, LInv, GetSession
    PROVE  LInv'
<1> SUFFICES ASSUME Calm' PROVE (TokenShape /\ Mapped /\ InHand /\ OneAuth)'
  BY Zenon DEF LInv
<1> DEFINE p == Head(recvQueue)
           s == conn[p.conn].param
           taken == /\ s # Null /\ UNCHANGED session
                    /\ process' = [pc |-> "handle", sess |-> s, conn |-> p.conn, op |-> p.op]
           given(free) == /\ s = Null /\ ~session[free].used
                          /\ session' = [session EXCEPT ![free] = NewSession]
                          /\ process' = [pc |-> "bind", sess |-> free, conn |-> p.conn, op |-> p.op]
<1>1. /\ process.pc = "pop" /\ recvQueue # << >> /\ recvQueue' = Tail(recvQueue)
      /\ UNCHANGED <<setting, conn, sent, userMap, nextToken>>
      /\ taken \/ \E free \in Session : given(free)
  BY Zenon DEF GetSession
<1>2. Calm /\ TokenShape /\ Mapped /\ OneAuth /\ Bound
  BY <1>1, Zenon DEF Calm, LInv, SInv
<1>3. recvQueue \in Seq(Packets)
  BY Zenon DEF SInv, Shapes, ProcessShape
<1>4. /\ Len(recvQueue) \in Nat \ {0} /\ p = recvQueue[1] /\ p \in Packets
      /\ Len(recvQueue') = Len(recvQueue) - 1
      /\ \A i \in 1..Len(recvQueue') : recvQueue'[i] = recvQueue[i + 1]
  <2> HIDE DEF Packets
  <2> QED  BY <1>1, <1>3
<1>5. p.conn \in Connector /\ s \in Session \cup {Null}
  BY <1>4, Zenon DEF Packets, SInv, Shapes, ConnShape
<1>6. /\ process'.pc # "pop" /\ process'.conn = p.conn /\ process'.op = p.op
      /\ process'.sess \in Session
  BY <1>1, <1>5
<1>7. \A c \in Connector, i \in Nat : AuthAt(i, c)' => AuthAt(i + 1, c)
  BY <1>4 DEF AuthAt
<1>8. \A c \in Connector : AuthInHand(c)' <=> AuthAt(1, c)
  BY <1>4, <1>6 DEF AuthInHand, AuthAt
<1> HIDE DEF p, s
<1>9. /\ \A x \in Session : session'[x] = session[x] \/ (~session[x].used /\ session'[x] = NewSession)
      /\ DOMAIN session' = Session
  BY <1>1, Zenon DEF SInv, Shapes, SessionShape
<1>10. NewSession.token = NoToken
  BY Zenon DEF NewSession
<1>11. TokenShape'
  BY <1>1, <1>2, <1>9, <1>10 DEF TokenShape, NoToken
<1>12. Mapped'
  <2>1. \A t \in Token : userMap[t] # Null => session'[userMap[t]] = session[userMap[t]]
    BY <1>2, <1>9, Zenon DEF Mapped, TokenShape
  <2>2. NoToken \notin Token
    BY ConstantsAssumption DEF NoToken, Token
  <2>3. \A x \in Session : session'[x].token \in Token => session'[x] = session[x]
    BY <1>9, <1>10, <2>2, Zenon
  <2> QED  BY <1>1, <1>2, <2>1, <2>3 DEF Mapped
<1>13. InHand'
  <2>1. CASE taken
    BY <1>1, <2>1, Zenon DEF InHand, s
  <2>2. ASSUME NEW free \in Session, given(free) PROVE InHand'
    <3>1. process'.pc = "bind" /\ process'.sess = free /\ session'[free] = NewSession
      BY <2>2, Zenon DEF SInv, Shapes, SessionShape
    <3> QED  BY <1>10, <3>1, Zenon DEF InHand
  <2> QED  BY <1>1, <2>1, <2>2, Zenon
<1>14. \A c \in Connector : Unnamed(c) => Unnamed(c)'
  BY <1>1, <1>9, <1>10, Zenon DEF Unnamed, SInv, Shapes, ConnShape
<1>15. OneAuth'
  <2>1. ASSUME NEW c \in Connector, NEW i \in Nat, AuthAt(i, c)'
        PROVE  /\ sent'[c] /\ Unnamed(c)' /\ ~AuthInHand(c)'
               /\ \A j \in Nat : AuthAt(j, c)' => j = i
    <3>1. AuthAt(i + 1, c) /\ i # 0
      BY <1>7, <2>1 DEF AuthAt
    <3>2. \A j \in Nat : AuthAt(j, c) => j = i + 1
      BY <1>2, <3>1 DEF OneAuth
    <3> QED  BY <1>1, <1>2, <1>7, <1>8, <1>14, <3>1, <3>2 DEF OneAuth
  <2> QED  BY <1>1, <1>2, <1>8, <1>14, <2>1, Zenon DEF OneAuth
<1> QED  BY <1>11, <1>12, <1>13, <1>15, Zenon

LEMMA BindSessionLive ==
    ASSUME SInv, LInv, BindSession
    PROVE  LInv'
<1> SUFFICES ASSUME Calm' PROVE (TokenShape /\ Mapped /\ InHand /\ OneAuth)'
  BY Zenon DEF LInv
<1> DEFINE s == process.sess
           k == process.conn
<1>1. /\ process.pc = "bind" /\ UNCHANGED <<setting, sent, recvQueue, userMap, nextToken>>
      /\ conn' = [conn EXCEPT ![k].param = s]
      /\ session' = [session EXCEPT ![s].conn = k]
      /\ process' = [process EXCEPT !.pc = "handle"]
  BY Zenon DEF BindSession
<1>2. Calm /\ TokenShape /\ Mapped /\ InHand /\ OneAuth
  BY <1>1, Zenon DEF Calm, LInv
<1>3. s \in Session /\ k \in Connector
  BY <1>1, Zenon DEF SInv, Shapes, ProcessShape
<1>4. /\ conn'[k].param = s /\ \A c \in Connector \ {k} : conn'[c] = conn[c]
      /\ session'[s].conn = k /\ \A x \in Session \ {s} : session'[x] = session[x]
      /\ session'[s].token = session[s].token /\ session'[s].used = session[s].used
  BY <1>1, <1>3, Zenon DEF SInv, Shapes, ConnShape, SessionShape
<1>5. /\ process'.pc = "handle" /\ process'.sess = s /\ process'.conn = k
      /\ process'.op = process.op
  BY <1>1 DEF SInv, Shapes, ProcessShape
<1>6. session[s].token = NoToken
  BY <1>1, <1>2, Zenon DEF InHand
<1>7. TokenShape'
  BY <1>1, <1>2, <1>4, Zenon DEF TokenShape
<1>8. k # Null
  BY <1>3, ConstantsAssumption, Zenon
<1>9. Mapped'
  BY <1>1, <1>2, <1>4, <1>8 DEF Mapped, TokenShape
<1>10. InHand'
  BY <1>4, <1>5, Zenon DEF InHand
<1>11. \A c \in Connector : Unnamed(c) => Unnamed(c)'
  BY <1>4, <1>6 DEF Unnamed, SInv, Shapes, ConnShape
<1>12. \A c \in Connector : /\ AuthInHand(c)' <=> AuthInHand(c)
                            /\ \A i \in Nat : AuthAt(i, c)' <=> AuthAt(i, c)
  BY <1>1, <1>5, Zenon DEF AuthInHand, AuthAt
<1>13. OneAuth'
  BY <1>1, <1>2, <1>11, <1>12, Zenon DEF OneAuth
<1> QED  BY <1>7, <1>9, <1>10, <1>13, Zenon

(* C2S_Auth gives a token to a session that has none.                      *)
LEMMA AuthLive ==
    ASSUME SInv, LInv, MessageProcess, process.op = "auth", C2S_Auth(process.sess)
    PROVE  LInv'
<1> SUFFICES ASSUME Calm' PROVE (TokenShape /\ Mapped /\ InHand /\ OneAuth)'
  BY Zenon DEF LInv
<1> DEFINE s == process.sess
           k == process.conn
<1>1. /\ process.pc = "handle" /\ process' = Idle
      /\ UNCHANGED <<setting, conn, sent, recvQueue>>
  BY Zenon DEF MessageProcess
<1>2. /\ session' = [session EXCEPT ![s].token = nextToken]
      /\ userMap' = [userMap EXCEPT ![nextToken] = s]
      /\ nextToken' = nextToken + 1
  BY Zenon DEF C2S_Auth
<1>3. Calm /\ TokenShape /\ Mapped /\ InHand /\ OneAuth /\ Bound
  BY <1>1, Zenon DEF Calm, LInv, SInv
<1>4. s \in Session /\ k \in Connector
  BY <1>1, Zenon DEF SInv, Shapes, ProcessShape
<1>5. conn[k].param = s /\ AuthInHand(k)
  BY <1>1, <1>3, Zenon DEF InHand, AuthInHand
<1>6. s # Null /\ k # Null
  BY <1>4, ConstantsAssumption, Zenon
<1>7. session[s].token = NoToken /\ sent[k] /\ session[s].conn = k /\ session[s].used
  BY <1>3, <1>4, <1>5, <1>6 DEF OneAuth, Unnamed, Bound
<1>8. /\ session'[s].token = nextToken /\ session'[s].conn = k /\ session'[s].used
      /\ \A x \in Session \ {s} : session'[x] = session[x]
  BY <1>2, <1>4, <1>7, Zenon DEF SInv, Shapes, SessionShape
<1>9. /\ DOMAIN userMap' = Token
      /\ \A t \in Token : userMap'[t] = IF t = nextToken THEN s ELSE userMap[t]
  BY <1>2, <1>3, Zenon DEF TokenShape
<1>10. TokenShape'
  <2>1. nextToken' \in Nat \ {0} /\ nextToken < nextToken' /\ nextToken \in Nat
    BY <1>2, <1>3 DEF TokenShape
  <2>2. \A x \in Session : session'[x].token \in Nat /\ session'[x].token < nextToken'
    BY <1>3, <1>8, <2>1 DEF TokenShape
  <2>3. \A t \in Token : userMap'[t] \in Session \cup {Null}
    BY <1>3, <1>4, <1>9, Zenon DEF TokenShape
  <2> QED  BY <1>1, <1>3, <1>9, <2>1, <2>2, <2>3, Zenon DEF TokenShape
<1>11. Mapped'
  <2>1. NoToken \notin Token
    BY ConstantsAssumption DEF NoToken, Token
  <2>2. \A t \in Token : userMap[t] # s /\ (userMap[t] # Null => t # nextToken)
    <3>1. \A x \in Session : session[x].token # nextToken
      BY <1>3 DEF TokenShape
    <3> QED  BY <1>3, <1>6, <1>7, <2>1, <3>1, Zenon DEF Mapped, TokenShape
  <2>3. \A x \in Session : session'[x].token \in Token => userMap'[session'[x].token] = x
    <3>1. ASSUME NEW x \in Session, session'[x].token \in Token, x # s
          PROVE  userMap'[session'[x].token] = x
      <4>1. session[x].token \in Token /\ session'[x].token = session[x].token
        BY <1>8, <3>1, Zenon
      <4>2. userMap[session[x].token] = x /\ session[x].token < nextToken /\ nextToken \in Nat
        BY <1>3, <4>1, Zenon DEF Mapped, TokenShape
      <4> QED  BY <1>3, <1>9, <4>1, <4>2 DEF TokenShape
    <3> QED  BY <1>8, <1>9, <3>1, Zenon
  <2>4. \A t \in Token : userMap'[t] # Null =>
           /\ session'[userMap'[t]].used /\ session'[userMap'[t]].token = t
           /\ session'[userMap'[t]].conn # Null
    BY <1>3, <1>6, <1>8, <1>9, <2>2 DEF Mapped, TokenShape
  <2> QED  BY <2>3, <2>4, Zenon DEF Mapped
<1>12. process'.pc = "pop"
  BY <1>1, Zenon DEF Idle
<1>13. InHand' /\ \A c \in Connector : ~AuthInHand(c)'
  BY <1>12, Zenon DEF InHand, AuthInHand
<1>14. \A c \in Connector : Unnamed(c) /\ c # k => Unnamed(c)'
  <2>1. ASSUME NEW c \in Connector, c # k, conn[c].param # Null
        PROVE  session'[conn[c].param] = session[conn[c].param]
    <3>1. conn[c].param \in Session /\ session[conn[c].param].conn = c
      BY <1>3, <2>1, Zenon DEF Bound, SInv, Shapes, ConnShape
    <3> QED  BY <1>7, <1>8, <2>1, <3>1, Zenon
  <2> QED  BY <1>1, <2>1, Zenon DEF Unnamed
<1>15. \A i \in Nat : ~AuthAt(i, k)
  BY <1>3, <1>4, <1>5, Zenon DEF OneAuth
<1>16. \A c \in Connector, i \in Nat : AuthAt(i, c)' <=> AuthAt(i, c)
  BY <1>1, Zenon DEF AuthAt
<1>17. OneAuth'
  BY <1>1, <1>3, <1>7, <1>13, <1>14, <1>15, <1>16 DEF OneAuth
<1> QED  BY <1>10, <1>11, <1>13, <1>17, Zenon

(* The other handlers leave the tokens alone.                              *)
LEMMA HandleLive ==
    ASSUME SInv, LInv, MessageProcess,
           C2S_Enter(process.sess) \/ C2S_Leave(process.sess) \/ C2S_Move(process.sess)
    PROVE  LInv'
<1> SUFFICES ASSUME Calm' PROVE (TokenShape /\ Mapped /\ InHand /\ OneAuth)'
  BY Zenon DEF LInv
<1>1. /\ process' = Idle /\ UNCHANGED <<setting, conn, sent, recvQueue>>
  BY Zenon DEF MessageProcess
<1>2. /\ UNCHANGED <<userMap, nextToken>>
      /\ UNCHANGED session \/ session' = [session EXCEPT ![process.sess].zone = 1]
  BY Zenon DEF C2S_Enter, C2S_Leave, C2S_Move
<1>3. Calm /\ TokenShape /\ Mapped /\ InHand /\ OneAuth
  BY <1>1, Zenon DEF Calm, LInv
<1>4. \A x \in Session : /\ session'[x].token = session[x].token
                         /\ session'[x].conn = session[x].conn
                         /\ session'[x].used = session[x].used
  BY <1>2 DEF SInv, Shapes, SessionShape
<1>5. TokenShape' /\ Mapped'
  BY <1>1, <1>2, <1>3, <1>4 DEF TokenShape, Mapped
<1>6. process'.pc = "pop"
  BY <1>1, Zenon DEF Idle
<1>7. InHand' /\ \A c \in Connector : ~AuthInHand(c)'
  BY <1>6, Zenon DEF InHand, AuthInHand
<1>8. \A c \in Connector : Unnamed(c) => Unnamed(c)'
  BY <1>1, <1>4, Zenon DEF Unnamed, SInv, Shapes, ConnShape
<1>9. \A c \in Connector, i \in Nat : AuthAt(i, c)' <=> AuthAt(i, c)
  BY <1>1, Zenon DEF AuthAt
<1>10. OneAuth'
  BY <1>1, <1>3, <1>7, <1>8, <1>9, Zenon DEF OneAuth
<1> QED  BY <1>5, <1>7, <1>10, Zenon

LEMMA ReleaseLive ==
    ASSUME SInv, LInv, NEW s \in Session, Release(s)
    PROVE  LInv'
<1>1. MayUpdate /\ UNCHANGED <<setting, session, sent, recvQueue, process, userMap, nextToken>>
  BY Zenon DEF Release
<1>2. Calm => process.pc = "pop"
  BY <1>1, NoOverlap, Zenon DEF Calm
<1>3. /\ ConnShape'
      /\ \A c \in Connector : conn'[c].param = conn[c].param \/ conn'[c].param = Null
  BY ReleaseParams, Zenon
<1>4. KeepsSessions /\ SameTokens
  BY <1>1, KeptSessions, Zenon DEF SameTokens
<1> QED  BY <1>1, <1>2, <1>3, <1>4, LiveUnused, Zenon

(* DelUserSessionMap takes out the one token that leads to the session.    *)
LEMMA FreeLive ==
    ASSUME SInv, LInv, NEW s \in Session, Free(s)
    PROVE  LInv'
<1> SUFFICES ASSUME Calm' PROVE (TokenShape /\ Mapped /\ InHand /\ OneAuth)'
  BY Zenon DEF LInv
<1>1. /\ MayUpdate /\ UNCHANGED <<setting, conn, sent, recvQueue, process, nextToken>>
      /\ userMap' = [t \in Token |-> IF t = session[s].token THEN Null ELSE userMap[t]]
      /\ session' = [session EXCEPT ![s] = FreeSession]
  BY Zenon DEF Free
<1>2. Calm /\ TokenShape /\ Mapped /\ InHand /\ OneAuth
  BY <1>1, Zenon DEF Calm, LInv
<1>3. process.pc = "pop"
  BY <1>1, <1>2, NoOverlap, Zenon DEF Calm
<1>4. /\ DOMAIN session' = Session /\ session'[s] = FreeSession
      /\ \A x \in Session \ {s} : session'[x] = session[x]
  BY <1>1, Zenon DEF SInv, Shapes, SessionShape
<1>5. FreeSession.token = NoToken
  BY Zenon DEF FreeSession, NewSession
<1>6. NoToken \notin Token
  BY ConstantsAssumption DEF NoToken, Token
<1>7. \A t \in Token : userMap'[t] = IF userMap[t] = s THEN Null ELSE userMap[t]
  <2>1. \A t \in Token : t = session[s].token <=> userMap[t] = s
    BY <1>2, ConstantsAssumption, Zenon DEF Mapped
  <2> QED  BY <1>1, <2>1, Zenon
<1>8. TokenShape'
  BY <1>1, <1>2, <1>4, <1>5, <1>7 DEF TokenShape, NoToken
<1>9. Mapped'
  BY <1>2, <1>4, <1>5, <1>6, <1>7 DEF Mapped, TokenShape
<1>10. InHand' /\ \A c \in Connector : ~AuthInHand(c)'
  BY <1>1, <1>3, Zenon DEF InHand, AuthInHand
<1>11. \A c \in Connector : Unnamed(c) => Unnamed(c)'
  BY <1>1, <1>4, <1>5, Zenon DEF Unnamed, SInv, Shapes, ConnShape
<1>12. \A c \in Connector, i \in Nat : AuthAt(i, c)' <=> AuthAt(i, c)
  BY <1>1, Zenon DEF AuthAt
<1>13. OneAuth'
  BY <1>1, <1>2, <1>10, <1>11, <1>12, Zenon DEF OneAuth
<1> QED  BY <1>8, <1>9, <1>10, <1>13, Zenon

LEMMA FireOpsLive ==
    ASSUME SInv, LInv, FireOps
    PROVE  LInv'
<1>1. UNCHANGED <<setting, conn, sent, recvQueue, process, userMap, nextToken>>
  BY Zenon DEF FireOps
<1>2. UNCHANGED session \/ \E x : session' = [session EXCEPT ![x].zone = 0]
  BY Zenon DEF FireOps, LeaveCharacter
<1>3. KeepsSessions /\ SameTokens
  BY <1>2 DEF SInv, Shapes, SessionShape, KeepsSessions, SameTokens
<1>4. KeepsParams
  BY <1>1, KeptParams, Zenon
<1> QED  BY <1>1, <1>3, <1>4, LiveUnused, Zenon DEF KeepsParams

LEMMA LiveInit == Init => LInv
<1> SUFFICES ASSUME Init PROVE TokenShape /\ Mapped /\ InHand /\ OneAuth
  BY Zenon DEF LInv
<1>1. \A s \in Session : session[s] = FreeSession
  BY Zenon DEF Init
<1>2. FreeSession.token = NoToken /\ NoToken \notin Token
  BY ConstantsAssumption DEF FreeSession, NewSession, NoToken, Token
<1>3. TokenShape
  BY <1>1, <1>2 DEF Init, TokenShape, NoToken
<1>4. Mapped
  BY <1>1, <1>2, Zenon DEF Init, Mapped
<1>5. process.pc = "pop" /\ recvQueue = << >>
  BY Zenon DEF Init, Idle
<1>6. InHand
  BY <1>5, Zenon DEF InHand
<1>7. \A c \in Connector : conn[c].param = Null
  BY Zenon DEF Init
<1>8. OneAuth
  BY <1>5, <1>7 DEF OneAuth, AuthAt, AuthInHand, Unnamed
<1> QED  BY <1>3, <1>4, <1>6, <1>8, Zenon

LEMMA LiveNext == SInv /\ LInv /\ [Next]_vars => LInv'
<1> SUFFICES ASSUME SInv, LInv, [Next]_vars PROVE LInv'
  BY Zenon
<1>1. ASSUME NEW c \in Connector, NetworkStep(c) PROVE LInv'
  <2>1. CASE Accept(c)
    BY <2>1, AcceptLive, Zenon
  <2>2. CASE \E op \in ClientOps : Receive(c, op)
    BY <2>2, ReceiveLive, Zenon
  <2>3. CASE PeerClose(c) \/ Disconnect(c) \/ \E s \in Session : HeartbeatOver(s)
    <3>1. UNCHANGED <<setting, session, sent, recvQueue, process, userMap, nextToken>>
      BY <2>3, Zenon DEF PeerClose, Disconnect, HeartbeatOver
    <3>2. KeepsParams /\ KeepsSessions /\ SameTokens
      BY <1>1, <3>1, NetworkParams, KeptSessions, Zenon DEF SameTokens
    <3> QED  BY <3>1, <3>2, LiveUnused, Zenon DEF KeepsParams
  <2> QED  BY <1>1, <2>1, <2>2, <2>3, Zenon DEF NetworkStep
<1>2. CASE ProcessThread
  <2>1. CASE MessageProcess
    BY <2>1, AuthLive, HandleLive, Zenon DEF MessageProcess
  <2> QED  BY <1>2, <2>1, GetSessionLive, BindSessionLive, Zenon DEF ProcessThread
<1>3. CASE DoUpdate
  <2>1. CASE Scan
    BY <2>1, LiveStill, Zenon DEF Scan
  <2> QED  BY <1>3, <2>1, ReleaseLive, FreeLive, Zenon DEF DoUpdate
<1>4. CASE Tick
  <2>1. CASE SwapOpList \/ TickEnds
    BY <2>1, LiveStill, Zenon DEF SwapOpList, TickEnds
  <2> QED  BY <1>4, <2>1, FireOpsLive, Zenon DEF Tick
<1>5. ASSUME NEW s \in Session, HeartbeatOver(s) PROVE LInv'
  <2>1. session[s].conn # Null
    BY <1>5, Zenon DEF HeartbeatOver, Dead
  <2>2. session[s].conn \in Connector
    BY <2>1, Zenon DEF SInv, Shapes, SessionShape
  <2> QED  BY <1>1, <1>5, <2>2, Zenon DEF NetworkStep
<1>6. CASE UNCHANGED vars
  BY <1>6, LiveStill, Zenon DEF vars
<1>7. ASSUME NEW c \in Connector,
             \/ Accept(c) \/ PeerClose(c) \/ Disconnect(c)
             \/ \E op \in ClientOps : Receive(c, op)
      PROVE  LInv'
  BY <1>1, <1>7, Zenon DEF NetworkStep
<1> QED  BY <1>2, <1>3, <1>4, <1>5, <1>6, <1>7, Zenon DEF Next

(* In a calm setting a token in UserSessionMgr::_userMap leads to the      *)
(* session in use that carries it, and that session has its connector: the *)
(* commands of command_unit_process.cpp, which follow the pointer without  *)
(* a check, find what they look for.  For any number of sessions,          *)
(* connectors, tokens, packets and commands.                               *)
THEOREM UserMapAlwaysLive == Spec => []UserMapLive
<1>1. LInv => UserMapLive
  BY Zenon DEF LInv, Mapped, UserMapLive
<1> QED  BY <1>1, SInitInv, SNextInv, LiveInit, LiveNext, PTL DEF Spec

-----------------------------------------------------------------------------
(* The zone, in a calm setting in which no client leaves it on its own: a  *)
(* session is released with a Leave for its character.                     *)

On(q, x) == \E i \in 1..Len(q) : q[i] = x

(* The command x is waiting, or FireOps is about to run it.                *)
Waits(x) == On(firing, x) \/ On(cmds, x)

(* The commands there are when no client leaves the zone on its own.       *)
EnterCmd(t) == [op |-> "Enter", token |-> t]
LeaveCmd(t) == [op |-> "Leave", token |-> t, zone |-> 1]
Cmd == {EnterCmd(t) : t \in Nat} \cup {LeaveCmd(t) : t \in Nat}
       \cup [op : {"List"}, token : Nat] \cup [op : {"Broadcast"}, zone : ZoneId]

ZoneShape ==
    /\ firing \in Seq(Cmd) /\ cmds \in Seq(Cmd)
    /\ update.pc # "fire" => firing = << >>
    /\ \A s \in Session : session[s].zone \in ZoneId
    /\ DOMAIN zone = Token \cup {NoToken}
    /\ \A i \in 1..Len(recvQueue) : recvQueue[i].op # "leave"
    /\ process.pc # "pop" => process.op # "leave"

(* An Enter is for a session that says it is in the zone; a Leave is for   *)
(* one that has been released, or is gone.                                 *)
Commanded ==
    /\ \A t \in Nat : Waits(EnterCmd(t)) =>
          t < nextToken /\ (t \in Token /\ userMap[t] # Null => session[userMap[t]].zone = 1)
    /\ \A t \in Nat : Waits(LeaveCmd(t)) =>
          t < nextToken /\ (t \in Token /\ userMap[t] # Null => userMap[t] \in Released)

(* A character in the zone belongs to a registered session that says so,   *)
(* and that one cannot be released without a Leave.                        *)
Accounted ==
    /\ \A t \in DOMAIN zone : zone[t] # Null =>
          Waits(LeaveCmd(t)) \/ (t \in Token /\ userMap[t] = zone[t] /\ session[zone[t]].zone = 1)
    /\ \A s \in Released : session[s].zone = 1 => Waits(LeaveCmd(session[s].token))
    /\ process.pc # "pop" => process.sess \notin Released

GInv == Calm /\ "leave" \notin setting.ops => ZoneShape /\ Commanded /\ Accounted

LEMMA OnAppend ==
    ASSUME NEW S, NEW q \in Seq(S), NEW y \in S, NEW x
    PROVE  On(Append(q, y), x) <=> On(q, x) \/ x = y
<1>1. /\ Len(q) \in Nat /\ Len(Append(q, y)) = Len(q) + 1
      /\ \A i \in 1..Len(q) : Append(q, y)[i] = q[i]
      /\ Append(q, y)[Len(q) + 1] = y
  OBVIOUS
<1> QED  BY <1>1 DEF On

LEMMA OnTail ==
    ASSUME NEW S, NEW q \in Seq(S), q # << >>, NEW x
    PROVE  On(q, x) <=> x = Head(q) \/ On(Tail(q), x)
<1>1. /\ Len(q) \in Nat \ {0} /\ Len(Tail(q)) = Len(q) - 1
      /\ \A i \in 1..Len(Tail(q)) : Tail(q)[i] = q[i + 1]
      /\ Head(q) = q[1]
  OBVIOUS
<1>2. ASSUME NEW i \in 1..Len(q), q[i] = x PROVE x = Head(q) \/ On(Tail(q), x)
  <2>1. CASE i = 1
    BY <1>1, <1>2, <2>1, Zenon
  <2>2. CASE i # 1
    <3>1. i - 1 \in 1..Len(Tail(q)) /\ (i - 1) + 1 = i
      BY <1>1, <2>2
    <3> QED  BY <1>1, <1>2, <3>1, Zenon DEF On
  <2> QED  BY <2>1, <2>2, Zenon
<1>3. \A i \in 1..Len(Tail(q)) : i + 1 \in 1..Len(q)
  BY <1>1
<1>4. On(Tail(q), x) => On(q, x)
  BY <1>1, <1>3, Zenon DEF On
<1>5. x = Head(q) => On(q, x)
  BY <1>1 DEF On
<1> QED  BY <1>2, <1>4, <1>5, Zenon DEF On

LEMMA OnEmpty == \A x : ~On(<< >>, x)
  BY DEF On

LEMMA PendingWaits ==
    ASSUME ZoneShape, NEW t
    PROVE  LeavePending(t) <=> Waits(LeaveCmd(t))
<1>1. firing \in Seq(Cmd) /\ cmds \in Seq(Cmd)
  BY Zenon DEF ZoneShape
<1> DEFINE q == firing \o cmds
<1>2. /\ Len(firing) \in Nat /\ Len(cmds) \in Nat
      /\ DOMAIN q = 1..(Len(firing) + Len(cmds))
      /\ \A i \in 1..Len(firing) : q[i] = firing[i]
      /\ \A i \in (Len(firing) + 1)..(Len(firing) + Len(cmds)) : q[i] = cmds[i - Len(firing)]
  <2> HIDE DEF Cmd
  <2> QED  BY <1>1
<1> HIDE DEF q
<1>3. \A x : (\E i \in DOMAIN q : q[i] = x) <=> On(firing, x) \/ On(cmds, x)
  <2> SUFFICES ASSUME NEW x PROVE (\E i \in DOMAIN q : q[i] = x) <=> On(firing, x) \/ On(cmds, x)
    BY Zenon
  <2>1. ASSUME NEW i \in DOMAIN q, q[i] = x PROVE On(firing, x) \/ On(cmds, x)
    <3>1. CASE i \in 1..Len(firing)
      BY <1>2, <2>1, <3>1, Zenon DEF On
    <3>2. CASE i \notin 1..Len(firing)
      <4>1. i - Len(firing) \in 1..Len(cmds) /\ i \in (Len(firing) + 1)..(Len(firing) + Len(cmds))
        BY <1>2, <3>2
      <4> QED  BY <1>2, <2>1, <4>1, Zenon DEF On
    <3> QED  BY <3>1, <3>2, Zenon
  <2>2. \A i \in 1..Len(firing) : i \in DOMAIN q
    BY <1>2
  <2>3. ASSUME NEW i \in 1..Len(cmds)
        PROVE  i + Len(firing) \in DOMAIN q /\ q[i + Len(firing)] = cmds[i]
    <3>1. /\ i + Len(firing) \in 1..(Len(firing) + Len(cmds)) /\ (i + Len(firing)) - Len(firing) = i
          /\ i + Len(firing) \in (Len(firing) + 1)..(Len(firing) + Len(cmds))
      BY <1>2
    <3> QED  BY <1>2, <3>1, Zenon
  <2> QED  BY <1>2, <2>1, <2>2, <2>3, Zenon DEF On
<1> QED  BY <1>3, Zenon DEF LeavePending, Waits, LeaveCmd, q

LEMMA CmdForms ==
    /\ \A t \in Nat : EnterCmd(t) \in Cmd /\ LeaveCmd(t) \in Cmd /\ [op |-> "List", token |-> t] \in Cmd
    /\ \A z \in ZoneId : [op |-> "Broadcast", zone |-> z] \in Cmd
    /\ \A t, u : EnterCmd(t) # LeaveCmd(u)
    /\ \A t, u : LeaveCmd(t) = LeaveCmd(u) => t = u
    /\ \A t, u : EnterCmd(t) = EnterCmd(u) => t = u
    /\ \A t, u : EnterCmd(t) # [op |-> "List", token |-> u] /\ LeaveCmd(t) # [op |-> "List", token |-> u]
    /\ \A t, z : EnterCmd(t) # [op |-> "Broadcast", zone |-> z] /\ LeaveCmd(t) # [op |-> "Broadcast", zone |-> z]
<1>1. \A t : EnterCmd(t).op = "Enter" /\ EnterCmd(t).token = t
  BY Zenon DEF EnterCmd
<1>2. \A t : LeaveCmd(t).op = "Leave" /\ LeaveCmd(t).token = t
  BY Zenon DEF LeaveCmd
<1>3. \A t \in Nat : [op |-> "List", token |-> t] \in Cmd
  BY Zenon DEF Cmd
<1>4. \A z \in ZoneId : [op |-> "Broadcast", zone |-> z] \in Cmd
  BY Zenon DEF Cmd
<1>5. \A t \in Nat : EnterCmd(t) \in Cmd /\ LeaveCmd(t) \in Cmd
  BY Zenon DEF Cmd
<1>6. \A u : [op |-> "List", token |-> u].op = "List"
  BY Zenon
<1>7. \A z : [op |-> "Broadcast", zone |-> z].op = "Broadcast"
  BY Zenon
<1> QED  BY <1>1, <1>2, <1>3, <1>4, <1>5, <1>6, <1>7

(* What holds before a step that the zone's invariant is about.            *)
Quiet == Calm /\ "leave" \notin setting.ops
Before == SInv /\ Calm /\ Bound /\ TokenShape /\ Mapped /\ ZoneShape /\ Commanded /\ Accounted

LEMMA QuietBefore == SInv /\ LInv /\ GInv /\ Quiet => Before
  BY Zenon DEF Before, Quiet, Calm, SInv, LInv, GInv

LEMMA TokenTypes == Token \subseteq Nat /\ NoToken \in Nat /\ NoToken \notin Token
  BY ConstantsAssumption DEF Token, NoToken

(* A released session is in use, and so is one in _userMap.                *)
LEMMA ReleasedUsed ==
    ASSUME Before
    PROVE  /\ Released \subseteq Session /\ \A s \in Released : session[s].used
           /\ update.pc \notin {"release", "free"} => Released = {}
  BY Zenon DEF Before, SInv, Shapes, UpdateShape, NoDoubleFree, Released

(* Steps that queue neither an Enter nor a Leave, and that change at most  *)
(* sessions that are not in use.                                           *)
LEMMA ZoneUnused ==
    ASSUME Before, UNCHANGED <<userMap, zone, nextToken>>, Released' = Released,
           \A t \in Nat : Waits(EnterCmd(t))' => Waits(EnterCmd(t)),
           \A t \in Nat : Waits(LeaveCmd(t))' <=> Waits(LeaveCmd(t)),
           \A s \in Session : session[s].used =>
              session'[s].zone = session[s].zone /\ session'[s].token = session[s].token,
           process'.pc # "pop" => process'.sess \notin Released
    PROVE  Commanded' /\ Accounted'
<1>1. /\ \A t \in Token : userMap[t] # Null => userMap[t] \in Session /\ session[userMap[t]].used
      /\ \A s \in Released : s \in Session /\ session[s].used /\ session[s].token \in Nat
  BY ReleasedUsed, Zenon DEF Before, Mapped, TokenShape
<1>2. Commanded'
  <2>1. \A t \in Token : userMap[t] # Null =>
           session'[userMap[t]].zone = session[userMap[t]].zone
    BY <1>1, Zenon
  <2> QED  BY <2>1, Zenon DEF Before, Commanded
<1>3. Accounted'
  <2>1. ASSUME NEW t \in DOMAIN zone, zone[t] # Null
        PROVE  \/ Waits(LeaveCmd(t))'
               \/ t \in Token /\ userMap[t] = zone[t] /\ session'[zone[t]].zone = 1
    <3>1. t \in Nat
      BY TokenTypes, Zenon DEF Before, ZoneShape
    <3> QED  BY <1>1, <2>1, <3>1, Zenon DEF Before, Accounted
  <2>2. ASSUME NEW s \in Released, session'[s].zone = 1
        PROVE  Waits(LeaveCmd(session[s].token))' /\ session'[s].token = session[s].token
    BY <1>1, <2>2, Zenon DEF Before, Accounted
  <2> QED  BY <2>1, <2>2, Zenon DEF Accounted
<1> QED  BY <1>2, <1>3, Zenon

(* The network layer and the scan change nothing the zone depends on.      *)
LEMMA NetworkZone ==
    ASSUME Before, Quiet, NEW c \in Connector, NetworkStep(c)
    PROVE  ZoneShape' /\ Commanded' /\ Accounted'
<1>1. UNCHANGED <<setting, session, process, update, userMap, zone, cmds, firing, nextToken>>
  BY Zenon DEF NetworkStep, Accept, PeerClose, Disconnect, Receive, HeartbeatOver
<1>2. Released' = Released
  BY <1>1, Zenon DEF Released
<1>3. \A x : Waits(x)' <=> Waits(x)
  BY <1>1, Zenon DEF Waits, On
<1>4. \A i \in 1..Len(recvQueue') : recvQueue'[i].op # "leave"
  <2>1. recvQueue \in Seq(Packets) /\ \A i \in 1..Len(recvQueue) : recvQueue[i].op # "leave"
    BY Zenon DEF Before, SInv, Shapes, ProcessShape, ZoneShape
  <2>2. CASE UNCHANGED recvQueue
    BY <2>1, <2>2, Zenon
  <2>3. CASE \E op \in ClientOps : Receive(c, op)
    <3>1. PICK op \in ClientOps : Receive(c, op)
      BY <2>3, Zenon
    <3>2. op # "leave" /\ recvQueue' = Append(recvQueue, [conn |-> c, op |-> op])
      BY <3>1, Zenon DEF Receive, Quiet
    <3>3. /\ Len(recvQueue) \in Nat /\ Len(recvQueue') = Len(recvQueue) + 1
          /\ \A i \in 1..Len(recvQueue) : recvQueue'[i] = recvQueue[i]
          /\ recvQueue'[Len(recvQueue) + 1] = [conn |-> c, op |-> op]
      <4> HIDE DEF Packets
      <4> QED  BY <2>1, <3>2
    <3> QED  BY <2>1, <3>2, <3>3
  <2> QED  BY <2>2, <2>3, Zenon DEF NetworkStep, Accept, PeerClose, Disconnect, HeartbeatOver
<1>5. ZoneShape'
  BY <1>1, <1>4, Zenon DEF Before, ZoneShape
<1>6. process'.pc # "pop" => process'.sess \notin Released
  BY <1>1, Zenon DEF Before, Accounted
<1> QED  BY <1>1, <1>2, <1>3, <1>5, <1>6, ZoneUnused, Zenon

LEMMA ScanZone ==
    ASSUME Before, Scan
    PROVE  ZoneShape' /\ Commanded' /\ Accounted'
<1>1. /\ UNCHANGED <<setting, session, recvQueue, process, userMap, zone, cmds, firing, nextToken>>
      /\ update.pc = "scan" /\ MayUpdate
      /\ \/ update' = [update EXCEPT !.pc = "tick"]
         \/ update'.pc = "release" /\ update'.done = {}
  BY Zenon DEF Scan
<1>2. update.done = {} /\ {"pc", "list", "done"} \subseteq DOMAIN update
  BY <1>1, Zenon DEF Before, SInv, Shapes, UpdateShape
<1>3. Released = {} /\ Released' = {} /\ update'.pc # "fire"
  BY <1>1, <1>2, Zenon DEF Released
<1>4. \A x : Waits(x)' <=> Waits(x)
  BY <1>1, Zenon DEF Waits, On
<1>5. ZoneShape'
  BY <1>1, <1>3, Zenon DEF Before, ZoneShape
<1> QED  BY <1>1, <1>3, <1>4, <1>5, ZoneUnused, Zenon

(* SwapOpList moves the waiting commands, TickEnds finds none left.        *)
LEMMA TickZone ==
    ASSUME Before, SwapOpList \/ TickEnds
    PROVE  ZoneShape' /\ Commanded' /\ Accounted'
<1>1. /\ UNCHANGED <<setting, session, recvQueue, process, userMap, zone, nextToken>>
      /\ update.pc \notin {"release", "free"}
      /\ \/ /\ update.pc # "fire" /\ firing' = cmds /\ cmds' = << >>
            /\ update' = [update EXCEPT !.pc = "fire"]
         \/ /\ firing = << >> /\ UNCHANGED <<firing, cmds>>
            /\ update' = [update EXCEPT !.pc = "scan"]
  BY Zenon DEF SwapOpList, TickEnds
<1>2. update.done = {} /\ {"pc", "list", "done"} \subseteq DOMAIN update
  BY <1>1, Zenon DEF Before, SInv, Shapes, UpdateShape
<1>3. Released = {} /\ Released' = {}
  BY <1>1, <1>2, Zenon DEF Released
<1>4. \A x : Waits(x)' <=> Waits(x)
  <2>1. CASE UNCHANGED <<firing, cmds>>
    BY <2>1, Zenon DEF Waits, On
  <2>2. CASE update.pc # "fire" /\ firing' = cmds /\ cmds' = << >>
    <3>1. firing = << >>
      BY <2>2, Zenon DEF Before, ZoneShape
    <3> QED  BY <2>2, <3>1, OnEmpty, Zenon DEF Waits, On
  <2> QED  BY <1>1, <2>1, <2>2, Zenon
<1>5. ZoneShape'
  <2>1. update'.pc # "fire" => firing' = << >>
    BY <1>1, <1>2, Zenon
  <2>2. firing' \in Seq(Cmd) /\ cmds' \in Seq(Cmd)
    <3>1. << >> \in Seq(Cmd)
      BY EmptySeq, Zenon
    <3> QED  BY <1>1, <3>1, Zenon DEF Before, ZoneShape
  <2> QED  BY <1>1, <2>1, <2>2, Zenon DEF Before, ZoneShape
<1> QED  BY <1>1, <1>3, <1>4, <1>5, ZoneUnused, Zenon

LEMMA GetSessionZone ==
    ASSUME Before, GetSession
    PROVE  ZoneShape' /\ Commanded' /\ Accounted'
<1> DEFINE p == Head(recvQueue)
           s == conn[p.conn].param
           taken == s # Null /\ process'.sess = s /\ UNCHANGED session
           given(free) == /\ ~session[free].used /\ process'.sess = free
                          /\ session' = [session EXCEPT ![free] = NewSession]
<1>1. /\ recvQueue # << >> /\ recvQueue' = Tail(recvQueue) /\ process'.op = p.op
      /\ UNCHANGED <<setting, update, userMap, zone, cmds, firing, nextToken>>
      /\ taken \/ \E free \in Session : given(free)
  BY DEF GetSession
<1>2. recvQueue \in Seq(Packets)
  BY Zenon DEF Before, SInv, Shapes, ProcessShape
<1>3. /\ Len(recvQueue) \in Nat \ {0} /\ p = recvQueue[1] /\ p \in Packets
      /\ Len(recvQueue') = Len(recvQueue) - 1
      /\ \A i \in 1..Len(recvQueue') : recvQueue'[i] = recvQueue[i + 1]
  <2> HIDE DEF Packets
  <2> QED  BY <1>1, <1>2
<1>4. p.op # "leave" /\ \A i \in 1..Len(recvQueue') : recvQueue'[i].op # "leave"
  BY <1>3 DEF Before, ZoneShape
<1>5. p.conn \in Connector
  BY <1>3, Zenon DEF Packets
<1>6. s \notin Released
  BY <1>5, Zenon DEF Before, Bound
<1>7. Released' = Released
  BY <1>1, Zenon DEF Released
<1>8. \A x : Waits(x)' <=> Waits(x)
  BY <1>1, Zenon DEF Waits, On
<1> HIDE DEF p, s
<1>9. \A x \in Session : session'[x] = session[x] \/ (~session[x].used /\ session'[x] = NewSession)
  BY <1>1, Zenon DEF Before, SInv, Shapes, SessionShape
<1>10. NewSession.zone \in ZoneId
  BY Zenon DEF NewSession, ZoneId
<1>11. process'.sess \notin Released
  BY <1>1, <1>6, ReleasedUsed, Zenon
<1>12. ZoneShape'
  BY <1>1, <1>4, <1>9, <1>10, Zenon DEF Before, ZoneShape
<1> QED  BY <1>1, <1>7, <1>8, <1>9, <1>11, <1>12, ZoneUnused, Zenon

LEMMA BindSessionZone ==
    ASSUME Before, BindSession
    PROVE  ZoneShape' /\ Commanded' /\ Accounted'
<1>1. /\ process.pc = "bind" /\ UNCHANGED <<setting, recvQueue, update, userMap, zone, cmds, firing, nextToken>>
      /\ session' = [session EXCEPT ![process.sess].conn = process.conn]
      /\ process' = [process EXCEPT !.pc = "handle"]
  BY Zenon DEF BindSession
<1>2. Released' = Released
  BY <1>1, Zenon DEF Released
<1>3. \A x : Waits(x)' <=> Waits(x)
  BY <1>1, Zenon DEF Waits, On
<1>4. \A s \in Session : session'[s].zone = session[s].zone /\ session'[s].token = session[s].token
  BY <1>1, Zenon DEF Before, SInv, Shapes, SessionShape
<1>5. process'.sess = process.sess /\ process'.op = process.op
  BY <1>1
<1>6. ZoneShape'
  BY <1>1, <1>4, <1>5, Zenon DEF Before, ZoneShape
<1>7. process'.sess \notin Released
  BY <1>1, <1>5, Zenon DEF Before, Accounted
<1> QED  BY <1>1, <1>2, <1>3, <1>4, <1>6, <1>7, ZoneUnused, Zenon

(* C2S_Auth: no command can be waiting for a token that is new.            *)
LEMMA AuthZone ==
    ASSUME Before, MessageProcess, C2S_Auth(process.sess)
    PROVE  ZoneShape' /\ Commanded' /\ Accounted'
<1> DEFINE s == process.sess
<1>1. /\ process.pc = "handle" /\ process' = Idle
      /\ UNCHANGED <<setting, recvQueue, update, zone, firing>>
  BY Zenon DEF MessageProcess
<1>2. /\ session' = [session EXCEPT ![s].token = nextToken]
      /\ userMap' = [userMap EXCEPT ![nextToken] = s]
      /\ nextToken' = nextToken + 1 /\ UNCHANGED cmds
  BY Zenon DEF C2S_Auth
<1>3. s \in Session /\ s \notin Released
  BY <1>1, Zenon DEF Before, SInv, Shapes, ProcessShape, Accounted
<1>4. Released' = Released /\ Released \subseteq Session
  BY <1>1, ReleasedUsed, Zenon DEF Released
<1>5. \A x : Waits(x)' <=> Waits(x)
  BY <1>1, <1>2, Zenon DEF Waits, On
<1>6. /\ \A x \in Session : session'[x].zone = session[x].zone
      /\ \A x \in Session \ {s} : session'[x] = session[x]
  BY <1>2, Zenon DEF Before, SInv, Shapes, SessionShape
<1>7. \A t \in Token : t # nextToken => userMap'[t] = userMap[t]
  BY <1>2, Zenon DEF Before, TokenShape
<1>8. nextToken \in Nat /\ \A x \in Session : session[x].token \in Nat /\ session[x].token < nextToken
  BY Zenon DEF Before, TokenShape
<1>9. process'.pc = "pop"
  BY <1>1, Zenon DEF Idle
<1>10. \A t \in Token : userMap[t] \in Session \cup {Null}
  BY Zenon DEF Before, TokenShape
<1>11. ZoneShape'
  BY <1>1, <1>2, <1>6, <1>9, Zenon DEF Before, ZoneShape
<1>12. Commanded'
  BY <1>2, <1>4, <1>5, <1>6, <1>7, <1>8, <1>10 DEF Before, Commanded
<1>13. Accounted'
  <2>1. ASSUME NEW t \in DOMAIN zone, zone[t] # Null
        PROVE  \/ Waits(LeaveCmd(t))'
               \/ t \in Token /\ userMap'[t] = zone[t] /\ session'[zone[t]].zone = 1
    <3>1. CASE Waits(LeaveCmd(t))
      BY <1>5, <3>1, Zenon
    <3>2. CASE t \in Token /\ userMap[t] = zone[t] /\ session[zone[t]].zone = 1
      <4>1. zone[t] \in Session /\ session[zone[t]].token = t
        BY <1>10, <2>1, <3>2, Zenon DEF Before, Mapped
      <4>2. t # nextToken
        BY <1>8, <4>1
      <4> QED  BY <1>6, <1>7, <3>2, <4>1, <4>2, Zenon
    <3> QED  BY <2>1, <3>1, <3>2, Zenon DEF Before, Accounted
  <2>2. \A x \in Released : session'[x] = session[x]
    BY <1>3, <1>4, <1>6, Zenon
  <2> QED  BY <1>1, <1>4, <1>5, <1>9, <2>1, <2>2, Zenon DEF Before, Accounted
<1> QED  BY <1>11, <1>12, <1>13, Zenon

(* C2S_Enter: the session says it is in the zone before the command runs.  *)
LEMMA EnterZone ==
    ASSUME Before, MessageProcess, C2S_Enter(process.sess)
    PROVE  ZoneShape' /\ Commanded' /\ Accounted'
<1> DEFINE s == process.sess
           e == EnterCmd(session[s].token)
<1>1. /\ process.pc = "handle" /\ process' = Idle
      /\ UNCHANGED <<setting, recvQueue, update, zone, firing>>
  BY Zenon DEF MessageProcess
<1>2. /\ session' = [session EXCEPT ![s].zone = 1]
      /\ cmds' = Append(cmds, e) /\ UNCHANGED <<userMap, nextToken>>
  BY Zenon DEF C2S_Enter, EnterCmd
<1>3. s \in Session /\ s \notin Released
  BY <1>1, Zenon DEF Before, SInv, Shapes, ProcessShape, Accounted
<1>4. Released' = Released /\ Released \subseteq Session
  BY <1>1, ReleasedUsed, Zenon DEF Released
<1>5. session[s].token \in Nat /\ session[s].token < nextToken
  BY <1>3, Zenon DEF Before, TokenShape
<1>6. e \in Cmd /\ cmds \in Seq(Cmd)
  BY <1>5, CmdForms, Zenon DEF Before, ZoneShape
<1> HIDE DEF e, Cmd
<1>7. \A x : Waits(x)' <=> Waits(x) \/ x = e
  <2>1. \A x : On(cmds', x) <=> On(cmds, x) \/ x = e
    BY <1>2, <1>6, OnAppend, Zenon
  <2> QED  BY <1>1, <2>1, Zenon DEF Waits, On
<1>8. \A t : LeaveCmd(t) # e
  BY CmdForms, Zenon DEF e
<1>9. \A t : EnterCmd(t) = e => t = session[s].token
  BY CmdForms, Zenon DEF e
<1>10. /\ session'[s].zone = 1 /\ session'[s].token = session[s].token
       /\ \A x \in Session \ {s} : session'[x] = session[x]
  BY <1>2, <1>3, Zenon DEF Before, SInv, Shapes, SessionShape
<1>11. process'.pc = "pop"
  BY <1>1, Zenon DEF Idle
<1>12. \A t \in Token : userMap[t] \in Session \cup {Null}
  BY Zenon DEF Before, TokenShape
<1>13. ZoneShape'
  <2>1. cmds' \in Seq(Cmd)
    BY <1>2, <1>6, AppendProperties, Zenon
  <2>2. \A x \in Session : session'[x].zone \in ZoneId
    BY <1>10, Zenon DEF Before, ZoneShape, ZoneId
  <2> QED  BY <1>1, <1>11, <2>1, <2>2, Zenon DEF Before, ZoneShape
<1>14. Commanded'
  <2>1. ASSUME NEW t \in Nat, Waits(EnterCmd(t))'
        PROVE  t < nextToken /\ (t \in Token /\ userMap[t] # Null => session'[userMap[t]].zone = 1)
    <3>1. CASE Waits(EnterCmd(t))
      BY <1>10, <1>12, <3>1, Zenon DEF Before, Commanded
    <3>2. CASE EnterCmd(t) = e
      <4>1. t = session[s].token
        BY <1>9, <3>2, Zenon
      <4>2. t \in Token => userMap[t] = s
        BY <1>3, <4>1, Zenon DEF Before, Mapped
      <4> QED  BY <1>5, <1>10, <4>1, <4>2, Zenon
    <3> QED  BY <1>7, <2>1, <3>1, <3>2, Zenon
  <2>2. ASSUME NEW t \in Nat, Waits(LeaveCmd(t))'
        PROVE  t < nextToken /\ (t \in Token /\ userMap[t] # Null => userMap[t] \in Released)
    BY <1>7, <1>8, <2>2, Zenon DEF Before, Commanded
  <2> QED  BY <1>2, <1>4, <2>1, <2>2, Zenon DEF Commanded
<1>15. Accounted'
  <2>1. ASSUME NEW t \in DOMAIN zone, zone[t] # Null
        PROVE  \/ Waits(LeaveCmd(t))'
               \/ t \in Token /\ userMap[t] = zone[t] /\ session'[zone[t]].zone = 1
    BY <1>7, <1>10, <1>12, <2>1, Zenon DEF Before, Accounted
  <2>2. \A x \in Released : session'[x] = session[x]
    BY <1>3, <1>4, <1>10, Zenon
  <2> QED  BY <1>1, <1>2, <1>4, <1>7, <1>11, <2>1, <2>2, Zenon DEF Before, Accounted
<1> QED  BY <1>13, <1>14, <1>15, Zenon

LEMMA MoveZone ==
    ASSUME Before, MessageProcess, C2S_Move(process.sess)
    PROVE  ZoneShape' /\ Commanded' /\ Accounted'
<1> DEFINE b == [op |-> "Broadcast", zone |-> session[process.sess].zone]
<1>1. /\ process.pc = "handle" /\ process' = Idle
      /\ UNCHANGED <<setting, recvQueue, update, zone, firing>>
  BY Zenon DEF MessageProcess
<1>2. cmds' = Append(cmds, b) /\ UNCHANGED <<session, userMap, nextToken>>
  BY Zenon DEF C2S_Move
<1>3. b \in Cmd /\ cmds \in Seq(Cmd)
  <2>1. process.sess \in Session
    BY <1>1, Zenon DEF Before, SInv, Shapes, ProcessShape
  <2> QED  BY <2>1, CmdForms, Zenon DEF Before, ZoneShape
<1>4. \A t : LeaveCmd(t) # b /\ EnterCmd(t) # b
  BY CmdForms, Zenon
<1> HIDE DEF b, Cmd
<1>5. \A x : Waits(x)' <=> Waits(x) \/ x = b
  <2>1. \A x : On(cmds', x) <=> On(cmds, x) \/ x = b
    BY <1>2, <1>3, OnAppend, Zenon
  <2> QED  BY <1>1, <2>1, Zenon DEF Waits, On
<1>6. process'.pc = "pop" /\ Released' = Released
  BY <1>1, Zenon DEF Idle, Released
<1>7. cmds' \in Seq(Cmd)
  BY <1>2, <1>3, AppendProperties, Zenon
<1>8. ZoneShape'
  BY <1>1, <1>2, <1>6, <1>7, Zenon DEF Before, ZoneShape
<1> QED  BY <1>1, <1>2, <1>4, <1>5, <1>6, <1>8, ZoneUnused, Zenon

(* UserSession::Release: a session that is in the zone leaves a Leave      *)
(* behind.                                                                 *)
LEMMA ReleaseZone ==
    ASSUME Before, NEW s \in Session, Release(s)
    PROVE  ZoneShape' /\ Commanded' /\ Accounted'
<1> DEFINE e == LeaveCmd(session[s].token)
<1>1. /\ update.pc = "release" /\ MayUpdate /\ s \in update.list
      /\ UNCHANGED <<setting, session, recvQueue, process, userMap, zone, firing, nextToken>>
      /\ LeaveOnRelease(s) /\ ReleaseNext(s)
  BY Zenon DEF Release
<1>2. process.pc = "pop"
  BY <1>1, NoOverlap, Zenon DEF Before, Calm
<1>3. session[s].zone \in {0, 1} /\ session[s].token \in Nat /\ session[s].token < nextToken
  BY Zenon DEF Before, ZoneShape, ZoneId, TokenShape
<1>4. \/ session[s].zone = 0 /\ cmds' = cmds
      \/ session[s].zone = 1 /\ cmds' = Append(cmds, e)
  BY <1>1, <1>3, Zenon DEF LeaveOnRelease, LeaveCmd
<1>5. e \in Cmd /\ cmds \in Seq(Cmd)
  BY <1>3, CmdForms, Zenon DEF Before, ZoneShape
<1> HIDE DEF e, Cmd
<1>6. \A x : Waits(x)' <=> Waits(x) \/ (x = e /\ session[s].zone = 1)
  <2>1. \A x : On(cmds', x) <=> On(cmds, x) \/ (x = e /\ session[s].zone = 1)
    <3>1. \A x : On(Append(cmds, e), x) <=> On(cmds, x) \/ x = e
      BY <1>5, OnAppend, Zenon
    <3>2. CASE session[s].zone = 0 /\ cmds' = cmds
      BY <3>2
    <3>3. CASE session[s].zone = 1 /\ cmds' = Append(cmds, e)
      BY <3>1, <3>3, Zenon
    <3> QED  BY <1>4, <3>2, <3>3, Zenon
  <2> QED  BY <1>1, <2>1, Zenon DEF Waits, On
<1>7. \A t : EnterCmd(t) # e
  BY CmdForms, Zenon DEF e
<1>8. \A t : LeaveCmd(t) = e => t = session[s].token
  BY CmdForms, Zenon DEF e
<1>9. Released' = Released \cup {s} /\ update'.pc \in {"release", "free"}
  <2>1. /\ {"pc", "list", "done"} \subseteq DOMAIN update
    BY Zenon DEF Before, SInv, Shapes, UpdateShape
  <2> QED  BY <1>1, <2>1, Zenon DEF ReleaseNext, Released
<1>10. ZoneShape'
  <2>1. cmds' \in Seq(Cmd)
    BY <1>4, <1>5, AppendProperties
  <2>2. firing = << >>
    BY <1>1, Zenon DEF Before, ZoneShape
  <2> QED  BY <1>1, <2>1, <2>2, Zenon DEF Before, ZoneShape
<1>11. Commanded'
  <2>1. ASSUME NEW t \in Nat, Waits(LeaveCmd(t))'
        PROVE  t < nextToken /\ (t \in Token /\ userMap[t] # Null => userMap[t] \in Released')
    <3>1. CASE Waits(LeaveCmd(t))
      BY <1>9, <3>1, Zenon DEF Before, Commanded
    <3>2. CASE LeaveCmd(t) = e
      <4>1. t = session[s].token
        BY <1>8, <3>2, Zenon
      <4> QED  BY <1>3, <1>9, <4>1, Zenon DEF Before, Mapped
    <3> QED  BY <1>6, <2>1, <3>1, <3>2, Zenon
  <2> QED  BY <1>1, <1>6, <1>7, <2>1, Zenon DEF Before, Commanded
<1>12. Accounted'
  <2>1. ASSUME NEW x \in Released', session[x].zone = 1
        PROVE  Waits(LeaveCmd(session[x].token)) \/ (LeaveCmd(session[x].token) = e /\ session[s].zone = 1)
    <3>1. CASE x = s
      BY <2>1, <3>1, Zenon DEF e
    <3>2. CASE x \in Released
      BY <2>1, <3>2, Zenon DEF Before, Accounted
    <3> QED  BY <1>9, <2>1, <3>1, <3>2, Zenon
  <2>2. \A x \in Released' : session'[x].zone = 1 => Waits(LeaveCmd(session[x].token))'
    BY <1>1, <1>6, <2>1, Zenon
  <2> QED  BY <1>1, <1>2, <1>6, <2>2, Zenon DEF Before, Accounted
<1> QED  BY <1>10, <1>11, <1>12, Zenon

(* The token of a freed session leads nowhere, and its character has a     *)
(* Leave waiting.                                                          *)
LEMMA FreeZone ==
    ASSUME Before, NEW s \in Session, Free(s)
    PROVE  ZoneShape' /\ Commanded' /\ Accounted'
<1>1. /\ update.pc = "free" /\ MayUpdate /\ s \in update.list
      /\ UNCHANGED <<setting, recvQueue, process, zone, cmds, firing, nextToken>>
      /\ userMap' = [t \in Token |-> IF t = session[s].token THEN Null ELSE userMap[t]]
      /\ session' = [session EXCEPT ![s] = FreeSession]
      /\ update' = [update EXCEPT !.pc = IF update.list = {s} THEN "tick" ELSE @, !.list = @ \ {s}]
  BY Zenon DEF Free
<1>2. process.pc = "pop"
  BY <1>1, NoOverlap, Zenon DEF Before, Calm
<1>3. /\ session'[s] = FreeSession /\ FreeSession.zone = 0
      /\ \A x \in Session \ {s} : session'[x] = session[x]
  BY <1>1, Zenon DEF Before, SInv, Shapes, SessionShape, FreeSession, NewSession
<1>4. \A t \in Token : /\ userMap[t] = s => userMap'[t] = Null
                       /\ userMap[t] # s => userMap'[t] = userMap[t]
  <2>1. \A t \in Token : t = session[s].token <=> userMap[t] = s
    BY ConstantsAssumption, Zenon DEF Before, Mapped
  <2> QED  BY <1>1, <2>1, Zenon
<1>5. \A t \in Token : userMap[t] \in Session \cup {Null}
  BY Zenon DEF Before, TokenShape
<1>6. Released = update.list /\ Released' = Released \ {s} /\ update'.pc # "fire"
  <2>1. /\ {"pc", "list", "done"} \subseteq DOMAIN update /\ update.done = {}
    BY <1>1, Zenon DEF Before, SInv, Shapes, UpdateShape
  <2> QED  BY <1>1, <2>1, Zenon DEF Released
<1>7. \A x : Waits(x)' <=> Waits(x)
  BY <1>1, Zenon DEF Waits, On
<1>8. ZoneShape'
  BY <1>1, <1>2, <1>3, Zenon DEF Before, ZoneShape, ZoneId
<1>9. Commanded'
  <2>1. \A t \in Token : userMap'[t] # Null =>
           /\ userMap'[t] = userMap[t] /\ userMap[t] # s
           /\ session'[userMap[t]].zone = session[userMap[t]].zone
    BY <1>3, <1>4, <1>5, Zenon
  <2> QED  BY <1>1, <1>6, <1>7, <2>1, Zenon DEF Before, Commanded
<1>10. Accounted'
  <2>1. ASSUME NEW t \in DOMAIN zone, zone[t] # Null
        PROVE  \/ Waits(LeaveCmd(t))'
               \/ t \in Token /\ userMap'[t] = zone[t] /\ session'[zone[t]].zone = 1
    <3>1. CASE Waits(LeaveCmd(t))
      BY <1>7, <3>1, Zenon
    <3>2. CASE t \in Token /\ userMap[t] = zone[t] /\ session[zone[t]].zone = 1
      <4>1. CASE zone[t] = s
        <5>1. session[s].token = t
          BY <2>1, <3>2, <4>1, Zenon DEF Before, Mapped
        <5>2. Waits(LeaveCmd(t))
          BY <1>1, <1>6, <3>2, <4>1, <5>1, Zenon DEF Before, Accounted
        <5> QED  BY <1>7, <5>2, Zenon
      <4>2. CASE zone[t] # s
        BY <1>3, <1>4, <1>5, <2>1, <3>2, <4>2, Zenon
      <4> QED  BY <4>1, <4>2, Zenon
    <3> QED  BY <2>1, <3>1, <3>2, Zenon DEF Before, Accounted
  <2>2. \A x \in Released' : x \in Released /\ session'[x] = session[x]
    BY <1>3, <1>6, ReleasedUsed, Zenon
  <2> QED  BY <1>1, <1>2, <1>7, <2>1, <2>2 DEF Before, Accounted
<1> QED  BY <1>8, <1>9, <1>10, Zenon

(* FireOps: an Enter puts a registered session into the zone, a Leave      *)
(* takes its character out.                                                *)
LEMMA FireOpsZone ==
    ASSUME Before, FireOps
    PROVE  ZoneShape' /\ Commanded' /\ Accounted'
<1> DEFINE cmd == Head(firing)
<1>1. /\ update.pc = "fire" /\ firing # << >> /\ firing' = Tail(firing)
      /\ UNCHANGED <<setting, recvQueue, process, update, userMap, nextToken>>
      /\ \/ cmd.op = "Enter" /\ EnterCharacter(cmd) /\ UNCHANGED session
         \/ cmd.op = "Leave" /\ LeaveCharacter(cmd)
         \/ cmd.op \in {"Broadcast", "List"} /\ UNCHANGED <<session, zone, cmds>>
  BY Zenon DEF FireOps
<1>2. firing \in Seq(Cmd) /\ cmds \in Seq(Cmd)
  BY Zenon DEF Before, ZoneShape
<1>3. /\ \A x : On(firing, x) <=> x = cmd \/ On(Tail(firing), x)
      /\ cmd \in Cmd /\ Tail(firing) \in Seq(Cmd)
  <2> HIDE DEF Cmd
  <2> QED  BY <1>1, <1>2, OnTail, HeadTailProperties, Zenon
<1>4. Released = {} /\ Released' = {}
  BY <1>1, ReleasedUsed, Zenon DEF Released
<1>5. Waits(cmd)
  BY <1>3, Zenon DEF Waits
<1>6. /\ \A z : [op |-> "Broadcast", zone |-> z].op = "Broadcast"
      /\ \A u : [op |-> "List", token |-> u].op = "List"
      /\ \A t : EnterCmd(t).op = "Enter" /\ LeaveCmd(t).op = "Leave"
  BY Zenon DEF EnterCmd, LeaveCmd
<1>7. \A t \in Token : userMap[t] \in Session \cup {Null}
  BY Zenon DEF Before, TokenShape
<1> HIDE DEF cmd
<1>8. CASE cmd.op \in {"Broadcast", "List"} /\ UNCHANGED <<session, zone, cmds>>
  <2>1. \A t : EnterCmd(t) # cmd /\ LeaveCmd(t) # cmd
    BY <1>6, <1>8, Zenon
  <2>2. \A x : Waits(x)' <=> On(Tail(firing), x) \/ On(cmds, x)
    BY <1>1, <1>8, Zenon DEF Waits, On
  <2>3. \A t : (Waits(EnterCmd(t))' <=> Waits(EnterCmd(t))) /\ (Waits(LeaveCmd(t))' <=> Waits(LeaveCmd(t)))
    BY <1>3, <2>1, <2>2, Zenon DEF Waits
  <2>4. ZoneShape'
    BY <1>1, <1>3, <1>8, Zenon DEF Before, ZoneShape
  <2> QED  BY <1>1, <1>4, <1>8, <2>3, <2>4, ZoneUnused, Zenon
<1>9. CASE cmd.op = "Leave" /\ LeaveCharacter(cmd)
  <2> DEFINE b == [op |-> "Broadcast", zone |-> cmd.zone]
  <2>1. PICK t \in Nat : cmd = LeaveCmd(t)
    BY <1>3, <1>6, <1>9, Zenon DEF Cmd
  <2>2. cmd.token = t /\ cmd.zone = 1
    BY <2>1, Zenon DEF LeaveCmd
  <2>3. t \in Token => userMap[t] = Null
    BY <1>4, <1>5, <2>1, Zenon DEF Before, Commanded
  <2>4. GetUserSession(cmd.token) = Null
    BY <2>2, <2>3, Zenon DEF GetUserSession
  <2>5. UNCHANGED session /\ zone' = [zone EXCEPT ![t] = Null] /\ cmds' = Append(cmds, b)
    BY <1>9, <2>2, <2>4, Zenon DEF LeaveCharacter
  <2>6. b \in Cmd /\ \A u : LeaveCmd(u) # b /\ EnterCmd(u) # b
    BY <2>2, CmdForms, Zenon DEF ZoneId
  <2> HIDE DEF b, Cmd
  <2>7. \A x : Waits(x)' <=> On(Tail(firing), x) \/ On(cmds, x) \/ x = b
    <3>1. \A x : On(cmds', x) <=> On(cmds, x) \/ x = b
      BY <1>2, <2>5, <2>6, OnAppend, Zenon
    <3> QED  BY <1>1, <3>1, Zenon DEF Waits, On
  <2>8. \A u : Waits(LeaveCmd(u)) /\ u # t => Waits(LeaveCmd(u))'
    <3>1. \A u : u # t => LeaveCmd(u) # cmd
      BY <2>1, CmdForms, Zenon
    <3> QED  BY <1>3, <2>7, <3>1, Zenon DEF Waits
  <2>9. \A u : /\ Waits(LeaveCmd(u))' => Waits(LeaveCmd(u))
               /\ Waits(EnterCmd(u))' => Waits(EnterCmd(u))
    BY <1>3, <2>6, <2>7, Zenon DEF Waits
  <2>10. DOMAIN zone' = DOMAIN zone /\ \A u \in DOMAIN zone : zone'[u] # Null => u # t /\ zone'[u] = zone[u]
    BY <2>5, Zenon
  <2>11. cmds' \in Seq(Cmd)
    BY <1>2, <2>5, <2>6, AppendProperties, Zenon
  <2>12. ZoneShape'
    BY <1>1, <1>3, <2>5, <2>10, <2>11, Zenon DEF Before, ZoneShape
  <2>13. Commanded'
    BY <1>1, <1>4, <2>5, <2>9, Zenon DEF Before, Commanded
  <2>14. Accounted'
    BY <1>1, <1>4, <2>5, <2>8, <2>10, Zenon DEF Before, Accounted
  <2> QED  BY <2>12, <2>13, <2>14, Zenon
<1>10. CASE cmd.op = "Enter" /\ EnterCharacter(cmd) /\ UNCHANGED session
  <2>1. PICK t \in Nat : cmd = EnterCmd(t)
    BY <1>3, <1>6, <1>10, Zenon DEF Cmd
  <2>2. cmd.token = t
    BY <2>1, Zenon DEF EnterCmd
  <2> DEFINE user == GetUserSession(t)
             b == [op |-> "Broadcast", zone |-> 1]
             l == [op |-> "List", token |-> t]
  <2>3. b \in Cmd /\ l \in Cmd /\ \A u : LeaveCmd(u) \notin {b, l} /\ EnterCmd(u) \notin {b, l}
    BY CmdForms, Zenon DEF ZoneId
  <2>4. \/ user = Null /\ UNCHANGED <<zone, cmds>>
        \/ /\ user # Null
           /\ zone' = IF zone[session[user].token] = Null THEN [zone EXCEPT ![session[user].token] = user] ELSE zone
           /\ cmds' = cmds \o <<b, l>>
    BY <1>10, <2>2, Zenon DEF EnterCharacter
  <2> HIDE DEF b, l, Cmd, user
  <2>5. /\ cmds \o <<b, l>> \in Seq(Cmd)
        /\ \A x : On(cmds \o <<b, l>>, x) <=> On(cmds, x) \/ x = b \/ x = l
    <3> DEFINE q == Append(cmds, b)
    <3>1. cmds \o <<b, l>> = Append(q, l) /\ q \in Seq(Cmd)
      BY <1>2, <2>3
    <3>2. \A x : On(q, x) <=> On(cmds, x) \/ x = b
      BY <1>2, <2>3, OnAppend, Zenon
    <3> HIDE DEF q
    <3>3. \A x : On(Append(q, l), x) <=> On(q, x) \/ x = l
      BY <2>3, <3>1, OnAppend, Zenon
    <3>4. Append(q, l) \in Seq(Cmd)
      BY <2>3, <3>1, AppendProperties, Zenon
    <3> QED  BY <3>1, <3>2, <3>3, <3>4, Zenon
  <2>6. /\ cmds' \in Seq(Cmd)
        /\ \A x : /\ On(cmds, x) => On(cmds', x)
                  /\ On(cmds', x) => On(cmds, x) \/ x = b \/ x = l
    BY <1>2, <2>4, <2>5, Zenon
  <2>7. \A u : /\ Waits(EnterCmd(u))' => Waits(EnterCmd(u))
               /\ Waits(LeaveCmd(u))' <=> Waits(LeaveCmd(u))
    <3>1. \A x : Waits(x)' <=> On(Tail(firing), x) \/ On(cmds', x)
      BY <1>1, Zenon DEF Waits, On
    <3>2. \A u : LeaveCmd(u) # cmd
      BY <2>1, CmdForms, Zenon
    <3>3. \A u : /\ On(cmds', EnterCmd(u)) <=> On(cmds, EnterCmd(u))
                 /\ On(cmds', LeaveCmd(u)) <=> On(cmds, LeaveCmd(u))
      BY <2>3, <2>6, Zenon
    <3>4. \A u : On(Tail(firing), EnterCmd(u)) => On(firing, EnterCmd(u))
      BY <1>3, Zenon
    <3>5. \A u : On(Tail(firing), LeaveCmd(u)) <=> On(firing, LeaveCmd(u))
      BY <1>3, <3>2, Zenon
    <3> QED  BY <3>1, <3>3, <3>4, <3>5, Zenon DEF Waits
  <2>8. user # Null => /\ t \in Token /\ user = userMap[t] /\ user \in Session
                       /\ session[user].token = t /\ session[user].zone = 1
    <3>1. user # Null => t \in Token /\ user = userMap[t]
      BY Zenon DEF user, GetUserSession
    <3> QED  BY <1>5, <1>7, <2>1, <3>1, Zenon DEF Before, Mapped, Commanded
  <2>9. /\ DOMAIN zone' = DOMAIN zone
        /\ \A u \in DOMAIN zone : zone'[u] = zone[u] \/ (u = t /\ user # Null /\ zone'[u] = user)
    BY <2>4, <2>8, Zenon
  <2>10. ZoneShape'
    BY <1>1, <1>3, <1>10, <2>6, <2>9, Zenon DEF Before, ZoneShape
  <2>11. Commanded'
    BY <1>1, <1>4, <1>10, <2>7, Zenon DEF Before, Commanded
  <2>12. Accounted'
    BY <1>1, <1>4, <1>10, <2>7, <2>8, <2>9, Zenon DEF Before, Accounted
  <2> QED  BY <2>10, <2>11, <2>12, Zenon
<1> QED  BY <1>1, <1>8, <1>9, <1>10, Zenon

LEMMA ZoneInit == Init => GInv
<1> SUFFICES ASSUME Init PROVE ZoneShape /\ Commanded /\ Accounted
  BY Zenon DEF GInv
<1>1. /\ firing = << >> /\ cmds = << >> /\ recvQueue = << >> /\ process.pc = "pop"
      /\ update.pc = "scan" /\ update.done = {}
      /\ DOMAIN zone = Token \cup {NoToken} /\ \A t \in DOMAIN zone : zone[t] = Null
  BY Zenon DEF Init, Idle
<1>2. \A s \in Session : session[s].zone \in ZoneId
  BY Zenon DEF Init, FreeSession, NewSession, ZoneId
<1>3. ZoneShape
  <2>1. << >> \in Seq(Cmd)
    BY EmptySeq, Zenon
  <2> QED  BY <1>1, <1>2, <2>1 DEF ZoneShape
<1>4. Released = {}
  BY <1>1, Zenon DEF Released
<1>5. \A x : ~Waits(x)
  BY <1>1, OnEmpty, Zenon DEF Waits
<1> QED  BY <1>1, <1>3, <1>4, <1>5, Zenon DEF Commanded, Accounted

LEMMA ZoneNext == SInv /\ LInv /\ GInv /\ [Next]_vars => GInv'
<1> SUFFICES ASSUME SInv, LInv, GInv, [Next]_vars, Quiet'
             PROVE  ZoneShape' /\ Commanded' /\ Accounted'
  BY Zenon DEF GInv, Quiet
<1> DEFINE Goal == ZoneShape' /\ Commanded' /\ Accounted'
<1>1. UNCHANGED setting
  BY Zenon DEF Next, vars, Accept, PeerClose, Disconnect, Receive, ProcessThread, GetSession,
     BindSession, MessageProcess, DoUpdate, Scan, Release, Free, Tick, SwapOpList, FireOps,
     TickEnds, HeartbeatOver
<1>2. Quiet /\ Before
  BY <1>1, QuietBefore, Zenon DEF Quiet, Calm
<1>3. ASSUME NEW c \in Connector,
             \/ Accept(c) \/ PeerClose(c) \/ Disconnect(c)
             \/ \E op \in ClientOps : Receive(c, op)
      PROVE  Goal
  BY <1>2, <1>3, NetworkZone, Zenon DEF NetworkStep
<1>4. CASE ProcessThread
  <2>1. CASE MessageProcess
    <3>1. process.pc = "handle" => process.op # "leave"
      BY <1>2, Zenon DEF Before, ZoneShape
    <3>2. C2S_Auth(process.sess) \/ C2S_Enter(process.sess) \/ C2S_Move(process.sess)
      BY <2>1, <3>1, Zenon DEF MessageProcess
    <3> QED  BY <1>2, <2>1, <3>2, AuthZone, EnterZone, MoveZone, Zenon
  <2> QED  BY <1>2, <1>4, <2>1, GetSessionZone, BindSessionZone, Zenon DEF ProcessThread
<1>5. CASE DoUpdate
  BY <1>2, <1>5, ScanZone, ReleaseZone, FreeZone, Zenon DEF DoUpdate
<1>6. CASE Tick
  BY <1>2, <1>6, TickZone, FireOpsZone, Zenon DEF Tick
<1>7. ASSUME NEW s \in Session, HeartbeatOver(s) PROVE Goal
  <2>1. session[s].conn # Null
    BY <1>7, Zenon DEF HeartbeatOver, Dead
  <2>2. session[s].conn \in Connector
    BY <2>1, Zenon DEF SInv, Shapes, SessionShape
  <2> QED  BY <1>2, <1>7, <2>2, NetworkZone, Zenon DEF NetworkStep
<1>8. CASE UNCHANGED vars
  <2>1. UNCHANGED <<session, recvQueue, process, update, userMap, zone, cmds, firing, nextToken>>
    BY <1>8, Zenon DEF vars
  <2>2. Released' = Released /\ \A x : Waits(x)' <=> Waits(x)
    BY <2>1, Zenon DEF Released, Waits, On
  <2>3. ZoneShape'
    BY <1>2, <2>1, Zenon DEF Before, ZoneShape
  <2>4. process'.pc # "pop" => process'.sess \notin Released
    BY <1>2, <2>1, Zenon DEF Before, Accounted
  <2> QED  BY <1>2, <2>1, <2>2, <2>3, <2>4, ZoneUnused, Zenon
<1> QED  BY <1>3, <1>4, <1>5, <1>6, <1>7, <1>8, Zenon DEF Next

(* In a calm setting in which no client sends C2S_Leave, a character in    *)
(* Zone::_characterMap belongs to a registered session, or the Leave that  *)
(* UserSession::Release queued for it has still to run: no schedule of the *)
(* two threads leaves somebody in the zone for good.  (With C2S_Leave it   *)
(* can happen, which the run ghost shows.)                                 *)
THEOREM NobodyStaysBehind == Spec => []("leave" \notin setting.ops => NoGhost)
<1>1. GInv => ("leave" \notin setting.ops => NoGhost)
  <2> SUFFICES ASSUME GInv, "leave" \notin setting.ops, Calm, NEW t \in DOMAIN zone, zone[t] # Null
               PROVE  LeavePending(t) \/ (t \in Token /\ userMap[t] = zone[t])
    BY Zenon DEF NoGhost
  <2>1. ZoneShape /\ Accounted
    BY Zenon DEF GInv
  <2> QED  BY <2>1, PendingWaits, Zenon DEF Accounted
<1> QED  BY <1>1, SInitInv, SNextInv, LiveInit, LiveNext, ZoneInit, ZoneNext, PTL DEF Spec
=============================================================================
