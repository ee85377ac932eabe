------------------------------ MODULE Heartbeat ------------------------------
(***************************************************************************)
(* The heartbeat of one UserSession.  Every scan of UserSessionMgr that    *)
(* finds the timer passed counts a heartbeat up and sends it, or closes    *)
(* the connector; every answer of the client counts one down.  Time is in  *)
(* seconds.  A session is scanned whenever its manager scans: its own gate *)
(* of 5 s opens before the manager's does.                                 *)
(***************************************************************************)
EXTENDS Integers, Sequences

CONSTANTS ScanGap,   \* seconds from one scan to the next: over 5, then the
                     \* next call of UpdateThread, which calls every second
          Lag        \* a client that answers does so within so many seconds

ASSUME HeartbeatAssumption == ScanGap \subseteq Nat \ 0..5 /\ ScanGap # {} /\ Lag \in Nat

VARIABLES timer,    \* seconds until _biHeartbeatTimer, negative once passed
          count,    \* _nHeartbeatCount
          asked,    \* the ages of the heartbeats the client has yet to
                    \* answer, oldest first; none once it is silent
          silent,   \* the client has stopped answering
          open      \* _pConnector is active

vars == <<timer, count, asked, silent, open>>

Init ==
    /\ timer = -1 /\ count = 0 /\ asked = << >>
    /\ silent = FALSE /\ open = TRUE

-----------------------------------------------------------------------------
(* IncHeartbeat and DecHeartbeat; a client that answers once to each       *)
(* heartbeat, as S2C_Heartbeat of cli does, never takes the count below 0. *)
IncForgotten(n) == n
IncHeartbeat(n) == n + 1

DecForgotten(n) == n
DecHeartbeat(n) == n - 1

HeartbeatPeriod == 15
Over(n) == 4 < n

(* The ages of the unanswered heartbeats d seconds later.                  *)
Older(d) == [i \in DOMAIN asked |-> asked[i] + d]

(* DoUpdate of an active session, d seconds after the last.                *)
DoUpdate(d) ==
    /\ open
    /\ \A i \in DOMAIN asked : Older(d)[i] <= Lag
    /\ \/ /\ timer - d >= 0
          /\ timer' = timer - d
          /\ asked' = Older(d)
          /\ UNCHANGED <<count, open>>
       \/ /\ timer - d < 0
          /\ timer' = HeartbeatPeriod
          /\ count' = IncHeartbeat(count)
          /\ \/ Over(count') /\ open' = FALSE /\ asked' = Older(d)
             \/ ~Over(count') /\ asked' = (IF silent THEN << >> ELSE Append(Older(d), 0)) /\ UNCHANGED open
    /\ UNCHANGED silent

(* The client's answer to the oldest heartbeat is handled.                 *)
C2S_Heartbeat ==
    /\ open /\ ~silent /\ asked # << >>
    /\ count' = DecHeartbeat(count)
    /\ asked' = Tail(asked)
    /\ UNCHANGED <<timer, silent, open>>

FallSilent ==
    /\ open /\ ~silent
    /\ silent' = TRUE /\ asked' = << >>
    /\ UNCHANGED <<timer, count, open>>

(* The session was released; it is used for another client.                *)
Release ==
    /\ ~open
    /\ timer' = -1 /\ count' = 0 /\ asked' = << >>
    /\ silent' = FALSE /\ open' = TRUE

Next == (\E d \in ScanGap : DoUpdate(d)) \/ C2S_Heartbeat \/ FallSilent \/ Release

Spec == Init /\ [][Next]_vars

(* UpdateThread keeps scanning, and answers get handled in time.           *)
FairSpec == Spec /\ WF_vars(\E d \in ScanGap : DoUpdate(d))

-----------------------------------------------------------------------------
(* A client that answers every heartbeat, at most Lag seconds late, is     *)
(* never disconnected by the heartbeat, over any number of heartbeats.     *)
KeptWhileAnswering == ~open => silent

(* A client that has fallen silent is disconnected.                        *)
SilentDropped == silent ~> ~open
=============================================================================
