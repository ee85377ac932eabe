---------------------------- MODULE SessionProofs ----------------------------
(***************************************************************************)
(* Proofs about the heartbeat of user sessions and about the locks around  *)
(* them.                                                                   *)
(* The heartbeat never drops a client that answers in time, for every      *)
(* choice of times between scans.  Two heartbeats are more than 15 s       *)
(* apart, so the k-th but last one that is still unanswered is at least    *)
(* 16 * k s old; the fifth heartbeat, the one that closes, finds four      *)
(* unanswered, and the oldest is then 64 s old.                            *)
(* The locks, for any set of sessions: whoever waits for whom, the only    *)
(* circle is the one through C2S_Auth.                                     *)
(***************************************************************************)
EXTENDS Heartbeat, SessionLocks, SequenceTheorems, TLAPS

TypeInv ==
    /\ timer \in Int /\ count \in Int
    /\ asked \in Seq(Nat)
    /\ timer <= 15

(* How old the unanswered heartbeats are, in terms of the timer.           *)
Spaced == \A i \in 1..Len(asked) : asked[i] >= 16 * (Len(asked) - i) + (15 - timer)

(* While the client answers, the count is the number of its answers due.   *)
Inv ==
    /\ TypeInv
    /\ ~silent => count = Len(asked) /\ Spaced
    /\ silent => asked = << >>
    /\ KeptWhileAnswering

LEMMA InitInv == Init => Inv
  BY DEF Init, Inv, TypeInv, Spaced, KeptWhileAnswering

(* Ages after d seconds.                                                   *)
LEMMA OlderFacts ==
    ASSUME TypeInv, NEW d \in Nat
    PROVE  /\ Older(d) \in Seq(Nat) /\ Len(Older(d)) = Len(asked) /\ Len(asked) \in Nat
           /\ DOMAIN asked = 1..Len(asked)
           /\ \A i \in 1..Len(asked) : Older(d)[i] = asked[i] + d /\ asked[i] \in Nat
<1>1. asked \in Seq(Nat) /\ Len(asked) \in Nat /\ DOMAIN asked = 1..Len(asked)
  BY LenProperties DEF TypeInv
<1>2. \A i \in 1..Len(asked) : asked[i] \in Nat /\ asked[i] + d \in Nat
  BY <1>1, ElementOfSeq
<1>3. Older(d) = [i \in 1..Len(asked) |-> asked[i] + d]
  BY <1>1 DEF Older
<1> QED  BY <1>1, <1>2, <1>3

(* A heartbeat that was spaced is still, when one more has been sent.      *)
LEMMA OneMore ==
    ASSUME NEW age \in Int, NEW n \in Int, NEW i \in Int, NEW d \in Int, NEW left \in Int,
           age >= 16 * (n - i) + (15 - left), left - d < 0
    PROVE  age + d >= 16 * (n + 1 - i) + (15 - 15)
OBVIOUS

(* A scan: nothing due, a heartbeat sent, or the connector closed.  A      *)
(* client that answers is not closed, since its oldest heartbeat would     *)
(* have to be older than Lag.                                              *)
LEMMA DoUpdateInv ==
    ASSUME Lag < 64, Inv, NEW d \in ScanGap, DoUpdate(d)
    PROVE  Inv'
<1>1. d \in Nat /\ d > 5
  BY HeartbeatAssumption
<1>2. /\ Older(d) \in Seq(Nat) /\ Len(Older(d)) = Len(asked) /\ Len(asked) \in Nat
      /\ \A i \in 1..Len(asked) : Older(d)[i] = asked[i] + d /\ asked[i] \in Nat
      /\ \A i \in 1..Len(asked) : Older(d)[i] <= Lag
  BY <1>1, OlderFacts, Zenon DEF Inv, DoUpdate
<1>3. TypeInv /\ open /\ (silent' <=> silent) /\ Lag \in Nat
  BY HeartbeatAssumption DEF Inv, DoUpdate, TypeInv
<1> DEFINE O == Older(d)
<1> HIDE DEF O
<1>0. /\ O \in Seq(Nat) /\ Len(O) = Len(asked)
      /\ \A i \in 1..Len(asked) : O[i] = asked[i] + d
      /\ \A i \in 1..Len(asked) : O[i] <= Lag
  BY <1>2 DEF O
<1>4. CASE timer - d >= 0
  <2>1. timer' = timer - d /\ asked' = O /\ count' = count /\ (open' <=> open)
    <3>1. ~(timer - d < 0)
      BY <1>1, <1>3, <1>4 DEF TypeInv
    <3> QED  BY <3>1, Zenon DEF DoUpdate, O
  <2>2. TypeInv'
    BY <2>1, <1>0, <1>1, <1>3 DEF TypeInv
  <2>3. ASSUME ~silent PROVE count' = Len(asked') /\ Spaced'
    BY <2>1, <2>3, <1>0, <1>1, <1>2, <1>3, SMTT(30) DEF Inv, Spaced, TypeInv
  <2>4. ASSUME silent PROVE asked' = << >>
    <3>1. Len(asked) = 0
      BY <2>4 DEF Inv
    <3> QED  BY <2>1, <3>1, <1>0, EmptySeq
  <2> QED  BY <2>1, <2>2, <2>3, <2>4, <1>3 DEF Inv, KeptWhileAnswering
<1>5. CASE timer - d < 0
  <2>1. /\ timer' = 15 /\ count' = count + 1
        /\ \/ 4 < count' /\ asked' = O
           \/ ~(4 < count') /\ asked' = (IF silent THEN << >> ELSE Append(O, 0)) /\ open'
    <3>1. ~(timer - d >= 0)
      BY <1>1, <1>3, <1>5 DEF TypeInv
    <3> QED  BY <3>1, <1>3, Zenon DEF DoUpdate, O, HeartbeatPeriod, IncHeartbeat, Over
  <2>2. ASSUME ~silent PROVE ~(4 < count')
    <3>1. SUFFICES ASSUME 4 < count' PROVE FALSE
      OBVIOUS
    <3>2. Len(asked) >= 4 /\ 1 \in 1..Len(asked)
      BY <2>1, <2>2, <3>1, <1>2 DEF Inv
    <3>3. asked[1] >= 16 * (Len(asked) - 1) + (15 - timer) /\ asked[1] \in Nat
      BY <2>2, <3>2, <1>2 DEF Inv, Spaced
    <3>4. asked[1] + d >= 64
      BY <3>2, <3>3, <1>1, <1>2, <1>3, <1>5, SMTT(30) DEF TypeInv
    <3>5. asked[1] + d <= Lag
      BY <3>2, <1>0
    <3> QED  BY <3>3, <3>4, <3>5, <1>1, <1>3
  <2>3. CASE silent
    <3>1. Len(asked) = 0
      BY <2>3 DEF Inv
    <3>2. O = << >>
      BY <3>1, <1>0, EmptySeq
    <3>3. asked' = << >>
      BY <2>1, <2>3, <3>2
    <3>4. TypeInv'
      BY <2>1, <3>3, <1>3 DEF TypeInv
    <3> QED  BY <2>3, <3>3, <3>4, <1>3 DEF Inv, KeptWhileAnswering
  <2>4. CASE ~silent
    <3>1. asked' = Append(O, 0) /\ open'
      BY <2>1, <2>2, <2>4, <1>3
    <3>2. /\ asked' \in Seq(Nat) /\ Len(asked') = Len(asked) + 1
          /\ asked'[Len(asked) + 1] = 0
          /\ \A i \in 1..Len(asked) : asked'[i] = O[i]
      BY <3>1, <1>0, <1>2, AppendProperties
    <3>3. TypeInv'
      BY <2>1, <3>1, <3>2, <1>3 DEF TypeInv
    <3>4. ASSUME NEW i \in 1..Len(asked')
          PROVE  asked'[i] >= 16 * (Len(asked') - i) + (15 - timer')
      <4>1. CASE i = Len(asked) + 1
        BY <4>1, <3>2, <2>1, <1>2
      <4>2. CASE i # Len(asked) + 1
        <5>1. i \in 1..Len(asked)
          BY <4>2, <3>2, <1>2
        <5>2. asked[i] >= 16 * (Len(asked) - i) + (15 - timer) /\ asked[i] \in Nat
          BY <5>1, <2>4, <1>2 DEF Inv, Spaced
        <5>3. asked'[i] = asked[i] + d
          BY <5>1, <3>2, <1>0
        <5>4. /\ i \in Int /\ Len(asked) \in Int /\ asked[i] \in Int
              /\ d \in Int /\ timer \in Int /\ timer - d < 0
          BY <5>1, <5>2, <1>1, <1>2, <1>3, <1>5 DEF TypeInv
        <5>5. asked[i] + d >= 16 * (Len(asked) + 1 - i) + (15 - 15)
          BY <5>2, <5>4, OneMore
        <5> QED  BY <5>3, <5>5, <3>2, <2>1
      <4> QED  BY <4>1, <4>2
    <3>5. count' = Len(asked')
      BY <2>1, <2>4, <3>2 DEF Inv
    <3> QED  BY <3>1, <3>3, <3>4, <3>5, <2>4, <1>3 DEF Inv, Spaced, KeptWhileAnswering
  <2> QED  BY <2>3, <2>4
<1> QED  BY <1>1, <1>3, <1>4, <1>5 DEF TypeInv

(* An answer takes the oldest heartbeat away; the others keep their place  *)
(* from the end.                                                           *)
LEMMA AnswerInv == ASSUME Inv, C2S_Heartbeat PROVE Inv'
<1>1. /\ TypeInv /\ ~silent /\ open /\ asked # << >> /\ asked' = Tail(asked) /\ count' = count - 1
      /\ timer' = timer /\ ~silent' /\ open'
  BY DEF Inv, C2S_Heartbeat, DecHeartbeat, TypeInv
<1>2. /\ Tail(asked) \in Seq(Nat) /\ Len(Tail(asked)) = Len(asked) - 1 /\ Len(asked) \in Nat
      /\ \A i \in 1..Len(Tail(asked)) : i + 1 \in 1..Len(asked) /\ Tail(asked)[i] = asked[i + 1]
  BY <1>1, HeadTailProperties, EmptySeq, LenProperties DEF TypeInv
<1>3. TypeInv'
  BY <1>1, <1>2 DEF TypeInv
<1>4. ASSUME NEW i \in 1..Len(asked')
      PROVE  asked'[i] >= 16 * (Len(asked') - i) + (15 - timer')
  <2>1. i + 1 \in 1..Len(asked) /\ asked'[i] = asked[i + 1]
    BY <1>1, <1>2
  <2>2. asked[i + 1] >= 16 * (Len(asked) - (i + 1)) + (15 - timer)
    BY <1>1, <2>1 DEF Inv, Spaced
  <2>3. 16 * (Len(asked') - i) = 16 * (Len(asked) - (i + 1))
    BY <1>1, <1>2
  <2> QED  BY <1>1, <2>1, <2>2, <2>3
<1>5. count' = Len(asked')
  BY <1>1, <1>2 DEF Inv
<1> QED  BY <1>1, <1>3, <1>4, <1>5 DEF Inv, Spaced, KeptWhileAnswering

LEMMA NextInv == ASSUME Lag < 64 PROVE Inv /\ [Next]_vars => Inv'
<1> SUFFICES ASSUME Inv, [Next]_vars PROVE Inv'
  OBVIOUS
<1>1. CASE FallSilent
  BY <1>1 DEF FallSilent, Inv, TypeInv, Spaced, KeptWhileAnswering
<1>2. CASE Release
  BY <1>2 DEF Release, Inv, TypeInv, Spaced, KeptWhileAnswering
<1>3. CASE UNCHANGED vars
  BY <1>3 DEF vars, Inv, TypeInv, Spaced, KeptWhileAnswering
<1> QED  BY DoUpdateInv, AnswerInv, <1>1, <1>2, <1>3 DEF Next

(* A client that answers every heartbeat within 63 s is never disconnected *)
(* by UserSession::DoUpdate, whatever the times between the scans (over    *)
(* 5 s, as UserSessionMgr's timer has it) and over any number of           *)
(* heartbeats.                                                             *)
THEOREM AnsweringIsKept == Lag < 64 => (Spec => []KeptWhileAnswering)
<1> SUFFICES ASSUME Lag < 64 PROVE Spec => []KeptWhileAnswering
  OBVIOUS
<1>1. Inv => KeptWhileAnswering
  BY DEF Inv
<1>2. Inv /\ [Next]_vars => Inv'
  BY NextInv
<1> QED  BY InitInv, <1>1, <1>2, PTL DEF Spec

-----------------------------------------------------------------------------
(* Locks.                                                                  *)

(* The locks under which no other is taken.                                *)
Leaf == {ConnMgr, Cmds} \cup {Send(s) : s \in Session}

(* What the code's order of locks comes to: thread t, holding H, may take  *)
(* l.  Nobody takes a lock it holds, or any lock under a leaf; workers take*)
(* leaves only, one at a time; ProcessThread takes, under a session's lock,*)
(* a leaf or, in C2S_Auth, the manager's.                                  *)
Allowed(t, H, l) ==
    /\ l \in Locks \ H
    /\ H \cap Leaf = {}
    /\ t = "worker" => H = {} /\ l \in Leaf
    /\ t = "process" => H = {} \/ (\E s \in Session : H = {Of(s)} /\ l \in Leaf \cup {Mgr})

Step == {"take", "drop"} \X Locks

(* h[i] is what thread t holds before step i of the script q.              *)
PathAt(t, q, h) ==
    \A i \in 1..Len(q) :
        \/ q[i][1] = "take" /\ Allowed(t, h[i], q[i][2]) /\ h[i + 1] = h[i] \cup {q[i][2]}
        \/ q[i][1] = "drop" /\ q[i][2] \in h[i] /\ h[i + 1] = h[i] \ {q[i][2]}

(* The script q, begun with the locks H, takes only what it may, drops     *)
(* only what it holds, and ends with the locks G.                          *)
Path(t, H, q, G) ==
    /\ q \in Seq(Step)
    /\ \E h \in [1..(Len(q) + 1) -> SUBSET Locks] :
          h[1] = H /\ h[Len(q) + 1] = G /\ PathAt(t, q, h)

LEMMA LocksDistinct ==
    /\ Mgr \in Locks \ Leaf /\ ZoneMgr \in Locks \ Leaf /\ Zone \in Locks \ Leaf
    /\ Leaf \subseteq Locks /\ Cmds \in Leaf /\ ConnMgr \in Leaf
    /\ Zone # ZoneMgr
    /\ \A s \in Session : Send(s) \in Leaf /\ Of(s) \in Locks \ Leaf /\ Of(s) # Mgr
  <1>1. \A s \in Session : Mgr # Send(s) /\ ZoneMgr # Send(s) /\ Zone # Send(s) /\ Of(s) # Mgr
    BY DEF Mgr, ZoneMgr, Zone, Send, Of
  <1>2. \A s \in Session, r \in Session : Of(s) # Send(r)
    BY DEF Send, Of
  <1>3. \A s \in Session : Of(s) # ConnMgr /\ Of(s) # Cmds
    BY DEF Of, ConnMgr, Cmds
  <1>4. /\ Mgr # ConnMgr /\ Mgr # Cmds /\ ZoneMgr # ConnMgr /\ ZoneMgr # Cmds
        /\ Zone # ConnMgr /\ Zone # Cmds /\ Zone # ZoneMgr
    BY DEF Mgr, ZoneMgr, Zone, ConnMgr, Cmds
  <1> QED
    BY <1>1, <1>2, <1>3, <1>4, Zenon DEF Leaf, Locks

LEMMA PathEmpty == ASSUME NEW t, NEW H \in SUBSET Locks PROVE Path(t, H, << >>, H)
  <1> DEFINE h == [i \in 1..1 |-> H]
  <1>1. Len(<< >>) = 0 /\ << >> \in Seq(Step) /\ h \in [1..1 -> SUBSET Locks] /\ h[1] = H
    OBVIOUS
  <1>2. Len(<< >>) + 1 = 1 /\ 1..Len(<< >>) = {}
    OBVIOUS
  <1> QED
    BY <1>1, <1>2, Zenon DEF Path, PathAt

LEMMA PathTake ==
    ASSUME NEW t, NEW H \in SUBSET Locks, NEW l, Allowed(t, H, l)
    PROVE  Path(t, H, <<<<"take", l>>>>, H \cup {l})
  <1> DEFINE q == <<<<"take", l>>>>
             h == [i \in 1..2 |-> IF i = 1 THEN H ELSE H \cup {l}]
  <1>1. l \in Locks
    BY DEF Allowed
  <1>2. q \in Seq(Step) /\ Len(q) = 1 /\ q[1][1] = "take" /\ q[1][2] = l
    BY <1>1 DEF Step
  <1>3. h \in [1..2 -> SUBSET Locks] /\ h[1] = H /\ h[2] = H \cup {l}
    BY <1>1
  <1> HIDE DEF h, q
  <1>4. PathAt(t, q, h)
    BY <1>2, <1>3 DEF PathAt
  <1>5. Len(q) + 1 = 2
    BY <1>2
  <1>6. Path(t, H, q, H \cup {l})
    BY <1>2, <1>3, <1>4, <1>5, Zenon DEF Path
  <1> QED
    BY <1>6 DEF q

LEMMA PathDrop ==
    ASSUME NEW t, NEW H \in SUBSET Locks, NEW l \in H
    PROVE  Path(t, H, <<<<"drop", l>>>>, H \ {l})
  <1> DEFINE q == <<<<"drop", l>>>>
             h == [i \in 1..2 |-> IF i = 1 THEN H ELSE H \ {l}]
  <1>2. q \in Seq(Step) /\ Len(q) = 1 /\ q[1][1] = "drop" /\ q[1][2] = l
    BY DEF Step
  <1>3. h \in [1..2 -> SUBSET Locks] /\ h[1] = H /\ h[2] = H \ {l}
    OBVIOUS
  <1> HIDE DEF h, q
  <1>4. PathAt(t, q, h)
    BY <1>2, <1>3 DEF PathAt
  <1>5. Len(q) + 1 = 2
    BY <1>2
  <1>6. Path(t, H, q, H \ {l})
    BY <1>2, <1>3, <1>4, <1>5, Zenon DEF Path
  <1> QED
    BY <1>6 DEF q

LEMMA ConcatSteps ==
    ASSUME NEW p \in Seq(Step), NEW q \in Seq(Step)
    PROVE  /\ p \o q \in Seq(Step) /\ Len(p) \in Nat /\ Len(q) \in Nat /\ Len(p \o q) = Len(p) + Len(q)
           /\ \A i \in 1..Len(p) : (p \o q)[i] = p[i]
           /\ \A i \in 1..Len(q) : (p \o q)[Len(p) + i] = q[i]
  OBVIOUS

\* One script after the other.
LEMMA PathConcat ==
    ASSUME NEW t, NEW H, NEW F, NEW G, NEW p, NEW q, Path(t, H, p, F), Path(t, F, q, G)
    PROVE  Path(t, H, p \o q, G)
  <1> DEFINE m == Len(p)
             n == Len(q)
             r == p \o q
  <1>1. p \in Seq(Step) /\ q \in Seq(Step)
    BY Zenon DEF Path
  <1>2. /\ r \in Seq(Step) /\ m \in Nat /\ n \in Nat /\ Len(r) = m + n
        /\ \A i \in 1..m : r[i] = p[i]
        /\ \A i \in 1..n : r[m + i] = q[i]
    BY <1>1, ConcatSteps, Zenon
  <1>3. PICK h \in [1..(m + 1) -> SUBSET Locks] : h[1] = H /\ h[m + 1] = F /\ PathAt(t, p, h)
    BY Zenon DEF Path
  <1>4. PICK g \in [1..(n + 1) -> SUBSET Locks] : g[1] = F /\ g[n + 1] = G /\ PathAt(t, q, g)
    BY Zenon DEF Path
  <1> HIDE DEF m, n, r
  <1> DEFINE k == [i \in 1..((m + n) + 1) |-> IF i <= m + 1 THEN h[i] ELSE g[i - m]]
  <1>5. \A i \in 1..((m + n) + 1) : IF i <= m + 1 THEN i \in 1..(m + 1) ELSE i - m \in 1..(n + 1)
    BY <1>2
  <1>6. k \in [1..((m + n) + 1) -> SUBSET Locks]
    BY <1>5, Zenon
  <1>7. \A i \in 1..(m + 1) : i \in 1..((m + n) + 1) /\ i <= m + 1
    BY <1>2
  <1>8. \A i \in 1..(m + 1) : k[i] = h[i]
    BY <1>7, Zenon
  <1>9. ASSUME NEW i \in 1..(n + 1) PROVE k[m + i] = g[i]
    <2>1. m + i \in 1..((m + n) + 1) /\ (m + i) - m = i
      BY <1>2
    <2>2. CASE i = 1
      <3>1. m + i <= m + 1 /\ m + i = m + 1
        BY <1>2, <2>2
      <3> QED
        BY <1>3, <1>4, <2>1, <2>2, <3>1, Zenon
    <2>3. CASE i # 1
      <3>1. ~(m + i <= m + 1)
        BY <1>2, <2>3
      <3> QED
        BY <2>1, <3>1, Zenon
    <2> QED
      BY <2>2, <2>3
  <1> HIDE DEF k
  <1>10. k[1] = H /\ k[(m + n) + 1] = G
    <2>1. 1 \in 1..(m + 1) /\ n + 1 \in 1..(n + 1) /\ m + (n + 1) = (m + n) + 1
      BY <1>2
    <2>2. k[1] = h[1] /\ k[m + (n + 1)] = g[n + 1]
      BY <1>8, <1>9, <2>1, Zenon
    <2> QED
      BY <1>3, <1>4, <2>1, <2>2, Zenon
  <1>11. ASSUME NEW i \in 1..(m + n)
         PROVE  \/ r[i][1] = "take" /\ Allowed(t, k[i], r[i][2]) /\ k[i + 1] = k[i] \cup {r[i][2]}
                \/ r[i][1] = "drop" /\ r[i][2] \in k[i] /\ k[i + 1] = k[i] \ {r[i][2]}
    <2>1. CASE i <= m
      <3>1. i \in 1..m /\ i \in 1..(m + 1) /\ i + 1 \in 1..(m + 1)
        BY <1>2, <2>1
      <3>2. r[i] = p[i] /\ k[i] = h[i] /\ k[i + 1] = h[i + 1]
        BY <1>2, <1>8, <3>1, Zenon
      <3>3. \/ p[i][1] = "take" /\ Allowed(t, h[i], p[i][2]) /\ h[i + 1] = h[i] \cup {p[i][2]}
            \/ p[i][1] = "drop" /\ p[i][2] \in h[i] /\ h[i + 1] = h[i] \ {p[i][2]}
        BY <1>3, <3>1, Zenon DEF PathAt, m
      <3> QED
        BY <3>2, <3>3, Zenon
    <2>2. CASE ~(i <= m)
      <3> DEFINE j == i - m
      <3>1. j \in 1..n /\ j \in 1..(n + 1) /\ j + 1 \in 1..(n + 1) /\ m + j = i /\ m + (j + 1) = i + 1
        BY <1>2, <2>2
      <3> HIDE DEF j
      <3>2. r[i] = q[j] /\ k[i] = g[j] /\ k[i + 1] = g[j + 1]
        <4>1. r[m + j] = q[j] /\ k[m + j] = g[j] /\ k[m + (j + 1)] = g[j + 1]
          BY <1>2, <1>9, <3>1, Zenon
        <4> QED
          BY <3>1, <4>1, Zenon
      <3>3. \/ q[j][1] = "take" /\ Allowed(t, g[j], q[j][2]) /\ g[j + 1] = g[j] \cup {q[j][2]}
            \/ q[j][1] = "drop" /\ q[j][2] \in g[j] /\ g[j + 1] = g[j] \ {q[j][2]}
        BY <1>4, <3>1, Zenon DEF PathAt, n
      <3> QED
        BY <3>2, <3>3, Zenon
    <2> QED
      BY <2>1, <2>2
  <1>12. PathAt(t, r, k)
    BY <1>2, <1>11, Zenon DEF PathAt
  <1>13. Path(t, H, r, G)
    BY <1>2, <1>6, <1>10, <1>12, Zenon DEF Path
  <1> QED
    BY <1>13 DEF r

\* A scope: the lock is taken, the rest of the scope runs with it, it is dropped.
LEMMA PathUnder ==
    ASSUME NEW t, NEW H \in SUBSET Locks, NEW l, Allowed(t, H, l), NEW q,
           Path(t, H \cup {l}, q, H \cup {l})
    PROVE  Path(t, H, Under(l, q), H)
  <1>1. l \in Locks /\ l \notin H /\ H \cup {l} \in SUBSET Locks /\ l \in H \cup {l}
    BY Zenon DEF Allowed
  <1>2. (H \cup {l}) \ {l} = H
    BY <1>1
  <1>3. Path(t, H, <<<<"take", l>>>>, H \cup {l})
    BY PathTake, Zenon
  <1>4. Path(t, H \cup {l}, <<<<"drop", l>>>>, H)
    <2>1. Path(t, H \cup {l}, <<<<"drop", l>>>>, (H \cup {l}) \ {l})
      BY <1>1, PathDrop, Zenon
    <2> QED
      BY <1>2, <2>1, Zenon
  <1>5. Path(t, H, <<<<"take", l>>>> \o q, H \cup {l})
    BY <1>3, PathConcat, Zenon
  <1>6. Path(t, H, (<<<<"take", l>>>> \o q) \o <<<<"drop", l>>>>, H)
    BY <1>4, <1>5, PathConcat, Zenon
  <1> QED
    BY <1>6, Zenon DEF Under

LEMMA PathBrief ==
    ASSUME NEW t, NEW H \in SUBSET Locks, NEW l, Allowed(t, H, l)
    PROVE  Path(t, H, Brief(l), H)
  <1>1. H \cup {l} \in SUBSET Locks
    BY Zenon DEF Allowed
  <1>2. Path(t, H \cup {l}, << >>, H \cup {l})
    BY <1>1, PathEmpty, Zenon
  <1> QED
    BY <1>2, PathUnder, Zenon DEF Brief

\* The first step of a script, and what is left of it.
LEMMA PathHead ==
    ASSUME NEW t, NEW H, NEW G, NEW q, Path(t, H, q, G), q # << >>
    PROVE  /\ Head(q) \in Step
           /\ \/ Head(q)[1] = "take" /\ Allowed(t, H, Head(q)[2]) /\ Path(t, H \cup {Head(q)[2]}, Tail(q), G)
              \/ Head(q)[1] = "drop" /\ Head(q)[2] \in H /\ Path(t, H \ {Head(q)[2]}, Tail(q), G)
  <1> DEFINE n == Len(q)
             r == Tail(q)
  <1>1. q \in Seq(Step)
    BY Zenon DEF Path
  <1>2. /\ n \in Nat \ {0} /\ Head(q) \in Step /\ Head(q) = q[1]
        /\ r \in Seq(Step) /\ Len(r) = n - 1 /\ \A i \in 1..(n - 1) : r[i] = q[i + 1]
    BY <1>1
  <1>3. PICK h \in [1..(n + 1) -> SUBSET Locks] : h[1] = H /\ h[n + 1] = G /\ PathAt(t, q, h)
    BY Zenon DEF Path
  <1>4. 1 \in 1..n /\ 1 + 1 = 2 /\ (n - 1) + 1 = n
    BY <1>2
  <1>5. \/ q[1][1] = "take" /\ Allowed(t, H, q[1][2]) /\ h[2] = H \cup {q[1][2]}
        \/ q[1][1] = "drop" /\ q[1][2] \in H /\ h[2] = H \ {q[1][2]}
    BY <1>3, <1>4, Zenon DEF PathAt
  <1> DEFINE g == [i \in 1..n |-> h[i + 1]]
  <1> HIDE DEF n, r
  <1>6. \A i \in 1..n : i + 1 \in 1..(n + 1)
    BY <1>2
  <1>7. g \in [1..n -> SUBSET Locks] /\ \A i \in 1..n : g[i] = h[i + 1]
    BY <1>6, Zenon
  <1> HIDE DEF g
  <1>8. g[1] = h[2] /\ g[n] = G
    <2>1. n \in 1..n
      BY <1>2
    <2> QED
      BY <1>3, <1>4, <1>7, <2>1, Zenon
  <1>9. ASSUME NEW i \in 1..(n - 1)
        PROVE  \/ r[i][1] = "take" /\ Allowed(t, g[i], r[i][2]) /\ g[i + 1] = g[i] \cup {r[i][2]}
               \/ r[i][1] = "drop" /\ r[i][2] \in g[i] /\ g[i + 1] = g[i] \ {r[i][2]}
    <2>1. i \in 1..n /\ i + 1 \in 1..n
      BY <1>2
    <2>2. r[i] = q[i + 1] /\ g[i] = h[i + 1] /\ g[i + 1] = h[(i + 1) + 1]
      BY <1>2, <1>7, <2>1, Zenon
    <2>3. \/ q[i + 1][1] = "take" /\ Allowed(t, h[i + 1], q[i + 1][2]) /\ h[(i + 1) + 1] = h[i + 1] \cup {q[i + 1][2]}
          \/ q[i + 1][1] = "drop" /\ q[i + 1][2] \in h[i + 1] /\ h[(i + 1) + 1] = h[i + 1] \ {q[i + 1][2]}
      BY <1>3, <2>1, Zenon DEF PathAt, n
    <2> QED
      BY <2>2, <2>3, Zenon
  <1>10. PathAt(t, r, g)
    BY <1>2, <1>9, Zenon DEF PathAt
  <1>11. Path(t, h[2], r, G)
    BY <1>2, <1>4, <1>7, <1>8, <1>10, Zenon DEF Path
  <1> QED
    BY <1>2, <1>5, <1>11, Zenon DEF r

-----------------------------------------------------------------------------
(* Which locks may be taken where.                                         *)

LEMMA AllowedFirst ==
    ASSUME NEW t \in {"process", "update"}, NEW l \in Locks
    PROVE  Allowed(t, {}, l)
  BY DEF Allowed

LEMMA AllowedLeaf ==
    ASSUME NEW t \in Thread, NEW l \in Leaf
    PROVE  Allowed(t, {}, l)
  BY LocksDistinct, Zenon DEF Allowed

\* Under a session's lock, and in the scan under the manager's as well.
LEMMA AllowedUnderSession ==
    ASSUME NEW s \in Session
    PROVE  /\ {Of(s)} \in SUBSET Locks /\ {Mgr, Of(s)} \in SUBSET Locks /\ {Mgr} \in SUBSET Locks
           /\ Allowed("process", {Of(s)}, Mgr)
           /\ Allowed("update", {Mgr}, Of(s))
           /\ \A l \in Leaf : /\ Allowed("process", {Of(s)}, l)
                              /\ Allowed("update", {Of(s)}, l)
                              /\ Allowed("update", {Mgr, Of(s)}, l)
  <1>1. /\ Of(s) \in Locks /\ Of(s) \notin Leaf /\ Of(s) # Mgr /\ Mgr \in Locks /\ Mgr \notin Leaf
        /\ Leaf \subseteq Locks
    BY LocksDistinct, Zenon
  <1>2. {Of(s)} \cap Leaf = {} /\ {Mgr} \cap Leaf = {} /\ {Mgr, Of(s)} \cap Leaf = {}
    BY <1>1, Zenon
  <1>3. "update" # "process" /\ "update" # "worker" /\ "process" # "worker"
    OBVIOUS
  <1> QED
    BY <1>1, <1>2, <1>3, Zenon DEF Allowed

LEMMA AllowedUnderZone ==
    /\ {Zone} \in SUBSET Locks /\ {ZoneMgr} \in SUBSET Locks
    /\ Allowed("update", {Zone}, Cmds)
    /\ Allowed("update", {ZoneMgr}, Zone)
  <1>1. /\ Zone \in Locks /\ Zone \notin Leaf /\ ZoneMgr \in Locks /\ ZoneMgr \notin Leaf /\ Zone # ZoneMgr
        /\ Cmds \in Leaf /\ Leaf \subseteq Locks
    BY LocksDistinct, Zenon
  <1>2. "update" # "process" /\ "update" # "worker"
    OBVIOUS
  <1> QED
    BY <1>1, <1>2, Zenon DEF Allowed

-----------------------------------------------------------------------------
(* The scripts of the three threads.                                       *)

LEMMA SendPacketPath ==
    ASSUME NEW t, NEW H \in SUBSET Locks, NEW s, Allowed(t, H, Send(s))
    PROVE  Path(t, H, SendPacket(s), H)
  BY PathBrief, PathConcat, Zenon DEF SendPacket

LEMMA ProcessPath == ASSUME NEW q \in ProcessScripts PROVE Path("process", {}, q, {})
  <1>1. {} \in SUBSET Locks /\ Mgr \in Locks /\ Cmds \in Leaf
    BY LocksDistinct, Zenon
  <1>2. CASE q = Brief(Mgr)
    BY <1>1, <1>2, AllowedFirst, PathBrief, Zenon
  <1>3. ASSUME NEW s \in Session, q \in {C2S_Auth(s), C2S_Queued(s), C2S_HeartbeatScript(s)}
        PROVE  Path("process", {}, q, {})
    <2>1. /\ {Of(s)} \in SUBSET Locks /\ Allowed("process", {Of(s)}, Mgr)
          /\ Allowed("process", {Of(s)}, Send(s)) /\ Allowed("process", {Of(s)}, Cmds)
      BY <1>1, <1>3, AllowedUnderSession, LocksDistinct, Zenon
    <2>2. Allowed("process", {}, Of(s)) /\ {} \cup {Of(s)} = {Of(s)}
      BY <1>3, AllowedFirst, LocksDistinct, Zenon
    <2>3. Path("process", {Of(s)}, Brief(Mgr), {Of(s)})
      BY <2>1, PathBrief, Zenon
    <2>4. Path("process", {Of(s)}, SendPacket(s), {Of(s)})
      BY <2>1, SendPacketPath, Zenon
    <2>5. Path("process", {Of(s)}, Brief(Mgr) \o SendPacket(s), {Of(s)})
      BY <2>3, <2>4, PathConcat, Zenon
    <2>6. Path("process", {Of(s)}, Add, {Of(s)})
      BY <2>1, PathBrief, Zenon DEF Add
    <2>7. Path("process", {}, C2S_Auth(s), {})
      BY <1>1, <2>2, <2>5, PathUnder, Zenon DEF C2S_Auth
    <2>8. Path("process", {}, C2S_Queued(s), {})
      BY <1>1, <2>2, <2>6, PathUnder, Zenon DEF C2S_Queued
    <2>9. Path("process", {}, C2S_HeartbeatScript(s), {})
      BY <1>1, <2>2, PathBrief, Zenon DEF C2S_HeartbeatScript
    <2> QED
      BY <1>3, <2>7, <2>8, <2>9, Zenon
  <1> QED
    BY <1>2, <1>3, Zenon DEF ProcessScripts

LEMMA WorkerPath == ASSUME NEW q \in WorkerScripts PROVE Path("worker", {}, q, {})
  <1>1. "worker" \in Thread /\ {} \in SUBSET Locks /\ ConnMgr \in Leaf /\ \A s \in Session : Send(s) \in Leaf
    BY LocksDistinct, Zenon DEF Thread
  <1>2. PICK l \in Leaf : q = Brief(l)
    BY <1>1, Zenon DEF WorkerScripts
  <1> QED
    BY <1>1, <1>2, AllowedLeaf, PathBrief, Zenon

LEMMA TryReleasePath ==
    ASSUME NEW H \in SUBSET Locks, Allowed("update", H, ConnMgr), NEW q \in TryRelease
    PROVE  Path("update", H, q, H)
  BY PathEmpty, PathBrief, Zenon DEF TryRelease

\* The update of one session, in the scan.
LEMMA DoUpdatePath ==
    ASSUME NEW s \in Session, NEW q \in DoUpdateScripts(s)
    PROVE  Path("update", {Mgr}, q, {Mgr})
  <1> DEFINE H == {Mgr, Of(s)}
  <1>1. /\ {Mgr} \in SUBSET Locks /\ H \in SUBSET Locks /\ Allowed("update", {Mgr}, Of(s))
        /\ Allowed("update", H, ConnMgr) /\ Allowed("update", H, Send(s)) /\ {Mgr} \cup {Of(s)} = H
    BY AllowedUnderSession, LocksDistinct, Zenon
  <1>2. PICK rest \in {<< >>, SendPacket(s)} \cup TryRelease : q = Under(Of(s), rest)
    BY Zenon DEF DoUpdateScripts
  <1> HIDE DEF H
  <1>3. Path("update", H, rest, H)
    <2>1. Path("update", H, << >>, H)
      BY <1>1, PathEmpty, Zenon
    <2>2. Path("update", H, SendPacket(s), H)
      BY <1>1, SendPacketPath, Zenon
    <2>3. \A r \in TryRelease : Path("update", H, r, H)
      BY <1>1, TryReleasePath, Zenon
    <2> QED
      BY <2>1, <2>2, <2>3, Zenon
  <1> QED
    BY <1>1, <1>2, <1>3, PathUnder, Zenon

LEMMA ReleasePath ==
    ASSUME NEW s \in Session, NEW q \in ReleaseScripts(s)
    PROVE  Path("update", {}, q, {})
  <1>1. /\ {} \in SUBSET Locks /\ {Of(s)} \in SUBSET Locks /\ Allowed("update", {Of(s)}, Cmds)
        /\ {} \cup {Of(s)} = {Of(s)} /\ Of(s) \in Locks /\ Mgr \in Locks /\ ConnMgr \in Locks
    BY AllowedUnderSession, LocksDistinct, Zenon
  <1>2. /\ Allowed("update", {}, Of(s)) /\ Allowed("update", {}, Mgr) /\ Allowed("update", {}, ConnMgr)
    BY <1>1, AllowedFirst, Zenon
  <1>3. PICK rel \in TryRelease : q = Under(Of(s), Add) \o rel \o Brief(Mgr) \o Brief(Mgr)
    BY Zenon DEF ReleaseScripts
  <1>4. Path("update", {Of(s)}, Add, {Of(s)})
    BY <1>1, PathBrief, Zenon DEF Add
  <1>5. Path("update", {}, Under(Of(s), Add), {})
    BY <1>1, <1>2, <1>4, PathUnder, Zenon
  <1>6. Path("update", {}, rel, {}) /\ Path("update", {}, Brief(Mgr), {})
    BY <1>1, <1>2, TryReleasePath, PathBrief, Zenon
  <1>7. Path("update", {}, Under(Of(s), Add) \o rel, {})
    BY <1>5, <1>6, PathConcat, Zenon
  <1>8. Path("update", {}, (Under(Of(s), Add) \o rel) \o Brief(Mgr), {})
    BY <1>6, <1>7, PathConcat, Zenon
  <1>9. Path("update", {}, ((Under(Of(s), Add) \o rel) \o Brief(Mgr)) \o Brief(Mgr), {})
    BY <1>6, <1>8, PathConcat, Zenon
  <1> QED
    BY <1>3, <1>9, Zenon

LEMMA CommandPath == ASSUME NEW q \in Commands PROVE Path("update", {}, q, {})
  <1>1. /\ {} \in SUBSET Locks /\ {Zone} \in SUBSET Locks /\ {ZoneMgr} \in SUBSET Locks
        /\ Allowed("update", {Zone}, Cmds) /\ Allowed("update", {ZoneMgr}, Zone)
        /\ {} \cup {Zone} = {Zone} /\ {} \cup {ZoneMgr} = {ZoneMgr}
    BY AllowedUnderZone, Zenon
  <1>2. Mgr \in Locks /\ ZoneMgr \in Locks /\ Zone \in Locks /\ Cmds \in Locks
    BY LocksDistinct, Zenon
  <1>3. ASSUME NEW l \in Locks PROVE Allowed("update", {}, l) /\ Path("update", {}, Brief(l), {})
    BY <1>1, AllowedFirst, PathBrief, Zenon
  <1>4. Path("update", {}, Brief(Mgr), {}) /\ Path("update", {}, Brief(ZoneMgr), {})
        /\ Path("update", {}, Brief(Zone), {}) /\ Path("update", {}, Add, {})
    BY <1>2, <1>3, Zenon DEF Add
  <1>5. Path("update", {}, Under(Zone, Add), {})
    <2>1. Path("update", {Zone}, Add, {Zone})
      BY <1>1, PathBrief, Zenon DEF Add
    <2> QED
      BY <1>1, <1>2, <1>3, <2>1, PathUnder, Zenon
  <1>6. Path("update", {}, Under(ZoneMgr, Brief(Zone)), {})
    <2>1. Path("update", {ZoneMgr}, Brief(Zone), {ZoneMgr})
      BY <1>1, PathBrief, Zenon
    <2> QED
      BY <1>1, <1>2, <1>3, <2>1, PathUnder, Zenon
  <1>7. ASSUME NEW s \in Session PROVE Path("update", {}, Brief(Mgr) \o SendPacket(s), {})
    <2>1. Send(s) \in Locks
      BY <1>7, LocksDistinct, Zenon
    <2>2. Path("update", {}, SendPacket(s), {})
      BY <1>1, <1>3, <2>1, SendPacketPath, Zenon
    <2> QED
      BY <1>4, <2>2, PathConcat, Zenon
  <1>8. Path("update", {}, Brief(ZoneMgr) \o Under(Zone, Add), {})
    BY <1>4, <1>5, PathConcat, Zenon
  <1>9. Path("update", {}, (Brief(Mgr) \o Under(ZoneMgr, Brief(Zone))) \o Add, {})
    <2>1. Path("update", {}, Brief(Mgr) \o Under(ZoneMgr, Brief(Zone)), {})
      BY <1>4, <1>6, PathConcat, Zenon
    <2> QED
      BY <1>4, <2>1, PathConcat, Zenon
  <1>10. Path("update", {}, ((Brief(Mgr) \o Brief(ZoneMgr)) \o Brief(Zone)) \o Add, {})
    <2>1. Path("update", {}, Brief(Mgr) \o Brief(ZoneMgr), {})
      BY <1>4, PathConcat, Zenon
    <2>2. Path("update", {}, (Brief(Mgr) \o Brief(ZoneMgr)) \o Brief(Zone), {})
      BY <1>4, <2>1, PathConcat, Zenon
    <2> QED
      BY <1>4, <2>2, PathConcat, Zenon
  <1> QED
    BY <1>7, <1>8, <1>9, <1>10, Zenon DEF Commands

LEMMA ScriptPath == ASSUME NEW t \in Thread, NEW q \in Scripts[t] PROVE Path(t, {}, q, {})
  <1>1. CASE t = "process"
    <2>1. q \in ProcessScripts
      BY <1>1 DEF Scripts
    <2> QED
      BY <1>1, <2>1, ProcessPath, Zenon
  <1>2. CASE t = "worker"
    <2>1. q \in WorkerScripts
      BY <1>2 DEF Scripts
    <2> QED
      BY <1>2, <2>1, WorkerPath, Zenon
  <1>3. CASE t = "update"
    <2>1. q \in UpdateScripts
      BY <1>3 DEF Scripts
    <2>2. CASE q \in {Brief(Mgr), Brief(Cmds)}
      <3>1. Mgr \in Locks /\ Cmds \in Locks /\ {} \in SUBSET Locks
        BY LocksDistinct, Zenon
      <3>2. Path("update", {}, Brief(Mgr), {}) /\ Path("update", {}, Brief(Cmds), {})
        BY <3>1, AllowedFirst, PathBrief, Zenon
      <3> QED
        BY <1>3, <2>2, <3>2, Zenon
    <2>3. CASE q \in Commands
      BY <1>3, <2>3, CommandPath, Zenon
    <2>4. ASSUME NEW s \in Session, q \in ReleaseScripts(s) PROVE Path(t, {}, q, {})
      BY <1>3, <2>4, ReleasePath, Zenon
    <2>5. q \in {Brief(Mgr), Brief(Cmds)} \/ q \in Commands \/ \E s \in Session : q \in ReleaseScripts(s)
      <3> DEFINE R == UNION {ReleaseScripts(s) : s \in Session}
      <3>1. q \in {Brief(Mgr), Brief(Cmds)} \/ q \in R \/ q \in Commands
        BY <2>1, Zenon DEF UpdateScripts
      <3>2. q \in R => \E s \in Session : q \in ReleaseScripts(s)
        BY Zenon
      <3> QED
        BY <3>1, <3>2, Zenon
    <2> QED
      BY <2>2, <2>3, <2>4, <2>5, Zenon
  <1> QED
    BY <1>1, <1>2, <1>3, Zenon DEF Thread

-----------------------------------------------------------------------------
(* The invariant: each thread holds just the locks with which the rest of  *)
(* its script can go on, and in the scan UpdateThread has the manager's    *)
(* lock between two sessions.                                              *)
Held(t) == {l \in Locks : owner[l] = t}

After(t) == IF t = "update" /\ scanning THEN {Mgr} ELSE {}

LocksInv ==
    /\ owner \in [Locks -> Thread \cup {None}]
    /\ DOMAIN todo = Thread
    /\ visit \subseteq Session
    /\ \A t \in Thread : Path(t, Held(t), todo[t], After(t))

LEMMA LocksInitInv == LocksInit => LocksInv
  <1> SUFFICES ASSUME LocksInit PROVE LocksInv
    OBVIOUS
  <1>1. /\ owner = [l \in Locks |-> None] /\ todo = [t \in Thread |-> << >>]
        /\ scanning = FALSE /\ visit = {}
    BY Zenon DEF LocksInit
  <1>2. owner \in [Locks -> Thread \cup {None}] /\ DOMAIN todo = Thread /\ visit \subseteq Session
    BY <1>1, Zenon
  <1>3. ASSUME NEW t \in Thread PROVE Path(t, Held(t), todo[t], After(t))
    <2>1. None # t
      BY NoneAssumption
    <2>2. Held(t) = {} /\ todo[t] = << >> /\ After(t) = {}
      BY <1>1, <2>1, Zenon DEF Held, After
    <2>3. Path(t, {}, << >>, {})
      BY PathEmpty, Zenon
    <2> QED
      BY <2>2, <2>3, Zenon
  <1> QED
    BY <1>2, <1>3, Zenon DEF LocksInv

\* A thread at rest holds what it holds between two scripts.
LEMMA AtRest ==
    ASSUME NEW t, NEW H, NEW G, Path(t, H, << >>, G)
    PROVE  H = G
  <1>1. Len(<< >>) + 1 = 1
    OBVIOUS
  <1> QED
    BY <1>1, Zenon DEF Path

\* A new script for a thread at rest, which leaves the locks as they are.
LEMMA NewScript ==
    ASSUME LocksInv, NEW t \in Thread, NEW q, todo[t] = << >>, todo' = [todo EXCEPT ![t] = q],
           UNCHANGED owner, visit' \subseteq Session, Path(t, After(t), q, After(t)'),
           \A r \in Thread : r # t => After(r)' = After(r)
    PROVE  LocksInv'
  <1>1. /\ owner' \in [Locks -> Thread \cup {None}] /\ DOMAIN todo' = Thread
        /\ todo'[t] = q /\ \A r \in Thread : r # t => todo'[r] = todo[r]
    BY Zenon DEF LocksInv
  <1>2. \A r \in Thread : Held(r)' = Held(r)
    BY Zenon DEF Held
  <1>3. Held(t) = After(t)
    BY AtRest, Zenon DEF LocksInv
  <1>4. ASSUME NEW r \in Thread PROVE Path(r, Held(r)', todo'[r], After(r)')
    <2>1. CASE r = t
      BY <1>1, <1>2, <1>3, <2>1, Zenon
    <2>2. CASE r # t
      BY <1>1, <1>2, <2>2, Zenon DEF LocksInv
    <2> QED
      BY <2>1, <2>2
  <1> QED
    BY <1>1, <1>4, Zenon DEF LocksInv, Path, PathAt, Allowed

LEMMA BeginLocks == ASSUME LocksInv, NEW t \in Thread, Begin(t) PROVE LocksInv'
  <1>1. PICK q \in Scripts[t] : todo' = [todo EXCEPT ![t] = q]
    BY Zenon DEF Begin
  <1>2. todo[t] = << >> /\ UNCHANGED <<owner, scanning, visit>> /\ (t = "update" => ~scanning)
    BY Zenon DEF Begin
  <1>3. (\A r \in Thread : After(r)' = After(r)) /\ After(t) = {}
    BY <1>2, Zenon DEF After
  <1>4. Path(t, {}, q, {})
    BY ScriptPath, Zenon
  <1>5. visit' \subseteq Session
    BY <1>2, Zenon DEF LocksInv
  <1>6. Path(t, After(t), q, After(t)')
    BY <1>3, <1>4, Zenon
  <1> QED
    BY <1>1, <1>2, <1>3, <1>5, <1>6, NewScript, Zenon

LEMMA BeginScanLocks == ASSUME LocksInv, BeginScan PROVE LocksInv'
  <1> DEFINE q == <<<<"take", Mgr>>>>
  <1>1. /\ todo["update"] = << >> /\ ~scanning /\ scanning' = TRUE /\ owner' = owner
        /\ todo' = [todo EXCEPT !["update"] = q] /\ visit' \subseteq Session
    BY Zenon DEF BeginScan
  <1>2. "update" \in Thread /\ (\A r \in Thread : r # "update" => After(r)' = After(r))
    BY Zenon DEF Thread, After
  <1>3. After("update") = {} /\ After("update")' = {Mgr}
    BY <1>1, Zenon DEF After
  <1>4. Path("update", {}, q, {Mgr})
    <2>1. {} \in SUBSET Locks /\ {} \cup {Mgr} = {Mgr} /\ Allowed("update", {}, Mgr)
      BY LocksDistinct, AllowedFirst, Zenon
    <2>2. Path("update", {}, q, {} \cup {Mgr})
      BY <2>1, PathTake, Zenon
    <2> QED
      BY <2>1, <2>2, Zenon
  <1> HIDE DEF q
  <1>5. Path("update", After("update"), q, After("update")')
    BY <1>3, <1>4, Zenon
  <1> QED
    BY <1>1, <1>2, <1>5, NewScript, Zenon

LEMMA ScanSessionLocks == ASSUME LocksInv, NEW s \in Session, ScanSession(s) PROVE LocksInv'
  <1>1. PICK q \in DoUpdateScripts(s) : todo' = [todo EXCEPT !["update"] = q]
    BY Zenon DEF ScanSession
  <1>2. todo["update"] = << >> /\ scanning /\ UNCHANGED <<owner, scanning>> /\ visit' = visit \ {s}
    BY Zenon DEF ScanSession
  <1>3. "update" \in Thread /\ visit' \subseteq Session
    BY <1>2, Zenon DEF Thread, LocksInv
  <1>4. (\A r \in Thread : After(r)' = After(r)) /\ After("update") = {Mgr}
    BY <1>2, Zenon DEF After
  <1>5. Path("update", {Mgr}, q, {Mgr})
    BY DoUpdatePath, Zenon
  <1>6. Path("update", After("update"), q, After("update")')
    BY <1>3, <1>4, <1>5, Zenon
  <1> QED
    BY <1>1, <1>2, <1>3, <1>4, <1>6, NewScript, Zenon

LEMMA EndScanLocks == ASSUME LocksInv, EndScan PROVE LocksInv'
  <1> DEFINE q == <<<<"drop", Mgr>>>>
  <1>1. /\ todo["update"] = << >> /\ scanning /\ scanning' = FALSE /\ UNCHANGED <<owner, visit>>
        /\ todo' = [todo EXCEPT !["update"] = q]
    BY Zenon DEF EndScan
  <1>2. "update" \in Thread /\ (\A r \in Thread : r # "update" => After(r)' = After(r))
    BY Zenon DEF Thread, After
  <1>3. After("update") = {Mgr} /\ After("update")' = {}
    BY <1>1, Zenon DEF After
  <1>4. Path("update", {Mgr}, q, {})
    <2>1. {Mgr} \in SUBSET Locks /\ {Mgr} \ {Mgr} = {} /\ Mgr \in {Mgr}
      BY LocksDistinct, Zenon
    <2>2. Path("update", {Mgr}, q, {Mgr} \ {Mgr})
      BY <2>1, PathDrop, Zenon
    <2> QED
      BY <2>1, <2>2, Zenon
  <1> HIDE DEF q
  <1>5. Path("update", After("update"), q, After("update")')
    BY <1>3, <1>4, Zenon
  <1>6. visit' \subseteq Session
    BY <1>1, Zenon DEF LocksInv
  <1> QED
    BY <1>1, <1>2, <1>5, <1>6, NewScript, Zenon

LEMMA TakeLocks == ASSUME LocksInv, NEW t \in Thread, Take(t) PROVE LocksInv'
  <1> DEFINE q == todo[t]
             l == Head(q)[2]
  <1>1. /\ q # << >> /\ Head(q)[1] = "take" /\ owner[l] = None /\ owner' = [owner EXCEPT ![l] = t]
        /\ todo' = [todo EXCEPT ![t] = Tail(@)] /\ UNCHANGED <<scanning, visit>>
    BY Zenon DEF Take
  <1>2. /\ owner \in [Locks -> Thread \cup {None}] /\ DOMAIN todo = Thread /\ visit \subseteq Session
        /\ \A r \in Thread : Path(r, Held(r), todo[r], After(r))
    BY Zenon DEF LocksInv
  <1>3. "take" # "drop"
    OBVIOUS
  <1>4. Allowed(t, Held(t), l) /\ Path(t, Held(t) \cup {l}, Tail(q), After(t))
    BY <1>1, <1>2, <1>3, PathHead, Zenon
  <1>5. l \in Locks
    BY <1>4, Zenon DEF Allowed
  <1> HIDE DEF l
  <1>6. /\ owner' \in [Locks -> Thread \cup {None}] /\ owner'[l] = t
        /\ \A k \in Locks : k # l => owner'[k] = owner[k]
    BY <1>1, <1>2, <1>5, Zenon
  <1>7. DOMAIN todo' = Thread /\ todo'[t] = Tail(q) /\ \A r \in Thread : r # t => todo'[r] = todo[r]
    BY <1>1, <1>2, Zenon
  <1>8. Held(t)' = Held(t) \cup {l}
    BY <1>5, <1>6 DEF Held
  <1>9. ASSUME NEW r \in Thread, r # t PROVE Held(r)' = Held(r)
    <2>1. owner[l] # r
      BY <1>1, NoneAssumption
    <2> QED
      BY <1>5, <1>6, <1>9, <2>1 DEF Held
  <1>10. \A r \in Thread : After(r)' = After(r)
    BY <1>1, Zenon DEF After
  <1>11. ASSUME NEW r \in Thread PROVE Path(r, Held(r)', todo'[r], After(r)')
    <2>1. CASE r = t
      BY <1>4, <1>7, <1>8, <1>10, <2>1, Zenon
    <2>2. CASE r # t
      BY <1>2, <1>7, <1>9, <1>10, <2>2, Zenon
    <2> QED
      BY <2>1, <2>2
  <1> QED
    BY <1>1, <1>2, <1>6, <1>7, <1>11, Zenon DEF LocksInv, Path, PathAt, Allowed

LEMMA DropLocks == ASSUME LocksInv, NEW t \in Thread, Drop(t) PROVE LocksInv'
  <1> DEFINE q == todo[t]
             l == Head(q)[2]
  <1>1. /\ q # << >> /\ Head(q)[1] = "drop" /\ owner' = [owner EXCEPT ![l] = None]
        /\ todo' = [todo EXCEPT ![t] = Tail(@)] /\ UNCHANGED <<scanning, visit>>
    BY Zenon DEF Drop
  <1>2. /\ owner \in [Locks -> Thread \cup {None}] /\ DOMAIN todo = Thread /\ visit \subseteq Session
        /\ \A r \in Thread : Path(r, Held(r), todo[r], After(r))
    BY Zenon DEF LocksInv
  <1>3. "take" # "drop"
    OBVIOUS
  <1>4. l \in Held(t) /\ Path(t, Held(t) \ {l}, Tail(q), After(t))
    BY <1>1, <1>2, <1>3, PathHead, Zenon
  <1>5. l \in Locks /\ owner[l] = t
    BY <1>4, Zenon DEF Held
  <1> HIDE DEF l
  <1>6. /\ owner' \in [Locks -> Thread \cup {None}] /\ owner'[l] = None
        /\ \A k \in Locks : k # l => owner'[k] = owner[k]
    BY <1>1, <1>2, <1>5, Zenon
  <1>7. DOMAIN todo' = Thread /\ todo'[t] = Tail(q) /\ \A r \in Thread : r # t => todo'[r] = todo[r]
    BY <1>1, <1>2, Zenon
  <1>8. \A r \in Thread : None # r
    BY NoneAssumption
  <1>9. Held(t)' = Held(t) \ {l}
    BY <1>5, <1>6, <1>8 DEF Held
  <1>10. ASSUME NEW r \in Thread, r # t PROVE Held(r)' = Held(r)
    BY <1>5, <1>6, <1>8, <1>10 DEF Held
  <1>11. \A r \in Thread : After(r)' = After(r)
    BY <1>1, Zenon DEF After
  <1>12. ASSUME NEW r \in Thread PROVE Path(r, Held(r)', todo'[r], After(r)')
    <2>1. CASE r = t
      BY <1>4, <1>7, <1>9, <1>11, <2>1, Zenon
    <2>2. CASE r # t
      BY <1>2, <1>7, <1>10, <1>11, <2>2, Zenon
    <2> QED
      BY <2>1, <2>2
  <1> QED
    BY <1>1, <1>2, <1>6, <1>7, <1>12, Zenon DEF LocksInv, Path, PathAt, Allowed

LEMMA LocksNextInv == LocksInv /\ [LocksNext]_lockVars => LocksInv'
  <1> SUFFICES ASSUME LocksInv, [LocksNext]_lockVars PROVE LocksInv'
    OBVIOUS
  <1>1. CASE UNCHANGED lockVars
    <2>1. UNCHANGED <<owner, todo, scanning, visit>>
      BY <1>1, Zenon DEF lockVars
    <2>2. \A r \in Thread : Held(r)' = Held(r) /\ After(r)' = After(r)
      BY <2>1, Zenon DEF Held, After
    <2>3. \A r \in Thread : Path(r, Held(r)', todo'[r], After(r)')
      BY <2>1, <2>2, Zenon DEF LocksInv
    <2> QED
      BY <2>1, <2>3, Zenon DEF LocksInv, Path, PathAt, Allowed
  <1> QED
    BY <1>1, BeginLocks, TakeLocks, DropLocks, BeginScanLocks, ScanSessionLocks, EndScanLocks, Zenon
       DEF LocksNext

\* What a waiting thread holds.
LEMMA Waiting ==
    ASSUME LocksInv, NEW t \in Thread, NEW u \in Thread, WaitsFor(t) = u
    PROVE  \E l \in Locks : /\ todo[t] # << >> /\ Head(todo[t]) = <<"take", l>>
                            /\ owner[l] = u /\ u # t
                            /\ Allowed(t, Held(t), l)
  <1> DEFINE l == Head(todo[t])[2]
  <1>1. None # u
    BY NoneAssumption
  <1>2. todo[t] # << >> /\ Head(todo[t])[1] = "take" /\ owner[l] = u
    BY <1>1, Zenon DEF WaitsFor
  <1>3. "take" # "drop"
    OBVIOUS
  <1>4. Head(todo[t]) \in Step /\ Allowed(t, Held(t), l)
    BY <1>2, <1>3, PathHead, Zenon DEF LocksInv
  <1>5. Head(todo[t]) = <<"take", l>> /\ l \in Locks
    BY <1>2, <1>4 DEF Step
  <1>6. u # t
    BY <1>2, <1>4, <1>5, Zenon DEF Allowed, Held
  <1> QED
    BY <1>2, <1>4, <1>5, <1>6, Zenon

LEMMA DeadlockIsAuth == LocksInv => OnlyAuthDeadlocks
  <1> SUFFICES ASSUME LocksInv, NEW T \in (SUBSET Thread) \ {{}}, Stuck(T)
               PROVE  T = {"process", "update"} /\ AtAddUserSessionMap
    BY Zenon DEF OnlyAuthDeadlocks
  <1>1. ASSUME NEW t \in T
        PROVE  \E u \in T, l \in Locks :
                  /\ todo[t] # << >> /\ Head(todo[t]) = <<"take", l>>
                  /\ owner[l] = u /\ u # t /\ l \in Held(u)
                  /\ Allowed(t, Held(t), l)
    <2>1. WaitsFor(t) \in T /\ t \in Thread /\ WaitsFor(t) \in Thread
      BY Zenon DEF Stuck
    <2> QED
      BY <2>1, Waiting, Zenon DEF Held
  <1>2. \A t \in T : Held(t) \cap Leaf = {}
    BY <1>1, Zenon DEF Allowed
  <1>3. "worker" \notin T
    <2> SUFFICES ASSUME "worker" \in T PROVE FALSE
      OBVIOUS
    <2>1. PICK u \in T, l \in Locks : l \in Held(u) /\ Allowed("worker", Held("worker"), l)
      BY <1>1, Zenon
    <2>2. l \in Leaf
      BY <2>1, Zenon DEF Allowed
    <2> QED
      BY <1>2, <2>1, <2>2, Zenon
  <1>4. T \subseteq {"process", "update"}
    BY <1>3, Zenon DEF Thread
  <1>5. "process" \in T /\ "update" \in T
    <2>1. PICK t : t \in T
      OBVIOUS
    <2>2. PICK u \in T : u # t
      BY <1>1, <2>1, Zenon
    <2> QED
      BY <1>4, <2>1, <2>2
  <1>6. PICK u \in T, l \in Locks :
           /\ todo["process"] # << >> /\ Head(todo["process"]) = <<"take", l>>
           /\ owner[l] = u /\ u # "process" /\ l \in Held(u)
           /\ Allowed("process", Held("process"), l)
    BY <1>1, <1>5, Zenon
  <1>7. PICK k \in Locks : k \in Held("process")
    <2>1. PICK v \in T, k \in Locks : v # "update" /\ k \in Held(v)
      BY <1>1, <1>5, Zenon
    <2> QED
      BY <1>4, <2>1, Zenon
  <1>8. PICK s \in Session : Held("process") = {Of(s)} /\ l \in Leaf \cup {Mgr}
    BY <1>6, <1>7, Zenon DEF Allowed
  <1>9. l = Mgr
    BY <1>2, <1>6, <1>8, Zenon
  <1>10. owner[Of(s)] = "process"
    BY <1>8, Zenon DEF Held
  <1>11. AtAddUserSessionMap
    BY <1>6, <1>9, <1>10, Zenon DEF AtAddUserSessionMap
  <1> QED
    BY <1>4, <1>5, <1>11, Zenon

\* Invariance: whatever the interleaving, threads of the server wait for each
\* other forever only when ProcessThread is in C2S_Auth, with the session's lock,
\* at AddUserSessionMap, and UpdateThread is in the way; the worker threads are
\* never part of it and nobody waits for itself.  For any number of sessions.
THEOREM NoOtherDeadlock == LocksSpec => []OnlyAuthDeadlocks
  BY DeadlockIsAuth, LocksInitInv, LocksNextInv, PTL DEF LocksSpec
=============================================================================
