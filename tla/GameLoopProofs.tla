--------------------------- MODULE GameLoopProofs ---------------------------
(***************************************************************************)
(* Proofs about the server process: the packet queue, the command queue    *)
(* and the log, each for itself, and the process that uses them; for any   *)
(* number of worker threads, any packets and commands, any _maxQueueSize   *)
(* and any bounds in Settings.                                             *)
(***************************************************************************)
EXTENDS GameLoop, SequenceTheorems, TLAPS

-----------------------------------------------------------------------------
(* The hand-over of received packets (PacketQueue).                        *)

\* Both safety invariants are inductive over the typed states: a worker that made
\* the list non-empty is in "signal" until the event is set, and only
\* ProcessThread takes packets out, so what it saw in the list stays there.
PacketsInv == PacketsTypeOK /\ NoLostWakeup /\ PopSafe

LEMMA PacketsInitInv == PacketsInit => PacketsInv
  BY EmptySeq, Zenon DEF PacketsInit, PacketsInv, PacketsTypeOK, NoLostWakeup, PopSafe

LEMMA PushInv == ASSUME PacketsInv, NEW w \in Worker, NEW p \in Packet, Push(w, p) PROVE PacketsInv'
  <1>1. queue' \in Seq(Packet) /\ queue' # << >>
    BY AppendProperties DEF PacketsInv, PacketsTypeOK, Push
  <1>2. worker'[w] = "signal" /\ worker' \in [Worker -> {"run", "signal"}]
    BY Zenon DEF PacketsInv, PacketsTypeOK, Push
  <1>3. QED
    BY <1>1, <1>2, Zenon DEF PacketsInv, PacketsTypeOK, NoLostWakeup, PopSafe, Push

LEMMA SetEventInv == ASSUME PacketsInv, NEW w \in Worker, SetEvent(w) PROVE PacketsInv'
  BY Zenon DEF PacketsInv, PacketsTypeOK, NoLostWakeup, PopSafe, SetEvent

LEMMA ProcessThreadInv == ASSUME PacketsInv, ProcessThread PROVE PacketsInv'
  <1>1. CASE LoopTest
    BY <1>1, Zenon DEF PacketsInv, PacketsTypeOK, NoLostWakeup, PopSafe, LoopTest
  <1>2. CASE PopCheck
    BY <1>2, Zenon DEF PacketsInv, PacketsTypeOK, NoLostWakeup, PopSafe, PopCheck
  <1>3. CASE Wake
    BY <1>3, Zenon DEF PacketsInv, PacketsTypeOK, NoLostWakeup, PopSafe, Wake
  <1>4. CASE PopRecheck
    BY <1>4, Zenon DEF PacketsInv, PacketsTypeOK, NoLostWakeup, PopSafe, PopRecheck
  <1>5. CASE PopFront
    <2>1. queue # << >>
      BY <1>5, Zenon DEF PacketsInv, PopSafe, PopFront
    <2>2. queue' \in Seq(Packet) /\ seen' \in Seq(Packet)
      BY <1>5, <2>1, HeadTailProperties DEF PacketsInv, PacketsTypeOK, PopFront
    <2>3. QED
      BY <1>5, <2>2, Zenon DEF PacketsInv, PacketsTypeOK, NoLostWakeup, PopSafe, PopFront
  <1>6. QED
    BY <1>1, <1>2, <1>3, <1>4, <1>5, Zenon DEF ProcessThread

LEMMA StopInv == ASSUME PacketsInv, RequestStop \/ ForceActivateQueueEvent PROVE PacketsInv'
  <1>1. CASE RequestStop
    BY <1>1, Zenon DEF PacketsInv, PacketsTypeOK, NoLostWakeup, PopSafe, RequestStop
  <1>2. CASE ForceActivateQueueEvent
    BY <1>2, Zenon DEF PacketsInv, PacketsTypeOK, NoLostWakeup, PopSafe, ForceActivateQueueEvent
  <1>3. QED
    BY <1>1, <1>2, Zenon

LEMMA PacketsNextInv == PacketsInv /\ [PacketsNext]_packetsVars => PacketsInv'
  <1> SUFFICES ASSUME PacketsInv, [PacketsNext]_packetsVars PROVE PacketsInv'
    BY Zenon
  <1>1. CASE UNCHANGED packetsVars
    BY <1>1, Zenon DEF packetsVars, PacketsInv, PacketsTypeOK, NoLostWakeup, PopSafe
  <1>2. CASE PacketsNext
    <2>1. CASE Ended
      BY <1>1, <2>1, Zenon DEF Ended
    <2>2. QED
      BY <1>2, <2>1, PushInv, SetEventInv, ProcessThreadInv, StopInv, Zenon DEF PacketsNext
  <1>3. QED
    BY <1>1, <1>2, Zenon

\* Invariance: the state of the queue and of its threads stays well formed.
THEOREM PacketQueueTypeOK == PacketsSpec => []PacketsTypeOK
  <1>1. PacketsInv => PacketsTypeOK
    BY Zenon DEF PacketsInv
  <1>2. QED
    BY <1>1, PacketsInitInv, PacketsNextInv, PTL DEF PacketsSpec

\* Invariance: ProcessThread never sleeps in RecvPacketQueue::Pop while packets
\* wait and nobody is about to signal, for any number of workers.
THEOREM PacketQueueNoLostWakeup == PacketsSpec => []NoLostWakeup
  <1>1. PacketsInv => NoLostWakeup
    BY Zenon DEF PacketsInv
  <1>2. QED
    BY <1>1, PacketsInitInv, PacketsNextInv, PTL DEF PacketsSpec

\* Invariance: PacketDataQueue::Pop never takes the first element of an empty
\* list.
THEOREM PacketQueuePopSafe == PacketsSpec => []PopSafe
  <1>1. PacketsInv => PopSafe
    BY Zenon DEF PacketsInv
  <1>2. QED
    BY <1>1, PacketsInitInv, PacketsNextInv, PTL DEF PacketsSpec

\* Refinement: the packet queue implements the FIFO channel, so that packets
\* reach ProcessThread once each and in the order the workers pushed them.
THEOREM PacketQueueIsFifo == PacketsSpec => PacketsIsFifo
  <1>1. PacketsInit => PacketsFifo!Init
    BY Zenon DEF PacketsInit, PacketsFifo!Init
  <1>2. PacketsInv /\ [PacketsNext]_packetsVars => [PacketsFifo!Next]_(PacketsFifo!vars)
    <2> SUFFICES ASSUME PacketsInv, [PacketsNext]_packetsVars PROVE [PacketsFifo!Next]_(PacketsFifo!vars)
      BY Zenon
    <2>1. ASSUME NEW w \in Worker, NEW p \in Packet, Push(w, p) PROVE PacketsFifo!Next
      <3>1. Append(queue, p) = queue \o <<p>>
        BY AppendIsConcat, Zenon DEF PacketsInv, PacketsTypeOK
      <3>2. PacketsFifo!Put(<<p>>)
        BY <2>1, <3>1, Zenon DEF Push, PacketsFifo!Put
      <3>3. QED
        BY <3>2, Zenon DEF PacketsFifo!Next
    <2>2. CASE PopFront
      BY <2>2, Zenon DEF PopFront, PacketsInv, PopSafe, PacketsFifo!Take, PacketsFifo!Next
    <2>3. CASE UNCHANGED <<queue, seen>>
      BY <2>3, Zenon DEF PacketsFifo!vars
    <2>4. QED
      BY <2>1, <2>2, <2>3, Zenon DEF PacketsNext, ProcessThread, SetEvent, LoopTest, PopCheck, Wake, PopRecheck,
                              RequestStop, ForceActivateQueueEvent, Ended, packetsVars
  <1>3. QED
    BY <1>1, <1>2, PacketsInitInv, PacketsNextInv, PTL DEF PacketsSpec, PacketsIsFifo, PacketsFifo!Spec

-----------------------------------------------------------------------------
(* The command queue (CommandUnitQueue), whatever the commands add.        *)

\* That SwapOpList loses nothing rests on Quiet: outside a Tick FireOps has no
\* local list left.
CmdsInv == CmdsTypeOK /\ Quiet

LEMMA CmdsInitInv == CmdsInit => CmdsInv
  BY EmptySeq, Zenon DEF CmdsInit, CmdsInv, CmdsTypeOK, Quiet

LEMMA AddInv == ASSUME CmdsInv, NEW c \in Cmd, Add(c) PROVE CmdsInv'
  BY AppendProperties, Zenon DEF CmdsInv, CmdsTypeOK, Quiet, Add

LEMMA TickingInv == ASSUME CmdsInv, Ticking PROVE CmdsInv'
  <1>1. CASE SwapOpList
    BY <1>1, EmptySeq, Zenon DEF CmdsInv, CmdsTypeOK, Quiet, SwapOpList
  <1>2. CASE ProcessAndDelete
    <2>1. Head(firing) \in Cmd /\ Tail(firing) \in Seq(Cmd)
      BY <1>2, HeadTailProperties, Zenon DEF CmdsInv, CmdsTypeOK, ProcessAndDelete
    <2>2. ran' \in Seq(Cmd) /\ adds' \in Seq(Cmd)
      BY <1>2, <2>1, FollowUpAssumption DEF ProcessAndDelete
    <2>3. QED
      BY <1>2, <2>1, <2>2, Zenon DEF CmdsInv, CmdsTypeOK, Quiet, ProcessAndDelete
  <1>3. CASE OperatorAdds
    <2>1. Head(adds) \in Cmd /\ Tail(adds) \in Seq(Cmd)
      BY <1>3, HeadTailProperties, Zenon DEF CmdsInv, CmdsTypeOK, OperatorAdds
    <2>2. Append(cmds, Head(adds)) \in Seq(Cmd)
      BY <2>1, AppendProperties, Zenon DEF CmdsInv, CmdsTypeOK
    <2>3. QED
      BY <1>3, <2>1, <2>2, Zenon DEF CmdsInv, CmdsTypeOK, Quiet, OperatorAdds
  <1>4. CASE TickEnds
    BY <1>4, Zenon DEF CmdsInv, CmdsTypeOK, Quiet, TickEnds
  <1>5. QED
    BY <1>1, <1>2, <1>3, <1>4, Zenon DEF Ticking

LEMMA CmdsNextInv == CmdsInv /\ [CmdsNext]_cmdsVars => CmdsInv'
  <1> SUFFICES ASSUME CmdsInv, [CmdsNext]_cmdsVars PROVE CmdsInv'
    BY Zenon
  <1>1. CASE UNCHANGED cmdsVars
    BY <1>1, Zenon DEF cmdsVars, CmdsInv, CmdsTypeOK, Quiet
  <1>2. CASE CmdsNext
    BY <1>2, AddInv, TickingInv, Zenon DEF CmdsNext
  <1>3. QED
    BY <1>1, <1>2, Zenon

\* Invariance: the queue holds commands, and between two Ticks nothing is half
\* done.
THEOREM CommandUnitQueueQuiet == CmdsSpec => [](CmdsTypeOK /\ Quiet)
  BY CmdsInitInv, CmdsNextInv, PTL DEF CmdsSpec, CmdsInv

\* Appending behind the commands being fired appends to the whole queue.
LEMMA AppendBehind ==
    ASSUME NEW f \in Seq(Cmd), NEW q \in Seq(Cmd), NEW c \in Cmd
    PROVE  f \o Append(q, c) = (f \o q) \o <<c>>
  <1>1. Append(q, c) = q \o <<c>> /\ <<c>> \in Seq(Cmd)
    BY AppendIsConcat
  <1>2. QED
    BY <1>1, ConcatAssociative

\* Refinement: the command queue implements the FIFO channel, so every command
\* is run once and in the order it was added, for any commands and follow-ups.
THEOREM CommandUnitQueueIsFifo == CmdsSpec => CmdsIsFifo
  <1>1. CmdsInit => CmdsFifo!Init
    BY EmptySeq, ConcatEmptySeq, Zenon DEF CmdsInit, CmdsFifo!Init
  <1>2. CmdsInv /\ [CmdsNext]_cmdsVars => [CmdsFifo!Next]_(CmdsFifo!vars)
    <2> SUFFICES ASSUME CmdsInv, [CmdsNext]_cmdsVars PROVE [CmdsFifo!Next]_(CmdsFifo!vars)
      BY Zenon
    <2>1. cmds \in Seq(Cmd) /\ firing \in Seq(Cmd) /\ adds \in Seq(Cmd)
      BY Zenon DEF CmdsInv, CmdsTypeOK
    <2>2. ASSUME NEW c \in Cmd, Add(c) PROVE CmdsFifo!Next
      <3>1. CmdsFifo!Put(<<c>>)
        BY <2>1, <2>2, AppendBehind, Zenon DEF Add, CmdsFifo!Put
      <3>2. QED
        BY <3>1, Zenon DEF CmdsFifo!Next
    <2>3. CASE SwapOpList
      <3>1. (firing \o cmds)' = firing \o cmds
        BY <2>1, <2>3, ConcatEmptySeq, Zenon DEF SwapOpList, CmdsInv, Quiet
      <3>2. QED
        BY <2>3, <3>1, Zenon DEF SwapOpList, CmdsFifo!vars
    <2>4. CASE ProcessAndDelete
      <3>1. firing # << >>
        BY <2>4, Zenon DEF ProcessAndDelete
      <3>2. firing \o cmds # << >> /\ Head(firing \o cmds) = Head(firing)
        BY <2>1, <3>1
      <3>3. Tail(firing \o cmds) = Tail(firing) \o cmds
        BY <2>1, <3>1
      <3>4. CmdsFifo!Take
        BY <2>4, <3>2, <3>3, Zenon DEF ProcessAndDelete, CmdsFifo!Take
      <3>5. QED
        BY <3>4, Zenon DEF CmdsFifo!Next
    <2>5. CASE OperatorAdds
      <3>1. Head(adds) \in Cmd
        BY <2>1, <2>5, HeadTailProperties, Zenon DEF OperatorAdds
      <3>2. CmdsFifo!Put(<<Head(adds)>>)
        BY <2>1, <2>5, <3>1, AppendBehind, Zenon DEF OperatorAdds, CmdsFifo!Put
      <3>3. QED
        BY <3>1, <3>2, Zenon DEF CmdsFifo!Next
    <2>6. CASE TickEnds
      BY <2>6, Zenon DEF TickEnds, CmdsFifo!vars
    <2>7. CASE UNCHANGED cmdsVars
      BY <2>7, Zenon DEF cmdsVars, CmdsFifo!vars
    <2>8. QED
      BY <2>2, <2>3, <2>4, <2>5, <2>6, <2>7, Zenon DEF CmdsNext, Ticking
  <1>3. QED
    BY <1>1, <1>2, CmdsInitInv, CmdsNextInv, PTL DEF CmdsSpec, CmdsIsFifo, CmdsFifo!Spec

-----------------------------------------------------------------------------
(* The log (FileLogger).  The numbers of lines grow along the queue and    *)
(* along every batch, and whatever left the queue is older than what is in *)
(* it; as long as no two batches were out together, the file is older than *)
(* the batch, too.                                                         *)

Increasing(s) == \A i, j \in 1..Len(s) : i < j => s[i] < s[j]
Before(s, u) == \A i \in 1..Len(s), j \in 1..Len(u) : s[i] < u[j]
UpTo(s, n) == \A i \in 1..Len(s) : s[i] <= n

LogTypeInv ==
    /\ msgQueue \in Seq(Nat) /\ file \in Seq(Nat) /\ lines \in Nat
    /\ batch \in [LogThread -> Seq(Nat)]
    /\ logger \in [LogThread -> {"idle", "flush", "swap", "write"}]

Numbered ==
    /\ UpTo(msgQueue, lines) /\ UpTo(file, lines)
    /\ \A t \in LogThread : UpTo(batch[t], lines)

Ordered ==
    /\ Increasing(msgQueue) /\ Before(file, msgQueue)
    /\ \A t \in LogThread : Increasing(batch[t]) /\ Before(batch[t], msgQueue)

(* What holds of the file while batches have not overlapped.               *)
OneBatch ==
    /\ Increasing(file)
    /\ \A t \in LogThread : Before(file, batch[t])
    /\ \A t, u \in LogThread : t # u => batch[t] = << >> \/ batch[u] = << >>

(* A queue that is long enough has a thread that will look at it.          *)
Attended == Len(msgQueue) >= MaxQueueSize => \E t \in LogThread : logger[t] \in {"flush", "swap"}

LogInv == LogTypeInv /\ Numbered /\ Ordered /\ (~overlapped => OneBatch) /\ Attended

-----------------------------------------------------------------------------
(* A new line at the end of the queue.                                     *)
LEMMA NewLine ==
    ASSUME NEW s \in Seq(Nat), NEW n \in Nat, UpTo(s, n)
    PROVE  LET a == Append(s, n + 1) IN
           /\ a \in Seq(Nat) /\ UpTo(a, n + 1)
           /\ Increasing(s) => Increasing(a)
           /\ \A u \in Seq(Nat) : Before(u, s) /\ UpTo(u, n) => Before(u, a)
<1> DEFINE a == Append(s, n + 1)
<1>1. /\ a \in Seq(Nat) /\ Len(a) = Len(s) + 1 /\ Len(s) \in Nat /\ a[Len(s) + 1] = n + 1
      /\ \A i \in 1..Len(s) : a[i] = s[i] /\ s[i] \in Nat
  BY AppendProperties, LenProperties, ElementOfSeq
<1> HIDE DEF a
<1>2. \A i \in 1..Len(a) : i \in 1..Len(s) \/ i = Len(s) + 1
  BY <1>1
<1>3. UpTo(a, n + 1)
  BY <1>1, <1>2, SMTT(30) DEF UpTo
<1>4. Increasing(s) => Increasing(a)
  <2> SUFFICES ASSUME Increasing(s), NEW i \in 1..Len(a), NEW j \in 1..Len(a), i < j
               PROVE  a[i] < a[j]
    BY Zenon DEF Increasing
  <2>1. i \in 1..Len(s)
    BY <1>1
  <2>2. CASE j \in 1..Len(s)
    BY <2>1, <2>2, <1>1, Zenon DEF Increasing
  <2>3. CASE j = Len(s) + 1
    <3>1. a[i] = s[i] /\ s[i] \in Nat
      BY <2>1, <1>1, Zenon
    <3>2. s[i] <= n
      BY <2>1, Zenon DEF UpTo
    <3>3. a[j] = n + 1
      BY <2>3, <1>1, Zenon
    <3> QED  BY <3>1, <3>2, <3>3
  <2> QED  BY <1>2, <2>2, <2>3, Zenon
<1>5. ASSUME NEW u \in Seq(Nat), Before(u, s), UpTo(u, n)
      PROVE  Before(u, a)
  <2> SUFFICES ASSUME NEW i \in 1..Len(u), NEW j \in 1..Len(a) PROVE u[i] < a[j]
    BY Zenon DEF Before
  <2>1. u[i] \in Nat /\ u[i] <= n
    BY <1>5, ElementOfSeq, Zenon DEF UpTo
  <2>2. CASE j \in 1..Len(s)
    BY <2>2, <1>1, <1>5, Zenon DEF Before
  <2>3. CASE j = Len(s) + 1
    BY <2>1, <2>3, <1>1
  <2> QED  BY <1>2, <2>2, <2>3, Zenon
<1> QED  BY <1>1, <1>3, <1>4, <1>5, Zenon DEF a

(* A batch at the end of the file.                                         *)
LEMMA BatchWritten ==
    ASSUME NEW f \in Seq(Nat), NEW b \in Seq(Nat)
    PROVE  LET c == f \o b IN
           /\ c \in Seq(Nat)
           /\ \A n \in Nat : UpTo(f, n) /\ UpTo(b, n) => UpTo(c, n)
           /\ \A m \in Seq(Nat) : Before(f, m) /\ Before(b, m) => Before(c, m)
           /\ Increasing(f) /\ Increasing(b) /\ Before(f, b) => Increasing(c)
<1> DEFINE c == f \o b
<1>1. /\ c \in Seq(Nat) /\ Len(c) = Len(f) + Len(b) /\ Len(f) \in Nat /\ Len(b) \in Nat
      /\ \A i \in 1..Len(f) : c[i] = f[i]
      /\ \A i \in 1..Len(c) : i > Len(f) => i - Len(f) \in 1..Len(b) /\ c[i] = b[i - Len(f)]
  BY ConcatProperties, LenProperties
<1> HIDE DEF c
<1>2. ASSUME NEW i \in 1..Len(c)
      PROVE  i \in 1..Len(f) \/ i > Len(f)
  BY <1>1
<1>3. ASSUME NEW n \in Nat, UpTo(f, n), UpTo(b, n) PROVE UpTo(c, n)
  BY <1>1, <1>2, <1>3, Zenon DEF UpTo
<1>4. ASSUME NEW m \in Seq(Nat), Before(f, m), Before(b, m) PROVE Before(c, m)
  <2> SUFFICES ASSUME NEW i \in 1..Len(c), NEW j \in 1..Len(m) PROVE c[i] < m[j]
    BY Zenon DEF Before
  <2>1. CASE i \in 1..Len(f)
    BY <2>1, <1>1, <1>4, SMTT(30) DEF Before
  <2>2. CASE i > Len(f)
    BY <2>2, <1>1, <1>4, Zenon DEF Before
  <2> QED  BY <1>2, <2>1, <2>2, Zenon
<1>5. ASSUME Increasing(f), Increasing(b), Before(f, b) PROVE Increasing(c)
  <2> SUFFICES ASSUME NEW i \in 1..Len(c), NEW j \in 1..Len(c), i < j PROVE c[i] < c[j]
    BY Zenon DEF Increasing
  <2>1. CASE i \in 1..Len(f) /\ j \in 1..Len(f)
    BY <2>1, <1>1, <1>5, Zenon DEF Increasing
  <2>2. CASE i \in 1..Len(f) /\ j > Len(f)
    BY <2>2, <1>1, <1>5, Zenon DEF Before
  <2>3. CASE i > Len(f) /\ j > Len(f)
    <3>1. /\ i - Len(f) \in 1..Len(b) /\ j - Len(f) \in 1..Len(b)
          /\ c[i] = b[i - Len(f)] /\ c[j] = b[j - Len(f)]
      BY <2>3, <1>1, Zenon
    <3>2. i - Len(f) < j - Len(f)
      BY <1>1
    <3> QED  BY <3>1, <3>2, <1>5, Zenon DEF Increasing
  <2>4. i > Len(f) => j > Len(f)
    BY <1>1
  <2> QED  BY <1>2, <2>1, <2>2, <2>3, <2>4, Zenon
<1> QED  BY <1>1, <1>3, <1>4, <1>5, Zenon DEF c

-----------------------------------------------------------------------------
LEMMA LogInitInv == LogInit => LogInv
<1> SUFFICES ASSUME LogInit PROVE LogInv
  BY Zenon
<1>1. /\ msgQueue = << >> /\ file = << >> /\ lines = 0
      /\ batch = [t \in LogThread |-> << >>] /\ logger = [t \in LogThread |-> "idle"]
  BY Zenon DEF LogInit
<1>2. \A t \in LogThread : batch[t] = << >>
  BY <1>1, Zenon
<1>3. Len(<< >>) = 0 /\ << >> \in Seq(Nat)
  BY EmptySeq, Zenon
<1>4. LogTypeInv /\ Attended
  BY <1>1, <1>3, MaxQueueSizeAssumption DEF LogTypeInv, Attended
<1>5. \A s : Increasing(<< >>) /\ UpTo(<< >>, 0) /\ Before(<< >>, s)
  BY <1>3 DEF Increasing, UpTo, Before
<1> QED  BY <1>1, <1>2, <1>4, <1>5, Zenon DEF LogInv, Numbered, Ordered, OneBatch

LEMMA AddMessageInv == ASSUME LogInv, NEW t \in LogThread, AddMessage(t) PROVE LogInv'
<1> DEFINE a == Append(msgQueue, lines + 1)
<1>1. /\ msgQueue' = a /\ lines' = lines + 1 /\ file' = file /\ batch' = batch
      /\ logger' = [logger EXCEPT ![t] = "flush"] /\ overlapped' = overlapped
  BY Zenon DEF AddMessage
<1>2. /\ LogTypeInv /\ Numbered /\ Ordered /\ (~overlapped => OneBatch)
      /\ \A u \in LogThread : batch[u] \in Seq(Nat)
  BY Zenon DEF LogInv, LogTypeInv
<1>3. /\ a \in Seq(Nat) /\ UpTo(a, lines + 1) /\ Increasing(a)
      /\ \A u \in Seq(Nat) : Before(u, msgQueue) /\ UpTo(u, lines) => Before(u, a)
  BY <1>2, NewLine, Zenon DEF LogTypeInv, Numbered, Ordered
<1> HIDE DEF a
<1>4. LogTypeInv'
  BY <1>1, <1>2, <1>3 DEF LogTypeInv
<1>5. ASSUME NEW s \in Seq(Nat), UpTo(s, lines) PROVE UpTo(s, lines + 1)
  BY <1>2, <1>5, ElementOfSeq DEF UpTo, LogTypeInv
<1>6. Numbered'
  BY <1>1, <1>2, <1>3, <1>5, Zenon DEF Numbered, LogTypeInv
<1>7. Ordered'
  BY <1>1, <1>2, <1>3, Zenon DEF Ordered, Numbered, LogTypeInv
<1>8. logger'[t] = "flush"
  BY <1>1, <1>2, Zenon DEF LogTypeInv
<1>9. Attended'
  BY <1>8, Zenon DEF Attended
<1>10. ~overlapped' => OneBatch'
  BY <1>1, <1>2, Zenon DEF OneBatch
<1> QED  BY <1>4, <1>6, <1>7, <1>9, <1>10, Zenon DEF LogInv

LEMMA FlushTestInv == ASSUME LogInv, NEW t \in LogThread, FlushTest(t) PROVE LogInv'
<1>1. /\ logger' = [logger EXCEPT ![t] = IF Len(msgQueue) < MaxQueueSize THEN "idle" ELSE "swap"]
      /\ UNCHANGED << msgQueue, batch, file, lines, overlapped >>
  BY Zenon DEF FlushTest, Short
<1>2. LogTypeInv
  BY Zenon DEF LogInv
<1>3. LogTypeInv'
  BY <1>1, <1>2, Zenon DEF LogTypeInv
<1>4. Attended'
  <2>1. Len(msgQueue) \in Nat
    BY <1>2, LenProperties, Zenon DEF LogTypeInv
  <2>2. ASSUME Len(msgQueue) >= MaxQueueSize PROVE logger'[t] = "swap"
    BY <1>1, <1>2, <2>1, <2>2, MaxQueueSizeAssumption, SMTT(30) DEF LogTypeInv
  <2> QED  BY <1>1, <2>2, Zenon DEF Attended
<1> QED  BY <1>1, <1>3, <1>4, Zenon DEF LogInv, Numbered, Ordered, OneBatch

(* The queue becomes t's batch.                                            *)
LEMMA FlushSwapInv == ASSUME LogInv, NEW t \in LogThread, FlushSwap(t) PROVE LogInv'
<1>1. /\ batch' = [batch EXCEPT ![t] = msgQueue] /\ msgQueue' = << >>
      /\ logger' = [logger EXCEPT ![t] = "write"] /\ UNCHANGED << file, lines >>
  BY Zenon DEF FlushSwap, Swapped
<1>2. LogTypeInv /\ Numbered /\ Ordered
  BY Zenon DEF LogInv
<1>3. /\ batch'[t] = msgQueue
      /\ \A u \in LogThread \ {t} : batch'[u] = batch[u]
  BY <1>1, <1>2, Zenon DEF LogTypeInv
<1>4. Len(<< >>) = 0 /\ << >> \in Seq(Nat)
  BY EmptySeq, Zenon
<1>5. LogTypeInv'
  BY <1>1, <1>2, <1>4, Zenon DEF LogTypeInv
<1>6. Attended'
  BY <1>1, <1>4, MaxQueueSizeAssumption DEF Attended
<1>7. \A s : UpTo(<< >>, s) /\ Increasing(<< >>) /\ Before(s, << >>)
  BY <1>4 DEF UpTo, Increasing, Before
<1>8. Numbered'
  BY <1>1, <1>2, <1>3, <1>7, Zenon DEF Numbered
<1>9. Ordered'
  BY <1>1, <1>2, <1>3, <1>7, Zenon DEF Ordered
<1>10. ASSUME ~overlapped' PROVE OneBatch'
  <2>1. ~overlapped /\ \A u \in LogThread \ {t} : batch[u] = << >>
    BY <1>10, Zenon DEF FlushSwap
  <2>2. OneBatch
    BY <2>1, Zenon DEF LogInv
  <2>3. \A u \in LogThread : Before(file', batch'[u])
    BY <1>1, <1>2, <1>3, <2>2, Zenon DEF OneBatch, Ordered
  <2>4. \A u, v \in LogThread : u # v => batch'[u] = << >> \/ batch'[v] = << >>
    BY <1>3, <2>1
  <2> QED  BY <1>1, <2>2, <2>3, <2>4, Zenon DEF OneBatch
<1> QED  BY <1>5, <1>6, <1>8, <1>9, <1>10, Zenon DEF LogInv

(* t's batch goes to the file, or is lost.                                 *)
LEMMA FileWriteInv == ASSUME LogInv, NEW t \in LogThread, FileWrite(t) PROVE LogInv'
<1> DEFINE c == file \o batch[t]
<1>1. /\ logger[t] = "write" /\ file' \in {c, file}
      /\ batch' = [batch EXCEPT ![t] = << >>] /\ logger' = [logger EXCEPT ![t] = "idle"]
      /\ msgQueue' = msgQueue /\ lines' = lines /\ overlapped' = overlapped
  BY Zenon DEF FileWrite, Written
<1>2. LogTypeInv /\ Numbered /\ Ordered /\ (~overlapped => OneBatch) /\ Attended
  BY Zenon DEF LogInv
<1>3. file \in Seq(Nat) /\ batch[t] \in Seq(Nat) /\ lines \in Nat /\ msgQueue \in Seq(Nat)
  BY <1>2, Zenon DEF LogTypeInv
<1>4. /\ c \in Seq(Nat) /\ UpTo(c, lines) /\ Before(c, msgQueue)
      /\ Increasing(file) /\ Before(file, batch[t]) => Increasing(c)
  BY <1>2, <1>3, BatchWritten, Zenon DEF Numbered, Ordered
<1> HIDE DEF c
<1>5. /\ batch'[t] = << >>
      /\ \A u \in LogThread \ {t} : batch'[u] = batch[u]
  BY <1>1, <1>2, Zenon DEF LogTypeInv
<1>6. Len(<< >>) = 0 /\ << >> \in Seq(Nat)
  BY EmptySeq, Zenon
<1>7. \A s : UpTo(<< >>, s) /\ Increasing(<< >>) /\ Before(s, << >>) /\ Before(<< >>, s)
  BY <1>6 DEF UpTo, Increasing, Before
<1>8. LogTypeInv'
  BY <1>1, <1>2, <1>4, <1>6, Zenon DEF LogTypeInv
<1>9. Numbered'
  BY <1>1, <1>2, <1>4, <1>5, <1>7, Zenon DEF Numbered
<1>10. Ordered'
  BY <1>1, <1>2, <1>4, <1>5, <1>7, Zenon DEF Ordered
<1>11. Attended'
  <2> SUFFICES ASSUME Len(msgQueue) >= MaxQueueSize
               PROVE  \E u \in LogThread : logger'[u] \in {"flush", "swap"}
    BY <1>1, Zenon DEF Attended
  <2>1. PICK u \in LogThread : logger[u] \in {"flush", "swap"}
    BY <1>2, Zenon DEF Attended
  <2>2. u # t /\ logger'[u] = logger[u]
    BY <1>1, <1>2, <2>1, Zenon DEF LogTypeInv
  <2> QED  BY <2>1, <2>2, Zenon
<1>12. ASSUME ~overlapped' PROVE OneBatch'
  <2>1. OneBatch
    BY <1>1, <1>2, <1>12, Zenon
  <2>2. Increasing(file')
    BY <1>1, <1>4, <2>1, Zenon DEF OneBatch
  <2>3. ASSUME NEW u \in LogThread PROVE Before(file', batch'[u])
    <3>1. CASE u = t
      BY <1>5, <1>7, <3>1, Zenon
    <3>2. CASE u # t /\ batch[u] = << >>
      BY <1>5, <1>7, <3>2, Zenon
    <3>3. CASE u # t /\ batch[t] = << >>
      <4>1. c = file
        BY <1>3, <3>3, ConcatEmptySeq, Zenon DEF c
      <4> QED  BY <1>1, <1>5, <2>1, <3>3, <4>1, SMTT(30) DEF OneBatch
    <3> QED  BY <2>1, <3>1, <3>2, <3>3, Zenon DEF OneBatch
  <2>4. \A u, v \in LogThread : u # v => batch'[u] = << >> \/ batch'[v] = << >>
    BY <1>5, <2>1, Zenon DEF OneBatch
  <2> QED  BY <2>2, <2>3, <2>4, Zenon DEF OneBatch
<1> QED  BY <1>8, <1>9, <1>10, <1>11, <1>12, Zenon DEF LogInv

LEMMA LogNextInv == LogInv /\ [LogNext]_logVars => LogInv'
<1> SUFFICES ASSUME LogInv, [LogNext]_logVars PROVE LogInv'
  BY Zenon
<1>1. CASE UNCHANGED logVars
  BY <1>1, Zenon DEF logVars, LogInv, LogTypeInv, Numbered, Ordered, OneBatch, Attended
<1> QED  BY <1>1, AddMessageInv, FlushTestInv, FlushSwapInv, FileWriteInv, Zenon DEF LogNext, Logging

-----------------------------------------------------------------------------
(* When no thread is inside FileLogger::AddMessage, fewer than             *)
(* _maxQueueSize lines wait, for any number of threads and any limit.      *)
THEOREM QueueBelowLimit == LogSpec => []BelowLimit
<1>1. LogInv => BelowLimit
  <2> SUFFICES ASSUME LogInv, \A t \in LogThread : logger[t] = "idle" PROVE Len(msgQueue) < MaxQueueSize
    BY Zenon DEF BelowLimit
  <2>1. ~(Len(msgQueue) >= MaxQueueSize)
    BY Zenon DEF LogInv, Attended
  <2>2. Len(msgQueue) \in Nat
    BY LenProperties, Zenon DEF LogInv, LogTypeInv
  <2> QED  BY <2>1, <2>2, MaxQueueSizeAssumption
<1> QED  BY LogInitInv, LogNextInv, <1>1, PTL DEF LogSpec

(* The file has the lines in the order of AddMessage unless two flushes    *)
(* had a batch at the same time, for any number of threads.                *)
THEOREM FileIsInOrder == LogSpec => []FileInOrder
<1>1. LogInv => FileInOrder
  BY Zenon DEF LogInv, OneBatch, Increasing, FileInOrder
<1> QED  BY LogInitInv, LogNextInv, <1>1, PTL DEF LogSpec
-----------------------------------------------------------------------------
(* Where the lines of the log are: what LinesKept says, and that a thread  *)
(* that is not at FileWrite has no batch.                                  *)

KeptInv == LogTypeInv /\ LinesKept /\ \A t \in LogThread : logger[t] # "write" => batch[t] = << >>

LEMMA LinesOfNone == Lines(<< >>) = {} /\ Once(<< >>)
<1>1. Len(<< >>) = 0
  BY EmptySeq, Zenon
<1> QED  BY <1>1 DEF Lines, Once

LEMMA LinesOfAppend ==
    ASSUME NEW s \in Seq(Nat), NEW n \in Nat
    PROVE  /\ Lines(Append(s, n)) = Lines(s) \cup {n}
           /\ Once(s) /\ n \notin Lines(s) => Once(Append(s, n))
<1> DEFINE a == Append(s, n)
<1>1. /\ Len(a) = Len(s) + 1 /\ Len(s) \in Nat /\ a[Len(s) + 1] = n
      /\ \A i \in 1..Len(s) : a[i] = s[i]
  BY AppendProperties, LenProperties
<1> HIDE DEF a
<1>2. 1..Len(a) = 1..Len(s) \cup {Len(s) + 1}
  BY <1>1
<1>3. Lines(a) = Lines(s) \cup {n}
  BY <1>1, <1>2, ZenonT(40) DEF Lines
<1>4. ASSUME Once(s), n \notin Lines(s) PROVE Once(a)
  <2>1. \A i \in 1..Len(s) : a[i] # n
    BY <1>1, <1>4, Zenon DEF Lines
  <2> QED  BY <1>1, <1>2, <1>4, <2>1, Zenon DEF Once
<1> QED  BY <1>3, <1>4, Zenon DEF a

LEMMA LinesOfConcat ==
    ASSUME NEW f \in Seq(Nat), NEW b \in Seq(Nat)
    PROVE  /\ Lines(f \o b) = Lines(f) \cup Lines(b)
           /\ Once(f) /\ Once(b) /\ Apart(Lines(f), Lines(b)) => Once(f \o b)
<1> DEFINE c == f \o b
<1>1. /\ Len(c) = Len(f) + Len(b) /\ Len(f) \in Nat /\ Len(b) \in Nat
      /\ \A i \in 1..Len(f) : i \in 1..Len(c) /\ c[i] = f[i]
      /\ \A i \in 1..Len(c) : i > Len(f) => i - Len(f) \in 1..Len(b) /\ c[i] = b[i - Len(f)]
      /\ \A i \in 1..Len(b) : i + Len(f) \in 1..Len(c) /\ c[i + Len(f)] = b[i]
  BY ConcatProperties, LenProperties
<1> HIDE DEF c
<1>2. ASSUME NEW i \in 1..Len(c)
      PROVE  i \in 1..Len(f) \/ i > Len(f)
  BY <1>1
<1>3. Lines(c) \subseteq Lines(f) \cup Lines(b)
  BY <1>1, <1>2, ZenonT(40) DEF Lines
<1>4. Lines(f) \subseteq Lines(c) /\ Lines(b) \subseteq Lines(c)
  <2>1. ASSUME NEW i \in 1..Len(f) PROVE f[i] \in Lines(c)
    BY <1>1, Zenon DEF Lines
  <2>2. ASSUME NEW i \in 1..Len(b) PROVE b[i] \in Lines(c)
    <3>1. i + Len(f) \in 1..Len(c) /\ c[i + Len(f)] = b[i]
      BY <1>1, Zenon
    <3> QED  BY <3>1, Zenon DEF Lines
  <2> QED  BY <2>1, <2>2, Zenon DEF Lines
<1>5. ASSUME Once(f), Once(b), Apart(Lines(f), Lines(b)) PROVE Once(c)
  <2> SUFFICES ASSUME NEW i \in 1..Len(c), NEW j \in 1..Len(c), c[i] = c[j] PROVE i = j
    BY Zenon DEF Once
  <2>1. \A k \in 1..Len(f), m \in 1..Len(b) : f[k] # b[m]
    BY <1>5, Zenon DEF Apart, Lines
  <2>2. CASE i \in 1..Len(f) /\ j \in 1..Len(f)
    BY <2>2, <1>1, <1>5 DEF Once
  <2>3. CASE i > Len(f) /\ j > Len(f)
    <3>1. /\ i - Len(f) \in 1..Len(b) /\ j - Len(f) \in 1..Len(b)
          /\ b[i - Len(f)] = b[j - Len(f)]
      BY <2>3, <1>1, Zenon
    <3>2. i - Len(f) = j - Len(f)
      BY <3>1, <1>5, Zenon DEF Once
    <3> QED  BY <3>2, <1>1
  <2>4. CASE i \in 1..Len(f) /\ j > Len(f)
    <3>1. c[i] = f[i] /\ j - Len(f) \in 1..Len(b) /\ c[j] = b[j - Len(f)]
      BY <2>4, <1>1, Zenon
    <3> QED  BY <2>1, <2>4, <3>1, Zenon
  <2>5. CASE i > Len(f) /\ j \in 1..Len(f)
    <3>1. c[j] = f[j] /\ i - Len(f) \in 1..Len(b) /\ c[i] = b[i - Len(f)]
      BY <2>5, <1>1, Zenon
    <3> QED  BY <2>1, <2>5, <3>1, Zenon
  <2> QED  BY <1>2, <2>2, <2>3, <2>4, <2>5, Zenon
<1> QED  BY <1>3, <1>4, <1>5, Zenon DEF c

LEMMA KeptInit == LogInit => KeptInv
<1> SUFFICES ASSUME LogInit PROVE KeptInv
  BY Zenon
<1>1. LogTypeInv
  BY LogInitInv, Zenon DEF LogInv
<1>2. msgQueue = << >> /\ file = << >> /\ dropped = {} /\ lines = 0 /\ \A t \in LogThread : batch[t] = << >>
  BY Zenon DEF LogInit
<1>3. 1..lines = {}
  BY <1>2
<1>4. LinesKept
  BY <1>2, <1>3, LinesOfNone, Zenon DEF LinesKept, Apart
<1> QED  BY <1>1, <1>2, <1>4, Zenon DEF KeptInv

LEMMA AddMessageKept == ASSUME KeptInv, NEW t \in LogThread, AddMessage(t), LogTypeInv' PROVE KeptInv'
<1>1. /\ lines' = lines + 1 /\ msgQueue' = Append(msgQueue, lines + 1) /\ lines + 1 \in Nat
      /\ batch' = batch /\ file' = file /\ dropped' = dropped /\ logger[t] = "idle"
      /\ logger' = [logger EXCEPT ![t] = "flush"]
  BY Zenon DEF AddMessage, KeptInv, LogTypeInv
<1>2. /\ 1..(lines + 1) = 1..lines \cup {lines + 1}
      /\ lines + 1 \notin 1..lines
  BY DEF KeptInv, LogTypeInv
<1>3. /\ lines + 1 \notin Lines(msgQueue) /\ lines + 1 \notin Lines(file) /\ lines + 1 \notin dropped
      /\ \A u \in LogThread : lines + 1 \notin Lines(batch[u])
  BY <1>2 DEF KeptInv, LinesKept
<1>4. Lines(msgQueue') = Lines(msgQueue) \cup {lines + 1} /\ Once(msgQueue')
  BY <1>1, <1>3, LinesOfAppend, Zenon DEF KeptInv, LogTypeInv, LinesKept
<1>5. \A u \in LogThread : logger'[u] # "write" => batch'[u] = << >>
  BY <1>1, Zenon DEF KeptInv, LogTypeInv
<1>6. LinesKept
  BY Zenon DEF KeptInv
<1>7. Lines(msgQueue') \cup Lines(file') \cup dropped' \cup UNION {Lines(batch'[u]) : u \in LogThread} = 1..lines'
  BY <1>1, <1>2, <1>4, <1>6 DEF LinesKept
<1>8. /\ Apart(Lines(msgQueue'), Lines(file') \cup dropped')
      /\ \A u \in LogThread : Apart(Lines(batch'[u]), Lines(msgQueue') \cup Lines(file') \cup dropped')
  BY <1>1, <1>3, <1>4, <1>6 DEF LinesKept, Apart
<1>9. LinesKept'
  BY <1>1, <1>4, <1>6, <1>7, <1>8, Zenon DEF LinesKept
<1> QED  BY <1>5, <1>9, Zenon DEF KeptInv

LEMMA FlushSwapKept == ASSUME KeptInv, NEW t \in LogThread, FlushSwap(t), LogTypeInv' PROVE KeptInv'
<1>1. /\ batch' = [batch EXCEPT ![t] = msgQueue] /\ msgQueue' = << >>
      /\ logger[t] = "swap" /\ logger' = [logger EXCEPT ![t] = "write"]
      /\ UNCHANGED << file, lines, dropped >>
  BY Zenon DEF FlushSwap, Swapped
<1>2. /\ batch[t] = << >> /\ batch'[t] = msgQueue
      /\ \A u \in LogThread \ {t} : batch'[u] = batch[u]
  BY <1>1, Zenon DEF KeptInv, LogTypeInv
<1>3. \A u \in LogThread : logger'[u] # "write" => batch'[u] = << >>
  BY <1>1, Zenon DEF KeptInv, LogTypeInv
<1>4. UNION {Lines(batch'[u]) : u \in LogThread}
      = Lines(msgQueue) \cup UNION {Lines(batch[u]) : u \in LogThread}
  BY <1>2, LinesOfNone, Zenon
<1>5. LinesKept'
  BY <1>1, <1>2, <1>4, LinesOfNone, Zenon DEF KeptInv, LinesKept, Apart
<1> QED  BY <1>3, <1>5, Zenon DEF KeptInv

LEMMA FileWriteKept == ASSUME KeptInv, NEW t \in LogThread, FileWrite(t), LogTypeInv' PROVE KeptInv'
<1>1. /\ \/ file' = file \o batch[t] /\ dropped' = dropped
         \/ file' = file /\ dropped' = dropped \cup Lines(batch[t])
      /\ batch' = [batch EXCEPT ![t] = << >>] /\ logger' = [logger EXCEPT ![t] = "idle"]
      /\ msgQueue' = msgQueue /\ lines' = lines
  BY Zenon DEF FileWrite, Written
<1>2. /\ batch'[t] = << >>
      /\ \A u \in LogThread \ {t} : batch'[u] = batch[u]
  BY <1>1, Zenon DEF KeptInv, LogTypeInv
<1>3. \A u \in LogThread : logger'[u] # "write" => batch'[u] = << >>
  BY <1>1, <1>2, Zenon DEF KeptInv, LogTypeInv
<1>4. UNION {Lines(batch[u]) : u \in LogThread}
      = Lines(batch[t]) \cup UNION {Lines(batch'[u]) : u \in LogThread}
  BY <1>2, LinesOfNone, Zenon
<1>5. CASE file' = file \o batch[t] /\ dropped' = dropped
  <2>1. Lines(file') = Lines(file) \cup Lines(batch[t]) /\ Once(file')
    BY <1>5, LinesOfConcat, Zenon DEF KeptInv, LogTypeInv, LinesKept, Apart
  <2>2. LinesKept'
    BY <1>1, <1>2, <1>4, <1>5, <2>1, LinesOfNone, ZenonT(40) DEF KeptInv, LinesKept, Apart
  <2> QED  BY <1>3, <2>2, Zenon DEF KeptInv
<1>6. CASE file' = file /\ dropped' = dropped \cup Lines(batch[t])
  <2>1. LinesKept'
    BY <1>1, <1>2, <1>4, <1>6, LinesOfNone, ZenonT(40) DEF KeptInv, LinesKept, Apart
  <2> QED  BY <1>3, <2>1, Zenon DEF KeptInv
<1> QED  BY <1>1, <1>5, <1>6, Zenon

LEMMA KeptNext == LogInv /\ LogInv' /\ KeptInv /\ [LogNext]_logVars => KeptInv'
<1> SUFFICES ASSUME LogInv', KeptInv, [LogNext]_logVars PROVE KeptInv'
  BY Zenon
<1>1. LogTypeInv'
  BY Zenon DEF LogInv
<1>2. ASSUME NEW t \in LogThread, FlushTest(t) PROVE KeptInv'
  <2>1. /\ logger[t] = "flush" /\ logger' = [logger EXCEPT ![t] = IF Short(Len(msgQueue)) THEN "idle" ELSE "swap"]
        /\ UNCHANGED << msgQueue, batch, file, lines, dropped >>
    BY <1>2, Zenon DEF FlushTest
  <2>2. \A u \in LogThread : logger'[u] # "write" => batch'[u] = << >>
    BY <2>1, Zenon DEF KeptInv, LogTypeInv
  <2> QED  BY <1>1, <2>1, <2>2, Zenon DEF KeptInv, LinesKept
<1>3. CASE UNCHANGED logVars
  BY <1>3, Zenon DEF logVars, KeptInv, LogTypeInv, LinesKept
<1> QED  BY <1>1, <1>2, <1>3, AddMessageKept, FlushSwapKept, FileWriteKept, Zenon DEF LogNext, Logging

(* Every line is in exactly one place, and there once: waiting, in one     *)
(* thread's batch, in the file, or lost with a file that did not open;     *)
(* however many threads flush at once (FileLogger::Flush, FileWrite).      *)
THEOREM LinesAreKept == LogSpec => []LinesKept
<1>1. KeptInv => LinesKept
  BY Zenon DEF KeptInv
<1> QED  BY LogInitInv, LogNextInv, KeptInit, KeptNext, <1>1, PTL DEF LogSpec
-----------------------------------------------------------------------------
(* The process that uses them.  Every step of a thread is a step of the    *)
(* packet queue, of the command queue or of the log, or leaves it alone.   *)

Handling == handling \in Seq(Packet)

LEMMA WorkerUses == ASSUME NEW w \in Worker, (\E p \in Packet : Receive(w, p)) \/ Signal(w) \/ WorkerEnds(w)
                    PROVE  [PacketsNext]_packetsVars /\ UNCHANGED << cmdsVars, logVars >>
<1>1. CASE \E p \in Packet : Receive(w, p)
  BY <1>1, Zenon DEF Receive, PacketsNext
<1>2. CASE Signal(w)
  BY <1>2, Zenon DEF Signal, PacketsNext
<1>3. CASE WorkerEnds(w)
  BY <1>3, Zenon DEF WorkerEnds
<1> QED  BY <1>1, <1>2, <1>3, Zenon

LEMMA ProcessUses == ASSUME Handling, Poll \/ Take \/ MessageProcess
                     PROVE  [PacketsNext]_packetsVars /\ [CmdsNext]_cmdsVars /\ UNCHANGED logVars
<1>1. CASE Poll
  BY <1>1, Zenon DEF Poll, PacketsNext, ProcessThread
<1>2. CASE Take
  BY <1>2, Zenon DEF Take, PacketsNext, ProcessThread
<1>3. CASE MessageProcess
  <2>1. UNCHANGED << packetsVars, logVars >> /\ handling # << >>
    BY <1>3, Zenon DEF MessageProcess
  <2>2. Head(handling) \in Packet
    BY <2>1, HeadTailProperties, Zenon DEF Handling
  <2>3. PICK c : c = CommandOf[Head(handling)]
    BY Zenon
  <2>4. c \in Seq(Cmd)
    BY <2>2, <2>3, GameLoopAssumption, Zenon
  <2>5. UNCHANGED cmdsVars \/ (c # << >> /\ Add(Head(c)))
    BY <1>3, <2>3, Zenon DEF MessageProcess
  <2>6. c # << >> => Head(c) \in Cmd
    BY <2>4, HeadTailProperties, Zenon
  <2> QED  BY <2>1, <2>5, <2>6, Zenon DEF CmdsNext
<1> QED  BY <1>1, <1>2, <1>3, Zenon

LEMMA OthersUse == ASSUME UpdateTest \/ Tick \/ Stop \/ Activate \/ Over \/ \E s \in {"main", "process"} : Join(s)
                   PROVE  [PacketsNext]_packetsVars /\ [CmdsNext]_cmdsVars /\ UNCHANGED logVars
<1>1. CASE UpdateTest
  BY <1>1, Zenon DEF UpdateTest
<1>2. CASE Tick
  BY <1>2, Zenon DEF Tick, CmdsNext, Ticking
<1>3. CASE Stop
  BY <1>3, Zenon DEF Stop, PacketsNext
<1>4. CASE Activate
  BY <1>4, Zenon DEF Activate, PacketsNext
<1>5. CASE Over
  BY <1>5, Zenon DEF Over, vars
<1>6. CASE \E s \in {"main", "process"} : Join(s)
  BY <1>6, Zenon DEF Join
<1> QED  BY <1>1, <1>2, <1>3, <1>4, <1>5, <1>6, Zenon

LEMMA LoggersUse == ASSUME NEW t \in LogThread, Log(t) \/ LogOn(t)
                    PROVE  LogNext /\ UNCHANGED << packetsVars, cmdsVars >>
  BY Zenon DEF Log, LogOn, LogNext

LEMMA NextUses ==
    Handling /\ [Next]_vars => [PacketsNext]_packetsVars /\ [CmdsNext]_cmdsVars /\ [LogNext]_logVars
<1> SUFFICES ASSUME Handling, [Next]_vars
             PROVE  [PacketsNext]_packetsVars /\ [CmdsNext]_cmdsVars /\ [LogNext]_logVars
  BY Zenon
<1>1. Worker \subseteq LogThread /\ {"process", "update", "main"} \subseteq LogThread
  BY GameLoopAssumption, Zenon
<1>2. CASE UNCHANGED vars
  BY <1>2, Zenon DEF vars
<1>3. CASE Next
  <2>1. ASSUME NEW w \in Worker, (\E p \in Packet : Receive(w, p)) \/ WorkerThread(w)
        PROVE  [PacketsNext]_packetsVars /\ [CmdsNext]_cmdsVars /\ [LogNext]_logVars
    BY <1>1, <2>1, WorkerUses, LoggersUse, Zenon DEF WorkerThread
  <2>2. CASE AppProcessThread
    BY <1>1, <2>2, ProcessUses, OthersUse, LoggersUse, Zenon DEF AppProcessThread
  <2>3. CASE AppUpdateThread
    BY <1>1, <2>3, OthersUse, LoggersUse, Zenon DEF AppUpdateThread
  <2>4. CASE AppStop \/ Stop \/ Over
    BY <1>1, <2>4, OthersUse, LoggersUse, Zenon DEF AppStop
  <2> QED  BY <1>3, <2>1, <2>2, <2>3, <2>4, LoggersUse, Zenon DEF Next
<1> QED  BY <1>2, <1>3, Zenon

(* What ProcessThread handles is a packet: the one it took.                *)
LEMMA HandlingKept == Handling /\ PacketsInv' /\ [Next]_vars => Handling'
<1> SUFFICES ASSUME Handling, PacketsInv', [Next]_vars PROVE Handling'
  BY Zenon
<1>1. seen' \in Seq(Packet)
  BY Zenon DEF PacketsInv, PacketsTypeOK
<1>2. handling' = handling \/ handling' = << >> \/ handling' = seen'
  BY Zenon DEF Next, vars, loopVars, WorkerThread, Receive, Signal, WorkerEnds, AppProcessThread, Poll, Take,
         MessageProcess, Join, LogOn, Log, AppUpdateThread, UpdateTest, Tick, AppStop, Activate, Stop, Over
<1> QED  BY <1>1, <1>2, EmptySeq, Zenon DEF Handling

(* In the server, workers, ProcessThread, UpdateThread and App::Stop use   *)
(* the packet queue, the command queue and the log as their own            *)
(* specifications say, so both queues are first in, first out there, for   *)
(* any number of workers and any packets, commands and follow-ups.         *)
THEOREM ServerUsesQueues == Spec => UsesQueues
<1>1. Init => PacketsInit /\ CmdsInit /\ LogInit /\ Handling
  BY EmptySeq, Zenon DEF Init, Handling
<1>2. Spec => PacketsSpec /\ CmdsSpec /\ LogSpec
  BY <1>1, NextUses, HandlingKept, PacketsInitInv, PacketsNextInv, PTL DEF Spec, PacketsSpec, CmdsSpec, LogSpec
<1> QED  BY <1>2, PacketQueueIsFifo, CommandUnitQueueIsFifo, Zenon DEF UsesQueues

(* What holds of the queues and of the log by themselves holds in the      *)
(* server: ProcessThread is not left asleep beside packets (Pop), no line  *)
(* is lost or doubled, and the file is in order while batches do not       *)
(* overlap.                                                                *)
THEOREM ServerKeepsParts == Spec => [](NoLostWakeup /\ PopSafe /\ LinesKept /\ FileInOrder)
<1>1. Spec => PacketsSpec /\ LogSpec
  BY ServerUsesQueues, Zenon DEF UsesQueues
<1> QED  BY <1>1, PacketQueueNoLostWakeup, PacketQueuePopSafe, LinesAreKept, FileIsInOrder, PTL

-----------------------------------------------------------------------------
(* Network::Stop: a caller that got anywhere joined the first thread, so   *)
(* only one of the two ever gets anywhere.                                 *)

JoinInv ==
    /\ joins \in [{"main", "process"} -> Nat]
    /\ \A s \in {"main", "process"} : joins[s] > 0 => Threads[1] \in joined
    /\ joins["main"] = 0 \/ joins["process"] = 0

LEMMA JoinKept == ASSUME JoinInv, NEW s \in {"main", "process"}, Join(s) PROVE JoinInv'
<1>1. CASE UNCHANGED << joined, joins >>
  BY <1>1, Zenon DEF JoinInv
<1>2. CASE /\ Threads[joins[s] + 1] \notin joined
           /\ joined' = joined \cup {Threads[joins[s] + 1]}
           /\ joins' = [joins EXCEPT ![s] = @ + 1]
  <2>1. joins[s] \in Nat
    BY Zenon DEF JoinInv
  <2>2. joins' \in [{"main", "process"} -> Nat] /\ \A u \in {"main", "process"} \ {s} : joins'[u] = joins[u]
    BY <1>2, <2>1 DEF JoinInv
  <2>3. \A u \in {"main", "process"} \ {s} : joins[u] = 0
    <3>1. CASE joins[s] = 0
      <4>1. Threads[1] \notin joined
        BY <1>2, <3>1
      <4> QED  BY <4>1 DEF JoinInv
    <3>2. CASE joins[s] # 0
      BY <3>2 DEF JoinInv
    <3> QED  BY <3>1, <3>2, Zenon
  <2>4. Threads[1] \in joined'
    <3>1. CASE joins[s] = 0
      BY <1>2, <3>1
    <3>2. CASE joins[s] # 0
      BY <1>2, <2>1, <3>2 DEF JoinInv
    <3> QED  BY <3>1, <3>2, Zenon
  <2> QED  BY <2>2, <2>3, <2>4, Zenon DEF JoinInv
<1> QED  BY <1>1, <1>2, Zenon DEF Join, JoinThrows

LEMMA JoinNext == JoinInv /\ [Next]_vars => JoinInv'
<1> SUFFICES ASSUME JoinInv, [Next]_vars PROVE JoinInv'
  BY Zenon
<1>1. CASE UNCHANGED << joined, joins >>
  BY <1>1, Zenon DEF JoinInv
<1>2. UNCHANGED << joined, joins >> \/ Join("main") \/ Join("process")
  BY Zenon DEF Next, vars, loopVars, WorkerThread, Receive, Signal, WorkerEnds, AppProcessThread, Poll, Take,
         MessageProcess, LogOn, Log, AppUpdateThread, UpdateTest, Tick, AppStop, Activate, Stop, Over
<1> QED  BY <1>1, <1>2, JoinKept, Zenon

(* However many worker threads there are, App::Stop and ProcessThread      *)
(* never both return from Network::Stop (network.cpp: _threads are joined  *)
(* without asking whether they are joinable), so main never returns.       *)
THEOREM ServerNeverReturns == Spec => []NeverReturns
<1>1. Init => JoinInv
  BY DEF Init, JoinInv
<1>2. JoinInv => NeverReturns
  <2>1. Len(Threads) > 0
    BY GameLoopAssumption, EmptySeq, LenProperties
  <2> QED  BY <2>1 DEF JoinInv, NeverReturns
<1> QED  BY <1>1, <1>2, JoinNext, PTL DEF Spec
=============================================================================
