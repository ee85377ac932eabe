------------------------ MODULE ConnectorSendProofs ------------------------
(***************************************************************************)
(* Proofs about ConnectorSend, for any number of threads, messages and     *)
(* clients and any size of a message: messages never overtake each other,  *)
(* and without overlapping calls a client gets exactly what was written.   *)
(***************************************************************************)
EXTENDS ConnectorSend, SequenceTheorems, TLAPS

\* The order in which messages were written.
Le(m, n) == m.client < n.client \/ (m.client = n.client /\ m.no <= n.no)

\* A message passes from the queue to the buffer, to a send in progress and
\* to the wire, and each of these is behind the next one.
Newest == [client |-> client, no |-> written]
Chain ==
    /\ \A i, j \in 1..Len(sendQueue) : i < j => Le(sendQueue[i], sendQueue[j])
    /\ \A i, j \in 1..Len(inflight) : i < j => Le(inflight[i].msg, inflight[j].msg)
    /\ \A i, j \in 1..Len(wire) : i < j => Le(wire[i][1], wire[j][1])
    /\ \A i \in 1..Len(wire), j \in 1..Len(inflight) : Le(wire[i][1], inflight[j].msg)
    /\ \A i \in 1..Len(wire), j \in 1..Len(sendQueue) : Le(wire[i][1], sendQueue[j])
    /\ \A i \in 1..Len(inflight), j \in 1..Len(sendQueue) : Le(inflight[i].msg, sendQueue[j])
    /\ pBuffer # Null =>
         /\ \A i \in 1..Len(wire) : Le(wire[i][1], pBuffer.msg)
         /\ \A i \in 1..Len(inflight) : Le(inflight[i].msg, pBuffer.msg)
         /\ \A i \in 1..Len(sendQueue) : Le(pBuffer.msg, sendQueue[i])
         /\ Le(pBuffer.msg, Newest)
    /\ \A i \in 1..Len(wire) : Le(wire[i][1], Newest)
    /\ \A i \in 1..Len(inflight) : Le(inflight[i].msg, Newest)
    /\ \A i \in 1..Len(sendQueue) : Le(sendQueue[i], Newest)

\* Without overlap one thread at a time is inside Write or DoSend, and what it
\* finds in _dwSendRef, _SendRequest and the queue goes with where it is.
Alone == \A t, u \in Thread : pc[t] # "idle" /\ pc[u] # "idle" => t = u
Nothing == sendRef = 0 /\ pBuffer = Null /\ inflight = << >>
Prepared == sendRef = 1 /\ pBuffer # Null /\ inflight = << >>
Underway == sendRef = 1 /\ (inflight = << >> \/ (pBuffer # Null /\ inflight = << pBuffer >>))

At(t) ==
    /\ pc[t] = "ref" => t \in Writer /\ sendQueue # << >> /\ (Nothing \/ Underway)
    /\ pc[t] = "empty" => Nothing /\ (t \in Writer => sendQueue # << >>)
    /\ pc[t] \in {"check", "lock"} => Nothing /\ sendQueue # << >>
    /\ pc[t] = "send" => Prepared
    /\ pc[t] = "complete" => t \in Worker /\ Prepared /\ done[t] \in 1..pBuffer.left
    /\ pc[t] = "clear" => /\ t \in Worker /\ sendRef = 0
                          /\ pBuffer # Null /\ inflight = << >>
    /\ pc[t] # "crash"

Idle == (\A t \in Thread : pc[t] = "idle") => (Nothing /\ sendQueue = << >>) \/ Underway

\* A client that comes to an object whose _dwSendRef was left at 1 gets
\* nothing.
Stuck == sendRef = 1 /\ pBuffer = Null

\* How much has been sent to a client that is not stuck.
Taken == written - Len(sendQueue)
Position ==
    LET whole == Taken * Size
    IN  /\ Len(sendQueue) <= written
        /\ \A i \in 1..Len(sendQueue) : sendQueue[i] = [client |-> client, no |-> Taken + i]
        /\ pBuffer = Null => Len(wire) = whole
        /\ pBuffer # Null =>
             /\ pBuffer.msg = [client |-> client, no |-> Taken]
             /\ \A t \in Thread :
                  /\ pc[t] = "clear" => Len(wire) = whole
                  /\ pc[t] = "complete" => Len(wire) = whole - pBuffer.left + done[t]
             /\ (\A t \in Thread : pc[t] \notin {"clear", "complete"}) => Len(wire) = whole - pBuffer.left

Control ==
    /\ Alone /\ Idle /\ \A t \in Thread : At(t)
    /\ ~open => inflight = << >>

Sequential ==
    ~overlap =>
        /\ Control
        /\ open => IF Stuck THEN wire = << >> ELSE Position
        /\ InOrder

-----------------------------------------------------------------------------
(* Types.                                                                  *)

LEMMA Goes ==
    ASSUME TypeOK, NEW t \in Thread, NEW label, Goto(t, label)
    PROVE  /\ DOMAIN pc' = Thread
           /\ \A u \in Thread : u # t => pc'[u] = pc[u]
           /\ pc'[t] = label
  BY Zenon DEF TypeOK, Goto

LEMMA GotoType ==
    ASSUME TypeOK, NEW t \in Thread,
           NEW label \in {"idle", "ref", "empty", "check", "lock", "send", "complete", "clear", "crash"},
           Goto(t, label)
    PROVE  pc' \in [Thread -> {"idle", "ref", "empty", "check", "lock", "send", "complete", "clear", "crash"}]
  BY Zenon DEF TypeOK, Goto

LEMMA Threads == Writer \subseteq Thread /\ Worker \subseteq Thread /\ \A t \in Worker : t \notin Writer
  BY SendAssumption, Zenon DEF Thread

\* The units one completion adds.
LEMMA SentUnits ==
    ASSUME TypeOK, NEW b \in Buffer, NEW n \in 1..Size, n <= b.left,
           wire' = wire \o [i \in 1..n |-> <<b.msg, Size - b.left + i>>]
    PROVE  /\ wire' \in Seq(Message \X (1..Size))
           /\ Len(wire') = Len(wire) + n
           /\ \A i \in 1..Len(wire) : wire'[i] = wire[i]
           /\ \A i \in 1..n : wire'[Len(wire) + i] = <<b.msg, Size - b.left + i>>
           /\ \A i \in 1..Len(wire') : i \in 1..Len(wire) \/ (i - Len(wire) \in 1..n /\ i = Len(wire) + (i - Len(wire)))
<1> DEFINE new == [i \in 1..n |-> <<b.msg, Size - b.left + i>>]
           w == Len(wire)
<1>1. b.msg \in Message /\ b.left \in 1..Size /\ Size \in Nat /\ n \in Nat
  BY SendAssumption DEF Buffer
<1>2. \A i \in 1..n : Size - b.left + i \in 1..Size
  BY <1>1, SMTT(30)
<1>3. \A i \in 1..n : <<b.msg, Size - b.left + i>> \in Message \X (1..Size)
  BY <1>1, <1>2, Zenon
<1>4. new \in Seq(Message \X (1..Size)) /\ Len(new) = n
  BY <1>1, <1>3
<1>5. \A i \in 1..n : new[i] = <<b.msg, Size - b.left + i>>
  BY Zenon
<1>6. wire \in Seq(Message \X (1..Size)) /\ w \in Nat /\ wire' = wire \o new
  BY LenProperties, Zenon DEF TypeOK
<1> HIDE DEF new, w
<1>7. /\ wire' \in Seq(Message \X (1..Size)) /\ Len(wire') = w + n
      /\ \A i \in 1..w + n : wire'[i] = IF i <= w THEN wire[i] ELSE new[i - w]
  <2> DEFINE S == Message \X (1..Size)
  <2>1. wire \in Seq(S) /\ new \in Seq(S) /\ Len(new) = n /\ wire' = wire \o new
    BY <1>4, <1>6, Zenon
  <2> HIDE DEF S
  <2>2. /\ wire' \in Seq(S) /\ Len(wire') = w + Len(new)
        /\ \A i \in 1..w + Len(new) : wire'[i] = IF i <= w THEN wire[i] ELSE new[i - w]
    <3>1. /\ wire \o new \in Seq(S) /\ Len(wire \o new) = Len(wire) + Len(new)
          /\ \A i \in 1..Len(wire) + Len(new) :
               (wire \o new)[i] = IF i <= Len(wire) THEN wire[i] ELSE new[i - Len(wire)]
      BY <2>1, ConcatProperties, Zenon
    <3> QED  BY <2>1, <3>1, Zenon DEF w
  <2> QED  BY <2>1, <2>2, Zenon DEF S
<1>8. \A i \in 1..w : i \in 1..w + n /\ i <= w
  BY <1>1, <1>6
<1>9. \A i \in 1..n : w + i \in 1..w + n /\ ~(w + i <= w) /\ (w + i) - w = i
  BY <1>1, <1>6
<1>10. \A i \in 1..w : wire'[i] = wire[i]
  <2> SUFFICES ASSUME NEW i \in 1..w PROVE wire'[i] = wire[i]
    BY Zenon
  <2>1. wire'[i] = IF i <= w THEN wire[i] ELSE new[i - w]
    BY <1>7, <1>8, Zenon
  <2> QED  BY <1>8, <2>1, Zenon
<1>11. \A i \in 1..n : wire'[w + i] = new[i]
  <2> SUFFICES ASSUME NEW i \in 1..n PROVE wire'[w + i] = new[i]
    BY Zenon
  <2>1. wire'[w + i] = IF w + i <= w THEN wire[w + i] ELSE new[(w + i) - w]
    BY <1>7, <1>9, Zenon
  <2> QED  BY <1>9, <2>1, Zenon
<1>12. \A i \in 1..w + n : i \in 1..w \/ (i - w \in 1..n /\ i = w + (i - w))
  BY <1>1, <1>6
<1> QED  BY <1>5, <1>7, <1>10, <1>11, <1>12, Zenon DEF w

\* What happens to the queue.
LEMMA Queued ==
    ASSUME TypeOK, NEW m \in Message
    PROVE  /\ Append(sendQueue, m) \in Seq(Message)
           /\ Len(Append(sendQueue, m)) = Len(sendQueue) + 1
           /\ \A i \in 1..Len(sendQueue) : Append(sendQueue, m)[i] = sendQueue[i]
           /\ Append(sendQueue, m)[Len(sendQueue) + 1] = m
           /\ Len(sendQueue) \in Nat
  BY AppendProperties, LenProperties DEF TypeOK

LEMMA Popped ==
    ASSUME TypeOK, sendQueue # << >>
    PROVE  /\ Head(sendQueue) \in Message /\ Head(sendQueue) = sendQueue[1]
           /\ Tail(sendQueue) \in Seq(Message)
           /\ Len(sendQueue) \in Nat \ {0}
           /\ Len(Tail(sendQueue)) = Len(sendQueue) - 1
           /\ \A i \in 1..Len(sendQueue) - 1 : Tail(sendQueue)[i] = sendQueue[i + 1]
<1>1. sendQueue \in Seq(Message)
  BY Zenon DEF TypeOK
<1>2. Len(sendQueue) \in Nat \ {0}
  BY <1>1, LenProperties, EmptySeq, Zenon
<1> QED  BY <1>1, <1>2, HeadTailProperties, ElementOfSeq

LEMMA Completed ==
    ASSUME TypeOK, inflight # << >>
    PROVE  /\ Head(inflight) \in Buffer /\ Head(inflight) = inflight[1]
           /\ Tail(inflight) \in Seq(Buffer)
           /\ Len(inflight) \in Nat \ {0}
           /\ Len(Tail(inflight)) = Len(inflight) - 1
           /\ \A i \in 1..Len(inflight) - 1 : Tail(inflight)[i] = inflight[i + 1]
<1>1. inflight \in Seq(Buffer)
  BY Zenon DEF TypeOK
<1>2. Len(inflight) \in Nat \ {0}
  BY <1>1, LenProperties, EmptySeq, Zenon
<1> QED  BY <1>1, <1>2, HeadTailProperties, ElementOfSeq

LEMMA InitType == Init => TypeOK
<1> SUFFICES ASSUME Init PROVE TypeOK
  BY Zenon
<1>1. 1 \in 1..MaxClients /\ 0 \in 0..MaxWrites /\ 0 \in 0..Size
  BY SendAssumption
<1> QED  BY <1>1 DEF Init, TypeOK

LEMMA NextType == TypeOK /\ [Next]_vars => TypeOK'
<1> SUFFICES ASSUME TypeOK, [Next]_vars PROVE TypeOK'
  BY Zenon
<1>1. ASSUME NEW t \in Writer, AddSendQueue(t) PROVE TypeOK'
  <2> DEFINE m == [client |-> client, no |-> written + 1]
  <2>1. m \in Message /\ written' \in 0..MaxWrites /\ sendQueue' = Append(sendQueue, m)
    BY <1>1, SendAssumption DEF TypeOK, AddSendQueue, Message
  <2> HIDE DEF m
  <2>2. sendQueue' \in Seq(Message)
    BY <2>1, Queued, Zenon
  <2>3. pc' \in [Thread -> {"idle", "ref", "empty", "check", "lock", "send", "complete", "clear", "crash"}]
    BY <1>1, GotoType, Threads, Zenon DEF AddSendQueue
  <2> QED  BY <1>1, <2>1, <2>2, <2>3, Zenon DEF TypeOK, AddSendQueue
<1>2. ASSUME NEW t \in Thread, TestSendRef(t) \/ PrepareEmpty(t) \/ PrepareRef(t) PROVE TypeOK'
  <2>1. pc' \in [Thread -> {"idle", "ref", "empty", "check", "lock", "send", "complete", "clear", "crash"}]
    BY <1>2, GotoType, Zenon DEF TestSendRef, PrepareEmpty, PrepareRef, Unprepared
  <2> QED  BY <1>2, <2>1, Zenon DEF TypeOK, TestSendRef, PrepareEmpty, PrepareRef
<1>3. ASSUME NEW t \in Thread, PreparePop(t) PROVE TypeOK'
  <2>1. pc' \in [Thread -> {"idle", "ref", "empty", "check", "lock", "send", "complete", "clear", "crash"}]
    BY <1>3, GotoType, Zenon DEF PreparePop
  <2>2. CASE sendQueue # << >>
    <3>1. pBuffer' \in Buffer /\ sendQueue' \in Seq(Message) /\ sendRef' \in Int
      <4>1. Head(sendQueue) \in Message /\ Size \in 1..Size /\ Tail(sendQueue) \in Seq(Message)
        BY <2>2, Popped, SendAssumption
      <4>2. [msg |-> Head(sendQueue), left |-> Size] \in Buffer
        BY <4>1, Zenon DEF Buffer
      <4>3. /\ pBuffer' = [msg |-> Head(sendQueue), left |-> Size]
            /\ sendQueue' = Tail(sendQueue) /\ sendRef' = sendRef + 1
        BY <1>3, <2>2, Zenon DEF PreparePop
      <4> QED  BY <4>1, <4>2, <4>3 DEF TypeOK
    <3> QED  BY <1>3, <2>1, <3>1, Zenon DEF TypeOK, PreparePop
  <2>3. CASE sendQueue = << >>
    BY <1>3, <2>1, <2>3, Zenon DEF TypeOK, PreparePop
  <2> QED  BY <2>2, <2>3, Zenon
<1>4. ASSUME NEW t \in Thread, WSASend(t) PROVE TypeOK'
  <2>1. pc' \in [Thread -> {"idle", "ref", "empty", "check", "lock", "send", "complete", "clear", "crash"}]
    BY <1>4, GotoType, Zenon DEF WSASend
  <2>2. open' \in BOOLEAN
    BY <1>4, Zenon DEF WSASend, TypeOK
  <2>3. inflight' \in Seq(Buffer)
    <3>1. inflight \in Seq(Buffer) /\ << >> \in Seq(Buffer)
      BY DEF TypeOK
    <3>2. pBuffer # Null => Append(inflight, pBuffer) \in Seq(Buffer)
      BY <3>1, AppendProperties, Zenon DEF TypeOK
    <3> QED  BY <1>4, <3>1, <3>2, Zenon DEF WSASend
  <2> QED  BY <1>4, <2>1, <2>2, <2>3, Zenon DEF TypeOK, WSASend
<1>5. ASSUME NEW w \in Worker, NEW n \in 1..Size, Completion(w, n) PROVE TypeOK'
  <2>1. pc' \in [Thread -> {"idle", "ref", "empty", "check", "lock", "send", "complete", "clear", "crash"}]
    BY <1>5, GotoType, Threads, Zenon DEF Completion
  <2>2. /\ Head(inflight) \in Buffer /\ Tail(inflight) \in Seq(Buffer)
    BY <1>5, Completed, Zenon DEF Completion
  <2>3. wire' \in Seq(Message \X (1..Size))
    BY <1>5, <2>2, SentUnits, Zenon DEF Completion
  <2>4. done' \in [Worker -> 0..Size]
    BY <1>5, SendAssumption DEF Completion, TypeOK
  <2> QED  BY <1>5, <2>1, <2>2, <2>3, <2>4, Zenon DEF Completion, TypeOK
<1>6. ASSUME NEW w \in Worker, SendComplete(w) \/ ForgetBuffer(w) PROVE TypeOK'
  <2>1. pc' \in [Thread -> {"idle", "ref", "empty", "check", "lock", "send", "complete", "clear", "crash"}]
    BY <1>6, GotoType, Threads, Zenon DEF SendComplete, ForgetBuffer
  <2>2. sendRef' \in Int
    BY <1>6 DEF SendComplete, ForgetBuffer, TypeOK
  <2>3. ASSUME pBuffer # Null, done[w] < pBuffer.left
        PROVE  [pBuffer EXCEPT !.left = @ - done[w]] \in Buffer
    <3>1. pBuffer \in Buffer /\ done[w] \in 0..Size /\ Size \in Nat
      BY <2>3, SendAssumption, Zenon DEF TypeOK
    <3>2. pBuffer.left - done[w] \in 1..Size
      BY <2>3, <3>1 DEF Buffer
    <3> QED  BY <3>1, <3>2, Zenon DEF Buffer
  <2>4. pBuffer' \in Buffer \cup {Null}
    BY <1>6, <2>3, Zenon DEF SendComplete, ForgetBuffer, TypeOK
  <2> QED  BY <1>6, <2>1, <2>2, <2>4, Zenon DEF SendComplete, ForgetBuffer, TypeOK
<1>7. CASE PeerClose
  <2>1. inflight' \in Seq(Buffer) /\ open' \in BOOLEAN
    BY <1>7, EmptySeq, Zenon DEF PeerClose
  <2> QED  BY <1>7, <2>1, Zenon DEF PeerClose, TypeOK
<1>8. CASE Reaccept
  <2>1. client' \in 1..MaxClients /\ 0 \in 0..MaxWrites
    BY <1>8, SendAssumption DEF Reaccept, TypeOK
  <2> QED  BY <1>8, <2>1 DEF Reaccept, TypeOK
<1>9. CASE Rest \/ UNCHANGED vars
  BY <1>9, Zenon DEF Rest, vars, TypeOK
<1> QED
  BY <1>1, <1>2, <1>3, <1>4, <1>5, <1>6, <1>7, <1>8, <1>9, Zenon DEF Next, ThreadStep, WorkerStep

-----------------------------------------------------------------------------
(* Messages do not overtake each other.                                    *)

LEMMA LeTransitive ==
    ASSUME NEW a \in Message, NEW b \in Message, NEW c \in Message, Le(a, b), Le(b, c)
    PROVE  Le(a, c)
  BY DEF Le, Message

LEMMA LeReflexive == ASSUME NEW a \in Message PROVE Le(a, a)
  BY DEF Le, Message

\* The messages of the four places are messages.
LEMMA Messages ==
    ASSUME TypeOK
    PROVE  /\ \A i \in 1..Len(sendQueue) : sendQueue[i] \in Message
           /\ \A i \in 1..Len(inflight) : inflight[i] \in Buffer /\ inflight[i].msg \in Message
           /\ \A i \in 1..Len(wire) : wire[i][1] \in Message
           /\ pBuffer # Null => pBuffer \in Buffer /\ pBuffer.msg \in Message
<1>1. \A i \in 1..Len(sendQueue) : sendQueue[i] \in Message
  BY ElementOfSeq, Zenon DEF TypeOK
<1>2. \A i \in 1..Len(inflight) : inflight[i] \in Buffer
  BY ElementOfSeq, Zenon DEF TypeOK
<1>3. \A i \in 1..Len(wire) : wire[i] \in Message \X (1..Size)
  BY ElementOfSeq, Zenon DEF TypeOK
<1>4. \A i \in 1..Len(wire) : wire[i][1] \in Message
  BY <1>3, Zenon
<1>5. \A b \in Buffer : b.msg \in Message
  BY Zenon DEF Buffer
<1> QED  BY <1>1, <1>2, <1>4, <1>5, Zenon DEF TypeOK

LEMMA AddChain == ASSUME TypeOK, Chain, NEW t \in Writer, AddSendQueue(t) PROVE Chain'
<1> DEFINE m == [client |-> client, no |-> written + 1]
<1>1. /\ m \in Message /\ sendQueue' = Append(sendQueue, m) /\ Newest' = m
      /\ UNCHANGED << inflight, wire, pBuffer >>
  BY SendAssumption DEF TypeOK, AddSendQueue, Message, Newest
<1>2. \A x \in Message : Le(x, Newest) => Le(x, m)
  BY DEF Le, Newest, Message, TypeOK
<1> HIDE DEF m
<1>3. /\ Len(sendQueue') = Len(sendQueue) + 1 /\ Len(sendQueue) \in Nat
      /\ \A i \in 1..Len(sendQueue) : sendQueue'[i] = sendQueue[i]
      /\ sendQueue'[Len(sendQueue) + 1] = m
  BY <1>1, Queued, Zenon
<1>4. \A i \in 1..Len(sendQueue') : i \in 1..Len(sendQueue) \/ i = Len(sendQueue) + 1
  BY <1>3
<1>5. /\ \A i \in 1..Len(sendQueue) : Le(sendQueue[i], m)
      /\ \A i \in 1..Len(inflight) : Le(inflight[i].msg, m)
      /\ \A i \in 1..Len(wire) : Le(wire[i][1], m)
      /\ pBuffer # Null => Le(pBuffer.msg, m)
  BY <1>2, Messages, Zenon DEF Chain
<1>6. Le(m, m)
  BY <1>1, LeReflexive, Zenon
<1>7. \A i, j \in 1..Len(sendQueue') : i < j => Le(sendQueue'[i], sendQueue'[j])
  <2> SUFFICES ASSUME NEW i \in 1..Len(sendQueue'), NEW j \in 1..Len(sendQueue'), i < j
               PROVE  Le(sendQueue'[i], sendQueue'[j])
    BY Zenon
  <2>1. i \in 1..Len(sendQueue)
    BY <1>3
  <2> QED  BY <1>3, <1>4, <1>5, <2>1, Zenon DEF Chain
<1>8. /\ \A i \in 1..Len(wire), j \in 1..Len(sendQueue') : Le(wire[i][1], sendQueue'[j])
      /\ \A i \in 1..Len(inflight), j \in 1..Len(sendQueue') : Le(inflight[i].msg, sendQueue'[j])
      /\ pBuffer # Null => \A i \in 1..Len(sendQueue') : Le(pBuffer.msg, sendQueue'[i])
      /\ \A i \in 1..Len(sendQueue') : Le(sendQueue'[i], m)
  BY <1>3, <1>4, <1>5, <1>6, SMTT(30) DEF Chain
<1>9. /\ \A i, j \in 1..Len(inflight) : i < j => Le(inflight[i].msg, inflight[j].msg)
      /\ \A i, j \in 1..Len(wire) : i < j => Le(wire[i][1], wire[j][1])
      /\ \A i \in 1..Len(wire), j \in 1..Len(inflight) : Le(wire[i][1], inflight[j].msg)
      /\ pBuffer # Null =>
           /\ \A i \in 1..Len(wire) : Le(wire[i][1], pBuffer.msg)
           /\ \A i \in 1..Len(inflight) : Le(inflight[i].msg, pBuffer.msg)
  BY Zenon DEF Chain
<1> QED  BY <1>1, <1>5, <1>7, <1>8, <1>9, Zenon DEF Chain

LEMMA PopChain == ASSUME TypeOK, Chain, NEW t \in Thread, PreparePop(t) PROVE Chain'
<1>1. UNCHANGED << inflight, wire, client, written >>
  BY Zenon DEF PreparePop
<1>2. Newest' = Newest
  BY <1>1, Zenon DEF Newest
<1>3. CASE sendQueue # << >>
  <2> DEFINE n == Len(sendQueue) - 1
  <2>1. /\ pBuffer'.msg = Head(sendQueue) /\ sendQueue' = Tail(sendQueue)
    BY <1>3 DEF PreparePop
  <2>2. /\ pBuffer'.msg = sendQueue[1] /\ Len(sendQueue) \in Nat \ {0} /\ Len(sendQueue') = n
        /\ \A i \in 1..n : sendQueue'[i] = sendQueue[i + 1]
    BY <1>3, <2>1, Popped, Zenon
  <2>3. \A i \in 1..n : i + 1 \in 1..Len(sendQueue) /\ 1 < i + 1
    BY <2>2
  <2>4. 1 \in 1..Len(sendQueue) /\ \A i, j \in 1..n : i < j => i + 1 < j + 1
    BY <2>2
  <2> HIDE DEF n
  <2>5. \A i, j \in 1..n : i < j => Le(sendQueue'[i], sendQueue'[j])
    BY <2>2, <2>3, <2>4, Zenon DEF Chain
  <2>6. /\ \A i \in 1..Len(wire), j \in 1..n : Le(wire[i][1], sendQueue'[j])
        /\ \A i \in 1..Len(inflight), j \in 1..n : Le(inflight[i].msg, sendQueue'[j])
        /\ \A j \in 1..n : Le(sendQueue'[j], Newest) /\ Le(pBuffer'.msg, sendQueue'[j])
    BY <2>2, <2>3, <2>4, Zenon DEF Chain
  <2>7. /\ \A i \in 1..Len(wire) : Le(wire[i][1], pBuffer'.msg)
        /\ \A i \in 1..Len(inflight) : Le(inflight[i].msg, pBuffer'.msg)
        /\ Le(pBuffer'.msg, Newest)
    BY <2>2, <2>4, Zenon DEF Chain
  <2>8. /\ \A i, j \in 1..Len(inflight) : i < j => Le(inflight[i].msg, inflight[j].msg)
        /\ \A i, j \in 1..Len(wire) : i < j => Le(wire[i][1], wire[j][1])
        /\ \A i \in 1..Len(wire), j \in 1..Len(inflight) : Le(wire[i][1], inflight[j].msg)
        /\ \A i \in 1..Len(wire) : Le(wire[i][1], Newest)
        /\ \A i \in 1..Len(inflight) : Le(inflight[i].msg, Newest)
    BY Zenon DEF Chain
  <2> QED  BY <1>1, <1>2, <2>2, <2>5, <2>6, <2>7, <2>8, Zenon DEF Chain
<1>4. CASE sendQueue = << >>
  <2>1. UNCHANGED << sendQueue, pBuffer >>
    BY <1>4, Zenon DEF PreparePop
  <2> QED  BY <1>1, <1>2, <2>1, Zenon DEF Chain
<1> QED  BY <1>3, <1>4, Zenon

\* Giving up sends or the buffer keeps the order of what is left.
LEMMA LessChain ==
    ASSUME TypeOK, Chain, UNCHANGED << sendQueue, wire >>,
           inflight' = inflight \/ inflight' = << >>,
           pBuffer' = pBuffer \/ pBuffer' = Null \/ (pBuffer # Null /\ pBuffer'.msg = pBuffer.msg),
           Newest' = Newest
    PROVE  Chain'
<1>1. \A i \in 1..Len(inflight') : i \in 1..Len(inflight) /\ inflight'[i] = inflight[i]
  OBVIOUS
<1>2. pBuffer' # Null => pBuffer # Null /\ pBuffer'.msg = pBuffer.msg
  BY Zenon
<1>3. /\ \A i, j \in 1..Len(sendQueue) : i < j => Le(sendQueue[i], sendQueue[j])
      /\ \A i, j \in 1..Len(wire) : i < j => Le(wire[i][1], wire[j][1])
      /\ \A i \in 1..Len(wire), j \in 1..Len(sendQueue) : Le(wire[i][1], sendQueue[j])
      /\ \A i \in 1..Len(wire) : Le(wire[i][1], Newest)
      /\ \A i \in 1..Len(sendQueue) : Le(sendQueue[i], Newest)
  BY Zenon DEF Chain
<1>4. /\ \A i, j \in 1..Len(inflight') : i < j => Le(inflight'[i].msg, inflight'[j].msg)
      /\ \A i \in 1..Len(wire), j \in 1..Len(inflight') : Le(wire[i][1], inflight'[j].msg)
      /\ \A i \in 1..Len(inflight'), j \in 1..Len(sendQueue) : Le(inflight'[i].msg, sendQueue[j])
      /\ \A i \in 1..Len(inflight') : Le(inflight'[i].msg, Newest)
  BY <1>1, Zenon DEF Chain
<1>5. pBuffer' # Null =>
         /\ \A i \in 1..Len(wire) : Le(wire[i][1], pBuffer'.msg)
         /\ \A i \in 1..Len(inflight') : Le(inflight'[i].msg, pBuffer'.msg)
         /\ \A i \in 1..Len(sendQueue) : Le(pBuffer'.msg, sendQueue[i])
         /\ Le(pBuffer'.msg, Newest)
  BY <1>1, <1>2, Zenon DEF Chain
<1> QED  BY <1>3, <1>4, <1>5, Zenon DEF Chain

LEMMA SendChain == ASSUME TypeOK, Chain, NEW t \in Thread, WSASend(t) PROVE Chain'
<1>1. UNCHANGED << sendQueue, pBuffer, wire, client, written >>
  BY Zenon DEF WSASend
<1>2. Newest' = Newest
  BY <1>1, Zenon DEF Newest
<1>3. CASE inflight' = inflight \/ inflight' = << >>
  BY <1>1, <1>2, <1>3, LessChain, SMTT(30)
<1>4. CASE pBuffer # Null /\ inflight' = Append(inflight, pBuffer)
  <2> DEFINE n == Len(inflight)
  <2>1. pBuffer \in Buffer /\ pBuffer.msg \in Message
    BY <1>4, Messages, Zenon
  <2>2. /\ Len(inflight') = n + 1 /\ n \in Nat /\ inflight'[n + 1] = pBuffer
        /\ \A i \in 1..n : inflight'[i] = inflight[i]
    BY <1>4, <2>1, AppendProperties, LenProperties DEF TypeOK
  <2>3. \A i \in 1..Len(inflight') : i \in 1..n \/ i = n + 1
    BY <2>2
  <2>4. Le(pBuffer.msg, pBuffer.msg)
    BY <2>1, LeReflexive, Zenon
  <2> HIDE DEF n
  <2>5. \A i, j \in 1..Len(inflight') : i < j => Le(inflight'[i].msg, inflight'[j].msg)
    <3> SUFFICES ASSUME NEW i \in 1..Len(inflight'), NEW j \in 1..Len(inflight'), i < j
                 PROVE  Le(inflight'[i].msg, inflight'[j].msg)
      BY Zenon
    <3>1. i \in 1..n
      BY <2>2
    <3> QED  BY <1>4, <2>2, <2>3, <3>1, Zenon DEF Chain, n
  <2>6. /\ \A i \in 1..Len(wire), j \in 1..Len(inflight') : Le(wire[i][1], inflight'[j].msg)
        /\ \A i \in 1..Len(inflight'), j \in 1..Len(sendQueue) : Le(inflight'[i].msg, sendQueue[j])
        /\ \A i \in 1..Len(inflight') : Le(inflight'[i].msg, pBuffer.msg) /\ Le(inflight'[i].msg, Newest)
    BY <1>4, <2>2, <2>3, <2>4, Zenon DEF Chain, n
  <2>7. /\ \A i, j \in 1..Len(sendQueue) : i < j => Le(sendQueue[i], sendQueue[j])
        /\ \A i, j \in 1..Len(wire) : i < j => Le(wire[i][1], wire[j][1])
        /\ \A i \in 1..Len(wire), j \in 1..Len(sendQueue) : Le(wire[i][1], sendQueue[j])
        /\ \A i \in 1..Len(wire) : Le(wire[i][1], Newest) /\ Le(wire[i][1], pBuffer.msg)
        /\ \A i \in 1..Len(sendQueue) : Le(sendQueue[i], Newest) /\ Le(pBuffer.msg, sendQueue[i])
        /\ Le(pBuffer.msg, Newest)
    BY <1>4, SMTT(30) DEF Chain
  <2> QED  BY <1>1, <1>2, <2>5, <2>6, <2>7, Zenon DEF Chain
<1> QED  BY <1>3, <1>4, Zenon DEF WSASend

LEMMA CompletionChain ==
    ASSUME TypeOK, Chain, NEW w \in Worker, NEW n \in 1..Size, Completion(w, n)
    PROVE  Chain'
<1> DEFINE b == Head(inflight)
           k == Len(inflight) - 1
<1>1. /\ UNCHANGED << sendQueue, pBuffer, client, written >>
      /\ inflight # << >> /\ inflight' = Tail(inflight) /\ n <= b.left
      /\ wire' = wire \o [i \in 1..n |-> <<b.msg, Size - b.left + i>>]
  BY Zenon DEF Completion
<1>2. Newest' = Newest
  BY <1>1, Zenon DEF Newest
<1>3. /\ b \in Buffer /\ b = inflight[1] /\ Len(inflight) \in Nat \ {0} /\ Len(inflight') = k
      /\ \A i \in 1..k : inflight'[i] = inflight[i + 1]
  BY <1>1, Completed, Zenon
<1>4. /\ 1 \in 1..Len(inflight)
      /\ \A i \in 1..k : i + 1 \in 1..Len(inflight) /\ 1 < i + 1
      /\ \A i, j \in 1..k : i < j => i + 1 < j + 1
  BY <1>3
<1> HIDE DEF b, k
<1>5. /\ Len(wire') = Len(wire) + n
      /\ \A i \in 1..Len(wire) : wire'[i] = wire[i]
      /\ \A i \in 1..n : wire'[Len(wire) + i] = <<b.msg, Size - b.left + i>>
      /\ \A i \in 1..Len(wire') : i \in 1..Len(wire) \/ (i - Len(wire) \in 1..n /\ i = Len(wire) + (i - Len(wire)))
  BY <1>1, <1>3, SentUnits, SMTT(30)
<1>6. \A i \in 1..Len(wire') : \/ i \in 1..Len(wire) /\ wire'[i][1] = wire[i][1]
                               \/ i \notin 1..Len(wire) /\ wire'[i][1] = b.msg
  <2> SUFFICES ASSUME NEW i \in 1..Len(wire'), i \notin 1..Len(wire) PROVE wire'[i][1] = b.msg
    BY <1>5, Zenon
  <2>1. i - Len(wire) \in 1..n /\ i = Len(wire) + (i - Len(wire))
    BY <1>5, Zenon
  <2>2. wire'[i] = <<b.msg, Size - b.left + (i - Len(wire))>>
    BY <1>5, <2>1, Zenon
  <2> QED  BY <2>2
<1>7. Le(b.msg, b.msg)
  BY <1>3, LeReflexive, Zenon DEF Buffer
<1>8. /\ \A i \in 1..Len(wire) : Le(wire[i][1], b.msg)
      /\ \A i \in 1..k : Le(b.msg, inflight'[i].msg)
      /\ \A i \in 1..Len(sendQueue) : Le(b.msg, sendQueue[i])
      /\ pBuffer # Null => Le(b.msg, pBuffer.msg)
      /\ Le(b.msg, Newest)
  BY <1>3, <1>4, Zenon DEF Chain
<1>9. \A i, j \in 1..Len(wire') : i < j => Le(wire'[i][1], wire'[j][1])
  <2> SUFFICES ASSUME NEW i \in 1..Len(wire'), NEW j \in 1..Len(wire'), i < j
               PROVE  Le(wire'[i][1], wire'[j][1])
    BY Zenon
  <2>1. Len(wire) \in Nat
    BY LenProperties, Zenon DEF TypeOK
  <2>2. j \in 1..Len(wire) => i \in 1..Len(wire)
    BY <2>1
  <2> QED  BY <1>6, <1>7, <1>8, <2>2, Zenon DEF Chain
<1>10. /\ \A i, j \in 1..k : i < j => Le(inflight'[i].msg, inflight'[j].msg)
       /\ \A i \in 1..k, j \in 1..Len(sendQueue) : Le(inflight'[i].msg, sendQueue[j])
       /\ \A i \in 1..k : Le(inflight'[i].msg, Newest) /\ (pBuffer # Null => Le(inflight'[i].msg, pBuffer.msg))
  BY <1>3, <1>4, Zenon DEF Chain
<1>11. /\ \A i \in 1..Len(wire), j \in 1..k : Le(wire[i][1], inflight'[j].msg)
  BY <1>3, <1>4, Zenon DEF Chain
<1>12. /\ \A i \in 1..Len(wire'), j \in 1..k : Le(wire'[i][1], inflight'[j].msg)
       /\ \A i \in 1..Len(wire'), j \in 1..Len(sendQueue) : Le(wire'[i][1], sendQueue[j])
       /\ \A i \in 1..Len(wire') : Le(wire'[i][1], Newest) /\ (pBuffer # Null => Le(wire'[i][1], pBuffer.msg))
  BY <1>6, <1>8, <1>11, Zenon DEF Chain
<1>13. /\ \A i, j \in 1..Len(sendQueue) : i < j => Le(sendQueue[i], sendQueue[j])
       /\ pBuffer # Null => (\A i \in 1..Len(sendQueue) : Le(pBuffer.msg, sendQueue[i])) /\ Le(pBuffer.msg, Newest)
       /\ \A i \in 1..Len(sendQueue) : Le(sendQueue[i], Newest)
  BY Zenon DEF Chain
<1> QED  BY <1>1, <1>2, <1>3, <1>9, <1>10, <1>12, <1>13, Zenon DEF Chain

\* The next client: everything that is left is older.
LEMMA ReacceptChain == ASSUME TypeOK, Chain, Reaccept PROVE Chain'
<1>1. /\ UNCHANGED << sendQueue, inflight >> /\ pBuffer' = Null /\ wire' = << >>
      /\ client' = client + 1 /\ written' = 0
  BY Zenon DEF Reaccept
<1>2. \A m \in Message : Le(m, Newest) => Le(m, Newest')
  BY <1>1 DEF Le, Newest, Message, TypeOK
<1>3. /\ \A i \in 1..Len(sendQueue) : Le(sendQueue[i], Newest')
      /\ \A i \in 1..Len(inflight) : Le(inflight[i].msg, Newest')
  BY <1>2, Messages, Zenon DEF Chain
<1>4. \A i \in 1..Len(wire') : FALSE
  BY <1>1
<1>5. /\ \A i, j \in 1..Len(sendQueue) : i < j => Le(sendQueue[i], sendQueue[j])
      /\ \A i, j \in 1..Len(inflight) : i < j => Le(inflight[i].msg, inflight[j].msg)
      /\ \A i \in 1..Len(inflight), j \in 1..Len(sendQueue) : Le(inflight[i].msg, sendQueue[j])
  BY Zenon DEF Chain
<1> QED  BY <1>1, <1>3, <1>4, <1>5, Zenon DEF Chain

LEMMA NextChain == TypeOK /\ Chain /\ [Next]_vars => Chain'
<1> SUFFICES ASSUME TypeOK, Chain, [Next]_vars PROVE Chain'
  BY Zenon
<1>1. ASSUME UNCHANGED << sendQueue, wire, client, written >>,
             inflight' = inflight \/ inflight' = << >>,
             pBuffer' = pBuffer \/ pBuffer' = Null \/ (pBuffer # Null /\ pBuffer'.msg = pBuffer.msg)
      PROVE  Chain'
  <2>1. Newest' = Newest
    BY <1>1, Zenon DEF Newest
  <2> QED  BY <1>1, <2>1, LessChain, Zenon
<1>2. ASSUME NEW t \in Thread, TestSendRef(t) \/ PrepareEmpty(t) \/ PrepareRef(t) PROVE Chain'
  BY <1>1, <1>2, Zenon DEF TestSendRef, PrepareEmpty, PrepareRef
<1>3. ASSUME NEW w \in Worker, SendComplete(w) \/ ForgetBuffer(w) PROVE Chain'
  BY <1>1, <1>3, Zenon DEF SendComplete, ForgetBuffer, TypeOK, Buffer
<1>4. CASE PeerClose \/ Rest \/ UNCHANGED vars
  BY <1>1, <1>4, Zenon DEF PeerClose, Rest, vars
<1> QED
  BY <1>2, <1>3, <1>4, AddChain, PopChain, SendChain, CompletionChain, ReacceptChain, Zenon
     DEF Next, ThreadStep, WorkerStep

\* Messages never overtake each other on the way from Write to a client,
\* whatever Write and DoSend do to _dwSendRef and _SendRequest at the same
\* time (network.cpp:616-680).
THEOREM MessagesNotOvertaken == Spec => []NotOvertaken
<1>1. Init => TypeOK /\ Chain
  <2>1. Init => Chain
    <3> SUFFICES ASSUME Init PROVE Chain
      BY Zenon
    <3>1. sendQueue = << >> /\ inflight = << >> /\ wire = << >> /\ pBuffer = Null
      BY Zenon DEF Init
    <3> QED  BY <3>1 DEF Chain
  <2> QED  BY <2>1, InitType, Zenon
<1>2. TypeOK /\ Chain => NotOvertaken
  <2> SUFFICES ASSUME TypeOK, Chain PROVE NotOvertaken
    BY Zenon
  <2>1. DOMAIN wire = 1..Len(wire)
    BY LenProperties, Zenon DEF TypeOK
  <2> QED  BY <2>1, Zenon DEF Chain, NotOvertaken, Le
<1> QED  BY <1>1, <1>2, NextType, NextChain, PTL DEF Spec

-----------------------------------------------------------------------------
(* What a client gets when calls do not overlap.                           *)

\* A step of the only thread inside Write or DoSend.
LEMMA ActiveControl ==
    ASSUME NEW t \in Thread,
           \A u \in Thread : u # t => pc[u] = "idle" /\ pc'[u] = pc[u],
           At(t)', ~open' => inflight' = << >>,
           pc'[t] = "idle" => (Nothing /\ sendQueue = << >>)' \/ Underway'
    PROVE  Control'
<1>1. Alone'
  BY Zenon DEF Alone
<1>2. \A u \in Thread : At(u)'
  <2> SUFFICES ASSUME NEW u \in Thread, u # t PROVE At(u)'
    BY Zenon
  <2>1. pc'[u] = "idle"
    OBVIOUS
  <2> QED  BY <2>1, Zenon DEF At
<1>3. Idle'
  BY Zenon DEF Idle
<1> QED  BY <1>1, <1>2, <1>3, Zenon DEF Control

LEMMA OnlyOne ==
    ASSUME Control, NEW t \in Thread, pc[t] # "idle"
    PROVE  \A u \in Thread : u # t => pc[u] = "idle"
  BY Zenon DEF Control, Alone

LEMMA AllIdle ==
    ASSUME Control, ~overlap, MayStart
    PROVE  /\ \A u \in Thread : pc[u] = "idle"
           /\ (Nothing /\ sendQueue = << >>) \/ Underway
  BY Zenon DEF Control, Idle, MayStart

LEMMA AddControl ==
    ASSUME TypeOK, Control, ~overlap, NEW t \in Writer, AddSendQueue(t)
    PROVE  Control'
<1>1. /\ \A u \in Thread : pc[u] = "idle"
      /\ (Nothing /\ sendQueue = << >>) \/ Underway
  BY AllIdle, Zenon DEF AddSendQueue
<1>2. /\ pc'[t] = "ref" /\ \A u \in Thread : u # t => pc'[u] = pc[u]
      /\ UNCHANGED << open, sendRef, pBuffer, inflight >>
  BY Goes, Threads, Zenon DEF AddSendQueue
<1>3. sendQueue' # << >>
  BY DEF AddSendQueue, TypeOK
<1>4. Nothing' \/ Underway'
  BY <1>1, <1>2, Zenon DEF Nothing, Underway
<1>5. At(t)'
  BY <1>2, <1>3, <1>4, Zenon DEF At
<1>6. t \in Thread /\ (~open' => inflight' = << >>)
  BY <1>2, Threads, Zenon DEF Control
<1> QED  BY <1>1, <1>2, <1>5, <1>6, ActiveControl, Zenon

LEMMA TestControl ==
    ASSUME TypeOK, Control, NEW t \in Thread, TestSendRef(t) \/ PrepareEmpty(t) \/ PrepareRef(t)
    PROVE  Control'
<1>1. /\ pc[t] \in {"ref", "empty", "check"} /\ \A u \in Thread : u # t => pc'[u] = pc[u]
      /\ UNCHANGED << open, sendRef, pBuffer, inflight, sendQueue >>
  BY Goes, Zenon DEF TestSendRef, PrepareEmpty, PrepareRef, Unprepared
<1>2. \A u \in Thread : u # t => pc[u] = "idle"
  BY <1>1, OnlyOne, Zenon
<1>3. At(t) /\ (~open => inflight = << >>)
  BY Zenon DEF Control
<1>4. (Nothing' <=> Nothing) /\ (Underway' <=> Underway)
  BY <1>1, Zenon DEF Nothing, Underway
<1>5. t \in Worker => t \notin Writer
  BY Threads, Zenon
<1>6. CASE TestSendRef(t)
  <2>1. \/ pc'[t] = "empty" /\ Nothing /\ sendQueue # << >>
        \/ pc'[t] = "idle" /\ Underway
    BY <1>3, <1>6, Goes DEF TestSendRef, At, Nothing, Underway
  <2>2. At(t)'
    BY <1>1, <1>4, <2>1, Zenon DEF At
  <2> QED  BY <1>1, <1>2, <1>3, <1>4, <2>1, <2>2, ActiveControl, Zenon
<1>7. CASE PrepareEmpty(t)
  <2>1. \/ pc'[t] = "check" /\ Nothing /\ sendQueue # << >>
        \/ pc'[t] = "idle" /\ Nothing /\ sendQueue = << >>
    BY <1>3, <1>5, <1>7, Goes, Zenon DEF PrepareEmpty, Unprepared, At, Thread
  <2>2. At(t)'
    BY <1>1, <1>4, <2>1, Zenon DEF At
  <2> QED  BY <1>1, <1>2, <1>3, <1>4, <2>1, <2>2, ActiveControl, Zenon
<1>8. CASE PrepareRef(t)
  <2>1. pc'[t] = "lock" /\ Nothing /\ sendQueue # << >>
    BY <1>3, <1>8, Goes, Zenon DEF PrepareRef, At, Nothing
  <2>2. At(t)'
    BY <1>1, <1>4, <2>1, Zenon DEF At
  <2> QED  BY <1>1, <1>2, <1>3, <2>1, <2>2, ActiveControl, Zenon
<1> QED  BY <1>6, <1>7, <1>8, Zenon

LEMMA PopControl ==
    ASSUME TypeOK, Control, NEW t \in Thread, PreparePop(t)
    PROVE  Control' /\ sendQueue # << >> /\ Nothing
<1>1. /\ pc[t] = "lock" /\ \A u \in Thread : u # t => pc'[u] = pc[u]
      /\ UNCHANGED << open, inflight >>
  BY Goes, Zenon DEF PreparePop
<1>2. \A u \in Thread : u # t => pc[u] = "idle"
  BY <1>1, OnlyOne, Zenon
<1>3. Nothing /\ sendQueue # << >>
  BY <1>1, Zenon DEF Control, At
<1>4. /\ pc'[t] = "send" /\ sendRef' = 1 /\ pBuffer' = [msg |-> Head(sendQueue), left |-> Size]
  BY <1>3, Goes DEF PreparePop, Nothing
<1>5. pBuffer' # Null
  <2>1. Head(sendQueue) \in Message /\ Size \in 1..Size
    BY <1>3, Popped, SendAssumption
  <2> QED  BY <1>4, <2>1, NullAssumption DEF Buffer
<1>6. At(t)'
  BY <1>1, <1>3, <1>4, <1>5, Zenon DEF At, Prepared, Nothing
<1>7. ~open' => inflight' = << >>
  BY <1>1, Zenon DEF Control
<1>8. Control'
  BY <1>1, <1>2, <1>4, <1>6, <1>7, ActiveControl, Zenon
<1> QED  BY <1>3, <1>8, Zenon

LEMMA SendControl ==
    ASSUME TypeOK, Control, NEW t \in Thread, WSASend(t)
    PROVE  Control' /\ Prepared
<1>1. /\ pc[t] = "send" /\ pc'[t] = "idle" /\ \A u \in Thread : u # t => pc'[u] = pc[u]
      /\ UNCHANGED << sendRef, pBuffer, sendQueue >>
  BY Goes, Zenon DEF WSASend
<1>2. \A u \in Thread : u # t => pc[u] = "idle"
  BY <1>1, OnlyOne, Zenon
<1>3. Prepared
  BY <1>1, Zenon DEF Control, At
<1>4. inflight' = << pBuffer >> \/ inflight' = << >>
  BY <1>3 DEF WSASend, Prepared
<1>5. ~open' => inflight' = << >>
  <2>1. CASE open /\ inflight' = Append(inflight, pBuffer) /\ UNCHANGED open
    BY <2>1, Zenon
  <2>2. CASE inflight' = IF t \in Worker THEN << >> ELSE inflight
    BY <1>3, <2>2, Zenon DEF Prepared
  <2> QED  BY <2>1, <2>2, Zenon DEF WSASend
<1>6. Underway'
  BY <1>1, <1>3, <1>4, Zenon DEF Underway, Prepared
<1>7. At(t)'
  BY <1>1, Zenon DEF At
<1>8. Control'
  BY <1>1, <1>2, <1>5, <1>6, <1>7, ActiveControl, Zenon
<1> QED  BY <1>3, <1>8, Zenon

LEMMA CompletionControl ==
    ASSUME TypeOK, Control, ~overlap, NEW w \in Worker, NEW n \in 1..Size, Completion(w, n)
    PROVE  /\ Control' /\ sendRef = 1 /\ pBuffer # Null /\ inflight = << pBuffer >>
           /\ \A u \in Thread : pc[u] = "idle"
<1>1. /\ \A u \in Thread : pc[u] = "idle"
      /\ (Nothing /\ sendQueue = << >>) \/ Underway
  BY AllIdle, Zenon DEF Completion
<1>2. sendRef = 1 /\ pBuffer # Null /\ inflight = << pBuffer >>
  BY <1>1, Zenon DEF Completion, Nothing, Underway
<1>3. /\ pc'[w] = "complete" /\ \A u \in Thread : u # w => pc'[u] = pc[u]
      /\ UNCHANGED << open, sendRef, pBuffer >>
      /\ done'[w] = n /\ n <= pBuffer.left /\ inflight' = << >>
  BY <1>2, Goes, Threads DEF Completion, TypeOK
<1>4. n \in 1..pBuffer.left
  <2>1. pBuffer.left \in 1..Size
    BY <1>2, Zenon DEF TypeOK, Buffer
  <2> QED  BY <1>3, <2>1, SendAssumption
<1>5. At(w)'
  BY <1>2, <1>3, <1>4, SMTT(30) DEF At, Prepared
<1>6. Control'
  BY <1>1, <1>3, <1>5, Threads, ActiveControl, Zenon
<1> QED  BY <1>1, <1>2, <1>6, Zenon

LEMMA CompleteControl ==
    ASSUME TypeOK, Control, NEW w \in Worker, SendComplete(w)
    PROVE  /\ Control' /\ Prepared /\ done[w] \in 1..pBuffer.left /\ pBuffer' # Null
           /\ \A u \in Thread : u # w => pc[u] = "idle" /\ pc'[u] = "idle"
<1>1. /\ pc[w] = "complete" /\ \A u \in Thread : u # w => pc'[u] = pc[u]
      /\ UNCHANGED << open, inflight, done >>
  BY Goes, Threads, Zenon DEF SendComplete
<1>2. \A u \in Thread : u # w => pc[u] = "idle"
  BY <1>1, OnlyOne, Threads, Zenon
<1>3. Prepared /\ done[w] \in 1..pBuffer.left
  BY <1>1, Threads, Zenon DEF Control, At
<1>4. pBuffer \in Buffer /\ pBuffer.left \in 1..Size /\ Size \in Nat
  BY <1>3, SendAssumption, Zenon DEF TypeOK, Buffer, Prepared
<1>5. \/ pc'[w] = "send" /\ sendRef' = sendRef /\ pBuffer' = [pBuffer EXCEPT !.left = @ - done[w]]
         /\ done[w] < pBuffer.left
      \/ pc'[w] = "clear" /\ sendRef' = sendRef - 1 /\ pBuffer' = pBuffer
  BY <1>3, Goes, Threads, Zenon DEF SendComplete, Prepared
<1>6. pBuffer' # Null
  <2>1. ASSUME done[w] < pBuffer.left PROVE [pBuffer EXCEPT !.left = @ - done[w]] \in Buffer
    <3>1. pBuffer.left - done[w] \in 1..Size
      BY <1>3, <1>4, <2>1
    <3> QED  BY <1>4, <3>1, Zenon DEF Buffer
  <2> QED  BY <1>3, <1>5, <2>1, NullAssumption, Zenon DEF Prepared
<1>7. At(w)'
  BY <1>1, <1>3, <1>5, <1>6 DEF At, Prepared
<1>8. pc'[w] # "idle" /\ (~open' => inflight' = << >>)
  BY <1>1, <1>5, Zenon DEF Control
<1>9. Control'
  BY <1>1, <1>2, <1>7, <1>8, Threads, ActiveControl, Zenon
<1> QED  BY <1>1, <1>2, <1>3, <1>6, <1>9, Zenon

LEMMA ForgetControl ==
    ASSUME TypeOK, Control, NEW w \in Worker, ForgetBuffer(w)
    PROVE  /\ Control' /\ sendRef = 0 /\ pBuffer # Null
           /\ \A u \in Thread : u # w => pc[u] = "idle" /\ pc'[u] = "idle"
<1>1. /\ pc[w] = "clear" /\ pc'[w] = "empty" /\ \A u \in Thread : u # w => pc'[u] = pc[u]
      /\ UNCHANGED << open, inflight, sendRef >> /\ pBuffer' = Null
  BY Goes, Threads, Zenon DEF ForgetBuffer
<1>2. \A u \in Thread : u # w => pc[u] = "idle"
  BY <1>1, OnlyOne, Threads, Zenon
<1>3. sendRef = 0 /\ pBuffer # Null /\ inflight = << >>
  BY <1>1, Threads, Zenon DEF Control, At
<1>4. At(w)'
  BY <1>1, <1>3, Threads, Zenon DEF At, Nothing
<1>5. Control'
  BY <1>1, <1>2, <1>3, <1>4, Threads, ActiveControl, Zenon
<1> QED  BY <1>1, <1>2, <1>3, <1>5, Zenon

LEMMA CloseControl == ASSUME TypeOK, Control, PeerClose PROVE Control'
<1>1. UNCHANGED << sendRef, pBuffer, sendQueue, pc, done >> /\ inflight' = << >>
  BY Zenon DEF PeerClose
<1>2. /\ Nothing => Nothing' /\ sendQueue' = sendQueue
      /\ Underway => Underway'
      /\ Prepared => Prepared'
  BY <1>1, Zenon DEF Nothing, Underway, Prepared
<1>3. Alone' /\ Idle'
  BY <1>1, <1>2, Zenon DEF Control, Alone, Idle
<1>4. ASSUME NEW t \in Thread PROVE At(t)'
  <2>1. At(t)
    BY Zenon DEF Control
  <2> QED  BY <1>1, <1>2, <2>1, Zenon DEF At
<1> QED  BY <1>1, <1>3, <1>4, Zenon DEF Control

LEMMA ReacceptControl ==
    ASSUME TypeOK, Control, Reaccept
    PROVE  Control' /\ (Stuck' \/ sendQueue' = << >>)
<1>1. /\ UNCHANGED << sendRef, sendQueue, inflight, pc, done >> /\ pBuffer' = Null
      /\ \A t \in Thread : pc[t] = "idle"
      /\ ~open /\ open'
  BY Zenon DEF Reaccept
<1>2. inflight = << >>
  BY <1>1, Zenon DEF Control
<1>3. \/ Nothing' /\ sendQueue' = << >>
      \/ Underway' /\ Stuck'
  BY <1>1, <1>2, Zenon DEF Control, Idle, Nothing, Underway, Stuck
<1>4. Alone' /\ Idle' /\ \A t \in Thread : At(t)'
  BY <1>1, <1>3, Zenon DEF Alone, Idle, At
<1> QED  BY <1>1, <1>3, <1>4, Zenon DEF Control

-----------------------------------------------------------------------------
Progress == open => IF Stuck THEN wire = << >> ELSE Position

\* No message of the client is in the wrong place.
LEMMA WireKept ==
    ASSUME InOrder, UNCHANGED << overlap, wire, client >>, written' = written \/ written' = written + 1,
           written \in Nat
    PROVE  InOrder'
  BY DEF InOrder

\* Steps that move neither messages nor units.
LEMMA PositionKept ==
    ASSUME Position, UNCHANGED << client, written, sendQueue, pBuffer, wire, done >>,
           \A t \in Thread : \/ pc'[t] = pc[t]
                             \/ pc[t] \notin {"clear", "complete"} /\ pc'[t] \notin {"clear", "complete"}
    PROVE  Position'
<1>1. Taken' = Taken
  BY Zenon DEF Taken
<1> QED  BY <1>1, Zenon DEF Position

LEMMA AddPosition ==
    ASSUME TypeOK, Position, NEW t \in Writer, AddSendQueue(t)
    PROVE  Position'
<1> DEFINE m == [client |-> client, no |-> written + 1]
<1>1. /\ m \in Message /\ sendQueue' = Append(sendQueue, m) /\ written' = written + 1
      /\ UNCHANGED << client, pBuffer, wire, done >>
      /\ written \in Nat
  BY SendAssumption DEF TypeOK, AddSendQueue, Message
<1>2. m.client = client /\ m.no = written + 1
  BY Zenon
<1> HIDE DEF m
<1>3. /\ Len(sendQueue') = Len(sendQueue) + 1 /\ Len(sendQueue) \in Nat
      /\ \A i \in 1..Len(sendQueue) : sendQueue'[i] = sendQueue[i]
      /\ sendQueue'[Len(sendQueue) + 1] = m
  BY <1>1, Queued, Zenon
<1>4. Taken' = Taken
  BY <1>1, <1>3 DEF Taken
<1>5. \A i \in 1..Len(sendQueue') : sendQueue'[i] = [client |-> client, no |-> Taken + i]
  <2> SUFFICES ASSUME NEW i \in 1..Len(sendQueue') PROVE sendQueue'[i] = [client |-> client, no |-> Taken + i]
    BY Zenon
  <2>1. CASE i \in 1..Len(sendQueue)
    BY <1>3, <2>1, Zenon DEF Position
  <2>2. CASE i = Len(sendQueue) + 1
    <3>1. Taken + i = written + 1
      BY <1>1, <1>3, <2>2 DEF Taken
    <3> QED  BY <1>3, <2>2, <3>1, Zenon DEF m
  <2> QED  BY <1>3, <2>1, <2>2
<1>6. \A u \in Thread : pc'[u] \in {"clear", "complete"} <=> pc[u] \in {"clear", "complete"}
  BY Goes, Threads, Zenon DEF AddSendQueue
<1>7. \A u \in Thread : u # t => pc'[u] = pc[u]
  BY Goes, Threads, Zenon DEF AddSendQueue
<1>8. pc'[t] = "ref"
  BY Goes, Threads, Zenon DEF AddSendQueue
<1>9. Len(sendQueue') <= written'
  BY <1>1, <1>3, SMTT(30) DEF Position
<1> QED  BY <1>1, <1>4, <1>5, <1>6, <1>7, <1>8, <1>9, Zenon DEF Position

LEMMA PopPosition ==
    ASSUME TypeOK, Control, NEW t \in Thread, PreparePop(t), Position
    PROVE  Position'
<1>1. sendQueue # << >> /\ pBuffer = Null
  BY PopControl, SMTT(30) DEF Nothing
<1>2. /\ pBuffer' = [msg |-> Head(sendQueue), left |-> Size] /\ sendQueue' = Tail(sendQueue)
      /\ UNCHANGED << client, written, wire, done >> /\ pc[t] = "lock" /\ pc'[t] = "send"
      /\ \A u \in Thread : u # t => pc'[u] = pc[u] /\ pc[u] = "idle"
  BY <1>1, Goes, OnlyOne, Zenon DEF PreparePop
<1>3. /\ Head(sendQueue) = sendQueue[1] /\ Len(sendQueue) \in Nat \ {0}
      /\ Len(sendQueue') = Len(sendQueue) - 1
      /\ \A i \in 1..Len(sendQueue) - 1 : sendQueue'[i] = sendQueue[i + 1]
  BY <1>1, <1>2, Popped, Zenon
<1>4. written \in Nat /\ Size \in Nat
  BY SendAssumption DEF TypeOK
<1>5. Taken' = Taken + 1 /\ Taken \in Int
  BY <1>2, <1>3, <1>4 DEF Taken
<1>6. Taken' * Size = Taken * Size + Size
  BY <1>4, <1>5
<1>7. pBuffer'.msg = [client |-> client, no |-> Taken'] /\ pBuffer'.left = Size
  <2>1. 1 \in 1..Len(sendQueue)
    BY <1>3
  <2> QED  BY <1>2, <1>3, <1>5, <2>1, Zenon DEF Position
<1>8. \A i \in 1..Len(sendQueue') : sendQueue'[i] = [client |-> client, no |-> Taken' + i]
  <2> SUFFICES ASSUME NEW i \in 1..Len(sendQueue') PROVE sendQueue'[i] = [client |-> client, no |-> Taken' + i]
    BY Zenon
  <2>1. i + 1 \in 1..Len(sendQueue) /\ Taken + (i + 1) = Taken' + i /\ i \in 1..Len(sendQueue) - 1
    BY <1>3, <1>5
  <2> QED  BY <1>3, <2>1, Zenon DEF Position
<1>9. Len(wire) = Taken * Size /\ Taken * Size \in Int
  BY <1>1, <1>4, <1>5 DEF Position
<1>10. Len(wire') = Taken' * Size - pBuffer'.left
  BY <1>2, <1>4, <1>6, <1>7, <1>9
<1>11. \A u \in Thread : pc'[u] \notin {"clear", "complete"}
  BY <1>2, Zenon
<1>12. pBuffer' # Null
  <2>1. Head(sendQueue) \in Message /\ Size \in 1..Size
    BY <1>1, Popped, SendAssumption, SMTT(30)
  <2> QED  BY <1>2, <2>1, NullAssumption DEF Buffer
<1>13. Len(sendQueue') <= written'
  BY <1>2, <1>3, <1>4 DEF Position
<1> QED  BY <1>2, <1>7, <1>8, <1>10, <1>11, <1>12, <1>13, Zenon DEF Position

\* The units of a completion are the ones that come next.
LEMMA CompletionPosition ==
    ASSUME TypeOK, Control, ~overlap, NEW w \in Worker, NEW n \in 1..Size, Completion(w, n),
           Position, InOrder
    PROVE  Position' /\ InOrder'
<1>1. /\ pBuffer # Null /\ inflight = << pBuffer >> /\ \A u \in Thread : pc[u] = "idle"
  BY CompletionControl, Zenon
<1>2. /\ UNCHANGED << overlap, client, written, sendQueue, pBuffer >>
      /\ wire' = wire \o [i \in 1..n |-> <<pBuffer.msg, Size - pBuffer.left + i>>]
      /\ n <= pBuffer.left /\ done'[w] = n
  BY <1>1 DEF Completion, TypeOK
<1>3. pBuffer \in Buffer /\ pBuffer.left \in 1..Size /\ Size \in Nat /\ written \in Nat /\ Len(wire) \in Nat
      /\ Len(sendQueue) \in Nat /\ pBuffer.msg \in Message
  BY <1>1, SendAssumption, LenProperties DEF TypeOK, Buffer
<1>4. pc'[w] = "complete" /\ \A u \in Thread : u # w => pc'[u] = "idle"
  BY <1>1, Goes, Threads, SMTT(30) DEF Completion
<1>5. /\ Len(wire') = Len(wire) + n
      /\ \A i \in 1..Len(wire) : wire'[i] = wire[i]
      /\ \A i \in 1..n : wire'[Len(wire) + i] = <<pBuffer.msg, Size - pBuffer.left + i>>
      /\ \A i \in 1..Len(wire') : i \in 1..Len(wire) \/ (i - Len(wire) \in 1..n /\ i = Len(wire) + (i - Len(wire)))
      /\ wire' \in Seq(Message \X (1..Size))
  BY <1>2, <1>3, SentUnits, Zenon
<1>6. pBuffer.msg = [client |-> client, no |-> Taken] /\ Len(wire) = Taken * Size - pBuffer.left
  BY <1>1, Zenon DEF Position
<1>7. Taken \in 1..written
  <2>1. Taken = pBuffer.msg.no /\ pBuffer.msg.no \in 1..MaxWrites
    BY <1>3, <1>6 DEF Message
  <2> QED  BY <1>3, <2>1, SendAssumption DEF Taken
<1>8. Taken' = Taken
  BY <1>2, SMTT(30) DEF Taken
<1>9. Position'
  <2>1. Taken * Size \in Int /\ Len(wire') = Taken * Size - pBuffer.left + n
    BY <1>3, <1>5, <1>6, <1>7, SMTT(30)
  <2>2. /\ Len(sendQueue) <= written
        /\ \A i \in 1..Len(sendQueue) : sendQueue[i] = [client |-> client, no |-> Taken + i]
    BY Zenon DEF Position
  <2> QED  BY <1>1, <1>2, <1>4, <1>6, <1>8, <2>1, <2>2, Threads, SMTT(30) DEF Position
<1>10. InOrder'
  <2> SUFFICES ASSUME NEW i \in 1..Len(wire')
               PROVE  /\ wire'[i][1].client = client /\ wire'[i][1].no \in 1..written
                      /\ wire'[i][2] \in 1..Size /\ i = (wire'[i][1].no - 1) * Size + wire'[i][2]
    <3>1. DOMAIN wire' = 1..Len(wire')
      BY <1>5, LenProperties, Zenon
    <3> QED  BY <1>2, <3>1, SMTT(30) DEF InOrder
  <2>1. CASE i \in 1..Len(wire)
    <3>1. DOMAIN wire = 1..Len(wire)
      BY LenProperties, Zenon DEF TypeOK
    <3> QED  BY <1>5, <2>1, <3>1, Zenon DEF InOrder
  <2>2. CASE i \notin 1..Len(wire)
    <3> DEFINE j == i - Len(wire)
    <3>1. j \in 1..n /\ i = Len(wire) + j
      BY <1>5, <2>2, Zenon
    <3> HIDE DEF j
    <3>2. wire'[i] = <<pBuffer.msg, Size - pBuffer.left + j>>
      BY <1>5, <3>1, Zenon
    <3>3. wire'[i][1] = [client |-> client, no |-> Taken] /\ wire'[i][2] = Size - pBuffer.left + j
      BY <1>6, <3>2
    <3>4. (Taken - 1) * Size = Taken * Size - Size /\ Taken * Size \in Int
      BY <1>3, <1>7
    <3>5. Size - pBuffer.left + j \in 1..Size
      BY <1>2, <1>3, <3>1, SMTT(30)
    <3>6. i = (Taken - 1) * Size + (Size - pBuffer.left + j)
      BY <1>3, <1>6, <3>1, <3>4, SMTT(30)
    <3> QED  BY <1>7, <3>3, <3>5, <3>6
  <2> QED  BY <2>1, <2>2, SMTT(30)
<1> QED  BY <1>9, <1>10, Zenon

LEMMA CompletePosition ==
    ASSUME TypeOK, Control, NEW w \in Worker, SendComplete(w), Position
    PROVE  Position'
<1>1. /\ pBuffer # Null /\ done[w] \in 1..pBuffer.left /\ pc[w] = "complete"
      /\ \A u \in Thread : u # w => pc[u] = "idle" /\ pc'[u] = "idle"
  BY CompleteControl, Zenon DEF Prepared, SendComplete
<1>2. UNCHANGED << client, written, sendQueue, wire, done >>
  BY Zenon DEF SendComplete
<1>3. pBuffer \in Buffer /\ pBuffer.left \in 1..Size /\ Size \in Nat
  BY <1>1, SendAssumption, Zenon DEF TypeOK, Buffer
<1>4. Taken' = Taken
  BY <1>2, SMTT(30) DEF Taken
<1>5. /\ Len(sendQueue) <= written
      /\ \A i \in 1..Len(sendQueue) : sendQueue[i] = [client |-> client, no |-> Taken + i]
      /\ pBuffer.msg = [client |-> client, no |-> Taken]
      /\ Len(wire) = Taken * Size - pBuffer.left + done[w]
  BY <1>1, Threads, Zenon DEF Position
<1>6. Taken * Size \in Int
  <2>1. Taken \in Int
    BY LenProperties, SendAssumption, SMTT(30) DEF Taken, TypeOK
  <2> QED  BY <1>3, <2>1
<1>7. CASE done[w] < pBuffer.left
  <2>1. pBuffer' = [pBuffer EXCEPT !.left = @ - done[w]] /\ pc'[w] = "send"
    <3>1. ~(done[w] >= pBuffer.left)
      BY <1>1, <1>3, <1>7
    <3>2. pBuffer' = [pBuffer EXCEPT !.left = @ - done[w]] /\ Goto(w, "send")
      BY <1>1, <3>1, Zenon DEF SendComplete
    <3> QED  BY <3>2, Goes, Threads, SMTT(30)
  <2>2. pBuffer'.msg = pBuffer.msg /\ pBuffer'.left = pBuffer.left - done[w]
    BY <1>3, <2>1, Zenon DEF Buffer
  <2>3. pBuffer' # Null
    <3>1. pBuffer.left - done[w] \in 1..Size
      BY <1>1, <1>3, <1>7
    <3>2. pBuffer' \in Buffer
      BY <1>3, <2>1, <3>1, Zenon DEF Buffer
    <3> QED  BY <3>2, NullAssumption, Zenon
  <2>4. Len(wire) = Taken * Size - pBuffer'.left
    BY <1>1, <1>3, <1>5, <1>6, <2>2
  <2>5. \A u \in Thread : pc'[u] \notin {"clear", "complete"}
    BY <1>1, <2>1, Zenon
  <2> QED  BY <1>2, <1>4, <1>5, <2>2, <2>3, <2>4, <2>5, Zenon DEF Position
<1>8. CASE ~(done[w] < pBuffer.left)
  <2>1. pBuffer' = pBuffer /\ pc'[w] = "clear"
    BY <1>1, <1>3, <1>8, Goes, Threads, SMTT(30) DEF SendComplete
  <2>2. Len(wire) = Taken * Size
    BY <1>1, <1>3, <1>5, <1>6, <1>8, SMTT(30)
  <2> QED  BY <1>1, <1>2, <1>4, <1>5, <2>1, <2>2, Threads, Zenon DEF Position
<1> QED  BY <1>7, <1>8, Zenon

LEMMA ForgetPosition ==
    ASSUME TypeOK, Control, NEW w \in Worker, ForgetBuffer(w), Position
    PROVE  Position'
<1>1. pBuffer # Null /\ pc[w] = "clear" /\ pBuffer' = Null
  BY ForgetControl, Zenon DEF ForgetBuffer
<1>2. UNCHANGED << client, written, sendQueue, wire >>
  BY Zenon DEF ForgetBuffer
<1>3. Taken' = Taken
  BY <1>2, Zenon DEF Taken
<1> QED  BY <1>1, <1>2, <1>3, Threads, Zenon DEF Position

Inv == TypeOK /\ Sequential

LEMMA InitSequential == Init => Sequential
<1> SUFFICES ASSUME Init PROVE Sequential
  BY Zenon
<1>1. /\ sendQueue = << >> /\ inflight = << >> /\ wire = << >> /\ pBuffer = Null /\ sendRef = 0 /\ open
      /\ written = 0 /\ \A t \in Thread : pc[t] = "idle"
  BY Zenon DEF Init
<1>2. Control
  BY <1>1, Zenon DEF Control, Alone, Idle, At, Nothing
<1>3. ~Stuck /\ Position
  BY <1>1, SendAssumption DEF Stuck, Position, Taken
<1>4. InOrder
  BY <1>1 DEF InOrder
<1> QED  BY <1>2, <1>3, <1>4, Zenon DEF Sequential

LEMMA NextSequential == Inv /\ [Next]_vars => Sequential'
<1> SUFFICES ASSUME Inv, [Next]_vars PROVE Sequential'
  BY Zenon
<1> SUFFICES ASSUME ~overlap PROVE Sequential'
  <2>1. overlap' = overlap
    BY Zenon DEF Next, AddSendQueue, ThreadStep, TestSendRef, PrepareEmpty, PrepareRef, PreparePop, WSASend,
           WorkerStep, Completion, SendComplete, ForgetBuffer, PeerClose, Reaccept, Rest, vars
  <2> QED  BY <2>1, Zenon DEF Sequential
<1>1. TypeOK /\ Control /\ Progress /\ InOrder /\ written \in Nat
  BY DEF Inv, Sequential, Progress, TypeOK
<1>2. ASSUME Control', Progress', InOrder' PROVE Sequential'
  BY <1>2, Zenon DEF Sequential, Progress
<1>3. ASSUME NEW t \in Writer, AddSendQueue(t) PROVE Sequential'
  <2>1. Control' /\ InOrder'
    BY <1>1, <1>3, AddControl, WireKept, Zenon DEF AddSendQueue
  <2>2. open /\ UNCHANGED << open, sendRef, pBuffer, wire >>
    BY <1>3, Zenon DEF AddSendQueue
  <2>3. Progress'
    BY <1>1, <1>3, <2>2, AddPosition, Zenon DEF Progress, Stuck
  <2> QED  BY <1>2, <2>1, <2>3, Zenon
<1>4. ASSUME NEW t \in Thread, TestSendRef(t) \/ PrepareEmpty(t) \/ PrepareRef(t) PROVE Sequential'
  <2>1. UNCHANGED << overlap, open, sendRef, client, written, sendQueue, pBuffer, wire, done >>
    BY <1>4, Zenon DEF TestSendRef, PrepareEmpty, PrepareRef
  <2>2. \A u \in Thread : \/ pc'[u] = pc[u]
                          \/ pc[u] \notin {"clear", "complete"} /\ pc'[u] \notin {"clear", "complete"}
    BY <1>1, <1>4, Goes, Zenon DEF TestSendRef, PrepareEmpty, PrepareRef, Unprepared
  <2>3. Control' /\ InOrder'
    BY <1>1, <1>4, <2>1, TestControl, WireKept, Zenon
  <2>4. Progress'
    BY <1>1, <2>1, <2>2, PositionKept, Zenon DEF Progress, Stuck
  <2> QED  BY <1>2, <2>3, <2>4, Zenon
<1>5. ASSUME NEW t \in Thread, PreparePop(t) PROVE Sequential'
  <2>1. Control' /\ Nothing /\ sendQueue # << >>
    BY <1>1, <1>5, PopControl, Zenon
  <2>2. UNCHANGED << overlap, open, client, written, wire >>
    BY <1>5, Zenon DEF PreparePop
  <2>3. pBuffer' # Null
    <3>1. Head(sendQueue) \in Message /\ Size \in 1..Size
      BY <1>1, <2>1, Popped, SendAssumption
    <3> QED  BY <1>5, <2>1, <3>1, NullAssumption DEF PreparePop, Buffer
  <2>4. Progress'
    BY <1>1, <1>5, <2>1, <2>2, <2>3, PopPosition DEF Progress, Stuck, Nothing
  <2> QED  BY <1>1, <1>2, <2>1, <2>2, <2>4, WireKept, Zenon
<1>6. ASSUME NEW t \in Thread, WSASend(t) PROVE Sequential'
  <2>1. Control' /\ Prepared
    BY <1>1, <1>6, SendControl, Zenon
  <2>2. UNCHANGED << overlap, client, written, sendQueue, sendRef, pBuffer, wire, done >> /\ (open' => open)
    BY <1>6, Zenon DEF WSASend
  <2>3. \A u \in Thread : \/ pc'[u] = pc[u]
                          \/ pc[u] \notin {"clear", "complete"} /\ pc'[u] \notin {"clear", "complete"}
    BY <1>1, <1>6, Goes, Zenon DEF WSASend
  <2>4. Progress'
    BY <1>1, <2>2, <2>3, PositionKept, Zenon DEF Progress, Stuck
  <2> QED  BY <1>1, <1>2, <2>1, <2>2, <2>4, WireKept, Zenon
<1>7. ASSUME NEW w \in Worker, NEW n \in 1..Size, Completion(w, n) PROVE Sequential'
  <2>1. Control' /\ sendRef = 1 /\ pBuffer # Null
    BY <1>1, <1>7, CompletionControl, Zenon
  <2>2. open /\ UNCHANGED << open, sendRef, pBuffer >>
    BY <1>7, Zenon DEF Completion
  <2>3. Position' /\ InOrder'
    BY <1>1, <1>7, <2>1, <2>2, CompletionPosition, Zenon DEF Progress, Stuck
  <2> QED  BY <1>2, <2>1, <2>2, <2>3, Zenon DEF Progress, Stuck
<1>8. ASSUME NEW w \in Worker, SendComplete(w) PROVE Sequential'
  <2>1. Control' /\ Prepared /\ pBuffer' # Null
    BY <1>1, <1>8, CompleteControl, Zenon
  <2>2. UNCHANGED << overlap, open, client, written, wire >>
    BY <1>8, Zenon DEF SendComplete
  <2>4. Progress'
    BY <1>1, <1>8, <2>1, <2>2, CompletePosition, Zenon DEF Progress, Stuck, Prepared
  <2> QED  BY <1>1, <1>2, <2>1, <2>2, <2>4, WireKept, Zenon
<1>9. ASSUME NEW w \in Worker, ForgetBuffer(w) PROVE Sequential'
  <2>1. Control' /\ sendRef = 0 /\ pBuffer # Null
    BY <1>1, <1>9, ForgetControl, Zenon
  <2>2. UNCHANGED << overlap, open, client, written, wire, sendRef >>
    BY <1>9, Zenon DEF ForgetBuffer
  <2>3. Progress'
    BY <1>1, <1>9, <2>1, <2>2, ForgetPosition DEF Progress, Stuck
  <2> QED  BY <1>1, <1>2, <2>1, <2>2, <2>3, WireKept, Zenon
<1>10. CASE PeerClose
  <2>1. Control' /\ InOrder'
    BY <1>1, <1>10, CloseControl, WireKept, Zenon DEF PeerClose
  <2> QED  BY <1>2, <1>10, <2>1, Zenon DEF PeerClose, Progress
<1>11. CASE Reaccept
  <2>1. Control' /\ (Stuck' \/ sendQueue' = << >>)
    BY <1>1, <1>11, ReacceptControl, Zenon
  <2>2. written' = 0 /\ wire' = << >> /\ pBuffer' = Null
    BY <1>11, Zenon DEF Reaccept
  <2>3. sendQueue' = << >> => Position'
    BY <2>2, SendAssumption DEF Position, Taken
  <2>4. InOrder' /\ Progress'
    BY <2>1, <2>2, <2>3 DEF InOrder, Progress
  <2> QED  BY <1>2, <2>1, <2>4, Zenon
<1>12. CASE Rest \/ UNCHANGED vars
  <2>1. UNCHANGED vars
    BY <1>12, SMTT(30) DEF Rest
  <2>2. Control'
    BY <1>1, <2>1, Zenon DEF Control, Alone, Idle, At, Nothing, Underway, Prepared, vars
  <2>3. InOrder' /\ Progress'
    BY <1>1, <2>1, PositionKept, WireKept, Zenon DEF Progress, Stuck, vars
  <2> QED  BY <1>2, <2>2, <2>3, Zenon
<1> QED
  BY <1>3, <1>4, <1>5, <1>6, <1>7, <1>8, <1>9, <1>10, <1>11, <1>12, Zenon DEF Next, ThreadStep, WorkerStep

\* Without overlapping calls of Write and DoSend a client gets the messages
\* written for it, unit by unit and in order, with nothing twice, missing or
\* of another client: also when the Connector was used before and _SendQueue
\* and _dwSendRef were left as they were (connector.cpp:15-27).
THEOREM ClientGetsWhatWasWritten == Spec => []InOrder
<1>1. Init => Inv
  BY InitType, InitSequential, Zenon DEF Inv
<1>2. Inv /\ [Next]_vars => Inv'
  BY NextType, NextSequential, Zenon DEF Inv
<1>3. Inv => InOrder
  BY Zenon DEF Inv, Sequential, InOrder
<1> QED  BY <1>1, <1>2, <1>3, PTL DEF Spec
=============================================================================
