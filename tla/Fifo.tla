-------------------------------- MODULE Fifo --------------------------------
(***************************************************************************)
(* What the server's in-memory queues promise their users: a first-in      *)
(* first-out channel.  `queue' holds what was put and not yet dropped,     *)
(* `seen' is the block most recently handed to the reader.  CircleBuffer   *)
(* (received bytes), PacketQueue (received packets) and CommandUnitQueue   *)
(* (game commands) are each shown to implement it.                         *)
(***************************************************************************)
EXTENDS Naturals, Sequences

CONSTANTS Elem,  \* what the queue carries
          Data   \* the blocks a writer may put

VARIABLES queue, seen

vars == <<queue, seen>>

TypeOK == /\ queue \in Seq(Elem)
          /\ seen \in Seq(Elem)

Init == /\ queue = << >>
        /\ seen = << >>

\* A block goes in at the back, whole.
Put(s) == /\ queue' = queue \o s
          /\ UNCHANGED seen

\* The reader is shown the first n elements and takes none of them.
Peek(n) == /\ seen' = SubSeq(queue, 1, n)
           /\ UNCHANGED queue

\* The first n elements leave.
Drop(n) == /\ queue' = SubSeq(queue, n + 1, Len(queue))
           /\ UNCHANGED seen

\* The reader is shown the first element and it leaves.
Take == /\ queue # << >>
        /\ seen' = << Head(queue) >>
        /\ queue' = Tail(queue)

Next == \/ \E s \in Data : Put(s)
        \/ \E n \in 0..Len(queue) : Peek(n) \/ Drop(n)
        \/ Take

Spec == Init /\ [][Next]_vars
=============================================================================
