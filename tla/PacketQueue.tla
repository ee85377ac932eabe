----------------------------- MODULE PacketQueue -----------------------------
(***************************************************************************)
(* RecvPacketQueue (_framework/packet_data_queue.h): how the network's     *)
(* worker threads hand received packets to the one ProcessThread, with an  *)
(* auto-reset event to wake it, and how App::Stop gets that thread to      *)
(* leave its loop.  Only phase 0 of the queue is ever used.  The list is   *)
(* changed under its lock, but empty() is read without it and SetEvent     *)
(* comes after the unlock, so each of those is a step of its own.          *)
(***************************************************************************)
EXTENDS Naturals, Sequences

CONSTANTS Worker,    \* the network's worker threads
          Packet     \* PacketStruct values

VARIABLES queue,   \* lstPacketQueue[0]
          event,   \* _hQueueEvent[0] is signalled
          worker,  \* where each worker thread is
          process, \* where ProcessThread is
          main,    \* where App::Stop is
          seen     \* the packet ProcessThread got last

packetsVars == <<queue, event, worker, process, main, seen>>

PacketsTypeOK ==
    /\ queue \in Seq(Packet)
    /\ event \in BOOLEAN
    /\ worker \in [Worker -> {"run", "signal"}]
    /\ process \in {"loop", "check", "wait", "recheck", "pop", "end"}
    /\ main \in {"run", "joining", "stopped"}
    /\ seen \in Seq(Packet)

PacketsInit ==
    /\ queue = << >>
    /\ event = FALSE
    /\ worker = [w \in Worker |-> "run"]
    /\ process = "loop"
    /\ main = "run"
    /\ seen = << >>

-----------------------------------------------------------------------------
(* Worker threads: RecvComplete pushes each packet it cut out.             *)

\* Mutant of Push: no SetEvent.
PushSilent(w, p) ==
    /\ main # "stopped" /\ worker[w] = "run"
    /\ queue' = Append(queue, p)
    /\ UNCHANGED <<event, worker, process, main, seen>>

Push(w, p) ==
    /\ main # "stopped"
    /\ worker[w] = "run"
    /\ queue' = Append(queue, p)
    /\ worker' = [worker EXCEPT ![w] = "signal"]
    /\ UNCHANGED <<event, process, main, seen>>

SetEvent(w) ==
    /\ worker[w] = "signal"
    /\ event' = TRUE
    /\ worker' = [worker EXCEPT ![w] = "run"]
    /\ UNCHANGED <<queue, process, main, seen>>

-----------------------------------------------------------------------------
(* ProcessThread: while (!stop_requested) { Pop; MessageProcess }          *)

LoopTest ==
    /\ process = "loop"
    /\ process' = IF main = "run" THEN "check" ELSE "end"
    /\ UNCHANGED <<queue, event, worker, main, seen>>

\* The first PacketDataQueue::Pop of RecvPacketQueue::Pop: an empty list sends
\* the thread to WaitForSingleObject.
PopCheck ==
    /\ process = "check"
    /\ process' = IF queue = << >> THEN "wait" ELSE "pop"
    /\ UNCHANGED <<queue, event, worker, main, seen>>

\* WaitForSingleObject returns and resets the event.
Wake ==
    /\ process = "wait"
    /\ event
    /\ event' = FALSE
    /\ process' = "recheck"
    /\ UNCHANGED <<queue, worker, main, seen>>

\* The second PacketDataQueue::Pop: still empty, Pop returns nullptr and
\* ProcessThread goes round its loop.
PopRecheck ==
    /\ process = "recheck"
    /\ process' = IF queue = << >> THEN "loop" ELSE "pop"
    /\ UNCHANGED <<queue, event, worker, main, seen>>

PopFront ==
    /\ process = "pop"
    /\ seen' = << Head(queue) >>
    /\ queue' = Tail(queue)
    /\ process' = "loop"
    /\ UNCHANGED <<event, worker, main>>

ProcessThread == LoopTest \/ PopCheck \/ Wake \/ PopRecheck \/ PopFront

-----------------------------------------------------------------------------
(* App::Stop: request_stop, then Network::Stop joins the workers, then     *)
(* ForceActivateQueueEvent.                                                *)

RequestStop ==
    /\ main = "run"
    /\ main' = "joining"
    /\ UNCHANGED <<queue, event, worker, process, seen>>

ForceActivateQueueEvent ==
    /\ main = "joining"
    /\ \A w \in Worker : worker[w] = "run"
    /\ event' = TRUE
    /\ main' = "stopped"
    /\ UNCHANGED <<queue, worker, process, seen>>

\* The thread has ended.
Ended == process = "end" /\ UNCHANGED packetsVars

PacketsNext ==
    \/ \E w \in Worker, p \in Packet : Push(w, p)
    \/ \E w \in Worker : SetEvent(w)
    \/ ProcessThread
    \/ RequestStop
    \/ ForceActivateQueueEvent
    \/ Ended

PacketsSpec == PacketsInit /\ [][PacketsNext]_packetsVars

-----------------------------------------------------------------------------
\* No lost wake-up: while ProcessThread sleeps in Pop with packets in the list,
\* the event is signalled or some worker is about to signal it.
NoLostWakeup ==
    process = "wait" /\ queue # << >> => event \/ \E w \in Worker : worker[w] = "signal"

\* Pop takes begin() of the list only when the list has an element, although it
\* looked at empty() before it took the lock.
PopSafe == process = "pop" => queue # << >>

\* ProcessThread gets the packets in the order in which the workers pushed them,
\* each one once.
PacketsFifo == INSTANCE Fifo WITH Elem <- Packet, Data <- {<<p>> : p \in Packet}
PacketsIsFifo == PacketsFifo!Spec
=============================================================================
