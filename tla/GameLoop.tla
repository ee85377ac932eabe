------------------------------ MODULE GameLoop ------------------------------
(***************************************************************************)
(* The server process (svr/process.cpp, Network::Stop): the worker threads *)
(* hand packets to ProcessThread (PacketQueue), whose handlers add         *)
(* commands that UpdateThread runs (CommandUnitQueue); every thread logs   *)
(* (FileLogger).  App::Stop and, once it is out of its loop, ProcessThread *)
(* both call Network::Stop, which joins the workers; a thread that is      *)
(* joined a second time makes join throw, and the process terminates.      *)
(***************************************************************************)
EXTENDS PacketQueue, CommandUnitQueue, FileLogger

CONSTANTS Threads,    \* Network::_threads, in order
          CommandOf,  \* CommandOf[p]: the commands p's handler adds, one at most
          Settings    \* bounds: on the packets and commands there are at a
                      \* time (work), on the lines logged (lines), and which
                      \* threads log (loggers)

ASSUME GameLoopAssumption ==
    /\ Threads \in Seq(Worker) /\ Threads # << >> /\ Worker = {Threads[i] : i \in DOMAIN Threads}
    /\ \A i, j \in DOMAIN Threads : Threads[i] = Threads[j] => i = j
    /\ CommandOf \in [Packet -> Seq(Cmd)] /\ \A p \in Packet : Len(CommandOf[p]) <= 1
    /\ LogThread = Worker \cup {"process", "update", "main"}

VARIABLES setting,   \* a member of Settings; never changes
          handling,  \* the packet ProcessThread handles
          update,    \* where UpdateThread is
          ended,     \* worker threads that have left their loop
          joined,    \* worker threads that were joined: not joinable any more
          joins,     \* threads joined by each call of Network::Stop
          down       \* the process was terminated

loopVars == << handling, update, ended, joined, joins, down >>
vars == << setting, packetsVars, cmdsVars, logVars, loopVars >>

Init ==
    /\ setting \in Settings
    /\ PacketsInit /\ CmdsInit /\ LogInit
    /\ handling = << >> /\ update = "test"
    /\ ended = {} /\ joined = {}
    /\ joins = [main |-> 0, process |-> 0]
    /\ down = FALSE

\* t is not in the middle of logging.
Free(t) == ~down /\ logger[t] = "idle"

-----------------------------------------------------------------------------
(* Worker threads.                                                         *)

Work == Len(queue) + Len(handling) + Len(cmds) + Len(firing)

Receive(w, p) ==
    /\ Free(w) /\ w \notin ended
    /\ Work < setting.work
    /\ Push(w, p)
    /\ UNCHANGED << setting, cmdsVars, logVars, loopVars >>

Signal(w) ==
    /\ Free(w) /\ SetEvent(w)
    /\ UNCHANGED << setting, cmdsVars, logVars, loopVars >>

\* A worker between two completions sees the stop request.
WorkerEnds(w) ==
    /\ Free(w) /\ w \notin ended
    /\ worker[w] = "run" /\ main # "run"
    /\ ended' = ended \cup {w}
    /\ UNCHANGED << setting, packetsVars, cmdsVars, logVars, handling, update,
                    joined, joins, down >>

-----------------------------------------------------------------------------
(* ProcessThread.                                                          *)

Poll ==
    /\ Free("process") /\ handling = << >>
    /\ LoopTest \/ PopCheck \/ Wake \/ PopRecheck
    /\ UNCHANGED << setting, cmdsVars, logVars, loopVars >>

Take ==
    /\ Free("process") /\ handling = << >>
    /\ PopFront
    /\ handling' = seen'
    /\ UNCHANGED << setting, cmdsVars, logVars, update, ended, joined, joins, down >>

\* Mutant of MessageProcess: a handler forgets its command while a Tick runs.
MessageProcessIdle ==
    /\ Free("process") /\ handling # << >>
    /\ \/ CommandOf[Head(handling)] = << >> /\ UNCHANGED cmdsVars
       \/ tick /\ UNCHANGED cmdsVars
       \/ ~tick /\ CommandOf[Head(handling)] # << >> /\ Add(Head(CommandOf[Head(handling)]))
    /\ handling' = << >>
    /\ UNCHANGED << setting, packetsVars, logVars, update, ended, joined, joins, down >>

\* MessageProcess: the packet's handler.
MessageProcess ==
    /\ Free("process") /\ handling # << >>
    /\ \/ CommandOf[Head(handling)] = << >> /\ UNCHANGED cmdsVars
       \/ CommandOf[Head(handling)] # << >> /\ Add(Head(CommandOf[Head(handling)]))
    /\ handling' = << >>
    /\ UNCHANGED << setting, packetsVars, logVars, update, ended, joined, joins, down >>

-----------------------------------------------------------------------------
(* UpdateThread: while (!stop_requested) { ... Tick }                      *)

UpdateTest ==
    /\ Free("update") /\ update = "test"
    /\ update' = IF main = "run" THEN "tick" ELSE "ended"
    /\ UNCHANGED << setting, packetsVars, cmdsVars, logVars, handling, ended,
                    joined, joins, down >>

Tick ==
    /\ Free("update") /\ update = "tick"
    /\ \/ (SwapOpList \/ ProcessAndDelete \/ OperatorAdds) /\ UNCHANGED update
       \/ TickEnds /\ update' = "test"
    /\ UNCHANGED << setting, packetsVars, logVars, handling, ended, joined,
                    joins, down >>

-----------------------------------------------------------------------------
(* Stopping: App::Stop on the main thread.                                 *)

Stop ==
    /\ Free("main") /\ RequestStop
    /\ UNCHANGED << setting, cmdsVars, logVars, loopVars >>

InStop(s) == IF s = "main" THEN main = "joining" ELSE process = "end"

\* Mutant of JoinThrows: threads that are not joinable are left out.
JoinSkips(w) == FALSE
JoinThrows(w) == w \in joined

\* Mutant of Join: one who comes second polls for the other to finish.
JoinPolls(s) ==
    /\ Free(s) /\ InStop(s) /\ joins[s] < Len(Threads)
    /\ LET w == Threads[joins[s] + 1]
       IN  \/ JoinThrows(w) /\ UNCHANGED << joined, joins >>
           \/ /\ ~JoinThrows(w) /\ w \in ended
              /\ joined' = joined \cup {w}
              /\ joins' = [joins EXCEPT ![s] = @ + 1]
    /\ UNCHANGED << setting, packetsVars, cmdsVars, logVars, handling, update, ended, down >>

\* Network::Stop, called by s, joins its next thread: it waits for its end.
Join(s) ==
    /\ Free(s) /\ InStop(s) /\ joins[s] < Len(Threads)
    /\ LET w == Threads[joins[s] + 1]
       IN  \/ /\ JoinThrows(w)
              /\ down' = TRUE
              /\ UNCHANGED << joined, joins >>
           \/ /\ ~JoinThrows(w)
              /\ w \in ended
              /\ joined' = joined \cup {w}
              /\ joins' = [joins EXCEPT ![s] = @ + 1]
              /\ UNCHANGED down
    /\ UNCHANGED << setting, packetsVars, cmdsVars, logVars, handling, update, ended >>

\* Mutant of Activate: before the workers are joined.
ActivateEarly ==
    /\ Free("main") /\ main = "joining"
    /\ event' = TRUE /\ main' = "stopped"
    /\ UNCHANGED << setting, queue, worker, process, seen, cmdsVars, logVars, loopVars >>

\* Network::Stop has returned.  App::Stop then waits for ProcessThread.
Activate ==
    /\ Free("main") /\ joins["main"] = Len(Threads)
    /\ ForceActivateQueueEvent
    /\ UNCHANGED << setting, cmdsVars, logVars, loopVars >>

-----------------------------------------------------------------------------
Log(t) ==
    /\ Free(t) /\ lines < setting.lines /\ t \in setting.loggers
    /\ t \notin ended /\ (t = "update" => update # "ended")
    /\ AddMessage(t)
    /\ UNCHANGED << setting, packetsVars, cmdsVars, loopVars >>

LogOn(t) ==
    /\ ~down /\ Logging(t)
    /\ UNCHANGED << setting, packetsVars, cmdsVars, loopVars >>

Over == down /\ UNCHANGED vars

WorkerThread(w) == Signal(w) \/ WorkerEnds(w) \/ LogOn(w)
AppProcessThread == Poll \/ Take \/ MessageProcess \/ Join("process") \/ LogOn("process")
AppUpdateThread == UpdateTest \/ Tick \/ LogOn("update")
AppStop == Join("main") \/ Activate \/ LogOn("main")

Next ==
    \/ \E w \in Worker : (\E p \in Packet : Receive(w, p)) \/ WorkerThread(w)
    \/ AppProcessThread \/ AppUpdateThread \/ Stop \/ AppStop
    \/ \E t \in LogThread : Log(t)
    \/ Over

Spec == Init /\ [][Next]_vars

\* A thread that can run does.  Nothing makes a packet arrive, a line be logged,
\* or the operator ask the server to stop.
FairSpec ==
    /\ Spec
    /\ \A w \in Worker : WF_vars(WorkerThread(w))
    /\ WF_vars(AppProcessThread) /\ WF_vars(AppUpdateThread) /\ WF_vars(AppStop)

-----------------------------------------------------------------------------
\* Types of what the composition adds, and of its parts.
TypeOK ==
    /\ PacketsTypeOK /\ CmdsTypeOK
    /\ handling \in Seq(Packet) /\ Len(handling) <= 1
    /\ update \in {"test", "tick", "ended"}
    /\ joined \subseteq ended /\ ended \subseteq Worker
    /\ down \in BOOLEAN

\* In the running server the packet queue, the command queue and the log are each
\* used only as their own modules say, so that what is proved of those holds here: in
\* particular App::Stop wakes ProcessThread only when no worker can push any more
\* (process.cpp:55-56).  Packets and commands therefore go through first in, first
\* out, across every swap of the command list.
UsesQueues ==
    /\ PacketsSpec /\ CmdsSpec /\ LogSpec
    /\ PacketsIsFifo /\ CmdsIsFifo

\* ProcessThread and App::Stop never both get through Network::Stop
\* (process.cpp:55 and 144, network.cpp:120-122): one finds a thread that the
\* other has joined.  The server therefore never ends by returning from main, and
\* "svr end." (main.cpp:57) is never logged.
NeverReturns == ~(joins["main"] = Len(Threads) /\ joins["process"] = Len(Threads))

\* A stop request ends the process, whatever its threads are doing and although
\* ProcessThread may be asleep in Pop: nobody waits for ever.
StopEndsServer == (main = "joining") ~> down

\* A packet that a worker pushed has its command run by UpdateThread, unless the
\* server is stopped.
Queued(p) == \E i \in DOMAIN queue : queue[i] = p
PacketsHandled ==
    \A p \in Packet : CommandOf[p] # << >> =>
        (Queued(p) ~> (ran = CommandOf[p] \/ main # "run"))

\* A Tick ends although commands it runs add commands (even themselves) and
\* handlers keep adding: UpdateThread gets back to its other duties.
TickTerminates == tick ~> (~tick \/ down)
=============================================================================
