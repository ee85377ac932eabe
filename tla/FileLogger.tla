----------------------------- MODULE FileLogger -----------------------------
(***************************************************************************)
(* FileLogger (_lib/log.cpp): any thread adds a line to a queue under      *)
(* _msgLock; a thread that then finds the queue long enough swaps it out   *)
(* and appends what it got to the file under _fileLock.  The length is     *)
(* read without a lock, and between the two locks anything may happen.     *)
(* Flush is never called with bForce.                                      *)
(***************************************************************************)
EXTENDS Naturals, Sequences

CONSTANTS LogThread,    \* threads that log
          MaxQueueSize  \* _maxQueueSize

ASSUME MaxQueueSizeAssumption == MaxQueueSize \in Nat \ {0, 1}

VARIABLES msgQueue,    \* _msgQueue; a line is its number, in the order added
          logger,      \* where each thread is in AddMessage
          batch,       \* Flush's local list
          file,        \* lines in the log file
          lines,       \* lines added
          dropped,     \* history: lines lost because the file did not open
          overlapped   \* history: two threads had a batch at the same time

logVars == << msgQueue, logger, batch, file, lines, dropped, overlapped >>

LogInit ==
    /\ msgQueue = << >> /\ file = << >>
    /\ logger = [t \in LogThread |-> "idle"]
    /\ batch = [t \in LogThread |-> << >>]
    /\ lines = 0 /\ dropped = {} /\ overlapped = FALSE

\* The lines in a list.
Lines(s) == {s[i] : i \in 1..Len(s)}

-----------------------------------------------------------------------------
AddMessage(t) ==
    /\ logger[t] = "idle"
    /\ lines' = lines + 1
    /\ msgQueue' = Append(msgQueue, lines + 1)
    /\ logger' = [logger EXCEPT ![t] = "flush"]
    /\ UNCHANGED << batch, file, dropped, overlapped >>

\* Flush's test for enough lines.
Short(n) == n < MaxQueueSize

\* Flush looks at the length.
FlushTest(t) ==
    /\ logger[t] = "flush"
    /\ logger' = [logger EXCEPT ![t] = IF Short(Len(msgQueue)) THEN "idle"
                                       ELSE "swap"]
    /\ UNCHANGED << msgQueue, batch, file, lines, dropped, overlapped >>

\* Mutant of Swapped: the list is copied.
SwappedCopy == msgQueue
Swapped == << >>

FlushSwap(t) ==
    /\ logger[t] = "swap"
    /\ batch' = [batch EXCEPT ![t] = msgQueue]
    /\ msgQueue' = Swapped
    /\ overlapped' = (overlapped \/ \E u \in LogThread \ {t} : batch[u] # << >>)
    /\ logger' = [logger EXCEPT ![t] = "write"]
    /\ UNCHANGED << file, lines, dropped >>

\* Mutant of Written: the file is not opened to append.
WrittenInFront(t) == batch[t] \o file
Written(t) == file \o batch[t]

\* FileWrite opens the file, appends and closes it, all under _fileLock; a file
\* that does not open costs the batch.
FileWrite(t) ==
    /\ logger[t] = "write"
    /\ \/ file' = Written(t) /\ UNCHANGED dropped
       \/ dropped' = dropped \cup Lines(batch[t]) /\ UNCHANGED file
    /\ batch' = [batch EXCEPT ![t] = << >>]
    /\ logger' = [logger EXCEPT ![t] = "idle"]
    /\ UNCHANGED << msgQueue, lines, overlapped >>

Logging(t) == FlushTest(t) \/ FlushSwap(t) \/ FileWrite(t)

LogNext == \E t \in LogThread : AddMessage(t) \/ Logging(t)
LogSpec == LogInit /\ [][LogNext]_logVars

-----------------------------------------------------------------------------
Once(s) == \A i, j \in 1..Len(s) : s[i] = s[j] => i = j
Apart(S, T) == S \cap T = {}

\* Every line is in one place, once: in the queue, in a batch, in the file, or
\* lost with a file that did not open.  Nothing else loses or doubles a line,
\* however the flushes of several threads interleave (log.cpp:150-164).
LinesKept ==
    /\ Lines(msgQueue) \cup Lines(file) \cup dropped \cup UNION {Lines(batch[t]) : t \in LogThread}
       = 1..lines
    /\ Once(msgQueue) /\ Once(file) /\ \A t \in LogThread : Once(batch[t])
    /\ Apart(Lines(msgQueue), Lines(file) \cup dropped) /\ Apart(Lines(file), dropped)
    /\ \A t \in LogThread : Apart(Lines(batch[t]), Lines(msgQueue) \cup Lines(file) \cup dropped)
    /\ \A t, u \in LogThread : t # u => Apart(Lines(batch[t]), Lines(batch[u]))

\* When no thread is inside AddMessage the queue is below its limit.  So at most
\* MaxQueueSize - 1 lines wait, and the Flush of the destructor (log.cpp:86),
\* which is not forced, never writes them.
BelowLimit == (\A t \in LogThread : logger[t] = "idle") => Len(msgQueue) < MaxQueueSize

\* The file has the lines in the order they were added, unless two threads once
\* had a batch at the same time: the second may get to _fileLock first.
FileInOrder ==
    ~overlapped => \A i, j \in 1..Len(file) : i < j => file[i] < file[j]
=============================================================================
