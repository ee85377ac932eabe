-------------------------- MODULE CommandUnitQueue --------------------------
(***************************************************************************)
(* CommandUnitQueue (_lib/command_unit_base.cpp): the server's commands    *)
(* are added by any thread and run on the UpdateThread, in Tick.  A        *)
(* command's Operator() may itself add commands.                           *)
(***************************************************************************)
EXTENDS Naturals, Sequences

CONSTANTS Cmd,       \* commands
          FollowUp   \* FollowUp[c]: what c's Operator() adds, in order

ASSUME FollowUpAssumption == FollowUp \in [Cmd -> Seq(Cmd)]

VARIABLES cmds,    \* _cmds
          firing,  \* the rest of FireOps' local firingCmds
          tick,    \* UpdateThread is inside Tick
          adds,    \* what the running Operator() still has to add
          ran     \* the command run last

cmdsVars == <<cmds, firing, tick, adds, ran>>

CmdsTypeOK ==
    /\ cmds \in Seq(Cmd)
    /\ firing \in Seq(Cmd)
    /\ tick \in BOOLEAN
    /\ adds \in Seq(Cmd)
    /\ ran \in Seq(Cmd)

CmdsInit ==
    /\ cmds = << >>
    /\ firing = << >>
    /\ tick = FALSE
    /\ adds = << >>
    /\ ran = << >>

\* Another thread (a packet handler on ProcessThread) adds a command.
Add(c) ==
    /\ cmds' = Append(cmds, c)
    /\ UNCHANGED <<firing, tick, adds, ran>>

\* Tick begins: the list is swapped, under the lock, with FireOps' empty one.
SwapOpList ==
    /\ ~tick
    /\ tick' = TRUE
    /\ firing' = cmds
    /\ cmds' = << >>
    /\ UNCHANGED <<adds, ran>>

\* ProcessAndDelete calls the next command's Operator() ...
ProcessAndDelete ==
    /\ tick
    /\ adds = << >>
    /\ firing # << >>
    /\ ran' = << Head(firing) >>
    /\ firing' = Tail(firing)
    /\ adds' = FollowUp[Head(firing)]
    /\ UNCHANGED <<cmds, tick>>

\* ... which adds its follow-ups one by one, other threads' Adds in between.
OperatorAdds ==
    /\ adds # << >>
    /\ cmds' = Append(cmds, Head(adds))
    /\ adds' = Tail(adds)
    /\ UNCHANGED <<firing, tick, ran>>

\* Mutant of TickEnds: Tick goes on until no command is left.
TickUntilEmpty ==
    /\ tick /\ adds = << >> /\ firing = << >>
    /\ tick' = (cmds # << >>)
    /\ firing' = cmds
    /\ cmds' = << >>
    /\ UNCHANGED <<adds, ran>>

TickEnds ==
    /\ tick
    /\ adds = << >>
    /\ firing = << >>
    /\ tick' = FALSE
    /\ UNCHANGED <<cmds, firing, adds, ran>>

Ticking == SwapOpList \/ ProcessAndDelete \/ OperatorAdds \/ TickEnds

CmdsNext ==
    \/ \E c \in Cmd : Add(c)
    \/ Ticking

CmdsSpec == CmdsInit /\ [][CmdsNext]_cmdsVars

-----------------------------------------------------------------------------
\* Between two Ticks nothing is half done.
Quiet == ~tick => firing = << >> /\ adds = << >>

\* Commands run in the order they were added, each exactly once, whoever added
\* them and whether or not a Tick was running.
CmdsFifo == INSTANCE Fifo WITH Elem <- Cmd, Data <- {<<c>> : c \in Cmd}, queue <- firing \o cmds,
                              seen <- ran
CmdsIsFifo == CmdsFifo!Spec
=============================================================================
