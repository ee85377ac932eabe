----------------------------- MODULE MCGameLoop -----------------------------
(* Two workers.  A packet that enters a zone, whose command adds a second   *)
(* one that adds itself for ever, the worst case, and a packet with no      *)
(* command.  One setting has packets, the other log lines, two of which     *)
(* make a flush.                                                            *)
EXTENDS GameLoop

MCWorker == {"w1", "w2"}
MCThreads == <<"w1", "w2">>
MCLogThread == MCWorker \cup {"process", "update", "main"}
MCPacket == {"enter", "heartbeat"}
MCCmd == {"Enter", "again"}
MCFollowUp == [c \in MCCmd |-> <<"again">>]
MCCommandOf == [p \in MCPacket |-> IF p = "enter" THEN <<"Enter">> ELSE << >>]
MCSettings == {[work |-> 2, lines |-> 0, loggers |-> {}],
               [work |-> 0, lines |-> 3, loggers |-> {"w1", "update", "main"}]}
=============================================================================
