--------------------------- MODULE MCUserSessions ---------------------------
(* Instances of UserSessions.                                              *)
EXTENDS UserSessions, TLC

Calmly(ops) == [ops |-> ops, reauth |-> FALSE, overlap |-> FALSE, late |-> FALSE]

(* Clients that enter and stay; clients that authenticate repeatedly on    *)
(* connectors that are reused early; and DoUpdate at any time.             *)
MCSettings ==
    {Calmly({"auth", "enter"}),
     [Calmly({"auth", "enter"}) EXCEPT !.reauth = TRUE, !.late = TRUE],
     [Calmly({"auth", "leave"}) EXCEPT !.overlap = TRUE]}

MCSettingsLive == {Calmly({"auth", "enter", "move"})}
MCSettingsLeave == {Calmly({"auth", "enter", "leave"})}

(* Session objects are interchangeable, and so are Connector objects.      *)
Symmetry == Permutations(Session) \cup Permutations(Connector)
=============================================================================
