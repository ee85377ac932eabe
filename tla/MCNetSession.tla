---------------------------- MODULE MCNetSession ----------------------------
(* Two completion threads; a packet is two units, so that a receive may     *)
(* return half of one or more than one.  A peer that waits for its answers  *)
(* is tried with every body, and with a task counter about to wrap; one     *)
(* that does not wait with three requests; and a session two schedulers     *)
(* send on with one request and one packet of the other scheduler.          *)
EXTENDS NetSession

Session(g, u, b, n, r, p) ==
    [generation |-> g, use |-> u, body |-> b, running |-> n,
     requests |-> r, pushes |-> p]

MCSettings ==
    {Session("v1", "lockstep", << 4, 7 >>, n, 3, 0) : n \in {0, IntMin + 1}}
    \cup {Session("v2", "lockstep", b, 0, 3, 0) :
            b \in {<< >>, << 0 >>, << 1 >>, << 4, 7 >>}}
    \cup {Session("v1", "pipelined", << 4, 7 >>, 0, 3, 0)}
    \cup {Session("v2", "shared", << 0 >>, 0, 1, 1)}
==============================================================================
