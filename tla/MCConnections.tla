---------------------------- MODULE MCConnections ----------------------------
(* An instance of Connections.  Two connections, so that the second may    *)
(* get the first one's connector or a new one, and two workers.            *)
EXTENDS Connections, FiniteSetsExt

Allows(what) == [f \in {"prompt", "handles", "sends", "rejects", "faults"} |-> f \in what]

(* The freedoms that the properties' conditions leave open, together.      *)
MCSettings == {Allows(what) : what \in
    {{"prompt", "handles", "faults"}, {"rejects"}, {"sends", "rejects", "faults"}}}

MCListed(S) == FoldSet(LAMBDA e, q : Append(q, e), << >>, S)
=============================================================================
