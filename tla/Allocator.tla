------------------------------ MODULE Allocator ------------------------------
(***************************************************************************)
(* What an object manager promises its callers: an object that is handed   *)
(* out is one nobody else has, and it is in use until it is given back.    *)
(***************************************************************************)
EXTENDS Integers

CONSTANT Object

VARIABLES inUse,   \* the objects that were handed out and not given back
          ret      \* the last one handed out, with a bit that tells two
                   \* returns of one object apart

vars == <<inUse, ret>>

Init == inUse = {} /\ ret = <<0, 0>>

Get(o) ==
    /\ o \notin inUse
    /\ inUse' = inUse \cup {o}
    /\ ret' = <<o, 1 - ret[2]>>

Free(o) ==
    /\ o \in inUse
    /\ inUse' = inUse \ {o}
    /\ UNCHANGED ret

Next == \E o \in Object : Get(o) \/ Free(o)

Spec == Init /\ [][Next]_vars
=============================================================================
