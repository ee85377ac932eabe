--------------------------- MODULE MCSessionLocks ---------------------------
(* Instances of SessionLocks: two sessions.                                *)
EXTENDS SessionLocks
=============================================================================
