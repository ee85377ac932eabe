----------------------------- MODULE MCHeartbeat -----------------------------
(* An instance of Heartbeat: scans 6 or 7 seconds apart, so that           *)
(* heartbeats are at least 18 seconds apart.                               *)
EXTENDS Heartbeat
=============================================================================
