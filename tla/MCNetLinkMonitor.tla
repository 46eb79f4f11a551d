---------------------------- MODULE MCNetLinkMonitor ----------------------------
(* A socket buffer of three messages; the service comes and goes without bound. *)
EXTENDS NetLinkMonitor
=============================================================================
