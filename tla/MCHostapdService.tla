---------------------------- MODULE MCHostapdService ----------------------------
(* HostapdService with one or two requests, an AP that comes up at most three times and a few steps of its user. *)
EXTENDS HostapdService
=============================================================================
