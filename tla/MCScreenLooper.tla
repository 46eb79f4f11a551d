----------------------------- MODULE MCScreenLooper -----------------------------
(* Two screenLooper threads (a start and a restart) and two windows. *)
EXTENDS ScreenLooper
=============================================================================
