----------------------------- MODULE MCRfcommManager -----------------------------
(* Two connections and two stops, over one or two devices. *)
EXTENDS RfcommManager
=============================================================================
