----------------------------- MODULE MCCodecSession -----------------------------
(* A start, a stop and a restart, one configuration and one access unit, and   *)
(* codecs with a single input buffer: a second feeder finds none free, and a   *)
(* foreign index is that of the one buffer the next codec has.                 *)
EXTENDS CodecSession
=============================================================================
