----------------------------- MODULE MCChannels -----------------------------
(* Instances of Channels for TLC.  Liveness is checked, so that the users   *)
(* and the offices are not made symmetric.                                  *)
EXTENDS Channels
=============================================================================
