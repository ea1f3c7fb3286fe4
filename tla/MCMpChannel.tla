---------------------------- MODULE MCMpChannel ----------------------------
(* Bounded instances of MpChannel.                                          *)
EXTENDS MpChannel
=============================================================================
