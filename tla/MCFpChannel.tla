---------------------------- MODULE MCFpChannel ----------------------------
(* FpChannel on a window of three packets and four sequence numbers beyond *)
(* the receiver's window of three.                                         *)
EXTENDS FpChannel
=============================================================================
