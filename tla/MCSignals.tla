------------------------------ MODULE MCSignals ------------------------------
(***************************************************************************)
(* Instances of Signals for TLC: a pipe for two messages, so that a third  *)
(* alarm may find it full.                                                 *)
(***************************************************************************)
EXTENDS Signals

TwoMessages == 2
=============================================================================
