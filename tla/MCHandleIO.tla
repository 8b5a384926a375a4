----------------------------- MODULE MCHandleIO -----------------------------
(* Instances of HandleIO for TLC.                                          *)
EXTENDS HandleIO

MCModes == Mode
MCProxy == {[local |-> "tcp", conn |-> "tcp", lazy |-> TRUE]}
=============================================================================
