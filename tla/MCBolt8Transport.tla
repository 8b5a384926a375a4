-------------------------- MODULE MCBolt8Transport --------------------------
(* Instances of Bolt8Transport for TLC.                                    *)
EXTENDS Bolt8Transport

\* A body of two bytes that read as the length 2, and a longer one.
MCMsgs == {"two", "long"}
MCSize == [m \in MCMsgs |-> IF m = "two" THEN 2 ELSE 30]
MCAsLength == [m \in MCMsgs |-> IF m = "two" THEN 2 ELSE 7]
=============================================================================
