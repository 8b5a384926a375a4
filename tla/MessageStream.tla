--------------------------- MODULE MessageStream ---------------------------
(***************************************************************************)
(* What a BOLT-8 connection promises once its handshake is done: messages  *)
(* travel whole and in order, both ways and independently.  An end hears   *)
(* no more once its peer has ended and everything has been delivered, or   *)
(* after something has gone wrong, and only then; one whose Read gave up   *)
(* may still write, one that was sent something wrong is closed.           *)
(***************************************************************************)
EXTENDS Naturals, Sequences

CONSTANT Msgs  \* message bodies

End == {"initiator", "responder"}
Peer(e) == IF e = "initiator" THEN "responder" ELSE "initiator"

VARIABLES
  sent,   \* the messages that Write has accepted of each end
  got,    \* what Read has returned to each end
  state,  \* what an end still does: "up" reads and writes, "deaf" only writes
  ended,  \* the ends that write no more
  faulty  \* something has gone wrong: a write, a deadline, or on the wire

vars == <<sent, got, state, ended, faulty>>

Body(m) == [msg |-> m]

Init ==
  /\ sent = [e \in End |-> <<>>]
  /\ got = [e \in End |-> <<>>]
  /\ state = [e \in End |-> "up"]
  /\ ended = [e \in End |-> FALSE]
  /\ faulty = FALSE

Accept(e) ==
  /\ state[e] # "closed" /\ ~ended[e]
  /\ \E m \in Msgs : sent' = [sent EXCEPT ![e] = Append(@, m)]
  /\ UNCHANGED <<got, state, ended, faulty>>

Finish(e) ==
  /\ ~ended[e]
  /\ ended' = [ended EXCEPT ![e] = TRUE]
  /\ UNCHANGED <<sent, got, state, faulty>>

Deliver(e) ==
  /\ state[e] = "up"
  /\ Len(got[e]) < Len(sent[Peer(e)])
  /\ got' = [got EXCEPT ![e] = Append(@, Body(sent[Peer(e)][Len(@) + 1]))]
  /\ UNCHANGED <<sent, state, ended, faulty>>

HearEnd(e) ==
  /\ state[e] = "up"
  /\ ended[Peer(e)] /\ Len(got[e]) = Len(sent[Peer(e)])
  /\ state' = [state EXCEPT ![e] = "deaf"]
  /\ UNCHANGED <<sent, got, ended, faulty>>

Disturb == faulty' = TRUE /\ UNCHANGED <<sent, got, state, ended>>

\* The end stops reading: not before the first fault, if with it.
Fail(e) ==
  /\ state[e] = "up"
  /\ faulty' = TRUE
  /\ \/ state' = [state EXCEPT ![e] = "deaf"]
     \/ faulty /\ state' = [state EXCEPT ![e] = "closed"]
  /\ UNCHANGED <<sent, got, ended>>

Next ==
  \/ Disturb
  \/ \E e \in End : Accept(e) \/ Finish(e) \/ Deliver(e) \/ HearEnd(e) \/ Fail(e)

Spec == Init /\ [][Next]_vars
=============================================================================
