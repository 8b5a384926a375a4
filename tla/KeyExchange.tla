---------------------------- MODULE KeyExchange ----------------------------
(***************************************************************************)
(* What a handshake promises to the transport phase, whatever its          *)
(* messages: the side that writes the last message has its session first,  *)
(* with the peer it meant to reach; the other one then has the mirror      *)
(* image of that session or none; a session, once there, stays.            *)
(***************************************************************************)

CONSTANTS
  Identity,   \* the static public key of each side
  NoSession   \* the value of a side that has not finished its handshake

VARIABLE session  \* per side: transcript, key to send, key to receive, peer

First == "initiator"
Last == "responder"

Init == session = [s \in {First, Last} |-> NoSession]

Mirrors(a, b) ==
  /\ a.transcript = b.transcript
  /\ a.send = b.receive /\ a.receive = b.send

EstablishFirst ==
  /\ session[First] = NoSession /\ session[Last] = NoSession
  /\ session'[First] # NoSession
  /\ session'[First].peer = Identity[Last]
  /\ session' = [session EXCEPT ![First] = session'[First]]

EstablishLast ==
  /\ session[First] # NoSession /\ session[Last] = NoSession
  /\ session'[Last] # NoSession
  /\ session'[Last].peer = Identity[First]
  /\ Mirrors(session[First], session'[Last])
  /\ session' = [session EXCEPT ![Last] = session'[Last]]

Next == EstablishFirst \/ EstablishLast

Spec == Init /\ [][Next]_session
=============================================================================
