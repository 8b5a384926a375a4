----------------------------- MODULE Handshake -----------------------------
(***************************************************************************)
(* The two handshakes the program implements itself: the three acts of     *)
(* BOLT-8 (Noise_XK) and WhatsApp's three messages (Noise_XX), between an  *)
(* initiator and a responder over one connection.  They differ in what     *)
(* their first two messages mix in; the third one is the same in both.     *)
(*                                                                         *)
(* The cryptography is ideal: a hash is the sequence of what was mixed     *)
(* into it, a chaining key the sequence of its shared secrets, and also    *)
(* the name of the cipher key derived with it; a ciphertext opens under    *)
(* its own key, nonce and additional data and under no other.              *)
(***************************************************************************)
EXTENDS Naturals, Sequences

CONSTANTS
  Setups,     \* the callers' options and their peers, members of Setup
  MaxCalls,   \* how often a side's copy loops call BOLT-8's Handshake
  MaxFaults   \* bound: altered messages, expired deadlines and failed writes

Side == {"initiator", "responder"}
Peer(s) == IF s = "initiator" THEN "responder" ELSE "initiator"

\* Public keys: a side's static one, an ephemeral one for each run of its
\* handshake, two that neither side holds, and those that sign certificates.
Key(kind, owner, run) == [kind |-> kind, owner |-> owner, run |-> run]
Static(s) == Key("static", s, 0)
Ephemeral(s, n) == Key("ephemeral", s, n)
Stranger == Key("static", "stranger", 0)
Stray == Key("ephemeral", "stray", 0)
Signer(name) == Key("signer", name, 0)

Empty == [kind |-> "empty"]   \* no plaintext

\* Certificates: the root's for an intermediate key, that key's for a leaf.
\* valid is whether the clock is inside the window, by is who signed.
Cert == [ key    : {Static("responder"), Stranger} \cup {Signer("intermediate")},
          serial : Nat,
          issuer : Nat,
          valid  : BOOLEAN,
          by     : {Signer(n) : n \in {"root", "intermediate", "other"}} ]
Chain == [intermediate : Cert, leaf : Cert]

\* A BOLT-8 initiator is given its peer's static key (-rstatic); a WhatsApp
\* one meets another noisecat ("peer") or WhatsApp's server, with a chain --
\* or with one that lacks a certificate or a part of it, which is Empty here.
Setup ==
  [proto : {"bolt8"}, rstatic : {Static("responder"), Stranger}, payload : {Empty}]
    \cup [proto : {"peer"}, payload : {Empty}]
    \cup [proto : {"backend"}, payload : Chain \cup {Empty}]

ASSUME SetupsAssumption == Setups \subseteq Setup
ASSUME BoundsAssumption == MaxCalls \in Nat \ {0} /\ MaxFaults \in Nat

VARIABLES
  setup,      \* the caller's options and the peer they reach
  pc,         \* where a side is; "act1" to "act3" is the message it waits for
  calls,      \* runs of the handshake a side has begun
  st,         \* a side's handshake state: hash, chaining key, own ephemeral key
  session,    \* what a side's handshake has ended with
  wire,       \* messages on their way to a side
  scrambled,  \* what a side has yet to read does not begin with a message
  faults,     \* altered messages, expired deadlines and failed writes so far
  sealed      \* every ciphertext that has been written so far

vars == <<setup, pc, calls, st, session, wire, scrambled, faults, sealed>>

Bolt8 == setup.proto = "bolt8"
NoSession == [peer |-> Stray]
NoState == [h |-> <<>>, ck |-> <<>>, own |-> Stray]

Init ==
  /\ setup \in Setups
  /\ pc = [s \in Side |-> "new"]
  /\ calls = [s \in Side |-> 0]
  /\ st = [s \in Side |-> NoState]
  /\ session = [s \in Side |-> NoSession]
  /\ wire = [s \in Side |-> <<>>]
  /\ scrambled = [s \in Side |-> FALSE]
  /\ faults = 0
  /\ sealed = {}

-----------------------------------------------------------------------------
(* Ideal cryptography.                                                     *)

\* ecdh, X25519: what the holder of either private key computes.
Secret(a, b) == {a, b}

MixHash(x, item) == [x EXCEPT !.h = Append(@, item)]
MixKey(x, secret) == [x EXCEPT !.ck = Append(@, secret)]

Seal(x, nonce, plain) ==
  [key |-> x.ck, nonce |-> nonce, ad |-> x.h, plain |-> plain]
Opens(x, nonce, c) == c.key = x.ck /\ c.nonce = nonce /\ c.ad = x.h

\* A field that a message has not, or that opens under no key at all: neither
\* handshake ever comes to nonce 2.
NoCipher == [key |-> <<>>, nonce |-> 2, ad |-> <<>>, plain |-> Empty]

\* Seeded bug: the responder does not swap the two keys.
SameSplit(s, ck) ==
  [send |-> [of |-> ck, half |-> 1], receive |-> [of |-> ck, half |-> 2]]

\* The keys of the session: the two halves of the last expansion.
Split(s, ck) ==
  LET half(i) == [of |-> ck, half |-> i]
  IN IF s = "initiator" THEN [send |-> half(1), receive |-> half(2)]
                        ELSE [send |-> half(2), receive |-> half(1)]

Session(s, x, peer) ==
  [ transcript |-> x.h, peer |-> peer,
    send |-> Split(s, x.ck).send, receive |-> Split(s, x.ck).receive ]

-----------------------------------------------------------------------------
(* What the messages mix in.                                               *)

\* The state in which the first message's tag is made, with es the secret of
\* the initiator's ephemeral key e and the responder's static key rs.
First(rs, e, es) ==
  IF Bolt8 THEN [h |-> <<rs, e>>, ck |-> <<es>>, own |-> e]
           ELSE [h |-> <<e>>, ck |-> <<>>, own |-> e]
FirstTag(x) == IF Bolt8 THEN Seal(x, 0, Empty) ELSE NoCipher
AfterFirst(x, t) == IF Bolt8 THEN MixHash(x, t) ELSE x

\* The second message: both ephemeral keys, and for WhatsApp the responder's
\* encrypted static key c with its secret.
Second(x, e, ee) == MixKey(MixHash(x, e), ee)
SecondStatic(x, c, es) == IF Bolt8 THEN x ELSE MixKey(MixHash(x, c), es)

\* Seeded bug: the counter is not advanced from the second message's tag.
SameStaticNonce == 0

\* The initiator's static key is sealed under the key of the second tag.
StaticNonce == 1

\* The third message: the initiator's encrypted static key and its secret.
Third(x, c, se) == MixKey(MixHash(x, c), se)

\* Seeded bug: the leaf, too, must name the root as its issuer.
RootIssuedLeaf(c, key) ==
  /\ c # Empty
  /\ c.intermediate.by = Signer("root") /\ c.intermediate.issuer = 0
  /\ c.leaf.by = c.intermediate.key /\ c.leaf.issuer = 0
  /\ c.leaf.key = key
  /\ c.intermediate.valid /\ c.leaf.valid

\* Seeded bug: the chain is verified but not compared with the static key.
UnboundChain(c, key) ==
  /\ c # Empty
  /\ c.intermediate.by = Signer("root") /\ c.intermediate.issuer = 0
  /\ c.leaf.by = c.intermediate.key /\ c.leaf.issuer = c.intermediate.serial
  /\ c.intermediate.valid /\ c.leaf.valid

verifyServerCert(c, key) ==
  /\ c # Empty
  /\ c.intermediate.by = Signer("root") /\ c.intermediate.issuer = 0
  /\ c.leaf.by = c.intermediate.key /\ c.leaf.issuer = c.intermediate.serial
  /\ c.leaf.key = key
  /\ c.intermediate.valid /\ c.leaf.valid

-----------------------------------------------------------------------------
(* Steps of a side: from one blocking read to the next.                    *)

\* Handshake returns an error; a message that s has read is gone.
Fail(s) ==
  /\ pc' = [pc EXCEPT ![s] = "failed"]
  /\ UNCHANGED <<setup, calls, st, session, sealed>>
Read(s) == wire' = [wire EXCEPT ![s] = Tail(@)]
ReadAndWrite(s, m) ==
  wire' = [wire EXCEPT ![s] = Tail(@), ![Peer(s)] = Append(@, m)]

\* conn.Write returns an error: the peer has reset the connection, or the relay
\* has half-closed it before the lazy handshake.  The message fits the socket's
\* buffer, so that nothing of it is sent.
WriteFails == faults < MaxFaults /\ faults' = faults + 1

\* The version byte is 0; the protobuf has the message's fields, of their lengths.
Parses(m) == m.ok

\* The message s waits for is whole at the front of what it has received.
Arrived(s, act) ==
  /\ pc[s] = act /\ ~scrambled[s]
  /\ wire[s] # <<>> /\ Head(wire[s]).act = act

\* Seeded bug: Handshake does not look at handshakeDone.
MayCallAnyTime(s) ==
  /\ pc[s] \in {"new", "failed", "done"}
  /\ calls[s] < IF Bolt8 THEN MaxCalls ELSE 1

\* BOLT-8's Handshake runs again after a failure, when the other copy loop
\* calls it; WhatsApp's runs once, in Dial or under sync.Once.
MayCall(s) ==
  /\ pc[s] \in {"new", "failed"}
  /\ calls[s] < IF Bolt8 THEN MaxCalls ELSE 1

StartInitiator ==
  /\ MayCall("initiator")
  /\ LET n == calls["initiator"] + 1
         e == Ephemeral("initiator", n)
         x == IF Bolt8 THEN First(setup.rstatic, e, Secret(e, setup.rstatic))
                       ELSE First(Stray, e, {})
         t == FirstTag(x)
     IN /\ calls' = [calls EXCEPT !["initiator"] = n]
        /\ \/ /\ st' = [st EXCEPT !["initiator"] = AfterFirst(x, t)]
              /\ wire' = [wire EXCEPT !["responder"] =
                            Append(@, [act |-> "act1", ok |-> TRUE, e |-> e,
                                       s |-> NoCipher, t |-> t])]
              /\ sealed' = sealed \cup (IF Bolt8 THEN {t} ELSE {})
              /\ pc' = [pc EXCEPT !["initiator"] = "act2"]
              /\ UNCHANGED faults
           \/ /\ WriteFails
              /\ pc' = [pc EXCEPT !["initiator"] = "failed"]
              /\ UNCHANGED <<st, wire, sealed>>
  /\ UNCHANGED <<setup, session, scrambled>>

StartResponder ==
  /\ MayCall("responder")
  /\ calls' = [calls EXCEPT !["responder"] = @ + 1]
  /\ pc' = [pc EXCEPT !["responder"] = "act1"]
  /\ UNCHANGED <<setup, st, session, wire, scrambled, faults, sealed>>

ReadAct1 ==
  LET m == Head(wire["responder"])
      rs == Static("responder")
      x == First(rs, m.e, Secret(rs, m.e))
      e == Ephemeral("responder", calls["responder"])
      y == Second(AfterFirst(x, m.t), e, Secret(e, m.e))
      c == IF Bolt8 THEN NoCipher ELSE Seal(y, 0, rs)
      z == SecondStatic(y, c, Secret(rs, m.e))
      t == Seal(z, 0, setup.payload)
      accepted == Parses(m) /\ (Bolt8 => Opens(x, 0, m.t))
  IN /\ Arrived("responder", "act1")
     /\ \/ /\ accepted
           /\ st' = [st EXCEPT !["responder"] = [MixHash(z, t) EXCEPT !.own = e]]
           /\ pc' = [pc EXCEPT !["responder"] = "act3"]
           /\ ReadAndWrite("responder",
                [act |-> "act2", ok |-> TRUE, e |-> e, s |-> c, t |-> t])
           /\ sealed' = sealed \cup {t} \cup (IF Bolt8 THEN {} ELSE {c})
           /\ UNCHANGED <<setup, calls, session, faults>>
        \/ /\ \/ ~accepted /\ UNCHANGED faults
              \/ accepted /\ WriteFails
           /\ Fail("responder") /\ Read("responder")
     /\ UNCHANGED scrambled

ReadAct2 ==
  LET m == Head(wire["initiator"])
      i == st["initiator"]
      y == Second(i, m.e, Secret(i.own, m.e))
      rs == IF Bolt8 THEN setup.rstatic ELSE m.s.plain
      z == SecondStatic(y, m.s, Secret(i.own, rs))
      x == MixHash(z, m.t)
      c == Seal(x, StaticNonce, Static("initiator"))
      w == Third(x, c, Secret(Static("initiator"), m.e))
      t == Seal(w, 0, Empty)
      accepted ==
        /\ Parses(m) /\ Opens(z, 0, m.t)
        /\ Bolt8 \/ Opens(y, 0, m.s)
        /\ setup.proto = "backend" => verifyServerCert(m.t.plain, rs)
  IN /\ Arrived("initiator", "act2")
     /\ \/ /\ accepted
           /\ st' = [st EXCEPT !["initiator"] = w]
           /\ session' = [session EXCEPT !["initiator"] = Session("initiator", w, rs)]
           /\ pc' = [pc EXCEPT !["initiator"] = "done"]
           /\ ReadAndWrite("initiator",
                [act |-> "act3", ok |-> TRUE, e |-> Stray, s |-> c, t |-> t])
           /\ sealed' = sealed \cup {c, t}
           /\ UNCHANGED <<setup, calls, faults>>
        \/ /\ \/ ~accepted /\ UNCHANGED faults
              \/ accepted /\ WriteFails
           /\ Fail("initiator") /\ Read("initiator")
     /\ UNCHANGED scrambled

ReadAct3 ==
  LET m == Head(wire["responder"])
      x == st["responder"]
      w == Third(x, m.s, Secret(x.own, m.s.plain))
      accepted == Parses(m) /\ Opens(x, StaticNonce, m.s) /\ Opens(w, 0, m.t)
  IN /\ Arrived("responder", "act3")
     /\ \/ /\ accepted
           /\ st' = [st EXCEPT !["responder"] = w]
           /\ session' = [session EXCEPT !["responder"] =
                            Session("responder", w, m.s.plain)]
           /\ pc' = [pc EXCEPT !["responder"] = "done"]
           /\ UNCHANGED <<setup, calls, sealed>>
        \/ ~accepted /\ Fail("responder")
     /\ Read("responder")
     /\ UNCHANGED <<scrambled, faults>>

-----------------------------------------------------------------------------
(* What else happens to a side, and to the connection.                     *)

Waiting == {"act1", "act2", "act3"}
Size(act) == IF act = "act3" THEN 66 ELSE 50

\* BOLT-8's acts have fixed sizes and no other framing: a run that begins
\* where an earlier one was left reads across acts, once there are bytes
\* enough, and fails.
ReadMisframed(s) ==
  /\ pc[s] \in Waiting /\ wire[s] # <<>>
  /\ \/ scrambled[s]
     \/ Head(wire[s]).act # pc[s]
        /\ (Len(wire[s]) > 1 \/ Size(Head(wire[s]).act) >= Size(pc[s]))
  /\ Fail(s) /\ Read(s)
  /\ scrambled' = [scrambled EXCEPT ![s] = TRUE]
  /\ UNCHANGED faults

\* The connection's deadline passes in io.ReadFull, which may have consumed
\* part of what has arrived.
ReadTimeout(s) ==
  /\ pc[s] \in Waiting /\ faults < MaxFaults
  /\ Fail(s)
  /\ \E part \in {FALSE, wire[s] # <<>>} :
       scrambled' = [scrambled EXCEPT ![s] = @ \/ part]
  /\ faults' = faults + 1
  /\ UNCHANGED wire

\* The caller gives up: Dial returns its error, or the relay's copy loops have
\* ended, or its safety timer has run out while one of them is in the second run.
Close(s) ==
  /\ pc[s] = "failed" \/ (pc[s] \in Waiting /\ calls[s] > 1)
  /\ pc' = [pc EXCEPT ![s] = "closed"]
  /\ UNCHANGED <<setup, calls, st, session, wire, scrambled, faults, sealed>>

\* Seeded bug: only an initiator notices that its peer has gone.
InitiatorLosesConnection(s) ==
  /\ s = "initiator"
  /\ pc[s] \in Waiting /\ pc[Peer(s)] \in {"failed", "closed"}
  /\ Fail(s)
  /\ UNCHANGED <<wire, scrambled, faults>>

\* The peer has half-closed or closed, and a message is not read any more.
LosesConnection(s) ==
  /\ pc[s] \in Waiting /\ pc[Peer(s)] \in {"failed", "closed"}
  /\ Fail(s)
  /\ UNCHANGED <<wire, scrambled, faults>>

\* A message on the wire is altered: its version byte or its protobuf, the
\* ephemeral key, or one of the ciphertexts.
Alter(s) ==
  /\ faults < MaxFaults
  /\ wire[s] # <<>>
  /\ LET m == Head(wire[s])
     IN \E a \in {[m EXCEPT !.ok = FALSE], [m EXCEPT !.e = Stray],
                  [m EXCEPT !.s = NoCipher], [m EXCEPT !.t = NoCipher]} \ {m} :
          wire' = [wire EXCEPT ![s][1] = a]
  /\ faults' = faults + 1
  /\ UNCHANGED <<setup, pc, calls, st, session, scrambled, sealed>>

Next ==
  \/ StartInitiator \/ StartResponder
  \/ ReadAct1 \/ ReadAct2 \/ ReadAct3
  \/ \E s \in Side : \/ ReadMisframed(s) \/ ReadTimeout(s)
                     \/ Close(s) \/ LosesConnection(s) \/ Alter(s)

\* The first call comes with Dial or with the copy loop that reads; the second
\* one only if the other loop has something to send.
Fairness ==
  /\ WF_vars(calls["initiator"] = 0 /\ StartInitiator)
  /\ WF_vars(calls["responder"] = 0 /\ StartResponder)
  /\ WF_vars(ReadAct1) /\ WF_vars(ReadAct2) /\ WF_vars(ReadAct3)
  /\ \A s \in Side : WF_vars(Close(s)) /\ WF_vars(LosesConnection(s))

Spec == Init /\ [][Next]_vars
FairSpec == Spec /\ Fairness

-----------------------------------------------------------------------------
(* What a handshake promises.                                              *)

TypeOK ==
  /\ setup \in Setups
  /\ pc \in [Side -> {"new", "done", "failed", "closed"} \cup Waiting]
  /\ calls \in [Side -> 0..MaxCalls]
  /\ DOMAIN session = Side /\ DOMAIN st = Side /\ DOMAIN wire = Side
  /\ \A s \in Side : /\ (session[s] # NoSession) <=> (pc[s] = "done")
                     /\ wire[s] \in Seq({wire[s][k] : k \in DOMAIN wire[s]})
  /\ scrambled \in [Side -> BOOLEAN]
  /\ faults \in 0..MaxFaults

\* The sides that finish have one session: the initiator ends first, with the
\* static key of the side it talks to, and the responder only with the very same
\* transcript, the initiator's static key and the mirrored keys -- whatever is
\* altered, times out, or is run again over a byte stream left in the middle.
KX == INSTANCE KeyExchange
        WITH session <- session, NoSession <- NoSession,
             Identity <- [s \in Side |-> Static(s)]
IsKeyExchange == KX!Spec

\* In the handshake, too, no key and nonce seal two different texts, although
\* both sides seal under the key of the second message.
NonceUsedOnce ==
  \A a, b \in sealed : a.key = b.key /\ a.nonce = b.nonce => a = b

\* A client of WhatsApp's server that has a session has it with the key the
\* root vouches for, through certificates that are valid at that time.
Vouched(c) ==
  {k \in IF c = Empty THEN {} ELSE {c.leaf.key} :
     LET i == c.intermediate
     IN /\ i.by = Signer("root") /\ i.issuer = 0 /\ i.valid
        /\ c.leaf.by = i.key /\ c.leaf.issuer = i.serial /\ c.leaf.valid}
ServerIsVouched ==
  setup.proto = "backend" /\ session["initiator"] # NoSession
    => session["initiator"].peer \in Vouched(setup.payload)

\* Options that fit, and nothing altered, late or unwritten: both sides get a
\* session.
FittingSetup ==
  CASE Bolt8 -> setup.rstatic = Static("responder")
    [] setup.proto = "peer" -> TRUE
    [] setup.proto = "backend" -> Static("responder") \in Vouched(setup.payload)
BothDone == \A s \in Side : pc[s] = "done"
Completes == FittingSetup ~> (BothDone \/ faults > 0)

\* No side waits for ever: it has a session or a closed connection.
Terminates == <>(\A s \in Side : pc[s] \in {"done", "closed"})
=============================================================================
