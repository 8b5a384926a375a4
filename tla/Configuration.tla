--------------------------- MODULE Configuration ---------------------------
(***************************************************************************)
(* What the command line asks for and what becomes of it: parseFlags,      *)
(* ParseConfig and resolveTransport either refuse it or give the transport *)
(* and the keys that a connection is started with.                         *)
(*                                                                         *)
(* Files and base64 strings are known by what they decode to, lists by     *)
(* whether anything is left of them without blanks and commas.             *)
(***************************************************************************)
EXTENDS Integers

\* A protocol name: its DH function, the letters of its pattern, whether it
\* has a psk modifier, and its cipher and hash functions.
Protocol ==
  [ dh : {"25519", "secp256k1"}, initiator : {"N", "X", "I", "K"},
    responder : {"N", "X", "K"}, psk : BOOLEAN,
    suite : {"AESGCM_SHA256", "other"} ]
NoName == [name |-> ""]
BadName == [name |-> "misspelt"]   \* parseProtocolName refuses it

Plain(i, r) == [dh |-> "25519", initiator |-> i, responder |-> r, psk |-> FALSE,
                suite |-> "AESGCM_SHA256"]
NN == Plain("N", "N")
XX == Plain("X", "X")

Flags ==
  [ keygen : BOOLEAN, validate : BOOLEAN, listen : BOOLEAN, daemon : BOOLEAN,
    exec : BOOLEAN, proxy : {"", "address", "bad"}, args : Nat,
    srcPort : {"port", "bad"}, ip4 : BOOLEAN, ip6 : BOOLEAN, udp : BOOLEAN,
    w : Int, transport : {"", "raw", "noisesocket", "bolt8", "whatsapp", "other"},
    proto : Protocol \cup {NoName, BadName}, psk : {"", "key", "bad"},
    rstatic : {"", "32 bytes", "33 bytes", "bad"},
    lstatic : {"", "25519", "secp256k1", "bad"},
    fallback : {"", "blank", "list"}, support : {"", "blank", "list"},
    policy : {"", "reject", "retry", "switch", "other"} ]

\* parseFlags: the address that a client needs and a listener has not.
ArgumentsFit(f) ==
  \/ f.keygen \/ f.validate
  \/ f.listen /\ f.args = 0
  \/ ~f.listen /\ f.args = 2
  \/ ~f.listen /\ f.args = 0 /\ f.transport = "whatsapp"

\* No host: WhatsApp's own server over a websocket.
Backend(f) == ~f.listen /\ f.args = 0

validateNegotiation(f) ==
  \/ f.fallback = "" /\ f.support = "" /\ f.policy = ""
  \/ /\ f.transport = "noisesocket"
     /\ f.listen => f.fallback = ""
     /\ ~f.listen => f.support = "" /\ f.policy = ""
     /\ f.policy # "other"

\* ParseConfig up to the protocol.
CombinationFits(f) ==
  /\ f.daemon => f.listen /\ (f.proxy # "" \/ f.exec)
  /\ f.proxy # "" => f.listen /\ ~f.exec /\ f.proxy # "bad"
  /\ f.srcPort # "bad" /\ ~(f.ip4 /\ f.ip6) /\ f.w >= 0
  /\ f.udp => f.transport \in {"", "raw"}
  /\ validateNegotiation(f)
  /\ f.transport = "whatsapp" => f.proto \in {NoName, NN, XX}

TheProtocol(f) == IF f.transport = "whatsapp" THEN XX ELSE f.proto

\* Which static keys a pattern wants from the initiator, or the responder.
NeedsLocal(p, init) ==
  IF init THEN p.initiator \in {"X", "I", "K"} ELSE p.responder \in {"X", "K"}
NeedsPeer(p, init) ==
  IF init THEN p.responder = "K" ELSE p.initiator = "K"

checkLocalKeypair(f) == f.lstatic \in {"", "25519"}
loadSecp256k1Keypair(f) == f.lstatic \in {"", "secp256k1"}

buildNoise25519Config(f, p, init) ==
  /\ p.dh # "secp256k1"
  /\ f.psk # "bad" /\ ((f.psk # "") <=> p.psk)
  /\ NeedsLocal(p, init) => checkLocalKeypair(f)
  /\ NeedsPeer(p, init) => f.rstatic = "32 bytes"

parseNoise(f) ==
  LET p == TheProtocol(f)
  IN /\ p \in Protocol
     /\ IF p.dh = "secp256k1"
        THEN loadSecp256k1Keypair(f) /\ (~f.listen => f.rstatic = "33 bytes")
        ELSE buildNoise25519Config(f, p, ~f.listen)

ParseConfig(f) ==
  IF f.keygen THEN f.proto \in Protocol ELSE CombinationFits(f) /\ parseNoise(f)

\* The configuration of an accepted command line: the transport by then, the
\* protocol, and which keys the noise.Config holds.
Config(f) ==
  LET p == TheProtocol(f)
      secp == p.dh = "secp256k1"
  IN [ transport |-> IF f.transport \in {"", "raw"}
                     THEN IF secp THEN "bolt8" ELSE "raw"
                     ELSE f.transport,
       proto |-> p,
       local |-> secp \/ NeedsLocal(p, ~f.listen),
       peer |-> IF secp THEN ~f.listen ELSE NeedsPeer(p, ~f.listen),
       psk |-> ~secp /\ f.psk # "" ]

\* Seeded bug: noisesocket takes any DH function.
ResolvesAnyDH(f, c) ==
  IF f.udp THEN c.proto.dh # "secp256k1"
  ELSE \/ c.transport \in {"raw", "whatsapp"} /\ c.proto.dh = "25519"
       \/ c.transport = "noisesocket"
       \/ c.transport = "bolt8" /\ c.proto.dh = "secp256k1"

\* The transport exists and speaks the protocol's DH function.
resolveTransport(f, c) ==
  IF f.udp THEN c.proto.dh # "secp256k1"
  ELSE \/ c.transport \in {"raw", "noisesocket", "whatsapp"} /\ c.proto.dh = "25519"
       \/ c.transport = "bolt8" /\ c.proto.dh = "secp256k1"

\* transportOptions: whether the negotiation layer runs, and whether the list
\* of what the listener supports has a first member.
negotiationEnabled(f) == IF f.listen THEN f.support # "" ELSE f.fallback # ""
Negotiates(f, c) == c.transport = "noisesocket" /\ negotiationEnabled(f)
Supported(f) == f.support = "list"

-----------------------------------------------------------------------------
\* What a handshake needs: a transport for the protocol, the static keys that
\* the pattern names, a pre-shared key exactly where the pattern has a place
\* for one, and the fixed protocol of those transports that have one.
Ready(f, c) ==
  /\ c.proto \in Protocol
  /\ (c.transport = "bolt8") <=> (c.proto.dh = "secp256k1")
  /\ f.udp => c.transport = "raw"
  /\ NeedsLocal(c.proto, ~f.listen) => c.local
  /\ c.transport = "bolt8" => c.local /\ (~f.listen => c.peer)
  /\ c.transport # "bolt8" =>
       /\ NeedsPeer(c.proto, ~f.listen) => c.peer /\ f.rstatic = "32 bytes"
       /\ c.psk <=> c.proto.psk
  /\ c.transport = "whatsapp" => c.proto = XX /\ c.local
  /\ Backend(f) => c.transport = "whatsapp"
=============================================================================
