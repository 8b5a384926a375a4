---------------------------- MODULE Negotiation ----------------------------
(***************************************************************************)
(* The negotiation layer of the noisesocket transport: the client proposes *)
(* a Noise protocol, the server accepts it, rejects it, asks for a retry   *)
(* with another protocol, or switches roles; the frames of dead attempts   *)
(* are chained into the prologue of the next one.                          *)
(*                                                                         *)
(* Handshake() does not remember a failure, and the two copy loops of      *)
(* handleIO each call it through Read and Write, so that a side may run it *)
(* MaxCalls times over the same byte stream.  A frame may be altered on    *)
(* the wire (MaxAltered of them), which the layer promises to detect.      *)
(***************************************************************************)
EXTENDS Naturals, Sequences, FiniteSets

CONSTANTS
  Protocols,       \* protocol names
  NMsgs,           \* messages of a protocol's handshake pattern
  FirstTag,        \* index of its first message with an authentication tag
  Configs,         \* the pairs of client and server configurations
  MaxNegAttempts,  \* maxNegAttempts
  MaxCalls,        \* how often a side's copy loops call Handshake
  MaxAltered       \* bound: frames altered on the wire

Side == {"client", "server"}
Peer(s) == IF s = "client" THEN "server" ELSE "client"
Policy == {"reject", "retry", "switch"}

\* builds[s] holds the pairs <<protocol, initiator>> for which BuildConfig of
\* side s has the key material.
Config == [ proposed  : Protocols,
            fallback  : SUBSET Protocols,
            supported : Seq(Protocols) \ {<<>>},
            policy    : Policy,
            builds    : [Side -> SUBSET (Protocols \X BOOLEAN)],
            app       : [Side -> {"app1", "app2"}] ]

ASSUME ProtocolsAssumption ==
  /\ NMsgs \in [Protocols -> Nat \ {0, 1}]
  /\ FirstTag \in [Protocols -> {0, 1}]

\* ParseConfig has built the client's configuration for -proto at the start.
ParsedConfig == {c \in Config : <<c.proposed, TRUE>> \in c.builds["client"]}

ASSUME ConfigsAssumption == Configs \subseteq ParsedConfig

ASSUME BoundsAssumption ==
  /\ MaxNegAttempts \in Nat \ {0}
  /\ MaxCalls \in Nat /\ MaxAltered \in Nat

-----------------------------------------------------------------------------
(* What travels: frames of negotiation_data and a Noise message.           *)

NoNeg == [action |-> "none"]
Garbled == [action |-> "garbled"]      \* whatever parseNeg refuses
Proposal(p, d) == [action |-> "propose", proto |-> p, data |-> d]
Reject == [action |-> "reject"]
Retry(p) == [action |-> "retry", proto |-> p]
Switch(p) == [action |-> "switch", proto |-> p]

Neg == {NoNeg, Garbled, Reject}
         \cup {Proposal(p, d) : p \in Protocols, d \in {"data", "other"}}
         \cup {Retry(p) : p \in Protocols}
         \cup {Switch(p) : p \in Protocols}

\* A Noise message is known by who wrote it, in which call, attempt and
\* position: its ephemeral key makes it unlike any other.
Id == Side \X Nat \X Nat \X Nat
NoId == <<>>
Record == [neg : Neg, id : Id \cup {NoId}]

\* The handshake hash: protocol, prologue (the first frame's negotiation_data,
\* the application prologue, the frames of the dead attempts), messages so far.
Hash == [ proto : Protocols, neg : Neg, app : {"app1", "app2"},
          dead : Seq(Record), ids : Seq(Id) ]
Message == [id : Id, h : Hash]
NoMsg == [id |-> NoId]
Frame == [neg : Neg, msg : Message \cup {NoMsg}]

FrameBytes(f) == [neg |-> f.neg, id |-> f.msg.id]

\* Seeded bug: the prologue is not chained.
UnchainedHS(p, neg, app, d) ==
  [proto |-> p, neg |-> neg, app |-> app, dead |-> <<>>, ids |-> <<>>]

NewHS(p, neg, app, d) ==
  [proto |-> p, neg |-> neg, app |-> app, dead |-> d, ids |-> <<>>]
MixId(h, id) == [h EXCEPT !.ids = Append(@, id)]
Complete(h) == Len(h.ids) = NMsgs[h.proto]
WriteTurn(h, init) == (Len(h.ids) % 2 = 0) <=> init

\* Seeded bug: the server does not swap the pair.
UnswappedCiphers(s) == [out |-> "cs1", in |-> "cs2"]

\* assignCipherStates: by who dialled, whatever the Noise role.
Ciphers(s) == IF s = "client" THEN [out |-> "cs1", in |-> "cs2"]
                              ELSE [out |-> "cs2", in |-> "cs1"]

\* What ReadMessage may answer: a message without a tag may be taken for
\* another one of the same length.
ReadMessage(h, m) ==
  IF m = NoMsg THEN {FALSE}
  ELSE IF m.h = h THEN {TRUE}
  ELSE IF Len(h.ids) >= FirstTag[h.proto] THEN {FALSE} ELSE BOOLEAN

-----------------------------------------------------------------------------
VARIABLES
  cfg,        \* the two sides' options, fixed for the connection
  pc,         \* where each side's Handshake stands
  calls,      \* calls of Handshake each side has begun
  attempt,    \* the loop counter of the present call
  dead,       \* its transcript of dead attempts
  hs,         \* its handshake state's hash
  initiator,  \* its Noise role
  chan,       \* frames on their way to each side
  altered     \* the actions of the frames altered so far

vars == <<cfg, pc, calls, attempt, dead, hs, initiator, chan, altered>>

Waiting == {"reply", "proposal", "drive"}   \* blocked in readHandshakeFrame
NoHS == [ids |-> <<>>]

Init ==
  /\ cfg \in Configs
  /\ pc = [s \in Side |-> "new"]
  /\ calls = [s \in Side |-> 0]
  /\ attempt = [s \in Side |-> 0]
  /\ dead = [s \in Side |-> <<>>]
  /\ hs = [s \in Side |-> NoHS]
  /\ initiator = [s \in Side |-> s = "client"]
  /\ chan = [s \in Side |-> <<>>]
  /\ altered = <<>>

Builds(s, p, init) == <<p, init>> \in cfg.builds[s]

\* Seeded bug: the client follows whatever the server asks for.
AnyProtocol(p) == TRUE

AllowedProtocol(p) == p = cfg.proposed \/ p \in cfg.fallback
Supports(p) == \E i \in DOMAIN cfg.supported : cfg.supported[i] = p
Target == cfg.supported[1]

NewId(s, h) == <<s, calls[s], attempt[s], Len(h.ids)>>

\* Handshake returns an error; nothing of the failure is kept.
Fail(s) ==
  /\ pc' = [pc EXCEPT ![s] = "failed"]
  /\ UNCHANGED <<cfg, calls, attempt, dead, hs, initiator, altered>>

\* What s has read leaves its channel; a frame it writes reaches its peer's.
ReadOnly(s) == chan' = [chan EXCEPT ![s] = Tail(@)]
ReadAndWrite(s, f) ==
  chan' = [chan EXCEPT ![s] = Tail(@), ![Peer(s)] = Append(@, f)]

(* driveFrom, from the reading of message m in state h: the rest of the    *)
(* handshake up to the next frame it must wait for.                        *)
DriveFrom(s, h, init, m) ==
  \E ok \in ReadMessage(h, m) :
    LET read == MixId(h, m.id)
        written == MixId(read, NewId(s, read))
        reply == [neg |-> NoNeg, msg |-> [id |-> NewId(s, read), h |-> read]]
    IN \/ /\ ~ok
          /\ Fail(s)
          /\ ReadOnly(s)
       \/ /\ ok
          /\ ~Complete(read) /\ WriteTurn(read, init)
          /\ hs' = [hs EXCEPT ![s] = written]
          /\ initiator' = [initiator EXCEPT ![s] = init]
          /\ pc' = [pc EXCEPT ![s] = IF Complete(written) THEN "done" ELSE "drive"]
          /\ ReadAndWrite(s, reply)
          /\ UNCHANGED <<cfg, calls, attempt, dead, altered>>
       \/ /\ ok
          /\ Complete(read)
          /\ hs' = [hs EXCEPT ![s] = read]
          /\ initiator' = [initiator EXCEPT ![s] = init]
          /\ pc' = [pc EXCEPT ![s] = "done"]
          /\ ReadOnly(s)
          /\ UNCHANGED <<cfg, calls, attempt, dead, altered>>

\* A negotiation frame without a Noise message leaves driveFrom nothing
\* pending: it waits for another frame.
DriveFromPending(s, h, init, m) ==
  \/ /\ m # NoMsg
     /\ DriveFrom(s, h, init, m)
  \/ /\ m = NoMsg
     /\ hs' = [hs EXCEPT ![s] = h]
     /\ initiator' = [initiator EXCEPT ![s] = init]
     /\ pc' = [pc EXCEPT ![s] = "drive"]
     /\ ReadOnly(s)
     /\ UNCHANGED <<cfg, calls, attempt, dead, altered>>

-----------------------------------------------------------------------------
(* The client.                                                             *)

ProposalHS(p, d) == NewHS(p, Proposal(p, "data"), cfg.app["client"], d)
ProposalFrame(call, n, p, d) ==
  [neg |-> Proposal(p, "data"),
   msg |-> [id |-> <<"client", call, n, 0>>, h |-> ProposalHS(p, d)]]

\* Turn n of negotiateInitiator's loop, with transcript d, as far as the wait
\* for the reply: it may propose p.
Propose(call, n, p, d) ==
  /\ n < MaxNegAttempts
  /\ Builds("client", p, TRUE)
  /\ hs' = [hs EXCEPT !["client"] =
              MixId(ProposalHS(p, d), <<"client", call, n, 0>>)]
  /\ initiator' = [initiator EXCEPT !["client"] = TRUE]
  /\ pc' = [pc EXCEPT !["client"] = "reply"]
  /\ calls' = [calls EXCEPT !["client"] = call]
  /\ attempt' = [attempt EXCEPT !["client"] = n]
  /\ dead' = [dead EXCEPT !["client"] = d]
  /\ UNCHANGED <<cfg, altered>>

\* Seeded bug: no mutex keeps the second copy loop out of a running call.
MayCallAnyTime(s) == pc[s] # "done" /\ calls[s] < MaxCalls

\* A copy loop calls Handshake: the first time, or after a call that failed.
MayCall(s) == pc[s] \in {"new", "failed"} /\ calls[s] < MaxCalls

StartClient ==
  /\ MayCall("client")
  /\ Propose(calls["client"] + 1, 0, cfg.proposed, <<>>)
  /\ chan' = [chan EXCEPT !["server"] =
                Append(@, ProposalFrame(calls["client"] + 1, 0, cfg.proposed, <<>>))]

\* The frame the client sent in this attempt, as its transcript has it.
SentFrame == [neg |-> hs["client"].neg, id |-> hs["client"].ids[1]]

\* The client reads the reply to its proposal: frame f.
ReadAccept(f) ==
  /\ f.neg = NoNeg
  /\ DriveFromPending("client", hs["client"], TRUE, f.msg)

ReadReject(f) ==
  /\ f.neg = Garbled \/ f.neg = Reject \/ f.neg.action = "propose"
  /\ Fail("client")
  /\ ReadOnly("client")

\* Seeded bug: the retry itself is not chained by the client.
ProposalOnlyTranscript(f) == Append(dead["client"], SentFrame)

RetryTranscript(f) == dead["client"] \o <<SentFrame, FrameBytes(f)>>

ReadRetry(f) ==
  /\ f.neg.action = "retry"
  /\ LET p == f.neg.proto
         n == attempt["client"] + 1
         d == RetryTranscript(f)
     IN \/ /\ AllowedProtocol(p)
           /\ Propose(calls["client"], n, p, d)
           /\ ReadAndWrite("client", ProposalFrame(calls["client"], n, p, d))
        \/ /\ ~AllowedProtocol(p) \/ n >= MaxNegAttempts \/ ~Builds("client", p, TRUE)
           /\ Fail("client")
           /\ ReadOnly("client")

SwitchHS(f, d) == NewHS(f.neg.proto, f.neg, cfg.app["client"], d)

ReadSwitch(f) ==
  /\ f.neg.action = "switch"
  /\ LET p == f.neg.proto
     IN \/ /\ AllowedProtocol(p) /\ Builds("client", p, FALSE)
           /\ DriveFromPending("client", SwitchHS(f, Append(dead["client"], SentFrame)),
                               FALSE, f.msg)
        \/ /\ ~AllowedProtocol(p) \/ ~Builds("client", p, FALSE)
           /\ Fail("client")
           /\ ReadOnly("client")

ReadReply ==
  /\ pc["client"] = "reply"
  /\ chan["client"] # <<>>
  /\ LET f == Head(chan["client"])
     IN ReadAccept(f) \/ ReadReject(f) \/ ReadRetry(f) \/ ReadSwitch(f)

-----------------------------------------------------------------------------
(* The server.                                                             *)

StartServer ==
  /\ MayCall("server")
  /\ pc' = [pc EXCEPT !["server"] = "proposal"]
  /\ calls' = [calls EXCEPT !["server"] = @ + 1]
  /\ attempt' = [attempt EXCEPT !["server"] = 0]
  /\ dead' = [dead EXCEPT !["server"] = <<>>]
  /\ UNCHANGED <<cfg, hs, initiator, chan, altered>>

\* The server reads frame f where it expects a proposal.
ReadNoProposal(f) ==
  /\ f.neg.action # "propose"
  /\ Fail("server")
  /\ ReadOnly("server")

AcceptHS(f) == NewHS(f.neg.proto, f.neg, cfg.app["server"], dead["server"])

AcceptProposal(f) ==
  /\ Supports(f.neg.proto)
  /\ \/ /\ Builds("server", f.neg.proto, FALSE)
        /\ DriveFromPending("server", AcceptHS(f), FALSE, f.msg)
     \/ /\ ~Builds("server", f.neg.proto, FALSE)
        /\ Fail("server")
        /\ ReadOnly("server")

RejectProposal(f) ==
  /\ ~Supports(f.neg.proto) /\ cfg.policy = "reject"
  /\ Fail("server")
  /\ ReadAndWrite("server", [neg |-> Reject, msg |-> NoMsg])

RetryReply == [neg |-> Retry(Target), msg |-> NoMsg]
RetryDead(f) == dead["server"] \o <<FrameBytes(f), FrameBytes(RetryReply)>>

\* Seeded bug: the server's loop has no bound.
AskRetryForever(f) ==
  /\ ~Supports(f.neg.proto) /\ cfg.policy = "retry"
  /\ attempt' = [attempt EXCEPT !["server"] = @ + 1]
  /\ dead' = [dead EXCEPT !["server"] = RetryDead(f)]
  /\ pc' = [pc EXCEPT !["server"] = "proposal"]
  /\ ReadAndWrite("server", RetryReply)
  /\ UNCHANGED <<cfg, calls, hs, initiator, altered>>

AskRetry(f) ==
  /\ ~Supports(f.neg.proto) /\ cfg.policy = "retry"
  /\ attempt' = [attempt EXCEPT !["server"] = @ + 1]
  /\ dead' = [dead EXCEPT !["server"] = RetryDead(f)]
  /\ pc' = [pc EXCEPT !["server"] =
              IF attempt["server"] + 1 < MaxNegAttempts THEN "proposal" ELSE "failed"]
  /\ ReadAndWrite("server", RetryReply)
  /\ UNCHANGED <<cfg, calls, hs, initiator, altered>>

ServerSwitchHS(f) ==
  NewHS(Target, Switch(Target), cfg.app["server"],
        Append(dead["server"], FrameBytes(f)))

AskSwitch(f) ==
  /\ ~Supports(f.neg.proto) /\ cfg.policy = "switch"
  /\ LET h == ServerSwitchHS(f)
         id == NewId("server", h)
     IN \/ /\ Builds("server", Target, TRUE)
           /\ hs' = [hs EXCEPT !["server"] = MixId(h, id)]
           /\ initiator' = [initiator EXCEPT !["server"] = TRUE]
           /\ pc' = [pc EXCEPT !["server"] = "drive"]
           /\ ReadAndWrite("server", [neg |-> Switch(Target),
                                      msg |-> [id |-> id, h |-> h]])
           /\ UNCHANGED <<cfg, calls, attempt, dead, altered>>
        \/ /\ ~Builds("server", Target, TRUE)
           /\ Fail("server")
           /\ ReadOnly("server")

ReadProposal ==
  /\ pc["server"] = "proposal"
  /\ chan["server"] # <<>>
  /\ LET f == Head(chan["server"])
     IN \/ ReadNoProposal(f)
        \/ /\ f.neg.action = "propose"
           /\ \/ AcceptProposal(f) \/ RejectProposal(f)
              \/ AskRetry(f) \/ AskSwitch(f)

-----------------------------------------------------------------------------
(* Either side.                                                            *)

\* The frames after the negotiation: their negotiation_data is not looked at.
ReadDriven(s) ==
  /\ pc[s] = "drive"
  /\ chan[s] # <<>>
  /\ DriveFrom(s, hs[s], initiator[s], Head(chan[s]).msg)

\* The copy loops have ended, or handleIO's safety timer has run out after
\* one of them failed: Router closes the connection.
Close(s) ==
  /\ \/ pc[s] = "failed"
     \/ pc[s] \in Waiting /\ calls[s] > 1
  /\ pc' = [pc EXCEPT ![s] = "closed"]
  /\ UNCHANGED <<cfg, calls, attempt, dead, hs, initiator, chan, altered>>

\* Seeded bug: only a server notices that the connection has gone.
ServerLosesConnection(s) ==
  /\ pc[s] = "proposal" /\ pc[Peer(s)] = "closed"
  /\ Fail(s)
  /\ UNCHANGED chan

\* The peer has closed: a frame may not be read any more, or not be written.
LosesConnection(s) ==
  /\ pc[s] \in Waiting /\ pc[Peer(s)] = "closed"
  /\ Fail(s)
  /\ UNCHANGED chan

\* The negotiation_data of a frame on the wire is replaced by another.
Alter(s) ==
  /\ Len(altered) < MaxAltered
  /\ chan[s] # <<>>
  /\ \E n \in Neg \ {Head(chan[s]).neg} :
       chan' = [chan EXCEPT ![s] = [@ EXCEPT ![1].neg = n]]
  /\ altered' = Append(altered, Head(chan[s]).neg.action)
  /\ UNCHANGED <<cfg, pc, calls, attempt, dead, hs, initiator>>

Next ==
  \/ StartClient \/ ReadReply
  \/ StartServer \/ ReadProposal
  \/ \E s \in Side : ReadDriven(s) \/ Close(s) \/ LosesConnection(s) \/ Alter(s)

\* The copy loop that reads the connection calls Handshake at once; whether
\* the other one ever does depends on what it has to send.
FirstCall(s) ==
  calls[s] = 0 /\ (IF s = "client" THEN StartClient ELSE StartServer)

Fairness ==
  /\ \A s \in Side : /\ WF_vars(FirstCall(s))
                     /\ WF_vars(ReadDriven(s))
                     /\ WF_vars(Close(s))
                     /\ WF_vars(LosesConnection(s))
  /\ WF_vars(ReadReply)
  /\ WF_vars(ReadProposal)

Spec == Init /\ [][Next]_vars
FairSpec == Spec /\ Fairness

-----------------------------------------------------------------------------
(* What the layer promises.                                                *)

TypeOK ==
  /\ cfg \in Configs
  /\ pc \in [Side -> {"new", "done", "failed", "closed"} \cup Waiting]
  /\ calls \in [Side -> 0..MaxCalls]
  /\ attempt \in [Side -> 0..MaxNegAttempts]
  /\ dead \in [Side -> Seq(Record)]
  /\ hs \in [Side -> Hash \cup {NoHS}]
  /\ initiator \in [Side -> BOOLEAN]
  /\ chan \in [Side -> Seq(Frame)]
  /\ altered \in Seq({"none", "garbled", "propose", "reject", "retry", "switch"})

BothDone == pc["client"] = "done" /\ pc["server"] = "done"

\* Side s has finished by reading the last handshake message: its peer's tag
\* over the whole exchange has been verified.
ReadTheLast(s) ==
  pc[s] = "done" /\ hs[s].ids[Len(hs[s].ids)][1] # s

\* A side that finishes by reading the last message does so with a peer that
\* has finished the same handshake: they hold the same handshake hash (the
\* Fingerprint), play opposite Noise roles, and each decrypts with the cipher
\* state the other encrypts with -- in spite of repeated calls of Handshake, of
\* a role switch and of altered frames.
Agreement ==
  \A s \in Side : ReadTheLast(s) =>
    LET t == Peer(s) IN
    /\ pc[t] = "done" /\ hs[t] = hs[s]
    /\ initiator[t] # initiator[s]
    /\ Ciphers(s).out = Ciphers(t).in /\ Ciphers(s).in = Ciphers(t).out

\* What the two configurations lead to when no frame is altered.
None == [proto |-> "none", clientInitiates |-> TRUE]
Negotiated(c) ==
  LET t == c.supported[1]
      allowed == t = c.proposed \/ t \in c.fallback
      supported == \E i \in DOMAIN c.supported : c.supported[i] = c.proposed
      has(s, p, init) == <<p, init>> \in c.builds[s]
  IN IF c.app["client"] # c.app["server"] THEN None
     ELSE IF supported
          THEN IF has("server", c.proposed, FALSE)
               THEN [proto |-> c.proposed, clientInitiates |-> TRUE] ELSE None
     ELSE IF ~allowed THEN None
     ELSE IF /\ c.policy = "retry" /\ MaxNegAttempts > 1
             /\ has("client", t, TRUE) /\ has("server", t, FALSE)
          THEN [proto |-> t, clientInitiates |-> TRUE]
     ELSE IF /\ c.policy = "switch"
             /\ has("client", t, FALSE) /\ has("server", t, TRUE)
          THEN [proto |-> t, clientInitiates |-> FALSE]
     ELSE None

\* The negotiation is bound against downgrades: whatever frames are altered and
\* however often Handshake is called, a side that has verified its peer's tag
\* has the protocol and the role that the configurations lead to unaltered.
DowngradeBound ==
  \A s \in Side : ReadTheLast(s) =>
    Negotiated(cfg) = [ proto |-> hs[s].proto,
                        clientInitiates |-> initiator["client"] ]

\* A retry or a switch that was tampered with on its way does not go unnoticed:
\* the run of Handshake it was altered in fails on one side at least.  (One frame
\* is altered here: a second alteration could restore what the first one changed.)
TamperedFails ==
  BothDone /\ Len(altered) = 1 =>
    altered[1] \notin {"retry", "switch"} \/ \A s \in Side : calls[s] > 1

\* No side finishes in a protocol its own options do not allow, whatever the
\* other side or the wire makes of the negotiation.
OwnChoice ==
  /\ pc["client"] = "done" => hs["client"].proto \in {cfg.proposed} \cup cfg.fallback
  /\ pc["server"] = "done" =>
       \E i \in DOMAIN cfg.supported : hs["server"].proto = cfg.supported[i]

\* At most one handshake frame is on the wire while both sides are there: they
\* take turns, also across failed and repeated calls of Handshake.
TakeTurns ==
  (\A s \in Side : pc[s] # "closed")
    => Len(chan["client"]) + Len(chan["server"]) <= 1

\* Configurations that fit each other end in a session on both sides, unless a
\* frame is altered.
Completes == (Negotiated(cfg) # None) ~> (BothDone \/ altered # <<>>)

\* No side is left waiting for ever: it has a session or a closed connection.
\* (A retry altered to a switch does leave both waiting, until -w ends it.)
Terminates == <>(altered # <<>> \/ \A s \in Side : pc[s] \in {"done", "closed"})
=============================================================================
