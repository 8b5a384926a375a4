-------------------------- MODULE NegotiationProofs --------------------------
(***************************************************************************)
(* What holds of Negotiation for every set of protocols and configurations, *)
(* any number of attempts, of calls of Handshake and of altered frames: its *)
(* types, that a side keeps to its own options, that the two take turns,    *)
(* and that they agree.                                                    *)
(***************************************************************************)
EXTENDS Negotiation, TLAPS

-----------------------------------------------------------------------------
(* Frames, transcripts and configurations.                                 *)

\* What a negotiation_data with a protocol name names is a protocol.
LEMMA NegProto ==
  ASSUME NEW n \in Neg, n.action \in {"propose", "retry", "switch"}
  PROVE  n.proto \in Protocols
BY DEF Neg, NoNeg, Garbled, Reject, Proposal, Retry, Switch

\* What the negotiation writes is negotiation_data.
LEMMA NegType ==
  ASSUME NEW p \in Protocols
  PROVE  /\ Proposal(p, "data") \in Neg /\ Retry(p) \in Neg /\ Switch(p) \in Neg
         /\ Reject \in Neg /\ NoNeg \in Neg
BY DEF Neg

\* The actions that an alteration records.
LEMMA NegAction ==
  ASSUME NEW n \in Neg
  PROVE  n.action \in {"none", "garbled", "propose", "reject", "retry", "switch"}
BY DEF Neg, NoNeg, Garbled, Reject, Proposal, Retry, Switch

\* A frame leaves a record in the transcript, with or without a Noise message.
LEMMA FrameBytesType ==
  ASSUME NEW f \in Frame
  PROVE  FrameBytes(f) \in Record
<1>1. f.msg.id \in Id \cup {NoId}
  BY DEF Frame, Message, NoMsg
<1>. QED
  BY <1>1 DEF Frame, FrameBytes, Record

\* The options that every configuration has.
LEMMA ConfigType ==
  ASSUME cfg \in Configs
  PROVE  /\ cfg.proposed \in Protocols /\ cfg.fallback \subseteq Protocols
         /\ cfg.app \in [Side -> {"app1", "app2"}]
         /\ Target \in Protocols
         /\ 1 \in DOMAIN cfg.supported
<1>1. cfg \in Config
  BY ConfigsAssumption DEF ParsedConfig
<1>2. cfg.supported \in Seq(Protocols) /\ cfg.supported # <<>>
  BY <1>1 DEF Config
<1>3. 1 \in DOMAIN cfg.supported /\ cfg.supported[1] \in Protocols
  BY <1>2
<1>. QED
  BY <1>1, <1>3 DEF Config, Target

\* A handshake state begins with an empty message list and grows by messages.
LEMMA HashType ==
  ASSUME NEW p \in Protocols, NEW n \in Neg, NEW a \in {"app1", "app2"},
         NEW d \in Seq(Record)
  PROVE  NewHS(p, n, a, d) \in Hash /\ NewHS(p, n, a, d).proto = p
BY DEF NewHS, Hash

\* A Noise message mixed into a handshake hash leaves a handshake hash.
LEMMA MixIdType ==
  ASSUME NEW h \in Hash, NEW id \in Id
  PROVE  /\ MixId(h, id) \in Hash /\ MixId(h, id).proto = h.proto
         /\ Len(MixId(h, id).ids) = Len(h.ids) + 1
         /\ MixId(h, id).neg = h.neg
         /\ MixId(h, id).ids = Append(h.ids, id)
<1>1. h.ids \in Seq(Id)
  BY DEF Hash
<1>2. Append(h.ids, id) \in Seq(Id) /\ Len(Append(h.ids, id)) = Len(h.ids) + 1
  BY <1>1
<1>. QED
  BY <1>2 DEF MixId, Hash

-----------------------------------------------------------------------------
(* The inductive invariant.                                                *)

\* A side with a handshake state of its own, and where it is in the loop.
HasHS(s) == pc[s] \in {"reply", "drive", "done"}
Stages ==
  /\ \A s \in Side : HasHS(s) => hs[s] \in Hash
  /\ pc["client"] # "proposal" /\ pc["server"] # "reply"
  /\ pc["client"] = "reply" => /\ Len(hs["client"].ids) >= 1
                               /\ attempt["client"] < MaxNegAttempts
  /\ pc["server"] = "proposal" => attempt["server"] < MaxNegAttempts

ClientAllows(p) == p \in {cfg.proposed} \cup cfg.fallback
ServerSupports(p) == \E i \in DOMAIN cfg.supported : p = cfg.supported[i]

\* OwnChoice holds from the moment a side has a handshake state, not only once
\* it has finished.
Choice ==
  /\ HasHS("client") => ClientAllows(hs["client"].proto)
  /\ HasHS("server") => ServerSupports(hs["server"].proto)

Inv == TypeOK /\ Stages /\ Choice

\* Both sides start without a handshake state.
LEMMA InitInv == Init => Inv
<1>. SUFFICES ASSUME Init PROVE Inv
  OBVIOUS
<1>1. TypeOK
  BY BoundsAssumption DEF Init, TypeOK, Side
<1>2. Stages /\ Choice
  BY DEF Init, Stages, Choice, HasHS, Side
<1>. QED
  BY <1>1, <1>2 DEF Inv

-----------------------------------------------------------------------------
(* The channels.                                                           *)

\* Reading takes a frame from its channel, and may put one into the other.
LEMMA ChanType ==
  ASSUME TypeOK, NEW s \in Side, chan[s] # <<>>
  PROVE  /\ Head(chan[s]) \in Frame
         /\ ReadOnly(s) => chan' \in [Side -> Seq(Frame)]
         /\ \A f \in Frame : ReadAndWrite(s, f) => chan' \in [Side -> Seq(Frame)]
<1>1. chan[s] \in Seq(Frame) /\ chan[Peer(s)] \in Seq(Frame) /\ Peer(s) \in Side /\ Peer(s) # s
  BY DEF TypeOK, Peer, Side
<1>2. Head(chan[s]) \in Frame /\ Tail(chan[s]) \in Seq(Frame)
  BY <1>1
<1>3. \A f \in Frame : Append(chan[Peer(s)], f) \in Seq(Frame)
  BY <1>1
<1>. QED
  BY <1>1, <1>2, <1>3 DEF TypeOK, ReadOnly, ReadAndWrite

\* A call of Handshake that fails keeps the invariant.
LEMMA FailInv ==
  ASSUME Inv, NEW s \in Side, Fail(s), chan' \in [Side -> Seq(Frame)]
  PROVE  Inv'
<1>1. pc' \in [Side -> {"new", "done", "failed", "closed"} \cup Waiting]
  BY DEF Inv, TypeOK, Fail
<1>2. TypeOK'
  BY <1>1 DEF Inv, TypeOK, Fail
<1>3. \A t \in Side : pc'[t] = pc[t] \/ pc'[t] = "failed"
  BY DEF Inv, TypeOK, Fail
<1>4. Stages' /\ Choice'
  BY <1>3 DEF Inv, Stages, Choice, HasHS, Fail, ClientAllows, ServerSupports, Side
<1>. QED
  BY <1>2, <1>4 DEF Inv

\* What s does to its handshake: a step that leaves it with state h, its own
\* options allowing the protocol.
LEMMA AdvanceInv ==
  ASSUME Inv, NEW s \in Side, NEW h \in Hash, NEW init \in BOOLEAN,
         NEW where \in {"reply", "drive", "done"},
         s = "client" => ClientAllows(h.proto),
         s = "server" => ServerSupports(h.proto) /\ where # "reply",
         hs' = [hs EXCEPT ![s] = h],
         initiator' = [initiator EXCEPT ![s] = init],
         pc' = [pc EXCEPT ![s] = where],
         calls' \in [Side -> 0..MaxCalls],
         attempt' \in [Side -> 0..MaxNegAttempts],
         dead' \in [Side -> Seq(Record)],
         where = "reply" => Len(h.ids) >= 1 /\ attempt'["client"] < MaxNegAttempts,
         \A t \in Side \ {s} : attempt'[t] = attempt[t],
         chan' \in [Side -> Seq(Frame)],
         UNCHANGED <<cfg, altered>>
  PROVE  Inv'
<1>1. pc' \in [Side -> {"new", "done", "failed", "closed"} \cup Waiting]
  BY DEF Inv, TypeOK, Waiting
<1>2. TypeOK'
  BY <1>1 DEF Inv, TypeOK
<1>3. /\ pc'[s] = where /\ hs'[s] = h
      /\ \A t \in Side \ {s} : pc'[t] = pc[t] /\ hs'[t] = hs[t]
  BY DEF Inv, TypeOK
<1>4. Stages'
  BY <1>3 DEF Inv, Stages, HasHS, Side
<1>5. Choice'
  BY <1>3 DEF Inv, Choice, HasHS, ClientAllows, ServerSupports, Side
<1>. QED
  BY <1>2, <1>4, <1>5 DEF Inv

\* A message's name is new and well formed.
LEMMA NewIdType ==
  ASSUME TypeOK, NEW s \in Side, NEW h \in Hash
  PROVE  NewId(s, h) \in Id
<1>1. Len(h.ids) \in Nat
  BY DEF Hash
<1>2. calls[s] \in Nat /\ attempt[s] \in Nat
  BY BoundsAssumption DEF TypeOK
<1>. QED
  BY <1>1, <1>2 DEF NewId, Id

\* driveFrom keeps the invariant when the side's own options allow the protocol
\* of the handshake it drives.
LEMMA DriveInv ==
  ASSUME Inv, NEW s \in Side, NEW h \in Hash, NEW init \in BOOLEAN,
         chan[s] # <<>>, NEW m \in Message \cup {NoMsg},
         s = "client" => ClientAllows(h.proto),
         s = "server" => ServerSupports(h.proto),
         DriveFrom(s, h, init, m)
  PROVE  Inv'
<1>. DEFINE read == MixId(h, m.id)
            written == MixId(read, NewId(s, read))
            reply == [neg |-> NoNeg, msg |-> [id |-> NewId(s, read), h |-> read]]
<1>0. TypeOK
  BY DEF Inv
<1>1. PICK ok \in ReadMessage(h, m) :
        \/ ~ok /\ Fail(s) /\ ReadOnly(s)
        \/ /\ ok
           /\ hs' = [hs EXCEPT ![s] = written]
           /\ initiator' = [initiator EXCEPT ![s] = init]
           /\ pc' = [pc EXCEPT ![s] = IF Complete(written) THEN "done" ELSE "drive"]
           /\ ReadAndWrite(s, reply)
           /\ UNCHANGED <<cfg, calls, attempt, dead, altered>>
        \/ /\ ok
           /\ hs' = [hs EXCEPT ![s] = read]
           /\ initiator' = [initiator EXCEPT ![s] = init]
           /\ pc' = [pc EXCEPT ![s] = "done"]
           /\ ReadOnly(s)
           /\ UNCHANGED <<cfg, calls, attempt, dead, altered>>
  BY DEF DriveFrom
<1>2. CASE ~ok
  BY <1>0, <1>1, <1>2, ChanType, FailInv
<1>3. CASE ok
  <2>1. m \in Message /\ m.id \in Id
    BY <1>1, <1>3 DEF ReadMessage, Message
  <2>2. read \in Hash /\ read.proto = h.proto
    BY <2>1, MixIdType
  <2>3. NewId(s, read) \in Id
    BY <1>0, <2>2, NewIdType
  <2>4. written \in Hash /\ written.proto = h.proto
    BY <2>2, <2>3, MixIdType
  <2>5. reply \in Frame
    BY <2>2, <2>3 DEF Frame, Message, Neg
  <2>6. /\ calls \in [Side -> 0..MaxCalls] /\ attempt \in [Side -> 0..MaxNegAttempts]
        /\ dead \in [Side -> Seq(Record)]
    BY <1>0 DEF TypeOK
  <2>. HIDE DEF read, written, reply
  <2>7. CASE ReadAndWrite(s, reply) /\ hs' = [hs EXCEPT ![s] = written]
    <3>1. chan' \in [Side -> Seq(Frame)]
      BY <1>0, <2>5, <2>7, ChanType
    <3>2. PICK where \in {"drive", "done"} : pc' = [pc EXCEPT ![s] = where]
      BY <1>1, <1>3, <2>7
    <3>. QED
      BY <1>1, <1>3, <2>4, <2>6, <2>7, <3>1, <3>2, AdvanceInv
  <2>8. CASE ReadOnly(s) /\ hs' = [hs EXCEPT ![s] = read]
    <3>1. chan' \in [Side -> Seq(Frame)]
      BY <1>0, <2>8, ChanType
    <3>. QED
      BY <1>1, <1>3, <2>2, <2>6, <2>8, <3>1, AdvanceInv
  <2>. QED
    BY <1>1, <1>3, <2>7, <2>8
<1>. QED
  BY <1>2, <1>3

\* The same for the frame that ends the negotiation.
LEMMA PendingInv ==
  ASSUME Inv, NEW s \in Side, NEW h \in Hash, NEW init \in BOOLEAN,
         chan[s] # <<>>, NEW m \in Message \cup {NoMsg},
         s = "client" => ClientAllows(h.proto),
         s = "server" => ServerSupports(h.proto),
         DriveFromPending(s, h, init, m)
  PROVE  Inv'
<1>1. CASE DriveFrom(s, h, init, m)
  BY <1>1, DriveInv
<1>2. CASE /\ hs' = [hs EXCEPT ![s] = h]
           /\ initiator' = [initiator EXCEPT ![s] = init]
           /\ pc' = [pc EXCEPT ![s] = "drive"]
           /\ ReadOnly(s)
           /\ UNCHANGED <<cfg, calls, attempt, dead, altered>>
  <2>1. chan' \in [Side -> Seq(Frame)]
    BY <1>2, ChanType DEF Inv
  <2>2. /\ calls \in [Side -> 0..MaxCalls] /\ attempt \in [Side -> 0..MaxNegAttempts]
        /\ dead \in [Side -> Seq(Record)]
    BY DEF Inv, TypeOK
  <2>. QED
    BY <1>2, <2>1, <2>2, AdvanceInv
<1>. QED
  BY <1>1, <1>2 DEF DriveFromPending

-----------------------------------------------------------------------------
(* The client.                                                             *)

\* A proposal is a frame, and the state behind it is for the protocol proposed.
LEMMA ProposalType ==
  ASSUME Inv, NEW call \in Nat, NEW n \in Nat, NEW p \in Protocols,
         NEW d \in Seq(Record)
  PROVE  /\ ProposalHS(p, d) \in Hash /\ ProposalHS(p, d).proto = p
         /\ ProposalFrame(call, n, p, d) \in Frame
         /\ <<"client", call, n, 0>> \in Id
<1>1. cfg.app["client"] \in {"app1", "app2"}
  BY ConfigType DEF Inv, TypeOK, Side
<1>2. Proposal(p, "data") \in Neg
  BY NegType
<1>3. ProposalHS(p, d) \in Hash /\ ProposalHS(p, d).proto = p
  BY <1>1, <1>2, HashType DEF ProposalHS
<1>4. <<"client", call, n, 0>> \in Id
  BY DEF Id, Side
<1>. QED
  BY <1>2, <1>3, <1>4 DEF ProposalFrame, Frame, Message

\* A turn of the client's loop that proposes a protocol it allows.
LEMMA ProposeInv ==
  ASSUME Inv, NEW call \in 0..MaxCalls, NEW n \in Nat, NEW p \in Protocols,
         NEW d \in Seq(Record), ClientAllows(p),
         Propose(call, n, p, d), chan' \in [Side -> Seq(Frame)]
  PROVE  Inv'
<1>. DEFINE h == MixId(ProposalHS(p, d), <<"client", call, n, 0>>)
<1>1. call \in Nat /\ call \in 0..MaxCalls /\ n \in 0..MaxNegAttempts /\ n < MaxNegAttempts
  BY BoundsAssumption DEF Propose
<1>2. h \in Hash /\ h.proto = p /\ Len(h.ids) >= 1
  <2>1. /\ ProposalHS(p, d) \in Hash /\ ProposalHS(p, d).proto = p
        /\ <<"client", call, n, 0>> \in Id
    BY <1>1, ProposalType
  <2>2. Len(ProposalHS(p, d).ids) = 0
    BY DEF ProposalHS, NewHS
  <2>. QED
    BY <2>1, <2>2, MixIdType
<1>3. /\ calls' \in [Side -> 0..MaxCalls] /\ attempt' \in [Side -> 0..MaxNegAttempts]
      /\ dead' \in [Side -> Seq(Record)]
      /\ attempt'["client"] = n /\ \A t \in Side \ {"client"} : attempt'[t] = attempt[t]
  BY <1>1 DEF Inv, TypeOK, Propose, Side
<1>4. /\ hs' = [hs EXCEPT !["client"] = h]
      /\ initiator' = [initiator EXCEPT !["client"] = TRUE]
      /\ pc' = [pc EXCEPT !["client"] = "reply"]
      /\ UNCHANGED <<cfg, altered>>
  BY DEF Propose
<1>. HIDE DEF h
<1>. QED
  BY <1>1, <1>2, <1>3, <1>4, AdvanceInv DEF Side

\* The first proposal of a call keeps the invariant.
LEMMA StartClientInv ==
  ASSUME Inv, StartClient
  PROVE  Inv'
<1>. DEFINE call == calls["client"] + 1
            f == ProposalFrame(call, 0, cfg.proposed, <<>>)
<1>1. call \in 0..MaxCalls /\ call \in Nat
  BY BoundsAssumption DEF Inv, TypeOK, StartClient, MayCall, Side
<1>2. cfg.proposed \in Protocols /\ ClientAllows(cfg.proposed) /\ <<>> \in Seq(Record)
  BY ConfigType DEF Inv, TypeOK, ClientAllows
<1>3. f \in Frame
  BY <1>1, <1>2, ProposalType
<1>. HIDE DEF f, call
<1>4. chan' \in [Side -> Seq(Frame)]
  <2>1. chan' = [chan EXCEPT !["server"] = Append(@, f)]
    BY DEF StartClient, f, call
  <2>. QED
    BY <1>3, <2>1 DEF Inv, TypeOK, Side
<1>5. Propose(call, 0, cfg.proposed, <<>>)
  BY DEF StartClient, call
<1>. QED
  BY <1>1, <1>2, <1>4, <1>5, ProposeInv

\* The protocols that AllowedProtocol lets through are the client's own.
LEMMA AllowedClient ==
  ASSUME NEW p, AllowedProtocol(p)
  PROVE  ClientAllows(p)
BY DEF AllowedProtocol, ClientAllows

\* The frame the client has sent leaves a record in its transcript.
LEMMA SentFrameType ==
  ASSUME Inv, pc["client"] = "reply"
  PROVE  SentFrame \in Record
<1>1. hs["client"] \in Hash /\ Len(hs["client"].ids) >= 1
  BY DEF Inv, Stages, HasHS, Side
<1>2. hs["client"].neg \in Neg /\ hs["client"].ids \in Seq(Id)
  BY <1>1 DEF Hash
<1>3. hs["client"].ids[1] \in Id
  BY <1>1, <1>2
<1>. QED
  BY <1>2, <1>3 DEF SentFrame, Record

\* Whatever the reply is, the client keeps the invariant: it never follows a
\* retry or a switch to a protocol it does not allow.
LEMMA ReadReplyInv ==
  ASSUME Inv, ReadReply
  PROVE  Inv'
<1>. DEFINE f == Head(chan["client"])
<1>1. /\ "client" \in Side /\ chan["client"] # <<>> /\ pc["client"] = "reply"
      /\ f \in Frame
  BY ChanType DEF ReadReply, Inv, Side
<1>2. f.neg \in Neg /\ f.msg \in Message \cup {NoMsg}
  BY <1>1 DEF Frame
<1>3. /\ hs["client"] \in Hash /\ ClientAllows(hs["client"].proto)
  BY <1>1 DEF Inv, Stages, Choice, HasHS
<1>4. /\ dead["client"] \in Seq(Record)
      /\ SentFrame \in Record /\ FrameBytes(f) \in Record
  BY <1>1, SentFrameType, FrameBytesType DEF Inv, TypeOK
<1>. HIDE DEF f
<1>5. ASSUME Fail("client"), ReadOnly("client")
      PROVE  Inv'
  BY <1>1, <1>5, ChanType, FailInv DEF Inv
<1>6. CASE ReadAccept(f)
  BY <1>1, <1>2, <1>3, <1>6, PendingInv DEF ReadAccept
<1>7. CASE ReadReject(f)
  BY <1>5, <1>7 DEF ReadReject
<1>8. CASE ReadRetry(f)
  <2>. DEFINE p == f.neg.proto
              n == attempt["client"] + 1
              d == RetryTranscript(f)
              g == ProposalFrame(calls["client"], n, p, d)
  <2>1. CASE /\ AllowedProtocol(p)
             /\ Propose(calls["client"], n, p, d)
             /\ ReadAndWrite("client", g)
    <3>1. p \in Protocols
      BY <1>2, <1>8, NegProto DEF ReadRetry
    <3>2. d \in Seq(Record)
      BY <1>4 DEF RetryTranscript
    <3>3. n \in Nat /\ calls["client"] \in Nat
      BY <1>1, BoundsAssumption DEF Inv, TypeOK
    <3>4. g \in Frame
      BY <3>1, <3>2, <3>3, ProposalType
    <3>. HIDE DEF g, p, d
    <3>5. chan' \in [Side -> Seq(Frame)]
      BY <1>1, <2>1, <3>4, ChanType DEF Inv
    <3>6. calls["client"] \in 0..MaxCalls
      BY <1>1 DEF Inv, TypeOK
    <3>. QED
      BY <2>1, <3>1, <3>2, <3>3, <3>5, <3>6, AllowedClient, ProposeInv
  <2>2. CASE Fail("client") /\ ReadOnly("client")
    BY <1>5, <2>2
  <2>. QED
    BY <1>8, <2>1, <2>2 DEF ReadRetry
<1>9. CASE ReadSwitch(f)
  <2>. DEFINE p == f.neg.proto
              d == Append(dead["client"], SentFrame)
  <2>1. CASE /\ AllowedProtocol(p)
             /\ DriveFromPending("client", SwitchHS(f, d), FALSE, f.msg)
    <3>1. p \in Protocols
      BY <1>2, <1>9, NegProto DEF ReadSwitch
    <3>2. d \in Seq(Record) /\ cfg.app["client"] \in {"app1", "app2"}
      BY <1>1, <1>4, ConfigType DEF Inv, TypeOK
    <3>3. SwitchHS(f, d) \in Hash /\ SwitchHS(f, d).proto = p
      BY <1>2, <3>1, <3>2, HashType DEF SwitchHS
    <3>. QED
      BY <1>1, <1>2, <2>1, <3>3, AllowedClient, PendingInv
  <2>2. CASE Fail("client") /\ ReadOnly("client")
    BY <1>5, <2>2
  <2>. QED
    BY <1>9, <2>1, <2>2 DEF ReadSwitch
<1>. QED
  BY <1>6, <1>7, <1>8, <1>9 DEF ReadReply, f

-----------------------------------------------------------------------------
(* The server.                                                             *)

\* A new call of the server's Handshake keeps the invariant.
LEMMA StartServerInv ==
  ASSUME Inv, StartServer
  PROVE  Inv'
<1>1. /\ pc' \in [Side -> {"new", "done", "failed", "closed"} \cup Waiting]
      /\ calls' \in [Side -> 0..MaxCalls]
  BY BoundsAssumption DEF Inv, TypeOK, StartServer, MayCall, Waiting, Side
<1>2. /\ attempt' \in [Side -> 0..MaxNegAttempts] /\ attempt'["server"] = 0
      /\ attempt'["client"] = attempt["client"]
      /\ dead' \in [Side -> Seq(Record)]
  BY BoundsAssumption DEF Inv, TypeOK, StartServer, Side
<1>3. TypeOK'
  BY <1>1, <1>2 DEF Inv, TypeOK, StartServer
<1>4. pc'["server"] = "proposal" /\ pc'["client"] = pc["client"]
  BY DEF Inv, TypeOK, StartServer, Side
<1>5. Stages' /\ Choice'
  BY <1>2, <1>4, BoundsAssumption
     DEF Inv, Stages, Choice, HasHS, ClientAllows, ServerSupports, StartServer, Side
<1>. QED
  BY <1>3, <1>5 DEF Inv

\* The server's reply to an unsupported proposal, when it asks for a retry.
LEMMA AskRetryInv ==
  ASSUME Inv, NEW f \in Frame, pc["server"] = "proposal", chan["server"] # <<>>,
         AskRetry(f)
  PROVE  Inv'
<1>1. "server" \in Side /\ Target \in Protocols
  BY ConfigType DEF Inv, TypeOK, Side
<1>2. RetryReply \in Frame
  BY <1>1, NegType DEF RetryReply, Frame
<1>3. dead["server"] \o <<FrameBytes(f), FrameBytes(RetryReply)>> \in Seq(Record)
  BY <1>1, <1>2, FrameBytesType DEF Inv, TypeOK
<1>4. chan' \in [Side -> Seq(Frame)]
  BY <1>1, <1>2, ChanType DEF Inv, AskRetry
<1>5. dead' \in [Side -> Seq(Record)]
  BY <1>3 DEF Inv, TypeOK, AskRetry, RetryDead
<1>6. /\ attempt' \in [Side -> 0..MaxNegAttempts]
      /\ attempt'["server"] = attempt["server"] + 1
      /\ attempt'["client"] = attempt["client"]
  BY BoundsAssumption DEF Inv, TypeOK, Stages, AskRetry, Side
<1>7. /\ pc' \in [Side -> {"new", "done", "failed", "closed"} \cup Waiting]
      /\ pc'["client"] = pc["client"]
      /\ \/ pc'["server"] = "proposal" /\ attempt["server"] + 1 < MaxNegAttempts
         \/ pc'["server"] = "failed"
  BY DEF Inv, TypeOK, AskRetry, Waiting, Side
<1>8. TypeOK'
  BY <1>4, <1>5, <1>6, <1>7 DEF Inv, TypeOK, AskRetry
<1>9. Stages' /\ Choice'
  BY <1>6, <1>7
     DEF Inv, Stages, Choice, HasHS, ClientAllows, ServerSupports, AskRetry, Side
<1>. QED
  BY <1>8, <1>9 DEF Inv

\* Whatever the proposal is, the server keeps the invariant: the protocol of a
\* handshake it accepts or starts itself is one it supports.
LEMMA ReadProposalInv ==
  ASSUME Inv, ReadProposal
  PROVE  Inv'
<1>. DEFINE f == Head(chan["server"])
<1>1. /\ "server" \in Side /\ chan["server"] # <<>> /\ pc["server"] = "proposal"
      /\ f \in Frame
  BY ChanType DEF ReadProposal, Inv, Side
<1>2. f.neg \in Neg /\ f.msg \in Message \cup {NoMsg}
  BY <1>1 DEF Frame
<1>3. /\ dead["server"] \in Seq(Record) /\ FrameBytes(f) \in Record
      /\ cfg.app["server"] \in {"app1", "app2"} /\ Target \in Protocols
  BY <1>1, FrameBytesType, ConfigType DEF Inv, TypeOK
<1>. HIDE DEF f
<1>4. ASSUME Fail("server"), ReadOnly("server")
      PROVE  Inv'
  BY <1>1, <1>4, ChanType, FailInv DEF Inv
<1>5. CASE ReadNoProposal(f)
  BY <1>4, <1>5 DEF ReadNoProposal
<1>6. CASE f.neg.action = "propose" /\ AcceptProposal(f)
  <2>1. CASE Fail("server") /\ ReadOnly("server")
    BY <1>4, <2>1
  <2>2. CASE DriveFromPending("server", AcceptHS(f), FALSE, f.msg)
    <3>1. f.neg.proto \in Protocols
      BY <1>2, <1>6, NegProto
    <3>2. AcceptHS(f) \in Hash /\ AcceptHS(f).proto = f.neg.proto
      BY <1>2, <1>3, <3>1, HashType DEF AcceptHS
    <3>3. ServerSupports(f.neg.proto)
      BY <1>6 DEF AcceptProposal, Supports, ServerSupports
    <3>. QED
      BY <1>1, <1>2, <2>2, <3>2, <3>3, PendingInv
  <2>. QED
    BY <1>6, <2>1, <2>2 DEF AcceptProposal
<1>7. CASE RejectProposal(f)
  <2>1. [neg |-> Reject, msg |-> NoMsg] \in Frame
    BY DEF Frame, Neg
  <2>2. chan' \in [Side -> Seq(Frame)]
    BY <1>1, <1>7, <2>1, ChanType DEF Inv, RejectProposal
  <2>. QED
    BY <1>1, <1>7, <2>2, FailInv DEF RejectProposal
<1>8. CASE AskRetry(f)
  BY <1>1, <1>8, AskRetryInv
<1>9. CASE AskSwitch(f)
  <2>. DEFINE h == ServerSwitchHS(f)
              id == NewId("server", h)
              g == [neg |-> Switch(Target), msg |-> [id |-> id, h |-> h]]
  <2>1. CASE Fail("server") /\ ReadOnly("server")
    BY <1>4, <2>1
  <2>2. CASE /\ hs' = [hs EXCEPT !["server"] = MixId(h, id)]
             /\ initiator' = [initiator EXCEPT !["server"] = TRUE]
             /\ pc' = [pc EXCEPT !["server"] = "drive"]
             /\ ReadAndWrite("server", g)
             /\ UNCHANGED <<cfg, calls, attempt, dead, altered>>
    <3>1. Append(dead["server"], FrameBytes(f)) \in Seq(Record) /\ Switch(Target) \in Neg
      BY <1>3, NegType
    <3>2. h \in Hash /\ h.proto = Target
      BY <1>3, <3>1, HashType DEF ServerSwitchHS
    <3>3. id \in Id
      BY <1>1, <3>2, NewIdType DEF Inv
    <3>4. MixId(h, id) \in Hash /\ MixId(h, id).proto = Target
      BY <3>2, <3>3, MixIdType
    <3>5. g \in Frame
      BY <3>1, <3>2, <3>3 DEF Frame, Message
    <3>6. ServerSupports(Target)
      BY ConfigType DEF Inv, TypeOK, ServerSupports, Target
    <3>7. /\ calls \in [Side -> 0..MaxCalls] /\ attempt \in [Side -> 0..MaxNegAttempts]
          /\ dead \in [Side -> Seq(Record)]
      BY DEF Inv, TypeOK
    <3>. HIDE DEF g, h, id
    <3>8. chan' \in [Side -> Seq(Frame)]
      BY <1>1, <2>2, <3>5, ChanType DEF Inv
    <3>. QED
      BY <1>1, <2>2, <3>4, <3>6, <3>7, <3>8, AdvanceInv
  <2>. QED
    BY <1>9, <2>1, <2>2 DEF AskSwitch
<1>. QED
  BY <1>5, <1>6, <1>7, <1>8, <1>9 DEF ReadProposal, f

-----------------------------------------------------------------------------
(* Either side.                                                            *)

\* The frames after the negotiation keep the invariant.
LEMMA ReadDrivenInv ==
  ASSUME Inv, NEW s \in Side, ReadDriven(s)
  PROVE  Inv'
<1>1. /\ chan[s] # <<>> /\ Head(chan[s]) \in Frame
      /\ hs[s] \in Hash /\ initiator[s] \in BOOLEAN
  BY ChanType DEF Inv, TypeOK, Stages, HasHS, ReadDriven
<1>2. Head(chan[s]).msg \in Message \cup {NoMsg}
  BY <1>1 DEF Frame
<1>3. /\ s = "client" => ClientAllows(hs[s].proto)
      /\ s = "server" => ServerSupports(hs[s].proto)
  BY DEF Inv, Choice, HasHS, ReadDriven
<1>. QED
  BY <1>1, <1>2, <1>3, DriveInv DEF ReadDriven

\* So does the end of a connection.
LEMMA CloseInv ==
  ASSUME Inv, NEW s \in Side, Close(s) \/ LosesConnection(s)
  PROVE  Inv'
<1>1. CASE Close(s)
  <2>1. TypeOK'
    BY <1>1 DEF Inv, TypeOK, Close
  <2>2. \A t \in Side : pc'[t] = pc[t] \/ pc'[t] = "closed"
    BY <1>1 DEF Inv, TypeOK, Close
  <2>3. Stages' /\ Choice'
    BY <1>1, <2>2
       DEF Inv, Stages, Choice, HasHS, ClientAllows, ServerSupports, Close, Side
  <2>. QED
    BY <2>1, <2>3 DEF Inv
<1>2. CASE LosesConnection(s)
  <2>1. chan' \in [Side -> Seq(Frame)]
    BY <1>2 DEF Inv, TypeOK, LosesConnection
  <2>. QED
    BY <1>2, <2>1, FailInv DEF LosesConnection
<1>. QED
  BY <1>1, <1>2

\* So does whatever is put in place of a frame's negotiation_data.
LEMMA AlterInv ==
  ASSUME Inv, NEW s \in Side, Alter(s)
  PROVE  Inv'
<1>1. chan[s] # <<>> /\ Head(chan[s]) \in Frame /\ chan[s] \in Seq(Frame)
  BY ChanType DEF Alter, Inv, TypeOK
<1>2. PICK n \in Neg : chan' = [chan EXCEPT ![s] = [@ EXCEPT ![1].neg = n]]
  BY DEF Alter
<1>3. 1 \in 1..Len(chan[s]) /\ chan[s][1] \in Frame
  BY <1>1
<1>4. [chan[s][1] EXCEPT !.neg = n] \in Frame
  BY <1>3 DEF Frame
<1>5. [chan[s] EXCEPT ![1] = [chan[s][1] EXCEPT !.neg = n]] \in Seq(Frame)
  BY <1>1, <1>3, <1>4
<1>6. chan' \in [Side -> Seq(Frame)]
  BY <1>2, <1>5 DEF Inv, TypeOK
<1>7. Head(chan[s]).neg.action
        \in {"none", "garbled", "propose", "reject", "retry", "switch"}
  BY <1>1, NegAction DEF Frame
<1>8. TypeOK'
  BY <1>6, <1>7 DEF Inv, TypeOK, Alter
<1>9. Stages' /\ Choice'
  BY DEF Inv, Stages, Choice, HasHS, ClientAllows, ServerSupports, Alter
<1>. QED
  BY <1>8, <1>9 DEF Inv

\* Inv is inductive.
LEMMA StepInv == Inv /\ [Next]_vars => Inv'
<1>. SUFFICES ASSUME Inv, [Next]_vars
              PROVE  Inv'
  OBVIOUS
<1>1. CASE UNCHANGED vars
  BY <1>1 DEF vars, Inv, TypeOK, Stages, Choice, HasHS, ClientAllows, ServerSupports
<1>2. CASE StartClient \/ ReadReply \/ StartServer \/ ReadProposal
  BY <1>2, StartClientInv, ReadReplyInv, StartServerInv, ReadProposalInv
<1>3. ASSUME NEW s \in Side, ReadDriven(s) \/ Close(s) \/ LosesConnection(s) \/ Alter(s)
      PROVE  Inv'
  BY <1>3, ReadDrivenInv, CloseInv, AlterInv
<1>. QED
  BY <1>1, <1>2, <1>3 DEF Next

-----------------------------------------------------------------------------
(* The theorems.                                                           *)

\* Every state of the negotiation is in the invariant.
LEMMA Invariance == Spec => []Inv
BY InitInv, StepInv, PTL DEF Spec

\* Every reachable state of the negotiation is of its type.
THEOREM TypeCorrect == Spec => []TypeOK
BY Invariance, PTL DEF Inv

\* Whatever the peer and the wire make of the negotiation, and however often
\* Handshake is called, no side finishes in a protocol its options do not allow.
THEOREM NobodyIsTalkedInto == Spec => []OwnChoice
<1>1. Inv => OwnChoice
  BY DEF Inv, OwnChoice, Choice, HasHS, ClientAllows, ServerSupports
<1>. QED
  BY <1>1, Invariance, PTL

-----------------------------------------------------------------------------
(* Turns.                                                                  *)

InFlight == Len(chan["client"]) + Len(chan["server"])

\* Only the client writes unasked, when it begins a call: nothing is on the
\* wire then.
Turns ==
  (\A s \in Side : pc[s] # "closed") =>
    /\ InFlight <= 1
    /\ pc["client"] \in {"new", "failed"} => InFlight = 0

\* What a side does with the frame it reads: a client that fails answers nothing.
Reads(s) ==
  /\ \A t \in Side \ {s} : pc'[t] = pc[t]
  /\ pc[s] # "closed" /\ chan[s] # <<>>
  /\ \/ ReadOnly(s)
     \/ /\ \E f : ReadAndWrite(s, f)
        /\ s = "client" => pc'["client"] \notin {"new", "failed"}

\* The two channels' lengths, seen from either side.
LEMMA LengthsOf ==
  ASSUME NEW c, NEW s \in Side, NEW a \in Nat, NEW b \in Nat,
         Len(c[s]) = a, Len(c[Peer(s)]) = b
  PROVE  Len(c["client"]) + Len(c["server"]) = a + b
<1>1. CASE s = "client"
  <2>1. Peer(s) = "server" BY <1>1 DEF Peer
  <2>2. Len(c["client"]) = a /\ Len(c["server"]) = b BY <1>1, <2>1
  <2> QED BY <2>2
<1>2. CASE s = "server"
  <2>1. Peer(s) = "client" BY <1>2 DEF Peer
  <2>2. Len(c["client"]) = b /\ Len(c["server"]) = a BY <1>2, <2>1
  <2>3. a + b = b + a OBVIOUS
  <2> QED BY <2>2, <2>3
<1> QED BY <1>1, <1>2 DEF Side

LEMMA InFlightReads ==
  ASSUME TypeOK, NEW s \in Side, chan[s] # <<>>
  PROVE  /\ InFlight \in Nat /\ InFlight >= 1
         /\ ReadOnly(s) => InFlight' = InFlight - 1
         /\ \A f : ReadAndWrite(s, f) => InFlight' = InFlight
<1>1. /\ chan[s] \in Seq(Frame) /\ chan[Peer(s)] \in Seq(Frame)
      /\ DOMAIN chan = Side
      /\ "client" \in Side /\ "server" \in Side
      /\ Peer(s) \in Side /\ Peer(s) # s
  BY DEF TypeOK, Peer, Side
<1>2. /\ Len(chan[s]) \in Nat /\ Len(chan[Peer(s)]) \in Nat /\ Len(chan[s]) >= 1
      /\ Len(Tail(chan[s])) = Len(chan[s]) - 1
  BY <1>1
<1>3. PICK a \in Nat, b \in Nat :
        a = Len(chan[s]) /\ b = Len(chan[Peer(s)])
  BY <1>2
<1>4. InFlight = a + b /\ a >= 1
  BY <1>2, <1>3, LengthsOf DEF InFlight
<1>5. ASSUME ReadOnly(s) PROVE InFlight' = a + b - 1
  <2>1. chan'[s] = Tail(chan[s]) /\ chan'[Peer(s)] = chan[Peer(s)]
    BY <1>1, <1>5 DEF ReadOnly
  <2>2. PICK d \in Nat : d = a - 1 BY <1>4
  <2>3. Len(chan'[s]) = d /\ Len(chan'[Peer(s)]) = b
    BY <1>2, <1>3, <2>1, <2>2
  <2>4. InFlight' = d + b BY <2>3, LengthsOf DEF InFlight
  <2> QED BY <2>2, <2>4
<1>6. ASSUME NEW f, ReadAndWrite(s, f) PROVE InFlight' = a + b
  <2>1. chan'[s] = Tail(chan[s]) /\ chan'[Peer(s)] = Append(chan[Peer(s)], f)
    BY <1>1, <1>6 DEF ReadAndWrite
  <2>2. Len(Append(chan[Peer(s)], f)) = Len(chan[Peer(s)]) + 1
    BY <1>1
  <2>3. PICK d \in Nat, e \in Nat : d = a - 1 /\ e = b + 1 BY <1>4
  <2>4. Len(chan'[s]) = d /\ Len(chan'[Peer(s)]) = e
    BY <1>2, <1>3, <2>1, <2>2, <2>3
  <2>5. InFlight' = d + e BY <2>4, LengthsOf DEF InFlight
  <2> QED BY <2>3, <2>5
<1> QED BY <1>4, <1>5, <1>6

LEMMA ReadsTurns ==
  ASSUME TypeOK, Turns, NEW s \in Side, Reads(s)
  PROVE  Turns'
<1> SUFFICES ASSUME (\A t \in Side : pc[t] # "closed")'
             PROVE  /\ InFlight' <= 1
                    /\ pc'["client"] \in {"new", "failed"} => InFlight' = 0
  BY DEF Turns
<1>1. \A t \in Side : pc[t] # "closed" BY DEF Reads
<1>2. InFlight <= 1 /\ InFlight \in Nat /\ InFlight >= 1
  BY <1>1, InFlightReads DEF Turns, Reads
<1>3. pc["client"] \notin {"new", "failed"} BY <1>1, <1>2 DEF Turns
<1>4. CASE ReadOnly(s)
  <2>1. InFlight' = InFlight - 1 BY <1>4, InFlightReads DEF Reads
  <2> QED BY <1>2, <2>1
<1>5. ASSUME NEW f, ReadAndWrite(s, f),
             s = "client" => pc'["client"] \notin {"new", "failed"}
      PROVE  /\ InFlight' <= 1
             /\ pc'["client"] \in {"new", "failed"} => InFlight' = 0
  <2>1. InFlight' = InFlight BY <1>5, InFlightReads DEF Reads
  <2>2. pc'["client"] \notin {"new", "failed"}
    BY <1>3, <1>5 DEF Reads, Side
  <2> QED BY <1>2, <2>1, <2>2
<1> QED BY <1>4, <1>5 DEF Reads

\* Where a read leaves the other side, and its own.
LEMMA PcOf ==
  ASSUME TypeOK, NEW s \in Side, NEW p, pc' = [pc EXCEPT ![s] = p]
  PROVE  pc'[s] = p /\ \A t \in Side \ {s} : pc'[t] = pc[t]
BY DEF TypeOK

LEMMA DriveReads ==
  ASSUME TypeOK, NEW s \in Side, pc[s] \in Waiting, chan[s] # <<>>,
         NEW h, NEW init, NEW m, DriveFrom(s, h, init, m)
  PROVE  Reads(s)
<1>0. pc[s] # "closed" BY DEF Waiting
<1>1. \/ ReadOnly(s) /\ \E p : pc' = [pc EXCEPT ![s] = p]
      \/ /\ \E f : ReadAndWrite(s, f)
         /\ \E p \in {"done", "drive"} : pc' = [pc EXCEPT ![s] = p]
  BY DEF DriveFrom, Fail
<1> QED BY <1>0, <1>1, PcOf DEF Reads

LEMMA PendingReads ==
  ASSUME TypeOK, NEW s \in Side, pc[s] \in Waiting, chan[s] # <<>>,
         NEW h, NEW init, NEW m, DriveFromPending(s, h, init, m)
  PROVE  Reads(s)
<1>1. CASE DriveFrom(s, h, init, m) BY <1>1, DriveReads
<1>2. CASE ReadOnly(s) /\ pc' = [pc EXCEPT ![s] = "drive"]
  BY <1>2, PcOf DEF Reads, Waiting
<1> QED BY <1>1, <1>2 DEF DriveFromPending

\* A side that fails on what it has read answers nothing.
LEMMA FailReads ==
  ASSUME TypeOK, NEW s \in Side, pc[s] \in Waiting, chan[s] # <<>>,
         Fail(s), ReadOnly(s)
  PROVE  Reads(s)
BY PcOf DEF Reads, Fail, Waiting

LEMMA ReadReplyReads == TypeOK /\ ReadReply => Reads("client")
<1> SUFFICES ASSUME TypeOK, ReadReply PROVE Reads("client")
  OBVIOUS
<1>0. /\ "client" \in Side /\ pc["client"] \in Waiting /\ chan["client"] # <<>>
  BY DEF ReadReply, Side, Waiting
<1>1. PICK f : ReadAccept(f) \/ ReadReject(f) \/ ReadRetry(f) \/ ReadSwitch(f)
  BY DEF ReadReply
<1>2. CASE Fail("client") /\ ReadOnly("client") BY <1>0, <1>2, FailReads
<1>3. CASE ReadAccept(f) BY <1>0, <1>3, PendingReads DEF ReadAccept
<1>4. CASE ReadReject(f) BY <1>2, <1>4 DEF ReadReject
<1>5. CASE ReadRetry(f)
  <2>1. ASSUME pc' = [pc EXCEPT !["client"] = "reply"],
               NEW g, ReadAndWrite("client", g)
        PROVE  Reads("client")
    BY <1>0, <2>1, PcOf DEF Reads, Waiting
  <2> QED BY <1>2, <1>5, <2>1 DEF ReadRetry, Propose
<1>6. CASE ReadSwitch(f)
  BY <1>0, <1>2, <1>6, PendingReads DEF ReadSwitch
<1> QED BY <1>1, <1>3, <1>4, <1>5, <1>6

LEMMA ReadProposalReads == TypeOK /\ ReadProposal => Reads("server")
<1> SUFFICES ASSUME TypeOK, ReadProposal PROVE Reads("server")
  OBVIOUS
<1>0. /\ "server" \in Side /\ pc["server"] \in Waiting /\ chan["server"] # <<>>
  BY DEF ReadProposal, Side, Waiting
<1>1. PICK f : ReadNoProposal(f) \/ AcceptProposal(f) \/ RejectProposal(f)
               \/ AskRetry(f) \/ AskSwitch(f)
  BY DEF ReadProposal
<1>2. CASE Fail("server") /\ ReadOnly("server") BY <1>0, <1>2, FailReads
<1>3. ASSUME NEW p, pc' = [pc EXCEPT !["server"] = p],
             NEW g, ReadAndWrite("server", g)
      PROVE  Reads("server")
  BY <1>0, <1>3, PcOf DEF Reads, Waiting
<1>4. CASE ReadNoProposal(f) BY <1>2, <1>4 DEF ReadNoProposal
<1>5. CASE AcceptProposal(f)
  BY <1>0, <1>2, <1>5, PendingReads DEF AcceptProposal
<1>6. CASE RejectProposal(f) BY <1>3, <1>6 DEF RejectProposal, Fail
<1>7. CASE AskRetry(f) BY <1>3, <1>7 DEF AskRetry
<1>8. CASE AskSwitch(f) BY <1>2, <1>3, <1>8 DEF AskSwitch
<1> QED BY <1>1, <1>4, <1>5, <1>6, <1>7, <1>8

\* Steps that touch no channel and make nobody begin or fail unnoticed.
LEMMA QuietTurns ==
  ASSUME Turns, InFlight' = InFlight,
         (\A s \in Side : pc[s] # "closed")' =>
           /\ \A s \in Side : pc[s] # "closed"
           /\ pc'["client"] \in {"new", "failed"} => pc["client"] \in {"new", "failed"}
  PROVE  Turns'
BY DEF Turns

LEMMA InitTurns == Init => Turns
BY DEF Init, Turns, InFlight, Side

LEMMA StepTurns == Inv /\ Turns /\ [Next]_vars => Turns'
<1> SUFFICES ASSUME TypeOK, Turns, [Next]_vars PROVE Turns'
  BY DEF Inv
<1>0. "client" \in Side /\ "server" \in Side BY DEF Side
<1>1. CASE StartClient
  <2>1. PICK f : chan' = [chan EXCEPT !["server"] = Append(chan["server"], f)]
    BY <1>1 DEF StartClient
  <2>2. chan'["client"] = chan["client"]
        /\ chan'["server"] = Append(chan["server"], f)
    BY <1>0, <2>1 DEF TypeOK
  <2>3. chan["client"] \in Seq(Frame) /\ chan["server"] \in Seq(Frame)
    BY <1>0 DEF TypeOK
  <2>4. Len(chan'["server"]) = Len(chan["server"]) + 1 /\ Len(chan["server"]) \in Nat
        /\ Len(chan["client"]) \in Nat
    BY <2>2, <2>3
  <2>5. InFlight' = InFlight + 1 /\ InFlight \in Nat
    <3>1. PICK a \in Nat, b \in Nat :
            a = Len(chan["client"]) /\ b = Len(chan["server"])
      BY <2>4
    <3>2. InFlight = a + b BY <3>1 DEF InFlight
    <3>3. InFlight' = a + (b + 1) BY <2>2, <2>4, <3>1 DEF InFlight
    <3> QED BY <3>2, <3>3
  <2>6. pc["client"] \in {"new", "failed"} /\ pc' = [pc EXCEPT !["client"] = "reply"]
    BY <1>1 DEF StartClient, MayCall, Propose
  <2>7. pc'["client"] = "reply" /\ pc'["server"] = pc["server"]
    BY <1>0, <2>6, PcOf
  <2>8. (\A s \in Side : pc[s] # "closed")' => InFlight = 0
    BY <2>6, <2>7 DEF Turns, Side
  <2> QED BY <2>5, <2>7, <2>8 DEF Turns
<1>2. CASE StartServer
  <2>1. pc["server"] \in {"new", "failed"} /\ pc' = [pc EXCEPT !["server"] = "proposal"]
        /\ chan' = chan
    BY <1>2 DEF StartServer, MayCall
  <2>2. pc'["client"] = pc["client"] BY <1>0, <2>1, PcOf
  <2> QED BY <2>1, <2>2, QuietTurns DEF InFlight, Side
<1>3. CASE ReadReply BY <1>0, <1>3, ReadReplyReads, ReadsTurns
<1>4. CASE ReadProposal BY <1>0, <1>4, ReadProposalReads, ReadsTurns
<1>5. ASSUME NEW s \in Side, ReadDriven(s) PROVE Turns'
  <2>1. Reads(s) BY <1>5, DriveReads DEF ReadDriven, Waiting
  <2> QED BY <2>1, ReadsTurns
<1>6. ASSUME NEW s \in Side, Close(s) PROVE Turns'
  <2>1. pc'[s] = "closed" BY <1>6, PcOf DEF Close
  <2> QED BY <2>1 DEF Turns
<1>7. ASSUME NEW s \in Side, LosesConnection(s) PROVE Turns'
  <2>1. /\ pc[Peer(s)] = "closed" /\ pc' = [pc EXCEPT ![s] = "failed"]
        /\ Peer(s) \in Side /\ Peer(s) # s
    BY <1>7 DEF LosesConnection, Fail, Peer, Side
  <2>2. pc'[Peer(s)] = "closed" BY <2>1, PcOf
  <2> QED BY <2>1, <2>2 DEF Turns
<1>8. ASSUME NEW s \in Side, Alter(s) PROVE Turns'
  <2>1. PICK n \in Neg : chan' = [chan EXCEPT ![s] = [chan[s] EXCEPT ![1].neg = n]]
    BY <1>8 DEF Alter
  <2>2. chan[s] \in Seq(Frame) /\ DOMAIN chan = Side BY DEF TypeOK
  <2>3. Len([chan[s] EXCEPT ![1].neg = n]) = Len(chan[s]) BY <2>2
  <2>4. \A t \in Side : Len(chan'[t]) = Len(chan[t]) BY <2>1, <2>2, <2>3
  <2>5. InFlight' = InFlight BY <1>0, <2>4 DEF InFlight
  <2> QED BY <1>8, <2>5, QuietTurns DEF Alter
<1>9. CASE UNCHANGED vars BY <1>9, QuietTurns DEF vars, InFlight
<1> QED BY <1>1, <1>2, <1>3, <1>4, <1>5, <1>6, <1>7, <1>8, <1>9 DEF Next

\* The two sides take turns on the wire, whatever they are configured with, however
\* often their calls fail and begin again and whatever frames are altered.
THEOREM TurnsAreTaken == Spec => []TakeTurns
<1>1. Turns => TakeTurns BY DEF Turns, TakeTurns, InFlight
<1>2. Init => Inv /\ Turns BY InitInv, InitTurns
<1>3. Inv /\ Turns /\ [Next]_vars => (Inv /\ Turns)' BY StepInv, StepTurns
<1> QED BY <1>1, <1>2, <1>3, PTL DEF Spec

-----------------------------------------------------------------------------
(* Agreement.                                                              *)

Messages(w) == {w[i].msg : i \in DOMAIN w}

\* The message that ends its handshake, and a side that has ended by writing it.
Final(m) == m # NoMsg /\ Len(m.h.ids) + 1 = NMsgs[m.h.proto]
Endorsed(s, m) ==
  /\ pc[s] = "done" /\ hs[s] = MixId(m.h, m.id) /\ m.id[1] = s
  /\ WriteTurn(m.h, initiator[s])

Finals == \A s \in Side : \A m \in Messages(chan[s]) : Final(m) => Endorsed(Peer(s), m)

\* A side that waits for its peer's next message does not hold the turn itself.
Turned ==
  /\ \A s \in Side : pc[s] = "drive" => ~WriteTurn(hs[s], initiator[s])
  /\ pc["client"] = "reply" => ~WriteTurn(hs["client"], TRUE)

Ends == Finals /\ Turned /\ Agreement

\* What is left, or added, when frames are read and written.
LEMMA MessagesOf ==
  ASSUME NEW w \in Seq(Frame), NEW f \in Frame
  PROVE  /\ Messages(Append(w, f)) \subseteq Messages(w) \cup {f.msg}
         /\ w # <<>> => /\ Messages(Tail(w)) \subseteq Messages(w)
                        /\ Head(w).msg \in Messages(w)
<1>1. Messages(Append(w, f)) \subseteq Messages(w) \cup {f.msg}
  <2>1. \A i \in DOMAIN Append(w, f) :
          (i \in DOMAIN w /\ Append(w, f)[i] = w[i]) \/ Append(w, f)[i] = f
    OBVIOUS
  <2> QED BY <2>1 DEF Messages
<1>2. ASSUME w # <<>>
      PROVE  Messages(Tail(w)) \subseteq Messages(w) /\ Head(w).msg \in Messages(w)
  <2>1. \A i \in DOMAIN Tail(w) : i + 1 \in DOMAIN w /\ Tail(w)[i] = w[i + 1]
    BY <1>2
  <2>2. 1 \in DOMAIN w /\ Head(w) = w[1] BY <1>2
  <2> QED BY <2>1, <2>2 DEF Messages
<1> QED BY <1>1, <1>2

LEMMA MessagesRead ==
  ASSUME TypeOK, NEW s \in Side, chan[s] # <<>>
  PROVE  /\ Head(chan[s]).msg \in Messages(chan[s])
         /\ ReadOnly(s) => \A t \in Side : Messages(chan'[t]) \subseteq Messages(chan[t])
         /\ \A f \in Frame : ReadAndWrite(s, f) =>
              /\ Messages(chan'[s]) \subseteq Messages(chan[s])
              /\ Messages(chan'[Peer(s)]) \subseteq Messages(chan[Peer(s)]) \cup {f.msg}
<1>1. /\ chan[s] \in Seq(Frame) /\ chan[Peer(s)] \in Seq(Frame)
      /\ DOMAIN chan = Side /\ Peer(s) \in Side /\ Peer(s) # s
  BY DEF TypeOK, Peer, Side
<1>2. Head(chan[s]) \in Frame BY ChanType
<1>3. /\ Messages(Tail(chan[s])) \subseteq Messages(chan[s])
      /\ Head(chan[s]).msg \in Messages(chan[s])
  BY <1>1, <1>2, MessagesOf
<1>4. ASSUME ReadOnly(s), NEW t \in Side
      PROVE  Messages(chan'[t]) \subseteq Messages(chan[t])
  <2>1. chan'[t] = IF t = s THEN Tail(chan[s]) ELSE chan[t]
    BY <1>1, <1>4 DEF ReadOnly
  <2> QED BY <1>3, <2>1
<1>5. ASSUME NEW f \in Frame, ReadAndWrite(s, f)
      PROVE  /\ Messages(chan'[s]) \subseteq Messages(chan[s])
             /\ Messages(chan'[Peer(s)]) \subseteq Messages(chan[Peer(s)]) \cup {f.msg}
  <2>1. chan'[s] = Tail(chan[s]) /\ chan'[Peer(s)] = Append(chan[Peer(s)], f)
    BY <1>1, <1>5 DEF ReadAndWrite
  <2> QED BY <1>1, <1>3, <1>5, <2>1, MessagesOf
<1> QED BY <1>3, <1>4, <1>5

\* Reading and writing by turns.
LEMMA TurnsOf ==
  ASSUME NEW h \in Hash, NEW id \in Id, NEW init \in BOOLEAN
  PROVE  /\ WriteTurn(h, init) <=> ~WriteTurn(MixId(h, id), init)
         /\ WriteTurn(h, init) \in BOOLEAN
         /\ WriteTurn(h, ~init) <=> ~WriteTurn(h, init)
<1>1. Len(h.ids) \in Nat /\ Len(MixId(h, id).ids) = Len(h.ids) + 1
  BY MixIdType DEF Hash
<1>2. \A n \in Nat : (n % 2 = 0) <=> ~((n + 1) % 2 = 0) OBVIOUS
<1> QED BY <1>1, <1>2 DEF WriteTurn

LEMMA LastId ==
  ASSUME NEW h \in Hash, NEW id \in Id
  PROVE  MixId(h, id).ids[Len(MixId(h, id).ids)] = id
<1>1. h.ids \in Seq(Id) BY DEF Hash
<1>2. Append(h.ids, id)[Len(Append(h.ids, id))] = id BY <1>1
<1> QED BY <1>2, MixIdType

\* What a step of side s has to show.
LEMMA SideEnds ==
  ASSUME TypeOK, Ends, NEW s \in Side, pc[s] # "done",
         pc'[Peer(s)] = pc[Peer(s)], hs'[Peer(s)] = hs[Peer(s)],
         initiator'[Peer(s)] = initiator[Peer(s)],
         Messages(chan'[s]) \subseteq Messages(chan[s]),
         \A m \in Messages(chan'[Peer(s)]) :
           m \in Messages(chan[Peer(s)]) \/ (Final(m) => Endorsed(s, m)'),
         pc'[s] = "drive" => ~WriteTurn(hs'[s], initiator'[s]),
         s = "client" /\ pc'[s] = "reply" => ~WriteTurn(hs'[s], TRUE),
         ReadTheLast(s)' =>
           /\ pc[Peer(s)] = "done" /\ hs[Peer(s)] = hs'[s]
           /\ initiator[Peer(s)] # initiator'[s]
  PROVE  Ends'
<1> DEFINE t == Peer(s)
<1>0. /\ t \in Side /\ t # s /\ Peer(t) = s /\ "client" \in Side
      /\ \A r \in Side : r = s \/ r = t
  BY DEF Peer, Side
<1>1. Finals'
  <2>1. ASSUME NEW m \in Messages(chan'[s]), Final(m) PROVE Endorsed(t, m)'
    <3>1. Endorsed(t, m) BY <1>0, <2>1 DEF Ends, Finals
    <3> QED BY <3>1 DEF Endorsed
  <2>2. ASSUME NEW m \in Messages(chan'[t]), Final(m) PROVE Endorsed(s, m)'
    <3>1. ~Endorsed(s, m) BY DEF Endorsed
    <3>2. m \notin Messages(chan[t]) BY <1>0, <2>2, <3>1 DEF Ends, Finals
    <3> QED BY <2>2, <3>2
  <2>3. \A r \in Side : \A m \in Messages(chan'[r]) : Final(m) => Endorsed(Peer(r), m)'
    BY <1>0, <2>1, <2>2
  <2> QED BY <2>3 DEF Finals, Messages
<1>2. Turned'
  <2>1. pc'[t] = "drive" => ~WriteTurn(hs'[t], initiator'[t])
    BY <1>0 DEF Ends, Turned
  <2>2. pc'["client"] = "reply" => ~WriteTurn(hs'["client"], TRUE)
    BY <1>0 DEF Ends, Turned
  <2> QED BY <1>0, <2>1, <2>2 DEF Turned
<1>3. Agreement'
  <2>1. ~ReadTheLast(t)'
    <3>1. ~ReadTheLast(t) BY <1>0 DEF Ends, Agreement
    <3> QED BY <3>1 DEF ReadTheLast
  <2>2. ASSUME ReadTheLast(s)'
        PROVE  /\ pc'[t] = "done" /\ hs'[t] = hs'[s] /\ initiator'[t] # initiator'[s]
    BY <2>2
  <2>3. Ciphers(s).out = Ciphers(t).in /\ Ciphers(s).in = Ciphers(t).out
    BY <1>0 DEF Ciphers, Side
  <2> QED BY <1>0, <2>1, <2>2, <2>3 DEF Agreement
<1> QED BY <1>1, <1>2, <1>3 DEF Ends

\* Steps after which a side waits for nothing that has a turn, and has not ended.
LEMMA PlainEnds ==
  ASSUME TypeOK, Ends, NEW s \in Side, NEW p,
         pc[s] # "done", p \notin {"done", "drive", "reply"},
         pc' = [pc EXCEPT ![s] = p], UNCHANGED <<hs, initiator>>,
         \A r \in Side : \A m \in Messages(chan'[r]) :
           m \in Messages(chan[r]) \/ m = NoMsg
  PROVE  Ends'
<1>1. Peer(s) \in Side /\ Peer(s) # s BY DEF Peer, Side
<1>2. pc'[s] = p /\ pc'[Peer(s)] = pc[Peer(s)] BY <1>1, PcOf
<1>3. ~ReadTheLast(s)' BY <1>2 DEF ReadTheLast
<1>4. ~Final(NoMsg) BY DEF Final
<1>5. Finals'
  <2>1. \A r \in Side : \A m \in Messages(chan'[r]) : Final(m) => Endorsed(Peer(r), m)
    BY <1>4 DEF Ends, Finals
  <2>2. \A r \in Side : \A m : Endorsed(Peer(r), m) => Endorsed(Peer(r), m)'
    <3>1. \A r \in Side : pc[Peer(r)] = "done" => pc'[Peer(r)] = "done"
      BY <1>2, PcOf DEF Peer, Side
    <3> QED BY <3>1 DEF Endorsed
  <2> QED BY <2>1, <2>2 DEF Finals, Messages
<1>6. Turned'
  <2>1. \A r \in Side : pc'[r] = "drive" => pc[r] = "drive"
    BY <1>1, <1>2, PcOf
  <2>2. pc'["client"] = "reply" => pc["client"] = "reply"
    BY <1>1, <1>2, PcOf DEF Side
  <2> QED BY <2>1, <2>2 DEF Ends, Turned
<1>7. Agreement'
  <2>1. \A r \in Side : pc'[r] = "done" <=> pc[r] = "done"
    BY <1>2, PcOf
  <2>2. \A r \in Side : Peer(r) \in Side BY DEF Peer, Side
  <2> QED BY <2>1, <2>2 DEF Ends, Agreement, ReadTheLast
<1> QED BY <1>5, <1>6, <1>7 DEF Ends

LEMMA FailEnds ==
  ASSUME TypeOK, Ends, NEW s \in Side, pc[s] \in Waiting, chan[s] # <<>>,
         Fail(s), ReadOnly(s)
  PROVE  Ends'
<1>1. \A r \in Side : Messages(chan'[r]) \subseteq Messages(chan[r])
  BY MessagesRead
<1> QED BY <1>1, PlainEnds DEF Fail, Waiting

\* driveFrom: whoever reads the last message reads what its peer has written to
\* end the same handshake, since a message with a tag opens in one state only.
LEMMA DriveEnds ==
  ASSUME Inv, Ends, NEW s \in Side, pc[s] \in Waiting, chan[s] # <<>>,
         NEW h \in Hash, NEW init \in BOOLEAN, ~WriteTurn(h, init),
         NEW m \in Message \cup {NoMsg}, m = Head(chan[s]).msg,
         DriveFrom(s, h, init, m)
  PROVE  Ends'
<1> DEFINE read0 == MixId(h, m.id)
           id0 == NewId(s, read0)
           written0 == MixId(read0, id0)
           reply0 == [neg |-> NoNeg, msg |-> [id |-> id0, h |-> read0]]
<1>0. TypeOK /\ pc[s] # "done" BY DEF Inv, Waiting
<1>1. PICK ok \in ReadMessage(h, m) :
        \/ ~ok /\ Fail(s) /\ ReadOnly(s)
        \/ /\ ok
           /\ WriteTurn(read0, init)
           /\ hs' = [hs EXCEPT ![s] = written0]
           /\ initiator' = [initiator EXCEPT ![s] = init]
           /\ pc' = [pc EXCEPT ![s] = IF Complete(written0) THEN "done" ELSE "drive"]
           /\ ReadAndWrite(s, reply0)
        \/ /\ ok
           /\ Complete(read0)
           /\ hs' = [hs EXCEPT ![s] = read0]
           /\ initiator' = [initiator EXCEPT ![s] = init]
           /\ pc' = [pc EXCEPT ![s] = "done"]
           /\ ReadOnly(s)
  BY DEF DriveFrom
<1>2. CASE ~ok BY <1>0, <1>1, <1>2, FailEnds
<1>3. CASE ok
  <2>1. m \in Message /\ m.id \in Id
    BY <1>1, <1>3 DEF ReadMessage, Message
  <2>2. read0 \in Hash /\ read0.proto = h.proto /\ Len(read0.ids) = Len(h.ids) + 1
    BY <2>1, MixIdType
  <2>3. id0 \in Id /\ id0[1] = s
    BY <1>0, <2>2, NewIdType DEF NewId
  <2>4. written0 \in Hash /\ written0.proto = h.proto
        /\ Len(written0.ids) = Len(read0.ids) + 1
    BY <2>2, <2>3, MixIdType
  <2>5. reply0 \in Frame
    BY <2>2, <2>3 DEF Frame, Message, Neg
  <2>6. PICK read, id, written, reply :
          read = read0 /\ id = id0 /\ written = written0 /\ reply = reply0
    OBVIOUS
  <2>7. /\ read \in Hash /\ read = MixId(h, m.id) /\ Len(read.ids) = Len(h.ids) + 1
        /\ read.proto = h.proto
        /\ id \in Id /\ id[1] = s
        /\ written \in Hash /\ written = MixId(read, id)
        /\ written.proto = read.proto /\ Len(written.ids) = Len(read.ids) + 1
        /\ reply \in Frame /\ reply.msg = [id |-> id, h |-> read]
    BY <2>2, <2>3, <2>4, <2>5, <2>6
  <2>8. \/ /\ WriteTurn(read, init)
           /\ hs' = [hs EXCEPT ![s] = written]
           /\ initiator' = [initiator EXCEPT ![s] = init]
           /\ pc' = [pc EXCEPT ![s] = IF Complete(written) THEN "done" ELSE "drive"]
           /\ ReadAndWrite(s, reply)
        \/ /\ Complete(read)
           /\ hs' = [hs EXCEPT ![s] = read]
           /\ initiator' = [initiator EXCEPT ![s] = init]
           /\ pc' = [pc EXCEPT ![s] = "done"]
           /\ ReadOnly(s)
    BY <1>1, <1>3, <2>6
  <2> HIDE DEF read0, id0, written0, reply0
  <2>9. Peer(s) \in Side /\ Peer(s) # s /\ DOMAIN hs = Side /\ DOMAIN initiator = Side
    BY <1>0 DEF Peer, Side, TypeOK
  <2>10. CASE /\ WriteTurn(read, init)
              /\ hs' = [hs EXCEPT ![s] = written]
              /\ initiator' = [initiator EXCEPT ![s] = init]
              /\ pc' = [pc EXCEPT ![s] = IF Complete(written) THEN "done" ELSE "drive"]
              /\ ReadAndWrite(s, reply)
    <3>1. /\ hs'[s] = written /\ initiator'[s] = init
          /\ hs'[Peer(s)] = hs[Peer(s)] /\ initiator'[Peer(s)] = initiator[Peer(s)]
      BY <2>9, <2>10
    <3>2. /\ pc'[s] = (IF Complete(written) THEN "done" ELSE "drive")
          /\ pc'[Peer(s)] = pc[Peer(s)]
      BY <1>0, <2>9, <2>10, PcOf
    <3>3. /\ Messages(chan'[s]) \subseteq Messages(chan[s])
          /\ Messages(chan'[Peer(s)]) \subseteq Messages(chan[Peer(s)]) \cup {reply.msg}
      BY <1>0, <2>7, <2>10, MessagesRead
    <3>4. Final(reply.msg) => Endorsed(s, reply.msg)'
      <4>1. Final(reply.msg) => Complete(written)
        BY <2>7 DEF Final, Complete
      <4>2. reply.msg.h = read /\ reply.msg.id = id BY <2>7
      <4> QED BY <2>7, <2>10, <3>1, <3>2, <4>1, <4>2 DEF Endorsed
    <3>5. ~WriteTurn(written, init) BY <2>7, <2>10, TurnsOf
    <3>6. ~ReadTheLast(s)'
      <4>1. written.ids[Len(written.ids)] = id BY <2>7, LastId
      <4> QED BY <2>7, <3>1, <4>1 DEF ReadTheLast
    <3>7. pc'[s] # "reply" BY <3>2
    <3> QED BY <1>0, <3>1, <3>2, <3>3, <3>4, <3>5, <3>6, <3>7, SideEnds
  <2>11. CASE /\ Complete(read)
              /\ hs' = [hs EXCEPT ![s] = read]
              /\ initiator' = [initiator EXCEPT ![s] = init]
              /\ pc' = [pc EXCEPT ![s] = "done"]
              /\ ReadOnly(s)
    <3>1. /\ hs'[s] = read /\ initiator'[s] = init
          /\ hs'[Peer(s)] = hs[Peer(s)] /\ initiator'[Peer(s)] = initiator[Peer(s)]
      BY <2>9, <2>11
    <3>2. pc'[s] = "done" /\ pc'[Peer(s)] = pc[Peer(s)]
      BY <1>0, <2>9, <2>11, PcOf
    <3>3. \A r \in Side : Messages(chan'[r]) \subseteq Messages(chan[r])
      BY <1>0, <2>11, MessagesRead
    <3>4. m.h = h
      <4>1. h.proto \in Protocols BY DEF Hash
      <4>2. Len(h.ids) \in Nat BY DEF Hash
      <4>3. Len(h.ids) >= FirstTag[h.proto]
        <5>1. Len(h.ids) + 1 = NMsgs[h.proto] BY <2>7, <2>11 DEF Complete
        <5>2. NMsgs[h.proto] \in Nat \ {0, 1} /\ FirstTag[h.proto] \in {0, 1}
          BY <4>1, ProtocolsAssumption
        <5> QED BY <4>2, <5>1, <5>2
      <4> QED BY <1>1, <1>3, <4>3 DEF ReadMessage
    <3>5. Endorsed(Peer(s), m)
      <4>1. m \in Messages(chan[s]) BY <1>0, MessagesRead
      <4>2. Final(m)
        BY <1>1, <1>3, <2>7, <2>11, <3>4 DEF Final, Complete, ReadMessage
      <4> QED BY <4>1, <4>2 DEF Ends, Finals
    <3>6. /\ pc[Peer(s)] = "done" /\ hs[Peer(s)] = read
          /\ initiator[Peer(s)] # init
      BY <2>7, <3>4, <3>5 DEF Endorsed
    <3> QED BY <1>0, <2>9, <3>1, <3>2, <3>3, <3>6, SideEnds
  <2> QED BY <2>8, <2>10, <2>11
<1> QED BY <1>2, <1>3

\* A side that has begun to wait within a handshake.
LEMMA WaitEnds ==
  ASSUME TypeOK, Ends, NEW s \in Side, pc[s] # "done",
         NEW h \in Hash, NEW init \in BOOLEAN, ~WriteTurn(h, init),
         NEW p \in {"drive", "reply"}, p = "reply" => init,
         pc' = [pc EXCEPT ![s] = p], hs' = [hs EXCEPT ![s] = h],
         initiator' = [initiator EXCEPT ![s] = init],
         Messages(chan'[s]) \subseteq Messages(chan[s]),
         \A m \in Messages(chan'[Peer(s)]) :
           m \in Messages(chan[Peer(s)]) \/ ~Final(m)
  PROVE  Ends'
<1>1. Peer(s) \in Side /\ Peer(s) # s /\ DOMAIN hs = Side /\ DOMAIN initiator = Side
  BY DEF Peer, Side, TypeOK
<1>2. /\ pc'[s] = p /\ hs'[s] = h /\ initiator'[s] = init
      /\ pc'[Peer(s)] = pc[Peer(s)] /\ hs'[Peer(s)] = hs[Peer(s)]
      /\ initiator'[Peer(s)] = initiator[Peer(s)]
  BY <1>1, PcOf
<1>3. ~ReadTheLast(s)' BY <1>2 DEF ReadTheLast
<1>4. pc'[s] = "reply" => ~WriteTurn(hs'[s], TRUE) BY <1>2
<1> QED BY <1>1, <1>2, <1>3, <1>4, SideEnds

LEMMA PendingEnds ==
  ASSUME Inv, Ends, NEW s \in Side, pc[s] \in Waiting, chan[s] # <<>>,
         NEW h \in Hash, NEW init \in BOOLEAN, ~WriteTurn(h, init),
         NEW m \in Message \cup {NoMsg}, m = Head(chan[s]).msg,
         DriveFromPending(s, h, init, m)
  PROVE  Ends'
<1>1. CASE DriveFrom(s, h, init, m) BY <1>1, DriveEnds
<1>2. CASE /\ hs' = [hs EXCEPT ![s] = h]
           /\ initiator' = [initiator EXCEPT ![s] = init]
           /\ pc' = [pc EXCEPT ![s] = "drive"]
           /\ ReadOnly(s)
  <2>1. TypeOK /\ pc[s] # "done" BY DEF Inv, Waiting
  <2>2. \A r \in Side : Messages(chan'[r]) \subseteq Messages(chan[r])
    BY <1>2, <2>1, MessagesRead
  <2>3. Peer(s) \in Side BY DEF Peer, Side
  <2> QED BY <1>2, <2>1, <2>2, <2>3, WaitEnds
<1> QED BY <1>1, <1>2 DEF DriveFromPending

\* A handshake begins with its initiator's turn.
LEMMA FirstTurn ==
  ASSUME NEW p, NEW n, NEW a, NEW d
  PROVE  ~WriteTurn(NewHS(p, n, a, d), FALSE) /\ WriteTurn(NewHS(p, n, a, d), TRUE)
<1>1. Len(NewHS(p, n, a, d).ids) = 0 BY DEF NewHS
<1> QED BY <1>1 DEF WriteTurn

\* No handshake ends with its first message.
LEMMA FirstIsNotFinal ==
  ASSUME NEW p \in Protocols, NEW n, NEW a, NEW d, NEW m, m.h = NewHS(p, n, a, d)
  PROVE  ~Final(m)
<1>1. Len(m.h.ids) = 0 /\ m.h.proto = p BY DEF NewHS
<1>2. NMsgs[p] # 1 BY ProtocolsAssumption
<1> QED BY <1>1, <1>2 DEF Final

\* The client's proposal.
LEMMA ProposeEnds ==
  ASSUME Inv, Ends, NEW call \in Nat, NEW n \in Nat, NEW p \in Protocols,
         NEW d \in Seq(Record), pc["client"] # "done",
         Propose(call, n, p, d),
         Messages(chan'["client"]) \subseteq Messages(chan["client"]),
         Messages(chan'["server"]) \subseteq
           Messages(chan["server"]) \cup {ProposalFrame(call, n, p, d).msg}
  PROVE  Ends'
<1> DEFINE h0 == ProposalHS(p, d)
           id == <<"client", call, n, 0>>
<1>0. TypeOK /\ "client" \in Side /\ Peer("client") = "server" BY DEF Inv, Side, Peer
<1>1. h0 \in Hash /\ id \in Id BY ProposalType
<1>2. PICK g, m : g = MixId(h0, id) /\ m = ProposalFrame(call, n, p, d).msg
  OBVIOUS
<1>3. g \in Hash BY <1>1, <1>2, MixIdType
<1>4. ~WriteTurn(g, TRUE) BY <1>1, <1>2, FirstTurn, TurnsOf DEF ProposalHS
<1>5. ~Final(m)
  <2>1. m.h = h0 BY <1>2 DEF ProposalFrame
  <2> QED BY <2>1, FirstIsNotFinal DEF ProposalHS
<1>6. /\ hs' = [hs EXCEPT !["client"] = g]
      /\ initiator' = [initiator EXCEPT !["client"] = TRUE]
      /\ pc' = [pc EXCEPT !["client"] = "reply"]
  BY <1>2 DEF Propose
<1> HIDE DEF h0, id
<1>7. \A b \in Messages(chan'["server"]) : b \in Messages(chan["server"]) \/ ~Final(b)
  BY <1>2, <1>5
<1> QED BY <1>0, <1>3, <1>4, <1>6, <1>7, WaitEnds

LEMMA ReadReplyEnds == Inv /\ Ends /\ ReadReply => Ends'
<1> SUFFICES ASSUME Inv, Ends, ReadReply PROVE Ends'
  OBVIOUS
<1> DEFINE f0 == Head(chan["client"])
<1>0. /\ TypeOK /\ "client" \in Side /\ Peer("client") = "server"
      /\ chan["client"] # <<>> /\ pc["client"] = "reply"
      /\ pc["client"] \in Waiting /\ pc["client"] # "done"
      /\ f0 \in Frame
  BY ChanType DEF ReadReply, Inv, Side, Peer, Waiting
<1>1. PICK f, m : f = f0 /\ m = f0.msg
  OBVIOUS
<1>2. /\ f \in Frame /\ f.neg \in Neg /\ m = f.msg /\ m \in Message \cup {NoMsg}
      /\ m = Head(chan["client"]).msg
      /\ ReadAccept(f) \/ ReadReject(f) \/ ReadRetry(f) \/ ReadSwitch(f)
  BY <1>0, <1>1 DEF Frame, ReadReply
<1> HIDE DEF f0
<1>3. hs["client"] \in Hash /\ ~WriteTurn(hs["client"], TRUE)
  BY <1>0 DEF Inv, Stages, HasHS, Ends, Turned
<1>4. /\ dead["client"] \in Seq(Record)
      /\ SentFrame \in Record /\ FrameBytes(f) \in Record
  BY <1>0, <1>2, SentFrameType, FrameBytesType DEF TypeOK
<1>5. CASE Fail("client") /\ ReadOnly("client") BY <1>0, <1>5, FailEnds
<1>6. CASE ReadAccept(f)
  <2>1. PICK h \in Hash : h = hs["client"] BY <1>3
  <2> QED BY <1>0, <1>2, <1>3, <1>6, <2>1, PendingEnds DEF ReadAccept
<1>7. CASE ReadReject(f) BY <1>5, <1>7 DEF ReadReject
<1>8. CASE ReadRetry(f)
  <2>1. PICK p, n, d, call, g :
          /\ p = f.neg.proto /\ n = attempt["client"] + 1 /\ d = RetryTranscript(f)
          /\ call = calls["client"] /\ g = ProposalFrame(call, n, p, d)
    OBVIOUS
  <2>2. CASE Propose(call, n, p, d) /\ ReadAndWrite("client", g)
    <3>1. p \in Protocols BY <1>2, <1>8, <2>1, NegProto DEF ReadRetry
    <3>2. d \in Seq(Record) BY <1>4, <2>1 DEF RetryTranscript
    <3>3. n \in Nat /\ call \in Nat
      BY <1>0, <2>1, BoundsAssumption DEF TypeOK
    <3>4. g \in Frame BY <2>1, <3>1, <3>2, <3>3, ProposalType
    <3>5. /\ Messages(chan'["client"]) \subseteq Messages(chan["client"])
          /\ Messages(chan'["server"]) \subseteq Messages(chan["server"]) \cup {g.msg}
      BY <1>0, <2>2, <3>4, MessagesRead
    <3> QED BY <1>0, <2>1, <2>2, <3>1, <3>2, <3>3, <3>5, ProposeEnds
  <2> QED BY <1>5, <1>8, <2>1, <2>2 DEF ReadRetry
<1>9. CASE ReadSwitch(f)
  <2>1. PICK h : h = SwitchHS(f, Append(dead["client"], SentFrame))
    OBVIOUS
  <2>2. CASE DriveFromPending("client", h, FALSE, m)
    <3>1. f.neg.proto \in Protocols BY <1>2, <1>9, NegProto DEF ReadSwitch
    <3>2. /\ Append(dead["client"], SentFrame) \in Seq(Record)
          /\ cfg.app["client"] \in {"app1", "app2"}
      BY <1>0, <1>4, ConfigType DEF TypeOK
    <3>3. h \in Hash
      BY <1>2, <2>1, <3>1, <3>2, HashType DEF SwitchHS
    <3>4. ~WriteTurn(h, FALSE) BY <2>1, FirstTurn DEF SwitchHS
    <3> QED BY <1>0, <1>2, <2>2, <3>3, <3>4, PendingEnds
  <2> QED BY <1>2, <1>5, <1>9, <2>1, <2>2 DEF ReadSwitch
<1> QED BY <1>2, <1>6, <1>7, <1>8, <1>9

LEMMA ReadProposalEnds == Inv /\ Ends /\ ReadProposal => Ends'
<1> SUFFICES ASSUME Inv, Ends, ReadProposal PROVE Ends'
  OBVIOUS
<1> DEFINE f0 == Head(chan["server"])
<1>0. /\ TypeOK /\ "server" \in Side /\ Peer("server") = "client"
      /\ chan["server"] # <<>> /\ pc["server"] = "proposal"
      /\ pc["server"] \in Waiting /\ pc["server"] # "done"
      /\ f0 \in Frame
  BY ChanType DEF ReadProposal, Inv, Side, Peer, Waiting
<1>1. PICK f, m : f = f0 /\ m = f0.msg
  OBVIOUS
<1>2. /\ f \in Frame /\ f.neg \in Neg /\ m = f.msg /\ m \in Message \cup {NoMsg}
      /\ m = Head(chan["server"]).msg
      /\ \/ ReadNoProposal(f)
         \/ /\ f.neg.action = "propose"
            /\ \/ AcceptProposal(f) \/ RejectProposal(f)
               \/ AskRetry(f) \/ AskSwitch(f)
  BY <1>0, <1>1 DEF Frame, ReadProposal
<1> HIDE DEF f0
<1>3. /\ dead["server"] \in Seq(Record) /\ FrameBytes(f) \in Record
      /\ cfg.app["server"] \in {"app1", "app2"} /\ Target \in Protocols
  BY <1>0, <1>2, FrameBytesType, ConfigType DEF TypeOK
<1>4. CASE Fail("server") /\ ReadOnly("server") BY <1>0, <1>4, FailEnds
\* A reply without a Noise message after which the server waits for a proposal,
\* or for nothing.
<1>5. ASSUME NEW g \in Frame, g.msg = NoMsg, ReadAndWrite("server", g),
             NEW p \in {"proposal", "failed"}, pc' = [pc EXCEPT !["server"] = p],
             UNCHANGED <<hs, initiator>>
      PROVE  Ends'
  <2>1. /\ Messages(chan'["server"]) \subseteq Messages(chan["server"])
        /\ Messages(chan'["client"]) \subseteq Messages(chan["client"]) \cup {NoMsg}
    BY <1>0, <1>5, MessagesRead
  <2>2. \A r \in Side : \A b \in Messages(chan'[r]) : b \in Messages(chan[r]) \/ b = NoMsg
    BY <2>1 DEF Side
  <2> QED BY <1>0, <1>5, <2>2, PlainEnds
<1>6. CASE ReadNoProposal(f) BY <1>4, <1>6 DEF ReadNoProposal
<1>7. CASE f.neg.action = "propose" /\ AcceptProposal(f)
  <2>1. PICK h : h = AcceptHS(f)
    OBVIOUS
  <2>2. CASE DriveFromPending("server", h, FALSE, m)
    <3>1. f.neg.proto \in Protocols BY <1>2, <1>7, NegProto
    <3>2. h \in Hash BY <1>2, <1>3, <2>1, <3>1, HashType DEF AcceptHS
    <3>3. ~WriteTurn(h, FALSE) BY <2>1, FirstTurn DEF AcceptHS
    <3> QED BY <1>0, <1>2, <2>2, <3>2, <3>3, PendingEnds
  <2> QED BY <1>2, <1>4, <1>7, <2>1, <2>2 DEF AcceptProposal
<1>8. CASE RejectProposal(f)
  <2>1. PICK g : g = [neg |-> Reject, msg |-> NoMsg]
    OBVIOUS
  <2>2. g \in Frame /\ g.msg = NoMsg BY <2>1 DEF Frame, Neg
  <2> QED BY <1>5, <1>8, <2>1, <2>2 DEF RejectProposal, Fail
<1>9. CASE AskRetry(f)
  <2>1. PICK g : g = RetryReply
    OBVIOUS
  <2>2. g \in Frame /\ g.msg = NoMsg BY <1>3, <2>1, NegType DEF RetryReply, Frame
  <2>3. \E p \in {"proposal", "failed"} : pc' = [pc EXCEPT !["server"] = p]
    BY <1>9 DEF AskRetry
  <2> QED BY <1>5, <1>9, <2>1, <2>2, <2>3 DEF AskRetry
<1>10. CASE AskSwitch(f)
  <2>1. PICK h, id, g, w :
          /\ h = ServerSwitchHS(f) /\ id = NewId("server", h)
          /\ g = [neg |-> Switch(Target), msg |-> [id |-> id, h |-> h]]
          /\ w = MixId(h, id)
    OBVIOUS
  <2>2. CASE /\ hs' = [hs EXCEPT !["server"] = w]
             /\ initiator' = [initiator EXCEPT !["server"] = TRUE]
             /\ pc' = [pc EXCEPT !["server"] = "drive"]
             /\ ReadAndWrite("server", g)
    <3>1. Append(dead["server"], FrameBytes(f)) \in Seq(Record) /\ Switch(Target) \in Neg
      BY <1>3, NegType
    <3>2. h \in Hash BY <1>3, <2>1, <3>1, HashType DEF ServerSwitchHS
    <3>3. id \in Id BY <1>0, <2>1, <3>2, NewIdType
    <3>4. w \in Hash BY <2>1, <3>2, <3>3, MixIdType
    <3>5. g \in Frame BY <2>1, <3>1, <3>2, <3>3 DEF Frame, Message
    <3>6. ~WriteTurn(w, TRUE)
      <4>1. WriteTurn(h, TRUE) BY <2>1, FirstTurn DEF ServerSwitchHS
      <4> QED BY <2>1, <3>2, <3>3, <4>1, TurnsOf
    <3>7. ~Final(g.msg)
      <4>1. g.msg.h = h BY <2>1
      <4> QED BY <1>3, <2>1, <4>1, FirstIsNotFinal DEF ServerSwitchHS
    <3>8. /\ Messages(chan'["server"]) \subseteq Messages(chan["server"])
          /\ Messages(chan'["client"]) \subseteq Messages(chan["client"]) \cup {g.msg}
      BY <1>0, <2>2, <3>5, MessagesRead
    <3>9. \A b \in Messages(chan'["client"]) : b \in Messages(chan["client"]) \/ ~Final(b)
      BY <3>7, <3>8
    <3> QED BY <1>0, <2>2, <3>4, <3>6, <3>8, <3>9, WaitEnds
  <2> QED BY <1>4, <1>10, <2>1, <2>2 DEF AskSwitch
<1> QED BY <1>2, <1>6, <1>7, <1>8, <1>9, <1>10

LEMMA StartClientEnds == Inv /\ Ends /\ StartClient => Ends'
<1> SUFFICES ASSUME Inv, Ends, StartClient PROVE Ends'
  OBVIOUS
<1>0. /\ TypeOK /\ "client" \in Side /\ "server" \in Side /\ pc["client"] # "done"
  BY DEF Inv, Side, StartClient, MayCall
<1>1. PICK call, p, d, g :
        /\ call = calls["client"] + 1 /\ p = cfg.proposed /\ d = <<>>
        /\ g = ProposalFrame(call, 0, p, d)
  OBVIOUS
<1>2. /\ Propose(call, 0, p, d)
      /\ chan' = [chan EXCEPT !["server"] = Append(chan["server"], g)]
  BY <1>1 DEF StartClient
<1>3. /\ call \in Nat /\ p \in Protocols /\ d \in Seq(Record)
  BY <1>0, <1>1, ConfigType, BoundsAssumption DEF TypeOK
<1>4. g \in Frame BY <1>1, <1>3, ProposalType
<1>5. /\ chan'["client"] = chan["client"]
      /\ chan'["server"] = Append(chan["server"], g)
      /\ chan["server"] \in Seq(Frame)
  BY <1>0, <1>2 DEF TypeOK
<1>6. Messages(chan'["server"]) \subseteq Messages(chan["server"]) \cup {g.msg}
  BY <1>4, <1>5, MessagesOf
<1> QED BY <1>0, <1>1, <1>2, <1>3, <1>5, <1>6, ProposeEnds

\* An alteration leaves the Noise messages as they are.
LEMMA AlterEnds == ASSUME NEW s \in Side PROVE Inv /\ Ends /\ Alter(s) => Ends'
<1> SUFFICES ASSUME Inv, Ends, Alter(s) PROVE Ends'
  OBVIOUS
<1>1. /\ chan[s] \in Seq(Frame) /\ DOMAIN chan = Side /\ chan[s] # <<>>
      /\ UNCHANGED <<pc, hs, initiator>>
  BY DEF Inv, TypeOK, Alter
<1>2. PICK n \in Neg : chan' = [chan EXCEPT ![s] = [chan[s] EXCEPT ![1].neg = n]]
  BY DEF Alter
<1>3. chan[s][1] \in Frame /\ 1 \in DOMAIN chan[s] BY <1>1
<1>4. [chan[s][1] EXCEPT !.neg = n].msg = chan[s][1].msg BY <1>3 DEF Frame
<1>5. \A i \in DOMAIN chan[s] :
        [chan[s] EXCEPT ![1].neg = n][i].msg = chan[s][i].msg
  BY <1>3, <1>4
<1>6. chan'[s] = [chan[s] EXCEPT ![1].neg = n] BY <1>1, <1>2
<1>7. Messages(chan'[s]) \subseteq Messages(chan[s])
  BY <1>1, <1>5, <1>6 DEF Messages
<1>8. \A r \in Side : Messages(chan'[r]) \subseteq Messages(chan[r])
  BY <1>1, <1>2, <1>7
<1>9. Finals'
  <2>1. \A r \in Side : \A m \in Messages(chan'[r]) : Final(m) => Endorsed(Peer(r), m)
    BY <1>8 DEF Ends, Finals
  <2>2. \A t, m : Endorsed(t, m) => Endorsed(t, m)' BY <1>1 DEF Endorsed
  <2> QED BY <2>1, <2>2 DEF Finals, Messages
<1>10. Turned' BY <1>1 DEF Ends, Turned
<1>11. Agreement' BY <1>1 DEF Ends, Agreement, ReadTheLast
<1> QED BY <1>9, <1>10, <1>11 DEF Ends

LEMMA InitEnds == Init => Ends
<1> SUFFICES ASSUME Init PROVE Ends
  OBVIOUS
<1>1. \A s \in Side : chan[s] = <<>> /\ pc[s] = "new" BY DEF Init
<1>2. Finals BY <1>1 DEF Finals, Messages
<1>3. Turned /\ Agreement BY <1>1 DEF Turned, Agreement, ReadTheLast, Side
<1> QED BY <1>2, <1>3 DEF Ends

LEMMA StepEnds == Inv /\ Ends /\ [Next]_vars => Ends'
<1> SUFFICES ASSUME Inv, Ends, [Next]_vars PROVE Ends'
  OBVIOUS
<1>0. TypeOK /\ "server" \in Side BY DEF Inv, Side
<1>1. CASE StartClient BY <1>1, StartClientEnds
<1>2. CASE StartServer
  <2>1. /\ pc["server"] # "done" /\ pc' = [pc EXCEPT !["server"] = "proposal"]
        /\ UNCHANGED <<hs, initiator, chan>>
    BY <1>2 DEF StartServer, MayCall
  <2> QED BY <1>0, <2>1, PlainEnds
<1>3. CASE ReadReply BY <1>3, ReadReplyEnds
<1>4. CASE ReadProposal BY <1>4, ReadProposalEnds
<1>5. ASSUME NEW s \in Side, ReadDriven(s) PROVE Ends'
  <2>1. /\ chan[s] # <<>> /\ Head(chan[s]) \in Frame /\ pc[s] = "drive"
        /\ hs[s] \in Hash /\ initiator[s] \in BOOLEAN
        /\ ~WriteTurn(hs[s], initiator[s])
    BY <1>0, <1>5, ChanType DEF Inv, TypeOK, Stages, HasHS, ReadDriven, Ends, Turned
  <2>2. PICK h \in Hash, init \in BOOLEAN, m \in Message \cup {NoMsg} :
          h = hs[s] /\ init = initiator[s] /\ m = Head(chan[s]).msg
    BY <2>1 DEF Frame
  <2> QED BY <1>5, <2>1, <2>2, DriveEnds DEF ReadDriven, Waiting
<1>6. ASSUME NEW s \in Side, Close(s) PROVE Ends'
  <2>1. /\ pc[s] # "done" /\ pc' = [pc EXCEPT ![s] = "closed"]
        /\ UNCHANGED <<hs, initiator, chan>>
    BY <1>6 DEF Close, Waiting
  <2> QED BY <1>0, <2>1, PlainEnds
<1>7. ASSUME NEW s \in Side, LosesConnection(s) PROVE Ends'
  <2>1. /\ pc[s] # "done" /\ pc' = [pc EXCEPT ![s] = "failed"]
        /\ UNCHANGED <<hs, initiator, chan>>
    BY <1>7 DEF LosesConnection, Fail, Waiting
  <2> QED BY <1>0, <2>1, PlainEnds
<1>8. ASSUME NEW s \in Side, Alter(s) PROVE Ends' BY <1>8, AlterEnds
<1>9. CASE UNCHANGED vars
  <2>1. UNCHANGED <<pc, hs, initiator, chan>> BY <1>9 DEF vars
  <2>2. \A t, m : Endorsed(t, m) => Endorsed(t, m)' BY <2>1 DEF Endorsed
  <2>3. Finals' BY <2>1, <2>2 DEF Ends, Finals, Messages
  <2>4. Turned' BY <2>1 DEF Ends, Turned
  <2>5. Agreement' BY <2>1 DEF Ends, Agreement, ReadTheLast
  <2> QED BY <2>3, <2>4, <2>5 DEF Ends
<1> QED BY <1>1, <1>2, <1>3, <1>4, <1>5, <1>6, <1>7, <1>8, <1>9 DEF Next

\* Whoever has verified its peer's tag over the whole exchange has a peer that
\* ended the same handshake in the opposite role with the ciphers that fit, for
\* all protocols and configurations, however often Handshake is called and
\* whatever negotiation_data is altered.
THEOREM SidesAgree == Spec => []Agreement
<1>1. Ends => Agreement BY DEF Ends
<1>2. Init => Inv /\ Ends BY InitInv, InitEnds
<1>3. Inv /\ Ends /\ [Next]_vars => (Inv /\ Ends)' BY StepInv, StepEnds
<1> QED BY <1>1, <1>2, <1>3, PTL DEF Spec
=============================================================================
