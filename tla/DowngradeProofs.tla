--------------------------- MODULE DowngradeProofs ---------------------------
(***************************************************************************)
(* Why the negotiation is bound against downgrades: a handshake state has  *)
(* in it the frames that led to it, the two sides that finish have the     *)
(* same one (SidesAgree), and what a client and a server with the same one *)
(* have been through is what their configurations lead to.                 *)
(*                                                                         *)
(* And why tampering with a retry or a switch does not go unnoticed: from  *)
(* then on the two sides' transcripts differ, and nothing that is on its   *)
(* way to one of them is what it waits for.                                *)
(***************************************************************************)
EXTENDS NegotiationProofs

-----------------------------------------------------------------------------
(* The inductive invariant.                                                *)

\* A transcript of the client begins with the proposal of its command line.
Chained(d) == d # <<>> /\ d[1].neg = Proposal(cfg.proposed, "data")

\* A transcript of the server that ends with a retry it has asked for, because
\* it did not support the first proposal.
Unsupported(d) == d # <<>> /\ ~Supports(d[1].neg.proto)
Asked(d) ==
  cfg.policy = "retry" /\ Unsupported(d) /\ d[Len(d)].neg = Retry(Target)

\* What a side's handshake state h says of its negotiation, by its Noise role.
ClientInitiates(h) ==
  /\ h.neg = Proposal(h.proto, "data")
  /\ Builds("client", h.proto, TRUE)
  /\ \/ h.dead = <<>> /\ h.proto = cfg.proposed
     \/ /\ Chained(h.dead) /\ h.dead[Len(h.dead)].neg = Retry(h.proto)
        /\ AllowedProtocol(h.proto) /\ MaxNegAttempts > 1
ClientResponds(h) ==
  /\ h.neg = Switch(h.proto)
  /\ Builds("client", h.proto, FALSE)
  /\ Chained(h.dead) /\ AllowedProtocol(h.proto)
ServerResponds(h) ==
  /\ Supports(h.proto) /\ Builds("server", h.proto, FALSE)
  /\ h.dead = <<>> \/ Asked(h.dead)
ServerInitiates(h) ==
  /\ cfg.policy = "switch"
  /\ h.proto = Target /\ h.neg = Switch(Target)
  /\ Builds("server", Target, TRUE)
  /\ Unsupported(h.dead)

Negotiates(s, h, init) ==
  /\ h.app = cfg.app[s]
  /\ s = "client" => IF init THEN ClientInitiates(h) ELSE ClientResponds(h)
  /\ s = "server" => IF init THEN ServerInitiates(h) ELSE ServerResponds(h)

\* Where a side has a handshake state, that state says which frames made it; the
\* two transcripts in between are those of a client and of a server.
Made ==
  /\ \A s \in Side : HasHS(s) => Negotiates(s, hs[s], initiator[s])
  /\ pc["client"] = "reply" =>
       initiator["client"] /\ dead["client"] = hs["client"].dead
  /\ dead["server"] = <<>> \/ Asked(dead["server"])

-----------------------------------------------------------------------------
(* Transcripts and handshake states.                                       *)

\* The two ends of a transcript that has grown.
LEMMA GrownBy ==
  ASSUME NEW d \in Seq(Record), NEW a \in Record, NEW b \in Record
  PROVE  /\ Append(d, a) # <<>>
         /\ Append(d, a)[1] = IF d = <<>> THEN a ELSE d[1]
         /\ d \o <<a, b>> # <<>>
         /\ (d \o <<a, b>>)[1] = IF d = <<>> THEN a ELSE d[1]
         /\ (d \o <<a, b>>)[Len(d \o <<a, b>>)] = b
<1>1. Append(d, a) # <<>> /\ Append(d, a)[1] = IF d = <<>> THEN a ELSE d[1]
  <2>1. /\ Len(Append(d, a)) = Len(d) + 1
        /\ \A i \in 1..(Len(d) + 1) :
             Append(d, a)[i] = IF i <= Len(d) THEN d[i] ELSE a
    OBVIOUS
  <2>2. d # <<>> => Len(d) >= 1 OBVIOUS
  <2>3. d = <<>> => Len(d) = 0 OBVIOUS
  <2> QED BY <2>1, <2>2, <2>3
<1>2. /\ d \in Seq(Record) /\ Len(d) \in Nat
      /\ <<a, b>> \in Seq(Record) /\ Len(<<a, b>>) = 2
      /\ <<a, b>>[1] = a /\ <<a, b>>[2] = b
  OBVIOUS
<1>3. /\ Len(d \o <<a, b>>) = Len(d) + 2
      /\ \A i \in 1..(Len(d) + 2) :
           (d \o <<a, b>>)[i] = IF i <= Len(d) THEN d[i] ELSE <<a, b>>[i - Len(d)]
  BY <1>2
<1>4. (d \o <<a, b>>)[Len(d) + 2] = b BY <1>2, <1>3
<1>5. (d \o <<a, b>>)[1] = IF d = <<>> THEN a ELSE d[1]
  <2>1. CASE d = <<>> BY <1>2, <1>3, <2>1
  <2>2. CASE d # <<>>
    <3>1. Len(d) >= 1 BY <2>2
    <3> QED BY <1>2, <1>3, <2>2, <3>1
  <2> QED BY <2>1, <2>2
<1>6. d \o <<a, b>> # <<>> BY <1>2, <1>3
<1> QED BY <1>1, <1>3, <1>4, <1>5, <1>6

\* A retry and a switch are known by their protocol.
LEMMA AskedProto ==
  ASSUME NEW n \in Neg
  PROVE  /\ n.action = "retry" => n = Retry(n.proto)
         /\ n.action = "switch" => n = Switch(n.proto)
BY DEF Neg, NoNeg, Garbled, Reject, Proposal, Retry, Switch

\* Messages change nothing of what a handshake state says of the negotiation.
LEMMA MixNegotiates ==
  ASSUME NEW s \in Side, NEW h \in Hash, NEW init \in BOOLEAN, NEW id,
         Negotiates(s, h, init)
  PROVE  Negotiates(s, MixId(h, id), init)
<1>1. /\ MixId(h, id).proto = h.proto /\ MixId(h, id).neg = h.neg
      /\ MixId(h, id).app = h.app /\ MixId(h, id).dead = h.dead
  BY DEF MixId, Hash
<1> QED
  BY <1>1 DEF Negotiates, ClientInitiates, ClientResponds, ServerInitiates, ServerResponds

-----------------------------------------------------------------------------
(* The steps.                                                              *)

\* What a step of side s has to show.
LEMMA SideMade ==
  ASSUME TypeOK, Made, NEW s \in Side, UNCHANGED cfg,
         pc'[Peer(s)] = pc[Peer(s)], hs'[Peer(s)] = hs[Peer(s)],
         initiator'[Peer(s)] = initiator[Peer(s)], dead'[Peer(s)] = dead[Peer(s)],
         pc'[s] \in {"reply", "drive", "done"} => Negotiates(s, hs'[s], initiator'[s]),
         s = "client" /\ pc'[s] = "reply" => initiator'[s] /\ dead'[s] = hs'[s].dead,
         s = "server" => dead'[s] = <<>> \/ Asked(dead'[s])
  PROVE  Made'
<1>1. \A t \in Side : t = s \/ t = Peer(s) BY DEF Side, Peer
<1>2. ASSUME NEW t, NEW h, NEW init
      PROVE  Negotiates(t, h, init)' <=> Negotiates(t, h, init)
  BY DEF Negotiates, ClientInitiates, ClientResponds, ServerInitiates, ServerResponds,
         Chained, Asked, Unsupported, Builds, AllowedProtocol, Supports, Target
<1>3. ASSUME NEW d PROVE Asked(d)' <=> Asked(d)
  BY DEF Asked, Unsupported, Supports, Target
<1>4. ASSUME NEW t \in Side, HasHS(t)' PROVE Negotiates(t, hs[t], initiator[t])'
  <2>1. PICK h, init : h = hs'[t] /\ init = initiator'[t]
    OBVIOUS
  <2>2. Negotiates(t, h, init) BY <1>1, <1>4, <2>1 DEF HasHS, Made
  <2>3. Negotiates(t, h, init)' BY <1>2, <2>2
  <2> QED BY <2>1, <2>3 DEF Negotiates, ClientInitiates, ClientResponds,
                            ServerInitiates, ServerResponds
<1>5. pc'["client"] = "reply" => initiator'["client"] /\ dead'["client"] = hs'["client"].dead
  BY <1>1 DEF Made, Side
<1>6. dead'["server"] = <<>> \/ Asked(dead["server"])'
  <2>1. PICK d : d = dead'["server"]
    OBVIOUS
  <2>2. d = <<>> \/ Asked(d) BY <1>1, <2>1 DEF Made, Side
  <2>3. d = <<>> \/ Asked(d)' BY <1>3, <2>2
  <2> QED BY <2>1, <2>3 DEF Asked, Unsupported
<1> QED BY <1>4, <1>5, <1>6 DEF Made

\* Steps after which side s has no handshake state in use, and the transcript it had.
LEMMA LeaveMade ==
  ASSUME TypeOK, Made, NEW s \in Side, UNCHANGED <<cfg, hs, initiator, dead>>,
         NEW p \in {"new", "failed", "closed", "proposal"}, pc' = [pc EXCEPT ![s] = p]
  PROVE  Made'
<1>1. pc'[s] = p /\ \A t \in Side \ {s} : pc'[t] = pc[t] BY PcOf
<1>2. Peer(s) \in Side \ {s} BY DEF Peer, Side
<1>3. s = "server" => dead'[s] = <<>> \/ Asked(dead'[s]) BY DEF Made
<1> QED BY <1>1, <1>2, <1>3, SideMade

\* A side begins to use state h, or goes on with it.
LEMMA AdvanceMade ==
  ASSUME TypeOK, Made, NEW s \in Side, NEW h, NEW init \in BOOLEAN,
         Negotiates(s, h, init), NEW p \in {"drive", "done"},
         hs' = [hs EXCEPT ![s] = h], initiator' = [initiator EXCEPT ![s] = init],
         pc' = [pc EXCEPT ![s] = p], UNCHANGED <<cfg, dead>>
  PROVE  Made'
<1>1. pc'[s] = p /\ \A t \in Side \ {s} : pc'[t] = pc[t] BY PcOf
<1>2. Peer(s) \in Side \ {s} BY DEF Peer, Side
<1>3. /\ hs'[s] = h /\ initiator'[s] = init
      /\ hs'[Peer(s)] = hs[Peer(s)] /\ initiator'[Peer(s)] = initiator[Peer(s)]
  BY <1>2 DEF TypeOK
<1>4. s = "server" => dead'[s] = <<>> \/ Asked(dead'[s]) BY DEF Made
<1> QED BY <1>1, <1>2, <1>3, <1>4, SideMade

LEMMA DriveMade ==
  ASSUME TypeOK, Made, NEW s \in Side, NEW h \in Hash, NEW init \in BOOLEAN,
         Negotiates(s, h, init), NEW m, DriveFrom(s, h, init, m)
  PROVE  Made'
<1>1. CASE Fail(s) BY <1>1, LeaveMade DEF Fail
<1>2. ASSUME NEW g, Negotiates(s, g, init), NEW p \in {"drive", "done"},
             hs' = [hs EXCEPT ![s] = g], initiator' = [initiator EXCEPT ![s] = init],
             pc' = [pc EXCEPT ![s] = p], UNCHANGED <<cfg, dead>>
      PROVE  Made'
  BY <1>2, AdvanceMade
<1>3. PICK g, w : g = MixId(h, m.id) /\ w = MixId(g, NewId(s, g))
  OBVIOUS
<1>4. Negotiates(s, g, init)
  BY <1>3, MixNegotiates
<1>5. Negotiates(s, w, init)
  <2>1. w = [h EXCEPT !.ids = w.ids] BY <1>3 DEF MixId, Hash
  <2>2. /\ w.proto = h.proto /\ w.neg = h.neg /\ w.app = h.app /\ w.dead = h.dead
    BY <2>1 DEF Hash
  <2> QED BY <2>2 DEF Negotiates, ClientInitiates, ClientResponds,
                      ServerInitiates, ServerResponds
<1>6. \/ Fail(s)
      \/ \E x \in {g, w}, p \in {"drive", "done"} :
           /\ hs' = [hs EXCEPT ![s] = x] /\ initiator' = [initiator EXCEPT ![s] = init]
           /\ pc' = [pc EXCEPT ![s] = p] /\ UNCHANGED <<cfg, dead>>
  BY <1>3 DEF DriveFrom
<1> QED BY <1>1, <1>2, <1>4, <1>5, <1>6

LEMMA PendingMade ==
  ASSUME TypeOK, Made, NEW s \in Side, NEW h \in Hash, NEW init \in BOOLEAN,
         Negotiates(s, h, init), NEW m, DriveFromPending(s, h, init, m)
  PROVE  Made'
<1>1. CASE DriveFrom(s, h, init, m) BY <1>1, DriveMade
<1>2. CASE /\ hs' = [hs EXCEPT ![s] = h]
           /\ initiator' = [initiator EXCEPT ![s] = init]
           /\ pc' = [pc EXCEPT ![s] = "drive"]
           /\ UNCHANGED <<cfg, dead>>
  BY <1>2, AdvanceMade
<1> QED BY <1>1, <1>2 DEF DriveFromPending

\* The client proposes p, at the start or because its transcript d ends with a retry.
LEMMA ProposeMade ==
  ASSUME Inv, Made, NEW call \in Nat, NEW n \in Nat, NEW p \in Protocols,
         NEW d \in Seq(Record), Propose(call, n, p, d),
         \/ d = <<>> /\ p = cfg.proposed
         \/ /\ Chained(d) /\ d[Len(d)].neg = Retry(p)
            /\ AllowedProtocol(p) /\ n >= 1
  PROVE  Made'
<1>0. /\ TypeOK /\ "client" \in Side /\ "server" \in Side /\ Peer("client") = "server"
  BY DEF Inv, Side, Peer
<1>1. PICK h, g, id : /\ id = <<"client", call, n, 0>>
                      /\ h = ProposalHS(p, d) /\ g = MixId(h, id)
  OBVIOUS
<1>2. h \in Hash /\ id \in Id BY <1>1, ProposalType
<1>3. /\ h.proto = p /\ h.neg = Proposal(p, "data")
      /\ h.app = cfg.app["client"] /\ h.dead = d
  BY <1>1 DEF ProposalHS, NewHS
<1>4. n >= 1 => MaxNegAttempts > 1 BY BoundsAssumption DEF Propose
<1>5. Negotiates("client", h, TRUE)
  BY <1>3, <1>4 DEF Negotiates, ClientInitiates, Propose
<1>6. Negotiates("client", g, TRUE) BY <1>0, <1>1, <1>2, <1>5, MixNegotiates
<1>7. /\ pc'["client"] = "reply" /\ pc'["server"] = pc["server"]
      /\ hs'["client"] = g /\ hs'["server"] = hs["server"]
      /\ initiator'["client"] = TRUE /\ initiator'["server"] = initiator["server"]
      /\ dead'["client"] = d /\ dead'["server"] = dead["server"]
      /\ cfg' = cfg
  BY <1>0, <1>1 DEF Propose, TypeOK
<1>8. g.dead = d BY <1>1, <1>2, <1>3 DEF MixId, Hash
<1> QED BY <1>0, <1>6, <1>7, <1>8, SideMade

LEMMA ReadReplyMade == Inv /\ Made /\ ReadReply => Made'
<1> SUFFICES ASSUME Inv, Made, ReadReply PROVE Made'
  OBVIOUS
<1> DEFINE f0 == Head(chan["client"])
<1>0. /\ TypeOK /\ "client" \in Side /\ pc["client"] = "reply"
      /\ chan["client"] # <<>> /\ f0 \in Frame
  BY ChanType DEF ReadReply, Inv, Side
<1>1. PICK f, m : f = f0 /\ m = f0.msg
  OBVIOUS
<1>2. /\ f \in Frame /\ f.neg \in Neg /\ m = f.msg
      /\ ReadAccept(f) \/ ReadReject(f) \/ ReadRetry(f) \/ ReadSwitch(f)
  BY <1>0, <1>1 DEF Frame, ReadReply
<1> HIDE DEF f0
<1>3. PICK h : h = hs["client"]
  OBVIOUS
<1>4. /\ h \in Hash /\ Negotiates("client", h, TRUE)
      /\ initiator["client"] = TRUE /\ dead["client"] = h.dead
  BY <1>0, <1>3 DEF Inv, TypeOK, Stages, HasHS, Made
<1>5. PICK d, a, b : d = dead["client"] /\ a = SentFrame /\ b = FrameBytes(f)
  OBVIOUS
<1>6. d \in Seq(Record) /\ a \in Record /\ b \in Record
  BY <1>0, <1>2, <1>5, SentFrameType, FrameBytesType DEF TypeOK
<1>7. a.neg = h.neg /\ b.neg = f.neg BY <1>3, <1>5 DEF SentFrame, FrameBytes
<1>8. /\ d = <<>> => a.neg = Proposal(cfg.proposed, "data")
      /\ d # <<>> => d[1].neg = Proposal(cfg.proposed, "data")
  BY <1>4, <1>5, <1>7 DEF Negotiates, ClientInitiates, Chained
<1>9. Chained(Append(d, a)) /\ Chained(d \o <<a, b>>)
  BY <1>6, <1>8, GrownBy DEF Chained
<1>10. CASE Fail("client") BY <1>0, <1>10, LeaveMade DEF Fail
<1>11. CASE ReadAccept(f)
  BY <1>0, <1>2, <1>3, <1>4, <1>11, PendingMade DEF ReadAccept
<1>12. CASE ReadReject(f) BY <1>10, <1>12 DEF ReadReject
<1>13. CASE ReadRetry(f)
  <2>1. PICK p, n, e, call :
          /\ p = f.neg.proto /\ n = attempt["client"] + 1 /\ e = RetryTranscript(f)
          /\ call = calls["client"]
    OBVIOUS
  <2>2. CASE AllowedProtocol(p) /\ Propose(call, n, p, e)
    <3>1. p \in Protocols /\ f.neg = Retry(p)
      BY <1>2, <1>13, <2>1, NegProto, AskedProto DEF ReadRetry
    <3>2. e = d \o <<a, b>> BY <1>5, <2>1 DEF RetryTranscript
    <3>3. e \in Seq(Record) BY <1>6, <3>2
    <3>4. n \in Nat /\ n >= 1 /\ call \in Nat
      BY <1>0, <2>1, BoundsAssumption DEF TypeOK
    <3>5. e[Len(e)].neg = Retry(p) BY <1>6, <1>7, <3>1, <3>2, GrownBy
    <3>6. Chained(e) BY <1>9, <3>2
    <3> QED BY <2>2, <3>1, <3>3, <3>4, <3>5, <3>6, ProposeMade
  <2> QED BY <1>10, <1>13, <2>1, <2>2 DEF ReadRetry
<1>14. CASE ReadSwitch(f)
  <2>1. PICK p, g : p = f.neg.proto /\ g = SwitchHS(f, Append(dead["client"], SentFrame))
    OBVIOUS
  <2>2. CASE /\ AllowedProtocol(p) /\ Builds("client", p, FALSE)
             /\ DriveFromPending("client", g, FALSE, m)
    <3>1. p \in Protocols /\ f.neg = Switch(p)
      BY <1>2, <1>14, <2>1, NegProto, AskedProto DEF ReadSwitch
    <3>2. Append(d, a) \in Seq(Record) /\ cfg.app["client"] \in {"app1", "app2"}
      BY <1>0, <1>6, ConfigType DEF TypeOK
    <3>3. g = NewHS(p, f.neg, cfg.app["client"], Append(d, a))
      BY <1>5, <2>1 DEF SwitchHS
    <3>4. g \in Hash BY <1>2, <3>1, <3>2, <3>3, HashType
    <3>5. Negotiates("client", g, FALSE)
      BY <1>9, <2>2, <3>1, <3>3 DEF Negotiates, ClientResponds, NewHS
    <3> QED BY <1>0, <2>2, <3>4, <3>5, PendingMade
  <2> QED BY <1>2, <1>10, <1>14, <2>1, <2>2 DEF ReadSwitch
<1> QED BY <1>2, <1>11, <1>12, <1>13, <1>14

LEMMA ReadProposalMade == Inv /\ Made /\ ReadProposal => Made'
<1> SUFFICES ASSUME Inv, Made, ReadProposal PROVE Made'
  OBVIOUS
<1> DEFINE f0 == Head(chan["server"])
<1>0. /\ TypeOK /\ "server" \in Side /\ Peer("server") = "client"
      /\ chan["server"] # <<>> /\ f0 \in Frame
  BY ChanType DEF ReadProposal, Inv, Side, Peer
<1>1. PICK f, m : f = f0 /\ m = f0.msg
  OBVIOUS
<1>2. /\ f \in Frame /\ f.neg \in Neg /\ m = f.msg
      /\ \/ ReadNoProposal(f)
         \/ /\ f.neg.action = "propose"
            /\ \/ AcceptProposal(f) \/ RejectProposal(f)
               \/ AskRetry(f) \/ AskSwitch(f)
  BY <1>0, <1>1 DEF Frame, ReadProposal
<1> HIDE DEF f0
<1>3. PICK d, a : d = dead["server"] /\ a = FrameBytes(f)
  OBVIOUS
<1>4. /\ d \in Seq(Record) /\ a \in Record /\ a.neg = f.neg
      /\ cfg.app["server"] \in {"app1", "app2"} /\ Target \in Protocols
      /\ d = <<>> \/ Asked(d)
  BY <1>0, <1>2, <1>3, FrameBytesType, ConfigType DEF TypeOK, FrameBytes, Made
<1>5. CASE Fail("server") BY <1>0, <1>5, LeaveMade DEF Fail
<1>6. CASE ReadNoProposal(f) BY <1>5, <1>6 DEF ReadNoProposal
<1>7. CASE f.neg.action = "propose" /\ AcceptProposal(f)
  <2>1. PICK h : h = AcceptHS(f)
    OBVIOUS
  <2>2. CASE /\ Supports(f.neg.proto) /\ Builds("server", f.neg.proto, FALSE)
             /\ DriveFromPending("server", h, FALSE, m)
    <3>1. f.neg.proto \in Protocols BY <1>2, <1>7, NegProto
    <3>2. h = NewHS(f.neg.proto, f.neg, cfg.app["server"], d)
      BY <1>3, <2>1 DEF AcceptHS
    <3>3. h \in Hash BY <1>2, <1>4, <3>1, <3>2, HashType
    <3>4. Negotiates("server", h, FALSE)
      BY <1>4, <2>2, <3>2 DEF Negotiates, ServerResponds, NewHS
    <3> QED BY <1>0, <2>2, <3>3, <3>4, PendingMade
  <2> QED BY <1>2, <1>5, <1>7, <2>1, <2>2 DEF AcceptProposal
<1>8. CASE RejectProposal(f) BY <1>5, <1>8 DEF RejectProposal
<1>9. CASE f.neg.action = "propose" /\ AskRetry(f)
  <2>1. PICK b, e, p : /\ b = FrameBytes(RetryReply) /\ e = d \o <<a, b>>
                       /\ p = pc'["server"]
    OBVIOUS
  <2>2. b \in Record /\ b.neg = Retry(Target)
    <3>1. RetryReply \in Frame BY <1>4, NegType DEF RetryReply, Frame
    <3> QED BY <2>1, <3>1, FrameBytesType DEF FrameBytes, RetryReply
  <2>3. e # <<>> /\ e[1] = (IF d = <<>> THEN a ELSE d[1]) /\ e[Len(e)] = b
    BY <1>4, <2>1, <2>2, GrownBy
  <2>4. ~Supports(e[1].neg.proto)
    BY <1>4, <1>9, <2>3 DEF AskRetry, Asked, Unsupported
  <2>5. Asked(e) BY <1>9, <2>2, <2>3, <2>4 DEF Asked, Unsupported, AskRetry
  <2>6. /\ dead'["server"] = e /\ dead'["client"] = dead["client"]
        /\ pc'["server"] \in {"proposal", "failed"} /\ pc'["client"] = pc["client"]
        /\ UNCHANGED <<cfg, hs, initiator>>
    BY <1>0, <1>3, <1>9, <2>1 DEF AskRetry, RetryDead, TypeOK, Side
  <2> QED BY <1>0, <2>5, <2>6, SideMade
<1>10. CASE f.neg.action = "propose" /\ AskSwitch(f)
  <2>1. PICK h, g : h = ServerSwitchHS(f) /\ g = MixId(h, NewId("server", h))
    OBVIOUS
  <2>2. CASE /\ Builds("server", Target, TRUE)
             /\ hs' = [hs EXCEPT !["server"] = g]
             /\ initiator' = [initiator EXCEPT !["server"] = TRUE]
             /\ pc' = [pc EXCEPT !["server"] = "drive"]
             /\ UNCHANGED <<cfg, dead>>
    <3>1. cfg.policy = "switch" /\ d = <<>> /\ ~Supports(f.neg.proto)
      BY <1>4, <1>10 DEF AskSwitch, Asked
    <3>2. h = NewHS(Target, Switch(Target), cfg.app["server"], Append(d, a))
      BY <1>3, <2>1 DEF ServerSwitchHS
    <3>3. Append(d, a) \in Seq(Record) /\ Switch(Target) \in Neg
      BY <1>4, NegType
    <3>4. h \in Hash BY <1>4, <3>2, <3>3, HashType
    <3>5. Unsupported(Append(d, a)) BY <1>4, <3>1, GrownBy DEF Unsupported
    <3>6. Negotiates("server", h, TRUE)
      BY <2>2, <3>1, <3>2, <3>5 DEF Negotiates, ServerInitiates, NewHS
    <3>7. Negotiates("server", g, TRUE) BY <1>0, <2>1, <3>4, <3>6, MixNegotiates
    <3> QED BY <1>0, <2>2, <3>7, AdvanceMade
  <2> QED BY <1>5, <1>10, <2>1, <2>2 DEF AskSwitch
<1> QED BY <1>2, <1>6, <1>7, <1>8, <1>9, <1>10

LEMMA InitMade == Init => Made
BY DEF Init, Made, HasHS, Side

LEMMA StepMade == Inv /\ Made /\ [Next]_vars => Made'
<1> SUFFICES ASSUME Inv, Made, [Next]_vars PROVE Made'
  OBVIOUS
<1>0. TypeOK /\ "client" \in Side /\ "server" \in Side /\ Peer("server") = "client"
  BY DEF Inv, Side, Peer
<1>1. CASE StartClient
  <2>1. PICK call, p : call = calls["client"] + 1 /\ p = cfg.proposed
    OBVIOUS
  <2>2. Propose(call, 0, p, <<>>) BY <1>1, <2>1 DEF StartClient
  <2>3. call \in Nat /\ p \in Protocols /\ <<>> \in Seq(Record)
    BY <1>0, <2>1, ConfigType, BoundsAssumption DEF TypeOK
  <2> QED BY <2>1, <2>2, <2>3, ProposeMade
<1>2. CASE StartServer
  <2>1. /\ dead'["server"] = <<>> /\ dead'["client"] = dead["client"]
        /\ pc'["server"] = "proposal" /\ pc'["client"] = pc["client"]
        /\ UNCHANGED <<cfg, hs, initiator>>
    BY <1>0, <1>2 DEF StartServer, TypeOK
  <2> QED BY <1>0, <2>1, SideMade
<1>3. CASE ReadReply BY <1>3, ReadReplyMade
<1>4. CASE ReadProposal BY <1>4, ReadProposalMade
<1>5. ASSUME NEW s \in Side, ReadDriven(s) PROVE Made'
  <2>1. PICK h, init, m : h = hs[s] /\ init = initiator[s] /\ m = Head(chan[s]).msg
    OBVIOUS
  <2>2. h \in Hash /\ init \in BOOLEAN /\ Negotiates(s, h, init)
    BY <1>0, <1>5, <2>1 DEF Inv, TypeOK, Stages, HasHS, ReadDriven, Made
  <2> QED BY <1>0, <1>5, <2>1, <2>2, DriveMade DEF ReadDriven
<1>6. ASSUME NEW s \in Side, Close(s) PROVE Made'
  BY <1>0, <1>6, LeaveMade DEF Close
<1>7. ASSUME NEW s \in Side, LosesConnection(s) PROVE Made'
  BY <1>0, <1>7, LeaveMade DEF LosesConnection, Fail
<1>8. ASSUME UNCHANGED <<cfg, pc, dead, hs, initiator>> PROVE Made'
  <2>1. Peer("client") = "server" BY DEF Peer
  <2>2. HasHS("client") => Negotiates("client", hs["client"], initiator["client"])
    BY <1>0 DEF Made
  <2> QED BY <1>0, <1>8, <2>1, <2>2, SideMade DEF Made, HasHS
<1>9. ASSUME NEW s \in Side, Alter(s) PROVE Made' BY <1>8, <1>9 DEF Alter
<1>10. CASE UNCHANGED vars BY <1>8, <1>10 DEF vars
<1> QED BY <1>1, <1>2, <1>3, <1>4, <1>5, <1>6, <1>7, <1>9, <1>10 DEF Next

-----------------------------------------------------------------------------
(* The theorem.                                                            *)

\* A client and a server with the same handshake hash and opposite roles have
\* been through what their configurations lead to.
LEMMA SameHash ==
  ASSUME NEW h, NEW ci \in BOOLEAN,
         Negotiates("client", h, ci), Negotiates("server", h, ~ci)
  PROVE  Negotiated(cfg) = [proto |-> h.proto, clientInitiates |-> ci]
<1>0. cfg.app["client"] = cfg.app["server"] BY DEF Negotiates
<1>1. CASE ci
  <2>1. ClientInitiates(h) /\ ServerResponds(h) BY <1>1 DEF Negotiates
  <2>2. CASE h.dead = <<>>
    <3>1. h.proto = cfg.proposed BY <2>1, <2>2 DEF ClientInitiates, Chained
    <3>2. Supports(cfg.proposed) /\ Builds("server", cfg.proposed, FALSE)
      BY <2>1, <3>1 DEF ServerResponds
    <3> QED BY <1>0, <1>1, <3>1, <3>2 DEF Negotiated, Supports, Builds
  <2>3. CASE h.dead # <<>>
    <3>1. /\ h.dead[1].neg = Proposal(cfg.proposed, "data")
          /\ Retry(h.proto) = Retry(Target)
          /\ ~Supports(h.dead[1].neg.proto) /\ cfg.policy = "retry"
      BY <2>1, <2>3 DEF ClientInitiates, ServerResponds, Chained, Asked, Unsupported
    <3>2. h.proto = Target /\ ~Supports(cfg.proposed)
      BY <3>1 DEF Retry, Proposal
    <3>3. /\ AllowedProtocol(Target) /\ MaxNegAttempts > 1
          /\ Builds("client", Target, TRUE) /\ Builds("server", Target, FALSE)
      BY <2>1, <2>3, <3>2 DEF ClientInitiates, ServerResponds
    <3> QED
      BY <1>0, <1>1, <3>1, <3>2, <3>3
         DEF Negotiated, Supports, Builds, AllowedProtocol, Target
  <2> QED BY <2>2, <2>3
<1>2. CASE ~ci
  <2>1. ClientResponds(h) /\ ServerInitiates(h) BY <1>2 DEF Negotiates
  <2>2. /\ h.dead[1].neg = Proposal(cfg.proposed, "data")
        /\ ~Supports(h.dead[1].neg.proto)
    BY <2>1 DEF ClientResponds, ServerInitiates, Chained, Unsupported
  <2>3. h.proto = Target /\ ~Supports(cfg.proposed)
    BY <2>1, <2>2 DEF ServerInitiates, Proposal
  <2>4. /\ AllowedProtocol(Target) /\ cfg.policy = "switch"
        /\ Builds("client", Target, FALSE) /\ Builds("server", Target, TRUE)
    BY <2>1, <2>3 DEF ClientResponds, ServerInitiates
  <2> QED
    BY <1>0, <1>2, <2>3, <2>4
       DEF Negotiated, Supports, Builds, AllowedProtocol, Target
<1> QED BY <1>1, <1>2

\* Whatever is altered on the wire and however often Handshake is called, a side
\* that has verified its peer's tag is in the protocol and the role that the two
\* configurations lead to unaltered, for all protocols and configurations: nobody
\* between them can choose for them.
THEOREM BoundAgainstDowngrade == Spec => []DowngradeBound
<1>1. ASSUME Inv, Ends, Made PROVE DowngradeBound
  <2> SUFFICES ASSUME NEW s \in Side, ReadTheLast(s)
               PROVE  Negotiated(cfg) = [ proto |-> hs[s].proto,
                                          clientInitiates |-> initiator["client"] ]
    BY DEF DowngradeBound
  <2>1. /\ pc[s] = "done" /\ pc[Peer(s)] = "done" /\ hs[Peer(s)] = hs[s]
        /\ initiator[Peer(s)] # initiator[s]
    BY <1>1 DEF Ends, Agreement, ReadTheLast
  <2>2. \A t \in Side : pc[t] = "done" /\ hs[t] = hs[s] BY <2>1 DEF Side, Peer
  <2>3. PICK h, ci : h = hs[s] /\ ci = initiator["client"]
    OBVIOUS
  <2>4. ci \in BOOLEAN /\ initiator["server"] = ~ci
    BY <1>1, <2>1, <2>3 DEF Inv, TypeOK, Side, Peer
  <2>5. Negotiates("client", h, ci) /\ Negotiates("server", h, ~ci)
    BY <1>1, <2>2, <2>3, <2>4 DEF Made, HasHS, Side
  <2> QED BY <2>3, <2>4, <2>5, SameHash
<1>2. Init => Inv /\ Ends /\ Made BY InitInv, InitEnds, InitMade
<1>3. Inv /\ Ends /\ Made /\ [Next]_vars => (Inv /\ Ends /\ Made)'
  BY StepInv, StepEnds, StepMade
<1>4. Inv /\ Ends /\ Made => DowngradeBound BY <1>1
<1> QED BY <1>2, <1>3, <1>4, PTL DEF Spec
-----------------------------------------------------------------------------
(* Tampering with a retry or a switch: the inductive invariant Split.      *)

\* A side has closed its connection, for good.
Gone == \E s \in Side : pc[s] = "closed"
\* Both have begun another call of Handshake since.
Again == \A s \in Side : calls[s] > 1
\* The one alteration there was is of a retry or a switch.
Tampered == Len(altered) = 1 /\ altered[1] \in {"retry", "switch"}

\* A side that has left its first state has begun a call.
Called == \A s \in Side : pc[s] = "new" \/ calls[s] >= 1

\* What stands behind a retry or a switch on the wire, as long as no frame has
\* been altered: a server that has it in its transcript, or in its state.
Retried(f) ==
  /\ f.msg = NoMsg
  /\ pc["server"] \in {"proposal", "failed"}
  /\ pc["server"] = "proposal" =>
       \/ dead["server"] = <<>> /\ calls["server"] > 1
       \/ dead["server"] # <<>> /\ dead["server"][Len(dead["server"])] = FrameBytes(f)
Switched(f) ==
  /\ f.msg # NoMsg /\ f.msg.h.ids = <<>>
  /\ pc["server"] = "drive" /\ Len(hs["server"].ids) >= 1
  /\ hs["server"].neg = f.neg
Answers(f) ==
  /\ f.msg = NoMsg => f.neg.action \notin {"none", "switch"}
  /\ f.neg.action = "retry" => Retried(f)
  /\ f.neg.action = "switch" => Switched(f)

\* Before an alteration the client gets honest answers only, the server only
\* proposals and messages, and a client that drives has begun its handshake.
Unaltered ==
  altered = <<>> /\ ~Gone =>
    /\ chan["server"] # <<>> => Head(chan["server"]).neg.action \in {"propose", "none"}
    /\ chan["client"] # <<>> => Answers(Head(chan["client"]))
    /\ pc["client"] = "drive" => Len(hs["client"].ids) >= 1

(* Afterwards the two sides are apart until both have begun another call:  *)
(* what is on the wire, if anything, is not what its reader waits for.     *)

Silent == chan["client"] = <<>> /\ chan["server"] = <<>>

\* The client waits for an answer that will never come.
Deaf == Silent /\ pc["client"] \in {"reply", "drive", "done"} /\ pc["server"] # "done"

\* Side s believes that it has a session, and its peer will hear no more of it.
Alone(s) == pc[s] = "done" /\ pc[Peer(s)] # "done" /\ chan[Peer(s)] = <<>>

\* The client has failed, and the server is in the middle of a call.
Restart ==
  /\ Silent /\ pc["client"] = "failed"
  /\ \/ pc["server"] = "proposal" /\ (dead["server"] # <<>> \/ calls["server"] > 1)
     \/ pc["server"] = "failed"
     \/ pc["server"] = "drive" /\ Len(hs["server"].ids) >= 1

\* Message m on its way to the server belongs to another transcript.
Proposed(m) ==
  /\ pc["client"] = "reply" /\ m # NoMsg
  /\ m.h.dead = dead["client"] /\ hs["client"].dead = dead["client"]
Toward(m) ==
  \/ pc["server"] = "proposal" /\ Proposed(m) /\ dead["client"] # dead["server"]
  \/ /\ pc["server"] = "failed" /\ Proposed(m)
     /\ calls["client"] > 1 \/ dead["client"] # <<>>
  \/ /\ pc["server"] = "drive" /\ Len(hs["server"].ids) >= 1
     /\ pc["client"] \in {"reply", "drive", "done"}
     /\ m = NoMsg \/ m.h # hs["server"]
ToServer ==
  chan["client"] = <<>> /\ chan["server"] # <<>> /\ Toward(Head(chan["server"]).msg)

\* So does frame f on its way to the client.
Strays(f) == f.msg # NoMsg /\ f.msg.h # hs["client"]
Back(f) ==
  \/ /\ pc["server"] = "proposal" /\ f.msg = NoMsg
     /\ dead["server"] # <<>> \/ calls["server"] > 1
     /\ dead["server"] # RetryTranscript(f)
  \/ pc["server"] = "failed" /\ f.msg = NoMsg
  \/ /\ pc["server"] = "drive" /\ Len(hs["server"].ids) >= 1 /\ Strays(f)
     /\ f.neg.action = "switch" =>
          \/ f.neg # hs["server"].neg
          \/ Append(dead["client"], SentFrame) # hs["server"].dead
  \/ pc["server"] = "done" /\ f.neg = NoNeg /\ Strays(f)
ToClient ==
  /\ chan["server"] = <<>> /\ chan["client"] # <<>>
  /\ pc["client"] \in {"reply", "drive"} /\ Len(hs["client"].ids) >= 1
  /\ Back(Head(chan["client"]))

Apart ==
  \/ Gone \/ Again
  \/ Deaf \/ (\E s \in Side : Alone(s)) \/ Restart \/ ToServer \/ ToClient
Split == Called /\ Unaltered /\ (Tampered => Apart)

\* The only frame on the wire, and what is left of it once it is read.
LEMMA OneFrame ==
  ASSUME TypeOK, Turns, ~Gone, NEW s \in Side, chan[s] # <<>>
  PROVE  /\ Head(chan[s]) \in Frame /\ Tail(chan[s]) = <<>>
         /\ chan[Peer(s)] = <<>>
         /\ pc["client"] \notin {"new", "failed"}
<1>1. chan[s] \in Seq(Frame) /\ chan[Peer(s)] \in Seq(Frame) /\ Peer(s) \in Side
  BY DEF TypeOK, Peer, Side
<1>2. PICK a \in Nat, b \in Nat : a = Len(chan[s]) /\ b = Len(chan[Peer(s)])
  BY <1>1
<1>3. InFlight = a + b
  BY <1>2, LengthsOf DEF InFlight
<1>4. a >= 1
  BY <1>1, <1>2
<1>5. InFlight <= 1 /\ (pc["client"] \in {"new", "failed"} => InFlight = 0)
  BY DEF Turns, Gone
<1>6. a = 1 /\ b = 0 /\ pc["client"] \notin {"new", "failed"}
  BY <1>3, <1>4, <1>5
<1>7. Len(chan[s]) = 1 /\ Len(chan[Peer(s)]) = 0
  BY <1>2, <1>6
<1>8. chan[Peer(s)] = <<>>
  BY <1>1, <1>7
<1>9. ASSUME NEW w \in Seq(Frame), Len(w) = 1
      PROVE  Head(w) \in Frame /\ Tail(w) = <<>>
  <2>1. w # <<>> /\ w[1] \in Frame
    BY <1>9
  <2>2. Head(w) = w[1]
    BY <2>1
  <2>3. Tail(w) \in Seq(Frame) /\ Len(Tail(w)) = 0
    BY <1>9, <2>1
  <2>4. ASSUME NEW v \in Seq(Frame), Len(v) = 0 PROVE v = <<>>
    BY <2>4
  <2>5. Tail(w) = <<>>
    BY <2>3, <2>4
  <2>. QED
    BY <2>1, <2>2, <2>5
<1>. QED
  BY <1>1, <1>6, <1>7, <1>8, <1>9

\* Reading it leaves the wire to what is written in answer.
LEMMA OneRead ==
  ASSUME TypeOK, Turns, ~Gone, NEW s \in Side, chan[s] # <<>>
  PROVE  /\ ReadOnly(s) => chan'[s] = <<>> /\ chan'[Peer(s)] = <<>>
         /\ \A g : ReadAndWrite(s, g) => chan'[s] = <<>> /\ chan'[Peer(s)] = <<g>>
<1>1. /\ Tail(chan[s]) = <<>> /\ chan[Peer(s)] = <<>>
      /\ Peer(s) \in Side /\ Peer(s) # s /\ DOMAIN chan = Side
  BY OneFrame DEF TypeOK, Peer, Side
<1>2. ReadOnly(s) => chan'[s] = <<>> /\ chan'[Peer(s)] = <<>>
  BY <1>1 DEF ReadOnly
<1>3. ASSUME NEW g, ReadAndWrite(s, g)
      PROVE  chan'[s] = <<>> /\ chan'[Peer(s)] = <<g>>
  <2>1. chan'[s] = <<>> /\ chan'[Peer(s)] = Append(<<>>, g)
    BY <1>1, <1>3 DEF ReadAndWrite
  <2>. QED
    BY <2>1
<1>. QED
  BY <1>2, <1>3

\* A client at the start of a call finds nothing on the wire.
LEMMA NothingSent ==
  ASSUME TypeOK, Turns, ~Gone, pc["client"] \in {"new", "failed"}
  PROVE  Silent
<1>1. "client" \in Side /\ "server" \in Side
  BY DEF Side
<1>. QED
  BY <1>1, OneFrame DEF Silent

\* A Noise message has a name.
LEMMA IdIsNamed ==
  ASSUME NEW id \in Id
  PROVE  id # NoId
BY DEF Id, NoId

\* The message was taken for the next one of handshake h: what s does then.
GoesOn(s, h) ==
  /\ \E k \in Hash, p \in {"drive", "done"} :
       /\ hs' = [hs EXCEPT ![s] = k] /\ pc' = [pc EXCEPT ![s] = p]
       /\ Len(k.ids) >= 1 /\ k.neg = h.neg /\ k.dead = h.dead
  /\ \/ ReadOnly(s) /\ Len(h.ids) >= 1
     \/ \E g : /\ ReadAndWrite(s, g)
               /\ g.neg = NoNeg /\ g.msg # NoMsg
               /\ g.msg.h.neg = h.neg /\ g.msg.h.dead = h.dead

\* Transcripts that differ still do when both grow by as much.
LEMMA GrownApart ==
  ASSUME NEW c \in Seq(Record), NEW d \in Seq(Record), c # d,
         NEW x \in Record, NEW y \in Record, NEW u \in Record, NEW v \in Record
  PROVE  /\ Append(c, x) # Append(d, y)
         /\ c \o <<x, u>> # d \o <<y, v>>
<1>1. Len(c) \in Nat /\ Len(d) \in Nat /\ DOMAIN c = 1 .. Len(c) /\ DOMAIN d = 1 .. Len(d)
  OBVIOUS
<1>2. Len(c) # Len(d) \/ \E i \in 1 .. Len(c) : Len(c) = Len(d) /\ c[i] # d[i]
  OBVIOUS
<1>3. ASSUME NEW e \in Seq(Record), NEW p \in Record, NEW q \in Record
      PROVE  /\ Len(Append(e, p)) = Len(e) + 1
             /\ \A i \in 1 .. Len(e) : Append(e, p)[i] = e[i]
             /\ Len(e \o <<p, q>>) = Len(e) + 2
             /\ \A i \in 1 .. Len(e) : (e \o <<p, q>>)[i] = e[i]
  <2>1. <<p, q>> \in Seq(Record) /\ Len(<<p, q>>) = 2
    OBVIOUS
  <2>. QED
    BY <2>1
<1>4. CASE Len(c) # Len(d)
  <2>1. PICK m \in Nat, n \in Nat : m = Len(c) /\ n = Len(d) /\ m # n
    BY <1>1, <1>4
  <2>2. /\ Len(Append(c, x)) = m + 1 /\ Len(c \o <<x, u>>) = m + 2
        /\ Len(Append(d, y)) = n + 1 /\ Len(d \o <<y, v>>) = n + 2
    BY <1>3, <2>1
  <2>3. m + 1 # n + 1 /\ m + 2 # n + 2
    BY <2>1
  <2>. QED
    BY <2>2, <2>3
<1>5. ASSUME NEW i \in 1 .. Len(c), Len(c) = Len(d), c[i] # d[i]
      PROVE  Append(c, x) # Append(d, y) /\ c \o <<x, u>> # d \o <<y, v>>
  <2>1. Append(c, x)[i] # Append(d, y)[i]
    BY <1>3, <1>5
  <2>2. (c \o <<x, u>>)[i] # (d \o <<y, v>>)[i]
    BY <1>3, <1>5
  <2>. QED
    BY <2>1, <2>2
<1>. QED
  BY <1>2, <1>4, <1>5

\* What driveFrom may do with message m.
LEMMA DriveOutcome ==
  ASSUME TypeOK, NEW s \in Side, NEW h \in Hash, NEW init,
         NEW m \in Message \cup {NoMsg}, DriveFrom(s, h, init, m)
  PROVE  \/ Fail(s) /\ ReadOnly(s)
         \/ /\ m # NoMsg /\ (m.h = h \/ Len(h.ids) = 0)
            /\ UNCHANGED <<cfg, calls, attempt, dead, altered>>
            /\ GoesOn(s, h)
<1>1. PICK ok \in ReadMessage(h, m) :
        \/ ~ok /\ Fail(s) /\ ReadOnly(s)
        \/ /\ ok
           /\ LET read == MixId(h, m.id)
                  written == MixId(read, NewId(s, read))
                  reply == [neg |-> NoNeg, msg |-> [id |-> NewId(s, read), h |-> read]]
              IN \/ /\ hs' = [hs EXCEPT ![s] = written]
                    /\ pc' = [pc EXCEPT ![s] = IF Complete(written) THEN "done" ELSE "drive"]
                    /\ ReadAndWrite(s, reply)
                    /\ UNCHANGED <<cfg, calls, attempt, dead, altered>>
                 \/ /\ Complete(read)
                    /\ hs' = [hs EXCEPT ![s] = read]
                    /\ pc' = [pc EXCEPT ![s] = "done"]
                    /\ ReadOnly(s)
                    /\ UNCHANGED <<cfg, calls, attempt, dead, altered>>
  BY DEF DriveFrom
<1>2. SUFFICES ASSUME ok
               PROVE  /\ m # NoMsg /\ (m.h = h \/ Len(h.ids) = 0)
                      /\ UNCHANGED <<cfg, calls, attempt, dead, altered>>
                      /\ GoesOn(s, h)
  BY <1>1
<1>3. m # NoMsg /\ m \in Message
  BY <1>2 DEF ReadMessage
<1>4. /\ h.proto \in Protocols /\ Len(h.ids) \in Nat
      /\ FirstTag[h.proto] \in {0, 1} /\ NMsgs[h.proto] \in Nat \ {0, 1}
  BY ProtocolsAssumption DEF Hash
<1>5. m.h = h \/ Len(h.ids) = 0
  <2>1. CASE m.h # h
    <3>1. ~(Len(h.ids) >= FirstTag[h.proto])
      BY <1>2, <1>3, <2>1, Zenon DEF ReadMessage
    <3>. QED
      BY <1>4, <3>1
  <2>. QED
    BY <2>1
<1>6. PICK read \in Hash : /\ read = MixId(h, m.id) /\ read.proto = h.proto
                           /\ Len(read.ids) = Len(h.ids) + 1
                           /\ read.neg = h.neg /\ read.dead = h.dead
  <2>1. m.id \in Id
    BY <1>3 DEF Message
  <2>2. MixId(h, m.id).dead = h.dead
    BY DEF MixId, Hash
  <2>. QED
    BY <2>1, <2>2, MixIdType
<1>7. PICK id \in Id : id = NewId(s, read)
  BY <1>6, NewIdType
<1>8. PICK written \in Hash : /\ written = MixId(read, id)
                              /\ Len(written.ids) = Len(read.ids) + 1
                              /\ written.neg = h.neg /\ written.dead = h.dead
  <2>1. MixId(read, id).dead = read.dead
    BY DEF MixId, Hash
  <2>. QED
    BY <1>6, <2>1, MixIdType
<1>9. PICK g : g = [neg |-> NoNeg, msg |-> [id |-> id, h |-> read]]
  OBVIOUS
<1>10. /\ g.neg = NoNeg /\ g.msg # NoMsg
       /\ g.msg.h.neg = h.neg /\ g.msg.h.dead = h.dead
  <2>1. id # NoId
    BY IdIsNamed
  <2>. QED
    BY <1>6, <1>9, <2>1 DEF NoMsg
<1>11. CASE /\ hs' = [hs EXCEPT ![s] = written]
            /\ pc' = [pc EXCEPT ![s] = IF Complete(written) THEN "done" ELSE "drive"]
            /\ ReadAndWrite(s, g)
            /\ UNCHANGED <<cfg, calls, attempt, dead, altered>>
  <2>1. PICK p \in {"drive", "done"} : pc' = [pc EXCEPT ![s] = p]
    BY <1>11
  <2>2. Len(written.ids) >= 1
    BY <1>4, <1>6, <1>8
  <2>. QED
    BY <1>3, <1>5, <1>8, <1>10, <1>11, <2>1, <2>2 DEF GoesOn
<1>12. CASE /\ Complete(read)
            /\ hs' = [hs EXCEPT ![s] = read]
            /\ pc' = [pc EXCEPT ![s] = "done"]
            /\ ReadOnly(s)
            /\ UNCHANGED <<cfg, calls, attempt, dead, altered>>
  <2>1. Len(h.ids) >= 1 /\ Len(read.ids) >= 1
    BY <1>4, <1>6, <1>12 DEF Complete
  <2>. QED
    BY <1>3, <1>5, <1>6, <1>12, <2>1 DEF GoesOn
<1>. QED
  BY <1>1, <1>2, <1>6, <1>7, <1>8, <1>9, <1>11, <1>12

\* A message that is not the next one of handshake h, which has begun.
LEMMA DriveFails ==
  ASSUME TypeOK, NEW s \in Side, NEW h \in Hash, NEW init,
         NEW m \in Message \cup {NoMsg}, DriveFrom(s, h, init, m),
         m = NoMsg \/ (m.h # h /\ Len(h.ids) >= 1)
  PROVE  Fail(s) /\ ReadOnly(s)
BY DriveOutcome

\* A closed connection stays closed, calls are only added, and only Alter alters.
LEMMA StepKeeps ==
  ASSUME Inv, Called, [Next]_vars
  PROVE  /\ Gone => Gone'
         /\ Again => Again'
         /\ Called'
         /\ (\A s \in Side : ~Alter(s)) => altered' = altered
<1>0. TypeOK /\ "client" \in Side /\ "server" \in Side
  BY DEF Inv, Side
<1>1. ASSUME NEW s \in Side, NEW p \in {"reply", "proposal", "drive", "done", "failed", "closed"},
             pc' = [pc EXCEPT ![s] = p], pc[s] # "closed" \/ p = "closed",
             pc[s] # "new" \/ calls'[s] >= 1,
             \A t \in Side : calls'[t] = calls[t] \/ calls'[t] = calls[t] + 1
      PROVE  (Gone => Gone') /\ (Again => Again') /\ Called'
  <2>1. pc'[s] = p /\ \A t \in Side \ {s} : pc'[t] = pc[t]
    BY <1>0, <1>1, PcOf
  <2>2. \A t \in Side : calls[t] \in Nat /\ calls'[t] >= calls[t] /\ calls'[t] \in Nat
    <3>1. \A t \in Side : calls[t] \in Nat
      BY <1>0, BoundsAssumption DEF TypeOK
    <3>. QED
      BY <1>1, <3>1
  <2>3. Gone => Gone'
    BY <1>1, <2>1 DEF Gone
  <2>4. Again => Again'
    BY <2>2 DEF Again
  <2>5. Called'
    BY <1>1, <2>1, <2>2 DEF Called
  <2>. QED
    BY <2>3, <2>4, <2>5
<1>2. CASE UNCHANGED vars \/ \E s \in Side : Alter(s)
  BY <1>2 DEF vars, Alter, Gone, Again, Called
<1>3. CASE StartClient
  <2>1. /\ pc["client"] \in {"new", "failed"}
        /\ pc' = [pc EXCEPT !["client"] = "reply"]
        /\ calls' = [calls EXCEPT !["client"] = calls["client"] + 1]
        /\ altered' = altered
    BY <1>3 DEF StartClient, MayCall, Propose
  <2>2. calls["client"] \in Nat /\ DOMAIN calls = Side
    BY <1>0, BoundsAssumption DEF TypeOK
  <2>3. calls'["client"] >= 1 /\ \A t \in Side : calls'[t] = calls[t] \/ calls'[t] = calls[t] + 1
    BY <1>0, <2>1, <2>2
  <2>4. pc["client"] # "closed"
    BY <2>1
  <2>. QED
    BY <1>0, <1>1, <2>1, <2>3, <2>4
<1>4. CASE StartServer
  <2>1. /\ pc["server"] \in {"new", "failed"}
        /\ pc' = [pc EXCEPT !["server"] = "proposal"]
        /\ calls' = [calls EXCEPT !["server"] = calls["server"] + 1]
        /\ altered' = altered
    BY <1>4 DEF StartServer, MayCall
  <2>2. calls["server"] \in Nat /\ DOMAIN calls = Side
    BY <1>0, BoundsAssumption DEF TypeOK
  <2>3. calls'["server"] >= 1 /\ \A t \in Side : calls'[t] = calls[t] \/ calls'[t] = calls[t] + 1
    BY <1>0, <2>1, <2>2
  <2>4. pc["server"] # "closed"
    BY <2>1
  <2>. QED
    BY <1>0, <1>1, <2>1, <2>3, <2>4
<1>5. ASSUME NEW s \in Side, pc[s] \in Waiting \cup {"failed"},
             NEW p \in {"reply", "proposal", "drive", "done", "failed", "closed"},
             pc' = [pc EXCEPT ![s] = p], calls' = calls
      PROVE  (Gone => Gone') /\ (Again => Again') /\ Called'
  BY <1>1, <1>5 DEF Waiting
<1>6. ASSUME NEW s \in Side, pc[s] \in Waiting, NEW h, NEW init, NEW m,
             DriveFrom(s, h, init, m) \/ DriveFromPending(s, h, init, m)
      PROVE  (Gone => Gone') /\ (Again => Again') /\ Called' /\ altered' = altered
  <2>1. /\ calls' = calls /\ altered' = altered
        /\ \E p \in {"failed", "drive", "done"} : pc' = [pc EXCEPT ![s] = p]
    BY <1>6 DEF DriveFromPending, DriveFrom, Fail
  <2>. QED
    BY <1>5, <1>6, <2>1
<1>7. ASSUME NEW s \in Side, pc[s] \in Waiting, Fail(s)
      PROVE  (Gone => Gone') /\ (Again => Again') /\ Called' /\ altered' = altered
  BY <1>5, <1>7 DEF Fail
<1>8. CASE ReadReply
  <2>1. pc["client"] \in Waiting
    BY <1>8 DEF ReadReply, Waiting
  <2>2. PICK f : ReadAccept(f) \/ ReadReject(f) \/ ReadRetry(f) \/ ReadSwitch(f)
    BY <1>8 DEF ReadReply
  <2>3. CASE ReadAccept(f)
    BY <1>0, <1>6, <2>1, <2>3 DEF ReadAccept
  <2>4. CASE ReadReject(f)
    BY <1>0, <1>7, <2>1, <2>4 DEF ReadReject
  <2>5. CASE ReadRetry(f)
    <3>1. CASE Fail("client")
      BY <1>0, <1>7, <2>1, <3>1
    <3>2. CASE /\ pc' = [pc EXCEPT !["client"] = "reply"]
               /\ calls' = [calls EXCEPT !["client"] = calls["client"]]
               /\ altered' = altered
      <4>1. calls' = calls
        BY <1>0, <3>2 DEF TypeOK
      <4>. QED
        BY <1>0, <1>5, <2>1, <3>2, <4>1
    <3>. QED
      BY <2>5, <3>1, <3>2 DEF ReadRetry, Propose
  <2>6. CASE ReadSwitch(f)
    BY <1>0, <1>6, <1>7, <2>1, <2>6 DEF ReadSwitch
  <2>. QED
    BY <2>2, <2>3, <2>4, <2>5, <2>6
<1>9. CASE ReadProposal
  <2>1. pc["server"] \in Waiting
    BY <1>9 DEF ReadProposal, Waiting
  <2>2. PICK f : ReadNoProposal(f) \/ AcceptProposal(f) \/ RejectProposal(f)
                 \/ AskRetry(f) \/ AskSwitch(f)
    BY <1>9 DEF ReadProposal
  <2>3. CASE ReadNoProposal(f)
    BY <1>0, <1>7, <2>1, <2>3 DEF ReadNoProposal
  <2>4. CASE AcceptProposal(f)
    BY <1>0, <1>6, <1>7, <2>1, <2>4 DEF AcceptProposal
  <2>5. CASE RejectProposal(f)
    BY <1>0, <1>7, <2>1, <2>5 DEF RejectProposal
  <2>6. CASE AskRetry(f)
    BY <1>0, <1>5, <2>1, <2>6 DEF AskRetry
  <2>7. CASE AskSwitch(f)
    BY <1>0, <1>5, <1>7, <2>1, <2>7 DEF AskSwitch
  <2>. QED
    BY <2>2, <2>3, <2>4, <2>5, <2>6, <2>7
<1>10. ASSUME NEW s \in Side, ReadDriven(s)
       PROVE  (Gone => Gone') /\ (Again => Again') /\ Called' /\ altered' = altered
  BY <1>6, <1>10 DEF ReadDriven, Waiting
<1>11. ASSUME NEW s \in Side, Close(s)
       PROVE  (Gone => Gone') /\ (Again => Again') /\ Called' /\ altered' = altered
  BY <1>5, <1>11 DEF Close
<1>12. ASSUME NEW s \in Side, LosesConnection(s)
       PROVE  (Gone => Gone') /\ (Again => Again') /\ Called' /\ altered' = altered
  BY <1>7, <1>12 DEF LosesConnection
<1>. QED
  BY <1>2, <1>3, <1>4, <1>8, <1>9, <1>10, <1>11, <1>12 DEF Next

\* The client's frame and its state have the transcript that it proposes with.
LEMMA ProposeOutcome ==
  ASSUME Inv, NEW call \in Nat, NEW n \in Nat, NEW p \in Protocols,
         NEW d \in Seq(Record), Propose(call, n, p, d),
         NEW g, g = ProposalFrame(call, n, p, d)
  PROVE  /\ pc'["client"] = "reply" /\ dead'["client"] = d /\ calls'["client"] = call
         /\ pc'["server"] = pc["server"] /\ calls'["server"] = calls["server"]
         /\ dead'["server"] = dead["server"] /\ hs'["server"] = hs["server"]
         /\ Len(hs'["client"].ids) >= 1
         /\ g.neg = Proposal(p, "data") /\ g.msg \in Message
         /\ g.msg.h.ids = <<>> /\ Proposed(g.msg)'
<1>0. TypeOK /\ "client" \in Side /\ "server" \in Side
  BY DEF Inv, Side
<1>1. PICK h, id : h = ProposalHS(p, d) /\ id = <<"client", call, n, 0>>
  OBVIOUS
<1>2. /\ h \in Hash /\ id \in Id /\ h.dead = d /\ h.ids = <<>>
      /\ g = [neg |-> Proposal(p, "data"), msg |-> [id |-> id, h |-> h]]
  BY <1>1, ProposalType DEF ProposalHS, NewHS, ProposalFrame
<1>3. /\ MixId(h, id).dead = d /\ Len(MixId(h, id).ids) >= 1
  <2>1. Len(MixId(h, id).ids) = Len(h.ids) + 1 /\ Len(h.ids) = 0
    BY <1>2, MixIdType
  <2>2. MixId(h, id).dead = h.dead
    BY <1>2 DEF MixId, Hash
  <2>. QED
    BY <1>2, <2>1, <2>2
<1>4. /\ pc'["client"] = "reply" /\ pc'["server"] = pc["server"]
      /\ calls'["client"] = call /\ calls'["server"] = calls["server"]
      /\ dead'["client"] = d /\ dead'["server"] = dead["server"]
      /\ hs'["client"] = MixId(h, id) /\ hs'["server"] = hs["server"]
  BY <1>0, <1>1 DEF Propose, TypeOK
<1>5. /\ g.neg = Proposal(p, "data") /\ g.msg.h = h /\ g.msg # NoMsg
      /\ g.msg \in Message
  <2>1. id # NoId
    BY <1>2, IdIsNamed
  <2>. QED
    BY <1>2, <2>1 DEF NoMsg, Message
<1>. QED
  BY <1>2, <1>3, <1>4, <1>5 DEF Proposed

\* A client that fails with nothing left on the wire.
LEMMA GivesUp ==
  ASSUME TypeOK, Fail("client"), chan'["client"] = <<>>, chan'["server"] = <<>>,
         NEW f, Back(f)
  PROVE  Apart'
<1>1. /\ pc'["client"] = "failed" /\ pc'["server"] = pc["server"]
      /\ dead' = dead /\ calls' = calls /\ hs' = hs
  BY DEF Fail, TypeOK, Side
<1>2. CASE pc["server"] = "done"
  <2>1. Alone("server")'
    BY <1>1, <1>2 DEF Alone, Peer
  <2>. QED
    BY <2>1 DEF Apart, Side
<1>3. CASE pc["server"] # "done"
  <2>1. Restart'
    BY <1>1, <1>3 DEF Restart, Silent, Back
  <2>. QED
    BY <2>1 DEF Apart
<1>. QED
  BY <1>2, <1>3

\* The steps that keep the two sides apart, handler by handler.
LEMMA StartClientApart ==
  ASSUME Inv, Turns, Called, ~Gone, ~Again, Apart, StartClient
  PROVE  Apart'
<1>0. TypeOK /\ "client" \in Side /\ "server" \in Side
  BY DEF Inv, Side
<1>1. PICK g : g = ProposalFrame(calls["client"] + 1, 0, cfg.proposed, <<>>)
  OBVIOUS
<1>2. /\ pc["client"] \in {"new", "failed"}
      /\ Propose(calls["client"] + 1, 0, cfg.proposed, <<>>)
      /\ chan' = [chan EXCEPT !["server"] = Append(chan["server"], g)]
  BY <1>1 DEF StartClient, MayCall
<1>3. Silent
  BY <1>0, <1>2, NothingSent
<1>4. chan'["client"] = <<>> /\ chan'["server"] = <<g>>
  BY <1>0, <1>2, <1>3 DEF Silent, TypeOK
<1>5. calls["client"] + 1 \in Nat /\ cfg.proposed \in Protocols
  BY <1>0, ConfigType, BoundsAssumption DEF TypeOK
<1>6. /\ pc'["client"] = "reply" /\ dead'["client"] = <<>>
      /\ calls'["client"] = calls["client"] + 1
      /\ pc'["server"] = pc["server"] /\ calls'["server"] = calls["server"]
      /\ dead'["server"] = dead["server"] /\ hs'["server"] = hs["server"]
      /\ g.msg.h.ids = <<>> /\ Proposed(g.msg)'
  <2>0. <<>> \in Seq(Record) /\ 0 \in Nat
    OBVIOUS
  <2>1. PICK call \in Nat : call = calls["client"] + 1
    BY <1>5
  <2>2. Propose(call, 0, cfg.proposed, <<>>) /\ g = ProposalFrame(call, 0, cfg.proposed, <<>>)
    BY <1>1, <1>2, <2>1
  <2>3. /\ pc'["client"] = "reply" /\ dead'["client"] = <<>> /\ calls'["client"] = call
        /\ pc'["server"] = pc["server"] /\ calls'["server"] = calls["server"]
        /\ dead'["server"] = dead["server"] /\ hs'["server"] = hs["server"]
        /\ g.msg.h.ids = <<>> /\ Proposed(g.msg)'
    BY <1>5, <2>0, <2>2, ProposeOutcome
  <2>. QED
    BY <2>1, <2>3
<1>7. CASE \E s \in Side : Alone(s)
  <2>1. Alone("server")
    BY <1>2, <1>7 DEF Alone, Side
  <2>2. Alone("server")'
    BY <1>4, <1>6, <2>1 DEF Alone, Peer
  <2>. QED
    BY <2>2 DEF Apart, Side
<1>8. CASE Restart
  <2>1. calls["client"] >= 1 /\ calls["client"] \in Nat
    BY <1>0, <1>8, BoundsAssumption DEF Called, Restart, TypeOK
  <2>2. calls'["client"] > 1
    BY <1>6, <2>1
  <2>3. PICK m : m = g.msg
    OBVIOUS
  <2>4. CASE calls["server"] > 1
    <3>1. Again'
      BY <1>6, <2>2, <2>4 DEF Again, Side
    <3>. QED
      BY <3>1 DEF Apart
  <2>5. CASE pc["server"] = "drive" /\ Len(hs["server"].ids) >= 1
    <3>1. m.h # hs["server"]
      BY <1>6, <2>3, <2>5
    <3>. QED
      BY <1>4, <1>6, <2>3, <2>5, <3>1 DEF Apart, ToServer, Toward
  <2>6. CASE pc["server"] = "failed" \/ (pc["server"] = "proposal" /\ dead["server"] # <<>>)
    <3>1. Proposed(m)'
      BY <1>6, <2>3 DEF Proposed
    <3>2. Toward(m)'
      BY <1>6, <2>2, <2>6, <3>1 DEF Toward
    <3>. QED
      BY <1>4, <2>3, <3>2 DEF Apart, ToServer, Toward, Proposed
  <2>. QED
    BY <1>8, <2>4, <2>5, <2>6 DEF Restart
<1>. QED
  BY <1>2, <1>3, <1>7, <1>8 DEF Apart, Deaf, ToServer, ToClient, Silent

LEMMA StartServerApart ==
  ASSUME Inv, Turns, Called, ~Gone, ~Again, Apart, StartServer
  PROVE  Apart'
<1>0. TypeOK /\ "client" \in Side /\ "server" \in Side
  BY DEF Inv, Side
<1>1. /\ pc["server"] \in {"new", "failed"} /\ pc'["server"] = "proposal"
      /\ pc'["client"] = pc["client"] /\ dead'["server"] = <<>>
      /\ dead'["client"] = dead["client"] /\ calls'["client"] = calls["client"]
      /\ calls'["server"] = calls["server"] + 1 /\ chan' = chan /\ hs' = hs
  BY <1>0 DEF StartServer, MayCall, TypeOK
<1>2. /\ calls["server"] \in Nat
      /\ pc["server"] = "failed" => calls'["server"] > 1
  <2>1. calls["server"] \in Nat
    BY <1>0, BoundsAssumption DEF TypeOK
  <2>2. pc["server"] = "failed" => calls["server"] >= 1
    BY <1>0 DEF Called
  <2>. QED
    BY <1>1, <2>1, <2>2
<1>3. CASE Deaf
  BY <1>1, <1>3 DEF Apart, Deaf, Silent
<1>4. CASE \E s \in Side : Alone(s)
  <2>1. Alone("client")
    BY <1>1, <1>4 DEF Alone, Side
  <2>2. Alone("client")'
    BY <1>1, <2>1 DEF Alone, Peer
  <2>. QED
    BY <2>2 DEF Apart, Side
<1>5. CASE Restart
  BY <1>1, <1>2, <1>5 DEF Apart, Restart, Silent
<1>6. CASE ToServer
  <2>1. PICK m : m = Head(chan["server"]).msg
    OBVIOUS
  <2>2. /\ pc["server"] = "failed" /\ Proposed(m)
        /\ calls["client"] > 1 \/ dead["client"] # <<>>
    BY <1>1, <1>6, <2>1 DEF ToServer, Toward
  <2>3. CASE calls["client"] > 1
    BY <1>1, <1>2, <2>2, <2>3 DEF Apart, Again, Side
  <2>4. CASE dead["client"] # <<>>
    BY <1>1, <1>6, <2>1, <2>2, <2>4 DEF Apart, ToServer, Toward, Proposed
  <2>. QED
    BY <2>2, <2>3, <2>4
<1>7. CASE ToClient
  <2>1. PICK f : f = Head(chan["client"])
    OBVIOUS
  <2>2. /\ pc["server"] = "failed" /\ f.msg = NoMsg
        /\ pc["client"] \in {"reply", "drive"} /\ Len(hs["client"].ids) >= 1
        /\ chan["server"] = <<>> /\ chan["client"] # <<>>
    BY <1>1, <1>7, <2>1 DEF ToClient, Back
  <2>3. RetryTranscript(f)' # <<>>
    <3>1. PICK d, a, b : /\ RetryTranscript(f)' = d \o <<a, b>> /\ d = dead["client"]
      BY <1>1 DEF RetryTranscript
    <3>2. d \in Seq(Record)
      BY <1>0, <3>1 DEF TypeOK
    <3>3. Len(d \o <<a, b>>) = Len(d) + 2 /\ Len(d) \in Nat
      BY <3>2
    <3>. QED
      BY <3>1, <3>3
  <2>4. Back(f)'
    BY <1>1, <1>2, <2>2, <2>3 DEF Back
  <2>. QED
    BY <1>1, <2>1, <2>2, <2>4 DEF Apart, ToClient, Back
<1>. QED
  BY <1>3, <1>4, <1>5, <1>6, <1>7 DEF Apart

LEMMA ReadReplyApart ==
  ASSUME Inv, Turns, Called, ~Gone, ~Again, Apart, ReadReply
  PROVE  Apart'
<1>0. TypeOK /\ "client" \in Side /\ "server" \in Side /\ Peer("client") = "server"
  BY DEF Inv, Side, Peer
<1>1. PICK f : /\ f = Head(chan["client"]) /\ chan["client"] # <<>> /\ pc["client"] = "reply"
               /\ ReadAccept(f) \/ ReadReject(f) \/ ReadRetry(f) \/ ReadSwitch(f)
  BY DEF ReadReply
<1>2. f \in Frame /\ chan["server"] = <<>>
  BY <1>0, <1>1, OneFrame
<1>3. /\ ReadOnly("client") => chan'["client"] = <<>> /\ chan'["server"] = <<>>
      /\ \A g : ReadAndWrite("client", g) => chan'["client"] = <<>> /\ chan'["server"] = <<g>>
  BY <1>0, <1>1, OneRead
<1>4. Back(f) /\ Len(hs["client"].ids) >= 1
  <2>1. ToClient
    BY <1>1 DEF Apart, Deaf, Silent, Alone, Restart, ToServer, Side, Peer
  <2>. QED
    BY <1>1, <2>1 DEF ToClient
<1>5. CASE Fail("client") /\ ReadOnly("client")
  BY <1>0, <1>3, <1>4, <1>5, GivesUp
<1>6. ASSUME NEW h, hs' = [hs EXCEPT !["client"] = h], pc' = [pc EXCEPT !["client"] = "drive"],
             ReadOnly("client"), f.msg = NoMsg
      PROVE  Apart'
  <2>1. pc["server"] # "done"
    BY <1>4, <1>6 DEF Back, Strays
  <2>2. pc'["client"] = "drive" /\ pc'["server"] # "done"
    BY <1>0, <1>6, <2>1, PcOf
  <2>. QED
    BY <1>3, <1>6, <2>2 DEF Apart, Deaf, Silent
<1>7. hs["client"] \in Hash /\ f.msg \in Message \cup {NoMsg}
  BY <1>0, <1>1, <1>2 DEF Inv, Stages, HasHS, Frame
<1>8. CASE ReadAccept(f)
  <2>1. CASE f.msg = NoMsg
    BY <1>5, <1>6, <1>8, <2>1 DEF ReadAccept, DriveFromPending
  <2>2. CASE f.msg # NoMsg
    <3>1. DriveFrom("client", hs["client"], TRUE, f.msg)
      BY <1>8, <2>2 DEF ReadAccept, DriveFromPending
    <3>2. f.msg.h # hs["client"]
      BY <1>4, <2>2 DEF Back, Strays
    <3>. QED
      BY <1>0, <1>4, <1>5, <1>7, <3>1, <3>2, DriveFails
  <2>. QED
    BY <2>1, <2>2
<1>9. CASE ReadReject(f)
  BY <1>5, <1>9 DEF ReadReject
<1>10. CASE ReadRetry(f)
  <2>1. SUFFICES ASSUME NEW n, NEW d, NEW p, NEW g,
                        n = attempt["client"] + 1, d = RetryTranscript(f), p = f.neg.proto,
                        g = ProposalFrame(calls["client"], n, p, d),
                        Propose(calls["client"], n, p, d), ReadAndWrite("client", g)
                 PROVE  Apart'
    BY <1>5, <1>10 DEF ReadRetry
  <2>2. p \in Protocols
    BY <1>2, <1>10, <2>1, NegProto DEF ReadRetry, Frame
  <2>3. d \in Seq(Record) /\ d # <<>>
    <3>1. PICK a \in Record, b \in Record : d = dead["client"] \o <<a, b>>
      <4>1. SentFrame \in Record /\ FrameBytes(f) \in Record
        BY <1>1, <1>2, SentFrameType, FrameBytesType
      <4>. QED
        BY <2>1, <4>1 DEF RetryTranscript
    <3>2. dead["client"] \in Seq(Record)
      BY <1>0 DEF TypeOK
    <3>3. d # <<>>
      BY <3>1, <3>2, GrownBy
    <3>4. <<a, b>> \in Seq(Record)
      OBVIOUS
    <3>. QED
      BY <3>1, <3>2, <3>3, <3>4
  <2>4. calls["client"] \in Nat /\ n \in Nat
    BY <1>0, <2>1, BoundsAssumption DEF TypeOK
  <2>5. /\ pc'["client"] = "reply" /\ dead'["client"] = d
        /\ pc'["server"] = pc["server"] /\ dead'["server"] = dead["server"]
        /\ hs'["server"] = hs["server"]
        /\ g.msg.h.ids = <<>> /\ Proposed(g.msg)'
    BY <2>1, <2>2, <2>3, <2>4, ProposeOutcome
  <2>6. chan'["client"] = <<>> /\ chan'["server"] = <<g>>
    BY <1>3, <2>1
  <2>7. PICK m : m = g.msg
    OBVIOUS
  <2>8. Toward(m)'
    <3>1. CASE pc["server"] = "proposal"
      <4>1. dead["server"] # d
        BY <1>4, <2>1, <3>1 DEF Back
      <4>. QED
        BY <2>5, <2>7, <3>1, <4>1 DEF Toward, Proposed
    <3>2. CASE pc["server"] = "failed"
      BY <2>3, <2>5, <2>7, <3>2 DEF Toward, Proposed
    <3>3. CASE pc["server"] = "drive"
      <4>1. Len(hs["server"].ids) >= 1
        BY <1>4, <3>3 DEF Back
      <4>2. m.h # hs["server"]
        BY <2>5, <2>7, <4>1
      <4>. QED
        BY <2>5, <3>3, <4>1, <4>2 DEF Toward
    <3>4. pc["server"] # "done"
      BY <1>4, <1>10 DEF Back, ReadRetry, NoNeg
    <3>. QED
      BY <1>4, <3>1, <3>2, <3>3, <3>4 DEF Back
  <2>. QED
    BY <2>6, <2>7, <2>8 DEF Apart, ToServer, Toward, Proposed
<1>11. CASE ReadSwitch(f)
  <2>1. PICK d, h : d = Append(dead["client"], SentFrame) /\ h = SwitchHS(f, d)
    OBVIOUS
  <2>2. SUFFICES ASSUME DriveFromPending("client", h, FALSE, f.msg)
                 PROVE  Apart'
    BY <1>5, <1>11, <2>1 DEF ReadSwitch
  <2>3. CASE f.msg = NoMsg
    BY <1>6, <2>2, <2>3 DEF DriveFromPending
  <2>4. CASE f.msg # NoMsg
    <3>1. h \in Hash /\ h.ids = <<>> /\ h.neg = f.neg /\ h.dead = d
      <4>1. d \in Seq(Record)
        <5>1. SentFrame \in Record /\ dead["client"] \in Seq(Record)
          BY <1>0, <1>1, SentFrameType DEF TypeOK
        <5>. QED
          BY <2>1, <5>1
      <4>2. f.neg \in Neg /\ f.neg.proto \in Protocols
        BY <1>2, <1>11, NegProto DEF ReadSwitch, Frame
      <4>3. cfg.app["client"] \in {"app1", "app2"}
        BY <1>0, ConfigType DEF TypeOK
      <4>. QED
        BY <2>1, <4>1, <4>2, <4>3, HashType DEF SwitchHS, NewHS
    <3>2. DriveFrom("client", h, FALSE, f.msg)
      BY <2>2, <2>4 DEF DriveFromPending
    <3>3. CASE Fail("client") /\ ReadOnly("client")
      BY <1>5, <3>3
    <3>4. ASSUME NEW k \in Hash, NEW p \in {"drive", "done"}, NEW g,
                 hs' = [hs EXCEPT !["client"] = k], pc' = [pc EXCEPT !["client"] = p],
                 ReadAndWrite("client", g),
                 g.msg.h.neg = h.neg, g.msg.h.dead = h.dead
          PROVE  Apart'
      <4>1. chan'["client"] = <<>> /\ chan'["server"] = <<g>>
        BY <1>3, <3>4
      <4>2. /\ pc'["client"] = p /\ pc'["server"] = pc["server"]
            /\ hs'["server"] = hs["server"]
        BY <1>0, <3>4 DEF TypeOK
      <4>3. PICK m : m = g.msg
        OBVIOUS
      <4>4. /\ pc["server"] = "drive" /\ Len(hs["server"].ids) >= 1
            /\ f.neg # hs["server"].neg \/ d # hs["server"].dead
        BY <1>4, <1>11, <2>1, <2>4 DEF Back, ReadSwitch, NoNeg
      <4>5. m.h # hs["server"]
        BY <3>1, <3>4, <4>3, <4>4
      <4>6. Toward(m)'
        BY <3>4, <4>2, <4>4, <4>5 DEF Toward
      <4>. QED
        BY <4>1, <4>3, <4>6 DEF Apart, ToServer, Toward, Proposed
    <3>5. ~(Len(h.ids) >= 1)
      BY <3>1
    <3>6. (Fail("client") /\ ReadOnly("client")) \/ GoesOn("client", h)
      BY <1>0, <1>7, <3>1, <3>2, DriveOutcome
    <3>7. CASE GoesOn("client", h)
      <4>1. PICK k \in Hash, p \in {"drive", "done"} :
              hs' = [hs EXCEPT !["client"] = k] /\ pc' = [pc EXCEPT !["client"] = p]
        BY <3>7 DEF GoesOn
      <4>2. PICK g : /\ ReadAndWrite("client", g)
                     /\ g.msg.h.neg = h.neg /\ g.msg.h.dead = h.dead
        BY <3>5, <3>7 DEF GoesOn
      <4>. QED
        BY <3>4, <4>1, <4>2
    <3>. QED
      BY <3>3, <3>6, <3>7
  <2>. QED
    BY <2>3, <2>4
<1>. QED
  BY <1>1, <1>8, <1>9, <1>10, <1>11

LEMMA ReadProposalApart ==
  ASSUME Inv, Turns, Called, ~Gone, ~Again, Apart, ReadProposal
  PROVE  Apart'
<1>0. TypeOK /\ "client" \in Side /\ "server" \in Side /\ Peer("server") = "client"
  BY DEF Inv, Side, Peer
<1>1. PICK f : /\ f = Head(chan["server"]) /\ chan["server"] # <<>> /\ pc["server"] = "proposal"
               /\ \/ ReadNoProposal(f)
                  \/ /\ f.neg.action = "propose"
                     /\ AcceptProposal(f) \/ RejectProposal(f) \/ AskRetry(f) \/ AskSwitch(f)
  BY DEF ReadProposal
<1>2. f \in Frame /\ chan["client"] = <<>>
  BY <1>0, <1>1, OneFrame
<1>3. /\ ReadOnly("server") => chan'["server"] = <<>> /\ chan'["client"] = <<>>
      /\ \A g : ReadAndWrite("server", g) => chan'["server"] = <<>> /\ chan'["client"] = <<g>>
  BY <1>0, <1>1, OneRead
<1>4. Proposed(f.msg) /\ dead["client"] # dead["server"]
  <2>1. ToServer
    BY <1>1, <1>2 DEF Apart, Deaf, Silent, Alone, Restart, ToClient, Side, Peer
  <2>. QED
    BY <1>1, <2>1 DEF ToServer, Toward
<1>5. pc["client"] = "reply" /\ Len(hs["client"].ids) >= 1 /\ hs["client"].dead = dead["client"]
  BY <1>4 DEF Proposed, Inv, Stages
<1>6. dead["client"] \in Seq(Record) /\ dead["server"] \in Seq(Record)
  BY <1>0 DEF TypeOK
<1>7. PICK a \in Record, b \in Record : a = SentFrame /\ b = FrameBytes(f)
  BY <1>2, <1>5, SentFrameType, FrameBytesType
<1>8. CASE Fail("server") /\ ReadOnly("server")
  <2>1. pc'["client"] = "reply" /\ pc'["server"] = "failed"
    BY <1>0, <1>5, <1>8, PcOf DEF Fail
  <2>. QED
    BY <1>3, <1>8, <2>1 DEF Apart, Deaf, Silent
<1>9. CASE RejectProposal(f)
  <2>1. PICK g : g = [neg |-> Reject, msg |-> NoMsg]
    OBVIOUS
  <2>2. /\ pc'["client"] = "reply" /\ pc'["server"] = "failed" /\ hs' = hs
        /\ chan'["server"] = <<>> /\ chan'["client"] = <<g>>
    BY <1>0, <1>3, <1>5, <1>9, <2>1, PcOf DEF RejectProposal, Fail
  <2>3. Back(g)'
    BY <2>1, <2>2 DEF Back
  <2>. QED
    BY <1>5, <2>2, <2>3 DEF Apart, ToClient, Back
<1>10. CASE f.neg.action = "propose" /\ AcceptProposal(f)
  <2>1. PICK h : h = AcceptHS(f)
    OBVIOUS
  <2>2. h \in Hash /\ h.ids = <<>> /\ h.dead = dead["server"]
    <3>1. f.neg \in Neg /\ f.neg.proto \in Protocols
      BY <1>1, <1>2, <1>10, NegProto DEF Frame, AcceptProposal
    <3>2. cfg.app["server"] \in {"app1", "app2"}
      BY <1>0, ConfigType DEF TypeOK
    <3>. QED
      BY <1>6, <2>1, <3>1, <3>2, HashType DEF AcceptHS, NewHS
  <2>3. SUFFICES ASSUME DriveFrom("server", h, FALSE, f.msg)
                 PROVE  Apart'
    BY <1>4, <1>8, <1>10, <2>1 DEF AcceptProposal, DriveFromPending, Proposed
  <2>4. f.msg \in Message \cup {NoMsg}
    BY <1>2 DEF Frame
  <2>5. \/ Fail("server") /\ ReadOnly("server")
        \/ GoesOn("server", h) /\ dead' = dead
    BY <1>0, <2>2, <2>3, <2>4, DriveOutcome
  <2>6. CASE GoesOn("server", h) /\ dead' = dead
    <3>1. PICK k \in Hash, p \in {"drive", "done"} :
            /\ hs' = [hs EXCEPT !["server"] = k] /\ pc' = [pc EXCEPT !["server"] = p]
            /\ Len(k.ids) >= 1
      BY <2>6 DEF GoesOn
    <3>2. ~(Len(h.ids) >= 1)
      BY <2>2
    <3>3. PICK g : /\ ReadAndWrite("server", g)
                   /\ g.neg = NoNeg /\ g.msg # NoMsg /\ g.msg.h.dead = h.dead
      BY <2>6, <3>2 DEF GoesOn
    <3>4. /\ chan'["server"] = <<>> /\ chan'["client"] = <<g>>
          /\ pc'["server"] = p /\ pc'["client"] = "reply"
          /\ hs'["server"] = k /\ hs'["client"] = hs["client"]
      BY <1>0, <1>3, <1>5, <3>1, <3>3 DEF TypeOK
    <3>5. g.msg.h # hs["client"]
      BY <1>4, <1>5, <2>2, <3>3
    <3>6. Back(g)'
      BY <3>1, <3>3, <3>4, <3>5 DEF Back, Strays, NoNeg
    <3>. QED
      BY <1>5, <3>4, <3>6 DEF Apart, ToClient, Back, Strays
  <2>. QED
    BY <1>8, <2>5, <2>6
<1>11. CASE AskRetry(f)
  <2>1. PICK g, c : /\ g = RetryReply /\ c = FrameBytes(RetryReply)
                    /\ c \in Record
    BY <1>0, ConfigType, NegType, FrameBytesType DEF RetryReply, Frame, TypeOK
  <2>2. /\ g.neg.action = "retry" /\ g.msg = NoMsg
        /\ dead'["server"] = dead["server"] \o <<b, c>> /\ dead'["client"] = dead["client"]
        /\ pc'["server"] \in {"proposal", "failed"} /\ pc'["client"] = "reply"
        /\ hs' = hs
        /\ chan'["server"] = <<>> /\ chan'["client"] = <<g>>
    BY <1>0, <1>3, <1>5, <1>7, <1>11, <2>1 DEF AskRetry, RetryReply, Retry, RetryDead, TypeOK
  <2>3. dead'["server"] # <<>>
    BY <1>6, <1>7, <2>1, <2>2, GrownBy
  <2>4. dead'["server"] # RetryTranscript(g)'
    <3>1. RetryTranscript(g)' = dead["client"] \o <<a, c>>
      BY <1>7, <2>1, <2>2 DEF RetryTranscript, SentFrame
    <3>2. PICK v \in Seq(Record), w \in Seq(Record) : v = dead["client"] /\ w = dead["server"]
      BY <1>6
    <3>3. v # w /\ a \in Record /\ b \in Record /\ c \in Record
      BY <1>4, <1>7, <2>1, <3>2
    <3>4. v \o <<a, c>> # w \o <<b, c>>
      BY ONLY <3>2, <3>3, GrownApart
    <3>. QED
      BY <2>2, <3>1, <3>2, <3>4
  <2>5. Back(g)'
    BY <2>2, <2>3, <2>4 DEF Back
  <2>. QED
    BY <1>5, <2>2, <2>5 DEF Apart, ToClient, Back
<1>12. CASE AskSwitch(f)
  <2>1. PICK h, id, g : /\ h = ServerSwitchHS(f) /\ id = NewId("server", h)
                        /\ g = [neg |-> Switch(Target), msg |-> [id |-> id, h |-> h]]
    OBVIOUS
  <2>2. h \in Hash /\ h.ids = <<>> /\ h.dead = Append(dead["server"], b)
    <3>1. Append(dead["server"], b) \in Seq(Record) /\ Switch(Target) \in Neg
      BY <1>0, <1>6, ConfigType, NegType DEF TypeOK
    <3>2. cfg.app["server"] \in {"app1", "app2"} /\ Target \in Protocols
      BY <1>0, ConfigType DEF TypeOK
    <3>. QED
      BY <1>7, <2>1, <3>1, <3>2, HashType DEF ServerSwitchHS, NewHS
  <2>3. id \in Id /\ g.msg # NoMsg /\ g.msg.h = h
    <3>1. id \in Id
      BY <1>0, <2>1, <2>2, NewIdType
    <3>. QED
      BY <2>1, <3>1, IdIsNamed DEF NoMsg
  <2>4. /\ MixId(h, id).dead = Append(dead["server"], b)
        /\ Len(MixId(h, id).ids) >= 1
    <3>1. Len(MixId(h, id).ids) = Len(h.ids) + 1 /\ Len(h.ids) = 0
      BY <2>2, <2>3, MixIdType
    <3>2. MixId(h, id).dead = h.dead
      BY <2>2 DEF MixId, Hash
    <3>. QED
      BY <2>2, <3>1, <3>2
  <2>5. SUFFICES ASSUME hs' = [hs EXCEPT !["server"] = MixId(h, id)],
                        pc' = [pc EXCEPT !["server"] = "drive"],
                        ReadAndWrite("server", g), dead' = dead
                 PROVE  Apart'
    BY <1>8, <1>12, <2>1 DEF AskSwitch
  <2>6. /\ chan'["server"] = <<>> /\ chan'["client"] = <<g>>
        /\ pc'["server"] = "drive" /\ pc'["client"] = "reply"
        /\ hs'["server"] = MixId(h, id) /\ hs'["client"] = hs["client"]
    BY <1>0, <1>3, <1>5, <2>5 DEF TypeOK
  <2>7. g.msg.h # hs["client"]
    BY <1>5, <2>2, <2>3
  <2>8. Append(dead'["client"], SentFrame') # hs'["server"].dead
    <3>1. Append(dead'["client"], SentFrame') = Append(dead["client"], a)
      BY <1>7, <2>5, <2>6 DEF SentFrame
    <3>. QED
      BY <1>4, <1>6, <1>7, <2>4, <2>6, <3>1, GrownApart
  <2>9. Back(g)'
    BY <2>3, <2>4, <2>6, <2>7, <2>8 DEF Back, Strays
  <2>. QED
    BY <1>5, <2>6, <2>9 DEF Apart, ToClient, Back, Strays
<1>. QED
  BY <1>1, <1>8, <1>9, <1>10, <1>11, <1>12 DEF ReadNoProposal

LEMMA ReadDrivenApart ==
  ASSUME Inv, Turns, Called, ~Gone, ~Again, Apart, NEW s \in Side, ReadDriven(s)
  PROVE  Apart'
<1>0. TypeOK /\ "client" \in Side /\ "server" \in Side
  BY DEF Inv, Side
<1>1. PICK f : f = Head(chan[s])
  OBVIOUS
<1>2. /\ pc[s] = "drive" /\ chan[s] # <<>>
      /\ DriveFrom(s, hs[s], initiator[s], f.msg)
  BY <1>1 DEF ReadDriven
<1>3. /\ f.msg \in Message \cup {NoMsg} /\ chan[Peer(s)] = <<>>
      /\ hs[s] \in Hash
  <2>1. f \in Frame /\ chan[Peer(s)] = <<>>
    BY <1>0, <1>1, <1>2, OneFrame
  <2>. QED
    BY <1>2, <2>1 DEF Inv, Stages, HasHS, Frame
<1>4. ReadOnly(s) => chan'[s] = <<>> /\ chan'[Peer(s)] = <<>>
  BY <1>0, <1>2, OneRead
<1>5. CASE s = "client"
  <2>1. ToClient
    BY <1>2, <1>5 DEF Apart, Deaf, Silent, Alone, Restart, ToServer, Side, Peer
  <2>2. Back(f) /\ Len(hs[s].ids) >= 1
    BY <1>1, <1>5, <2>1 DEF ToClient
  <2>3. f.msg = NoMsg \/ f.msg.h # hs[s]
    BY <1>5, <2>2 DEF Back, Strays
  <2>4. Fail(s) /\ ReadOnly(s)
    BY <1>0, <1>2, <1>3, <2>2, <2>3, DriveFails
  <2>. QED
    BY <1>0, <1>4, <1>5, <2>2, <2>4, GivesUp DEF Peer
<1>6. CASE s = "server"
  <2>1. ToServer
    BY <1>2, <1>6 DEF Apart, Deaf, Silent, Alone, Restart, ToClient, Side, Peer
  <2>2. /\ Len(hs[s].ids) >= 1 /\ pc["client"] \in {"reply", "drive", "done"}
        /\ f.msg = NoMsg \/ f.msg.h # hs[s]
    BY <1>1, <1>2, <1>6, <2>1 DEF ToServer, Toward
  <2>3. Fail(s) /\ ReadOnly(s)
    BY <1>0, <1>2, <1>3, <2>2, DriveFails
  <2>4. pc'["server"] = "failed" /\ pc'["client"] = pc["client"]
    BY <1>0, <1>6, <2>3, PcOf DEF Fail
  <2>. QED
    BY <1>4, <1>6, <2>2, <2>3, <2>4 DEF Apart, Deaf, Silent, Peer
<1>. QED
  BY <1>5, <1>6 DEF Side

\* What altering the frame that s is about to read does to its channel.
LEMMA AlterHead ==
  ASSUME TypeOK, NEW s \in Side, Alter(s)
  PROVE  \E n \in Neg \ {Head(chan[s]).neg} :
           /\ chan'[s] # <<>> /\ chan'[Peer(s)] = chan[Peer(s)]
           /\ Head(chan'[s]).neg = n /\ Head(chan'[s]).msg = Head(chan[s]).msg
<1>1. PICK n \in Neg \ {Head(chan[s]).neg} :
        chan' = [chan EXCEPT ![s] = [chan[s] EXCEPT ![1].neg = n]]
  BY DEF Alter
<1>2. /\ chan[s] \in Seq(Frame) /\ chan[s] # <<>>
      /\ Peer(s) \in Side /\ Peer(s) # s /\ DOMAIN chan = Side
  BY DEF TypeOK, Alter, Peer, Side
<1>3. chan'[s] = [chan[s] EXCEPT ![1].neg = n] /\ chan'[Peer(s)] = chan[Peer(s)]
  BY <1>1, <1>2
<1>4. /\ chan[s][1] \in Frame /\ Head(chan[s]) = chan[s][1]
      /\ 1 \in 1 .. Len(chan[s]) /\ DOMAIN chan[s] = 1 .. Len(chan[s])
  BY <1>2
<1>5. PICK g \in Frame : g = [chan[s][1] EXCEPT !.neg = n]
  BY <1>4 DEF Frame
<1>6. g.neg = n /\ g.msg = Head(chan[s]).msg
  BY <1>4, <1>5 DEF Frame
<1>7. chan'[s] = [chan[s] EXCEPT ![1] = g]
  BY <1>3, <1>5
<1>8. chan'[s] \in Seq(Frame) /\ chan'[s] # <<>> /\ Head(chan'[s]) = g
  <2>1. chan'[s] \in Seq(Frame) /\ Len(chan'[s]) = Len(chan[s]) /\ chan'[s][1] = g
    BY <1>2, <1>4, <1>7
  <2>2. Len(chan[s]) >= 1
    BY <1>4
  <2>. QED
    BY <2>1, <2>2
<1>. QED
  BY <1>3, <1>6, <1>8

\* The alteration itself: the frame its reader gets is not the one that the
\* server has in its transcript or in its state.
LEMMA AlterApart ==
  ASSUME Inv, Turns, Called, Unaltered, ~Gone, altered = <<>>,
         NEW s \in Side, Alter(s), Tampered'
  PROVE  Apart'
<1>0. TypeOK /\ "client" \in Side /\ "server" \in Side /\ Peer("client") = "server"
  BY DEF Inv, Side, Peer
<1>1. PICK f, g, n : /\ f = Head(chan[s]) /\ g = Head(chan'[s]) /\ n \in Neg
                     /\ n # f.neg /\ g.neg = n /\ g.msg = f.msg
                     /\ chan'[s] # <<>> /\ chan'[Peer(s)] = chan[Peer(s)]
  BY <1>0, AlterHead
<1>2. /\ chan[s] # <<>> /\ f.neg.action \in {"retry", "switch"}
      /\ UNCHANGED <<pc, calls, dead, hs>>
  <2>1. altered' = Append(<<>>, f.neg.action) /\ altered'[1] \in {"retry", "switch"}
    BY <1>1 DEF Alter, Tampered
  <2>. QED
    BY <2>1 DEF Alter
<1>3. s = "client"
  BY <1>1, <1>2 DEF Unaltered, Side
<1>4. /\ f \in Frame /\ chan["server"] = <<>> /\ pc["client"] \notin {"new", "failed"}
  BY <1>0, <1>1, <1>2, <1>3, OneFrame
<1>5. Answers(f)
  BY <1>1, <1>2, <1>3 DEF Unaltered
<1>6. pc["client"] \in {"reply", "drive", "done"}
  BY <1>0, <1>4 DEF Inv, TypeOK, Stages, Gone, Waiting
<1>7. pc["server"] # "done"
  BY <1>2, <1>5 DEF Answers, Retried, Switched
<1>8. CASE pc["client"] = "done"
  BY <1>0, <1>1, <1>2, <1>3, <1>4, <1>7, <1>8 DEF Apart, Alone
<1>9. CASE pc["client"] \in {"reply", "drive"}
  <2>1. Len(hs["client"].ids) >= 1
    BY <1>9 DEF Unaltered, Inv, Stages
  <2>2. CASE f.neg.action = "retry"
    <3>1. Retried(f)
      BY <1>5, <2>2 DEF Answers
    <3>2. PICK d, a, b : /\ RetryTranscript(g) = d \o <<a, b>> /\ d = dead["client"]
                         /\ a = SentFrame /\ b = FrameBytes(g)
      BY DEF RetryTranscript
    <3>3. RetryTranscript(g)' = d \o <<a, b>>
      BY <1>2, <3>2 DEF RetryTranscript, SentFrame
    <3>4. d \in Seq(Record)
      BY <1>0, <3>2 DEF TypeOK
    <3>5. /\ Len(d \o <<a, b>>) = Len(d) + 2 /\ Len(d) \in Nat
          /\ (d \o <<a, b>>)[Len(d) + 2] = b
      BY <3>4
    <3>6. d \o <<a, b>> # <<>> /\ (d \o <<a, b>>)[Len(d \o <<a, b>>)] = b
      BY <3>5
    <3>7. b # FrameBytes(f)
      BY <1>1, <3>2 DEF FrameBytes
    <3>8. pc["server"] = "proposal" => dead["server"] # d \o <<a, b>>
      BY <3>1, <3>6, <3>7 DEF Retried
    <3>9. Back(g)'
      BY <1>1, <1>2, <3>1, <3>3, <3>8 DEF Back, Retried
    <3>. QED
      BY <1>1, <1>2, <1>3, <1>4, <1>9, <2>1, <3>9, <1>0 DEF Apart, ToClient
  <2>3. CASE f.neg.action = "switch"
    <3>1. Switched(f)
      BY <1>5, <2>3 DEF Answers
    <3>2. g.msg.h # hs["client"]
      BY <1>1, <2>1, <3>1 DEF Switched
    <3>3. Back(g)'
      BY <1>1, <1>2, <3>1, <3>2 DEF Back, Switched, Strays
    <3>. QED
      BY <1>1, <1>2, <1>3, <1>4, <1>9, <2>1, <3>3, <1>0 DEF Apart, ToClient
  <2>. QED
    BY <1>2, <2>2, <2>3
<1>. QED
  BY <1>6, <1>8, <1>9

\* Once a retry or a switch has been tampered with, the two sides stay apart.
LEMMA StepApart ==
  ASSUME Inv, Turns, Split, [Next]_vars, Tampered'
  PROVE  Apart'
<1>0. TypeOK /\ Called /\ Unaltered /\ (Tampered => Apart)
  BY DEF Inv, Split
<1>1. CASE Gone
  BY <1>0, <1>1, StepKeeps DEF Apart
<1>2. CASE ~Gone /\ \E s \in Side : Alter(s)
  <2>1. PICK s \in Side : Alter(s)
    BY <1>2
  <2>2. altered' = Append(altered, Head(chan[s]).neg.action)
    BY <2>1 DEF Alter
  <2>3. altered = <<>>
    <3>1. altered \in Seq({"none", "garbled", "propose", "reject", "retry", "switch"})
      BY <1>0 DEF TypeOK
    <3>2. Len(altered') = 1
      BY DEF Tampered
    <3>3. Len(altered) = 0
      <4>1. PICK n \in Nat : n = Len(altered)
        BY <3>1
      <4>2. Len(altered') = n + 1
        BY <2>2, <3>1, <4>1
      <4>. QED
        BY <3>2, <4>1, <4>2
    <3>. QED
      BY <3>1, <3>3
  <2>. QED
    BY <1>0, <1>2, <2>1, <2>3, AlterApart
<1>3. CASE ~Gone /\ \A s \in Side : ~Alter(s)
  <2>1. Tampered
    <3>1. altered' = altered
      BY <1>0, <1>3, StepKeeps
    <3>. QED
      BY <3>1 DEF Tampered
  <2>2. Apart
    BY <1>0, <2>1
  <2>3. CASE Again
    BY <1>0, <2>3, StepKeeps DEF Apart
  <2>4. CASE ~Again
    <3>1. CASE StartClient
      BY <1>0, <1>3, <2>2, <2>4, <3>1, StartClientApart
    <3>2. CASE StartServer
      BY <1>0, <1>3, <2>2, <2>4, <3>2, StartServerApart
    <3>3. CASE ReadReply
      BY <1>0, <1>3, <2>2, <2>4, <3>3, ReadReplyApart
    <3>4. CASE ReadProposal
      BY <1>0, <1>3, <2>2, <2>4, <3>4, ReadProposalApart
    <3>5. ASSUME NEW s \in Side, ReadDriven(s) PROVE Apart'
      BY <1>0, <1>3, <2>2, <2>4, <3>5, ReadDrivenApart
    <3>6. ASSUME NEW s \in Side, Close(s) PROVE Apart'
      <4>1. pc'[s] = "closed"
        BY <1>0, <3>6, PcOf DEF Close
      <4>. QED
        BY <4>1 DEF Apart, Gone
    <3>7. ASSUME NEW s \in Side, LosesConnection(s) PROVE FALSE
      BY <1>3, <3>7 DEF LosesConnection, Gone, Peer, Side
    <3>8. CASE UNCHANGED vars
      BY <2>2, <3>8 DEF vars, Apart, Gone, Again, Deaf, Silent, Alone, Restart, ToServer,
         Toward, Proposed, ToClient, Back, Strays, RetryTranscript, SentFrame
    <3>. QED
      BY <1>3, <3>1, <3>2, <3>3, <3>4, <3>5, <3>6, <3>7, <3>8 DEF Next
  <2>. QED
    BY <2>3, <2>4
<1>. QED
  BY <1>1, <1>2, <1>3

\* At the start nothing has been altered.
LEMMA InitSplit == Init => Split
BY DEF Init, Split, Called, Unaltered, Tampered, Side

\* A side that fails leaves nothing on the wire for anybody to misread.
LEMMA FailUnaltered ==
  ASSUME TypeOK, Turns, Unaltered, ~Gone, NEW s \in Side, chan[s] # <<>>,
         Fail(s), ReadOnly(s)
  PROVE  Unaltered'
<1>1. chan'["client"] = <<>> /\ chan'["server"] = <<>>
  BY OneRead DEF Peer, Side
<1>2. altered' = altered /\ hs' = hs
  BY DEF Fail
<1>3. pc'["client"] = "drive" => pc["client"] = "drive"
  BY DEF Fail, TypeOK, Side
<1>. QED
  BY <1>1, <1>2, <1>3 DEF Unaltered

\* What driveFrom writes is no answer to a proposal.
LEMMA DriveUnaltered ==
  ASSUME TypeOK, Turns, Unaltered, ~Gone, NEW s \in Side, chan[s] # <<>>,
         NEW h \in Hash, NEW init, NEW m \in Message \cup {NoMsg},
         DriveFrom(s, h, init, m)
  PROVE  Unaltered'
<1>1. CASE Fail(s) /\ ReadOnly(s)
  BY <1>1, FailUnaltered
<1>2. CASE GoesOn(s, h) /\ altered' = altered
  <2>1. PICK k \in Hash, p \in {"drive", "done"} :
          /\ hs' = [hs EXCEPT ![s] = k] /\ pc' = [pc EXCEPT ![s] = p]
          /\ Len(k.ids) >= 1
    BY <1>2 DEF GoesOn
  <2>2. /\ hs'[s] = k /\ \A t \in Side \ {s} : hs'[t] = hs[t]
        /\ \A t \in Side \ {s} : pc'[t] = pc[t]
    BY <2>1 DEF TypeOK
  <2>3. altered' = <<>> => (pc'["client"] = "drive" => Len(hs'["client"].ids) >= 1)
    BY <1>2, <2>1, <2>2 DEF Unaltered, Side
  <2>4. chan'[s] = <<>>
    BY <1>2, OneRead DEF GoesOn
  <2>5. CASE ReadOnly(s)
    <3>1. chan'["client"] = <<>> /\ chan'["server"] = <<>>
      BY <2>5, OneRead DEF Peer, Side
    <3>. QED
      BY <2>3, <3>1 DEF Unaltered
  <2>6. CASE \E g : ReadAndWrite(s, g) /\ g.neg = NoNeg /\ g.msg # NoMsg
    <3>1. PICK g : ReadAndWrite(s, g) /\ g.neg = NoNeg /\ g.msg # NoMsg
      BY <2>6
    <3>2. chan'[s] = <<>> /\ chan'[Peer(s)] = <<g>> /\ Head(<<g>>) = g
      BY <3>1, OneRead
    <3>3. g.neg.action = "none"
      BY <3>1 DEF NoNeg
    <3>4. Answers(g)'
      BY <3>1, <3>3 DEF Answers
    <3>5. CASE s = "client"
      BY <2>3, <3>2, <3>3, <3>5 DEF Unaltered, Peer
    <3>6. CASE s = "server"
      BY <2>3, <3>2, <3>4, <3>6 DEF Unaltered, Peer
    <3>. QED
      BY <3>5, <3>6 DEF Side
  <2>. QED
    BY <1>2, <2>5, <2>6 DEF GoesOn
<1>. QED
  BY <1>1, <1>2, DriveOutcome

\* The client's proposal is one, and it has begun a handshake of its own.
LEMMA ProposeUnaltered ==
  ASSUME Inv, NEW call \in Nat, NEW n \in Nat, NEW p \in Protocols,
         NEW d \in Seq(Record), Propose(call, n, p, d),
         chan'["client"] = <<>>, chan'["server"] = <<ProposalFrame(call, n, p, d)>>
  PROVE  Unaltered'
<1>1. PICK g : g = ProposalFrame(call, n, p, d)
  OBVIOUS
<1>2. pc'["client"] = "reply" /\ g.neg = Proposal(p, "data")
  BY <1>1, ProposeOutcome
<1>3. Head(chan'["server"]).neg.action = "propose"
  <2>1. Head(<<g>>) = g
    OBVIOUS
  <2>. QED
    BY <1>1, <1>2, <2>1 DEF Proposal
<1>. QED
  BY <1>2, <1>3 DEF Unaltered

\* The steps before any alteration, handler by handler.
LEMMA StartClientUnaltered ==
  ASSUME Inv, Turns, ~Gone, StartClient
  PROVE  Unaltered'
<1>0. TypeOK /\ "client" \in Side /\ "server" \in Side
  BY DEF Inv, Side
<1>1. PICK call : call = calls["client"] + 1
  OBVIOUS
<1>2. call \in Nat /\ cfg.proposed \in Protocols /\ <<>> \in Seq(Record) /\ 0 \in Nat
  BY <1>0, <1>1, ConfigType, BoundsAssumption DEF TypeOK
<1>3. PICK g : g = ProposalFrame(call, 0, cfg.proposed, <<>>)
  OBVIOUS
<1>4. /\ Propose(call, 0, cfg.proposed, <<>>)
      /\ pc["client"] \in {"new", "failed"}
      /\ chan' = [chan EXCEPT !["server"] = Append(chan["server"], g)]
  BY <1>1, <1>3 DEF StartClient, MayCall
<1>5. Silent
  BY <1>0, <1>4, NothingSent
<1>6. chan'["client"] = <<>> /\ chan'["server"] = <<g>>
  BY <1>0, <1>4, <1>5 DEF Silent, TypeOK
<1>. QED
  BY <1>2, <1>3, <1>4, <1>6, ProposeUnaltered

LEMMA StartServerUnaltered ==
  ASSUME Inv, Called, Unaltered, ~Gone, StartServer
  PROVE  Unaltered'
<1>0. TypeOK /\ "client" \in Side /\ "server" \in Side
  BY DEF Inv, Side
<1>1. /\ pc["server"] \in {"new", "failed"} /\ pc'["server"] = "proposal"
      /\ pc'["client"] = pc["client"] /\ dead'["server"] = <<>>
      /\ calls'["server"] = calls["server"] + 1
      /\ chan' = chan /\ hs' = hs /\ altered' = altered
  BY <1>0 DEF StartServer, MayCall, TypeOK
<1>2. pc["server"] = "failed" => calls'["server"] > 1
  <2>1. calls["server"] \in Nat
    BY <1>0, BoundsAssumption DEF TypeOK
  <2>2. pc["server"] = "failed" => calls["server"] >= 1
    BY <1>0 DEF Called
  <2>. QED
    BY <1>1, <2>1, <2>2
<1>3. ASSUME NEW f, Answers(f) PROVE Answers(f)'
  BY <1>1, <1>2, <1>3 DEF Answers, Retried, Switched
<1>. QED
  BY <1>1, <1>3 DEF Unaltered


LEMMA ReadReplyUnaltered ==
  ASSUME Inv, Turns, Unaltered, ~Gone, altered = <<>>, ReadReply
  PROVE  Unaltered'
<1>0. TypeOK /\ "client" \in Side /\ "server" \in Side /\ Peer("client") = "server"
  BY DEF Inv, Side, Peer
<1>1. PICK f : /\ f = Head(chan["client"]) /\ chan["client"] # <<>> /\ pc["client"] = "reply"
               /\ ReadAccept(f) \/ ReadReject(f) \/ ReadRetry(f) \/ ReadSwitch(f)
  BY DEF ReadReply
<1>2. f \in Frame /\ f.msg \in Message \cup {NoMsg}
  BY <1>0, <1>1, OneFrame DEF Frame
<1>3. hs["client"] \in Hash
  BY <1>0, <1>1 DEF Inv, Stages, HasHS
<1>4. f.msg = NoMsg => f.neg.action \notin {"none", "switch"}
  BY <1>1 DEF Unaltered, Answers
<1>5. CASE Fail("client") /\ ReadOnly("client")
  BY <1>0, <1>1, <1>5, FailUnaltered
<1>6. ASSUME NEW h \in Hash, NEW init, f.msg # NoMsg,
             DriveFromPending("client", h, init, f.msg)
      PROVE  Unaltered'
  <2>1. DriveFrom("client", h, init, f.msg)
    BY <1>6 DEF DriveFromPending
  <2>. QED
    BY <1>0, <1>1, <1>2, <2>1, DriveUnaltered
<1>7. CASE ReadAccept(f)
  <2>1. f.neg.action = "none"
    BY <1>7 DEF ReadAccept, NoNeg
  <2>2. f.msg # NoMsg /\ DriveFromPending("client", hs["client"], TRUE, f.msg)
    BY <1>4, <1>7, <2>1 DEF ReadAccept
  <2>. QED
    BY <1>3, <1>6, <2>2
<1>8. CASE ReadReject(f)
  BY <1>5, <1>8 DEF ReadReject
<1>9. CASE ReadRetry(f)
  <2>1. SUFFICES ASSUME NEW n, NEW d, NEW p,
                        n = attempt["client"] + 1, d = RetryTranscript(f), p = f.neg.proto,
                        Propose(calls["client"], n, p, d),
                        ReadAndWrite("client", ProposalFrame(calls["client"], n, p, d))
                 PROVE  Unaltered'
    BY <1>5, <1>9 DEF ReadRetry
  <2>2. p \in Protocols
    BY <1>2, <1>9, <2>1, NegProto DEF ReadRetry, Frame
  <2>3. d \in Seq(Record)
    <3>1. PICK a \in Record, b \in Record : d = dead["client"] \o <<a, b>>
      <4>1. SentFrame \in Record /\ FrameBytes(f) \in Record
        BY <1>1, <1>2, SentFrameType, FrameBytesType
      <4>. QED
        BY <2>1, <4>1 DEF RetryTranscript
    <3>2. dead["client"] \in Seq(Record) /\ <<a, b>> \in Seq(Record)
      BY <1>0 DEF TypeOK
    <3>. QED
      BY <3>1, <3>2
  <2>4. calls["client"] \in Nat /\ n \in Nat
    BY <1>0, <2>1, BoundsAssumption DEF TypeOK
  <2>5. /\ chan'["client"] = <<>>
        /\ chan'["server"] = <<ProposalFrame(calls["client"], n, p, d)>>
    BY <1>0, <1>1, <2>1, OneRead
  <2>. QED
    BY <2>1, <2>2, <2>3, <2>4, <2>5, ProposeUnaltered
<1>10. CASE ReadSwitch(f)
  <2>1. PICK h : h = SwitchHS(f, Append(dead["client"], SentFrame))
    OBVIOUS
  <2>2. h \in Hash
    <3>1. Append(dead["client"], SentFrame) \in Seq(Record)
      <4>1. SentFrame \in Record /\ dead["client"] \in Seq(Record)
        BY <1>0, <1>1, SentFrameType DEF TypeOK
      <4>. QED
        BY <4>1
    <3>2. f.neg \in Neg /\ f.neg.proto \in Protocols
      BY <1>2, <1>10, NegProto DEF ReadSwitch, Frame
    <3>3. cfg.app["client"] \in {"app1", "app2"}
      BY <1>0, ConfigType DEF TypeOK
    <3>. QED
      BY <2>1, <3>1, <3>2, <3>3, HashType DEF SwitchHS
  <2>. QED
    BY <1>4, <1>5, <1>6, <1>10, <2>1, <2>2 DEF ReadSwitch
<1>. QED
  BY <1>1, <1>7, <1>8, <1>9, <1>10

\* The server has in its transcript, or in its state, what it answers.
LEMMA ReadProposalUnaltered ==
  ASSUME Inv, Turns, Unaltered, ~Gone, ReadProposal
  PROVE  Unaltered'
<1>0. TypeOK /\ "client" \in Side /\ "server" \in Side /\ Peer("server") = "client"
  BY DEF Inv, Side, Peer
<1>1. PICK f : /\ f = Head(chan["server"]) /\ chan["server"] # <<>> /\ pc["server"] = "proposal"
               /\ \/ ReadNoProposal(f)
                  \/ /\ f.neg.action = "propose"
                     /\ AcceptProposal(f) \/ RejectProposal(f) \/ AskRetry(f) \/ AskSwitch(f)
  BY DEF ReadProposal
<1>2. f \in Frame /\ f.msg \in Message \cup {NoMsg} /\ f.neg \in Neg
  BY <1>0, <1>1, OneFrame DEF Frame
<1>3. /\ ReadOnly("server") => chan'["server"] = <<>> /\ chan'["client"] = <<>>
      /\ \A g : ReadAndWrite("server", g) => chan'["server"] = <<>> /\ chan'["client"] = <<g>>
  BY <1>0, <1>1, OneRead
<1>4. dead["server"] \in Seq(Record) /\ FrameBytes(f) \in Record
  BY <1>0, <1>2, FrameBytesType DEF TypeOK
<1>5. \* The side that has not read is where it was.
      ASSUME NEW p, pc' = [pc EXCEPT !["server"] = p],
             hs' = hs \/ \E k : hs' = [hs EXCEPT !["server"] = k], altered' = altered
      PROVE  altered' = <<>> => (pc'["client"] = "drive" => Len(hs'["client"].ids) >= 1)
  <2>1. pc'["client"] = pc["client"] /\ hs'["client"] = hs["client"]
    BY <1>0, <1>5 DEF TypeOK
  <2>. QED
    BY <1>5, <2>1 DEF Unaltered
<1>6. ASSUME NEW g, chan'["server"] = <<>>, chan'["client"] = <<g>>,
             altered' = <<>> => Answers(g)',
             altered' = <<>> => (pc'["client"] = "drive" => Len(hs'["client"].ids) >= 1)
      PROVE  Unaltered'
  <2>1. Head(<<g>>) = g
    OBVIOUS
  <2>. QED
    BY <1>6, <2>1 DEF Unaltered
<1>7. CASE Fail("server") /\ ReadOnly("server")
  BY <1>0, <1>1, <1>7, FailUnaltered
<1>8. CASE RejectProposal(f)
  <2>1. PICK g : g = [neg |-> Reject, msg |-> NoMsg]
    OBVIOUS
  <2>2. chan'["server"] = <<>> /\ chan'["client"] = <<g>>
    BY <1>3, <1>8, <2>1 DEF RejectProposal
  <2>3. Answers(g)'
    BY <2>1 DEF Answers, Reject
  <2>4. altered' = <<>> => (pc'["client"] = "drive" => Len(hs'["client"].ids) >= 1)
    BY <1>5, <1>8 DEF RejectProposal, Fail
  <2>. QED
    BY <1>6, <2>2, <2>3, <2>4
<1>9. CASE AcceptProposal(f) /\ f.neg.action = "propose"
  <2>1. PICK h : h = AcceptHS(f)
    OBVIOUS
  <2>2. h \in Hash
    <3>1. f.neg.proto \in Protocols
      BY <1>2, <1>9, NegProto
    <3>2. cfg.app["server"] \in {"app1", "app2"}
      BY <1>0, ConfigType DEF TypeOK
    <3>. QED
      BY <1>2, <1>4, <2>1, <3>1, <3>2, HashType DEF AcceptHS
  <2>3. CASE DriveFrom("server", h, FALSE, f.msg)
    BY <1>0, <1>1, <1>2, <2>2, <2>3, DriveUnaltered
  <2>4. CASE /\ hs' = [hs EXCEPT !["server"] = h]
             /\ pc' = [pc EXCEPT !["server"] = "drive"]
             /\ ReadOnly("server") /\ altered' = altered
    <3>1. altered' = <<>> => (pc'["client"] = "drive" => Len(hs'["client"].ids) >= 1)
      BY <1>5, <2>4
    <3>. QED
      BY <1>3, <2>4, <3>1 DEF Unaltered
  <2>. QED
    BY <1>7, <1>9, <2>1, <2>3, <2>4 DEF AcceptProposal, DriveFromPending
<1>10. CASE AskRetry(f)
  <2>1. PICK g, c : /\ g = RetryReply /\ c = FrameBytes(RetryReply)
                    /\ c \in Record
    BY <1>0, ConfigType, NegType, FrameBytesType DEF RetryReply, Frame, TypeOK
  <2>2. /\ g.neg.action = "retry" /\ g.msg = NoMsg /\ c = FrameBytes(g)
        /\ dead'["server"] = dead["server"] \o <<FrameBytes(f), c>>
        /\ pc'["server"] \in {"proposal", "failed"}
        /\ chan'["server"] = <<>> /\ chan'["client"] = <<g>>
    BY <1>0, <1>3, <1>10, <2>1 DEF AskRetry, RetryReply, Retry, RetryDead, TypeOK
  <2>3. dead'["server"] # <<>> /\ dead'["server"][Len(dead'["server"])] = c
    BY <1>4, <2>1, <2>2, GrownBy
  <2>4. FrameBytes(g)' = c
    BY <2>2 DEF FrameBytes
  <2>5. Answers(g)'
    BY <2>2, <2>3, <2>4 DEF Answers, Retried
  <2>6. altered' = <<>> => (pc'["client"] = "drive" => Len(hs'["client"].ids) >= 1)
    <3>1. \E p : pc' = [pc EXCEPT !["server"] = p]
      BY <1>10 DEF AskRetry
    <3>. QED
      BY <1>5, <1>10, <3>1 DEF AskRetry
  <2>. QED
    BY <1>6, <2>2, <2>5, <2>6
<1>11. CASE AskSwitch(f)
  <2>1. PICK h, id, g : /\ h = ServerSwitchHS(f) /\ id = NewId("server", h)
                        /\ g = [neg |-> Switch(Target), msg |-> [id |-> id, h |-> h]]
    OBVIOUS
  <2>2. SUFFICES ASSUME hs' = [hs EXCEPT !["server"] = MixId(h, id)],
                        pc' = [pc EXCEPT !["server"] = "drive"],
                        ReadAndWrite("server", g), altered' = altered
                 PROVE  Unaltered'
    BY <1>7, <1>11, <2>1 DEF AskSwitch
  <2>3. h \in Hash /\ h.ids = <<>> /\ h.neg = Switch(Target)
    <3>1. Append(dead["server"], FrameBytes(f)) \in Seq(Record) /\ Switch(Target) \in Neg
      BY <1>0, <1>4, ConfigType, NegType DEF TypeOK
    <3>2. cfg.app["server"] \in {"app1", "app2"} /\ Target \in Protocols
      BY <1>0, ConfigType DEF TypeOK
    <3>. QED
      BY <2>1, <3>1, <3>2, HashType DEF ServerSwitchHS, NewHS
  <2>4. id \in Id /\ g.msg # NoMsg
    <3>1. id \in Id
      BY <1>0, <2>1, <2>3, NewIdType
    <3>. QED
      BY <2>1, <3>1, IdIsNamed DEF NoMsg
  <2>5. Len(MixId(h, id).ids) >= 1 /\ MixId(h, id).neg = h.neg
    <3>1. Len(MixId(h, id).ids) = Len(h.ids) + 1 /\ Len(h.ids) = 0
      BY <2>3, <2>4, MixIdType
    <3>. QED
      BY <2>3, <2>4, <3>1, MixIdType
  <2>6. /\ chan'["server"] = <<>> /\ chan'["client"] = <<g>>
        /\ pc'["server"] = "drive" /\ hs'["server"] = MixId(h, id)
    BY <1>0, <1>3, <2>2 DEF TypeOK
  <2>7. /\ g.msg.h.ids = <<>> /\ g.neg = Switch(Target) /\ g.neg.action = "switch"
    BY <2>1, <2>3 DEF Switch
  <2>8. Switched(g)'
    BY <2>3, <2>4, <2>5, <2>6, <2>7 DEF Switched
  <2>9. Answers(g)'
    BY <2>4, <2>7, <2>8 DEF Answers
  <2>10. altered' = <<>> => (pc'["client"] = "drive" => Len(hs'["client"].ids) >= 1)
    BY <1>5, <2>2
  <2>. QED
    BY <1>6, <2>6, <2>9, <2>10
<1>. QED
  BY <1>1, <1>7, <1>8, <1>9, <1>10, <1>11 DEF ReadNoProposal

\* As long as no frame has been altered, nobody is misled.
LEMMA StepUnaltered ==
  ASSUME Inv, Turns, Split, [Next]_vars
  PROVE  Unaltered'
<1>0. TypeOK /\ Called /\ Unaltered
  BY DEF Inv, Split
<1>1. CASE Gone
  BY <1>0, <1>1, StepKeeps DEF Unaltered
<1>2. CASE \E s \in Side : Alter(s)
  <2>1. altered' # <<>>
    <3>1. PICK s \in Side : altered' = Append(altered, Head(chan[s]).neg.action)
      BY <1>2 DEF Alter
    <3>2. altered \in Seq({"none", "garbled", "propose", "reject", "retry", "switch"})
      BY <1>0 DEF TypeOK
    <3>. QED
      BY <3>1, <3>2
  <2>. QED
    BY <2>1 DEF Unaltered
<1>3. CASE ~Gone /\ ~(\E s \in Side : Alter(s)) /\ altered # <<>>
  <2>1. altered' # <<>>
    BY <1>0, <1>3, StepKeeps
  <2>. QED
    BY <2>1 DEF Unaltered
<1>4. CASE ~Gone /\ ~(\E s \in Side : Alter(s)) /\ altered = <<>>
  <2>1. CASE StartClient
    BY <1>4, <2>1, StartClientUnaltered
  <2>2. CASE StartServer
    BY <1>0, <1>4, <2>2, StartServerUnaltered
  <2>3. CASE ReadReply
    BY <1>0, <1>4, <2>3, ReadReplyUnaltered
  <2>4. CASE ReadProposal
    BY <1>0, <1>4, <2>4, ReadProposalUnaltered
  <2>5. ASSUME NEW s \in Side, ReadDriven(s) PROVE Unaltered'
    <3>1. PICK f : f = Head(chan[s])
      OBVIOUS
    <3>2. chan[s] # <<>> /\ pc[s] = "drive" /\ DriveFrom(s, hs[s], initiator[s], f.msg)
      BY <2>5, <3>1 DEF ReadDriven
    <3>3. f.msg \in Message \cup {NoMsg}
      BY <1>0, <1>4, <3>1, <3>2, OneFrame DEF Frame
    <3>4. hs[s] \in Hash
      BY <3>2 DEF Inv, Stages, HasHS
    <3>. QED
      BY <1>0, <1>4, <3>2, <3>3, <3>4, DriveUnaltered
  <2>6. ASSUME NEW s \in Side, Close(s) PROVE Unaltered'
    <3>1. pc'[s] = "closed"
      BY <1>0, <2>6, PcOf DEF Close
    <3>. QED
      BY <3>1 DEF Unaltered, Gone
  <2>7. ASSUME NEW s \in Side, LosesConnection(s) PROVE FALSE
    BY <1>4, <2>7 DEF LosesConnection, Gone, Peer, Side
  <2>8. CASE UNCHANGED vars
    BY <1>0, <2>8 DEF vars, Unaltered, Gone, Answers, Retried, Switched
  <2>. QED
    BY <1>4, <2>1, <2>2, <2>3, <2>4, <2>5, <2>6, <2>7, <2>8 DEF Next
<1>. QED
  BY <1>1, <1>2, <1>3, <1>4

\* Split is inductive, with the invariants of NegotiationProofs.
LEMMA StepSplit == Inv /\ Turns /\ Split /\ [Next]_vars => Split'
BY StepKeeps, StepApart, StepUnaltered DEF Split

\* A retry or a switch that is altered on its way never ends in two sides that
\* believe to have finished the calls of Handshake it was altered in: the frame
\* stands in the transcript of one side and not in that of the other, and no
\* tag verifies across the two until both have called Handshake again.
THEOREM TamperingIsNoticed == Spec => []TamperedFails
<1>1. Split => TamperedFails
  <2>1. ASSUME Apart, BothDone PROVE Again
    BY <2>1 DEF Apart, BothDone, Gone, Deaf, Alone, Restart, ToServer, Toward, Proposed,
       ToClient, Silent, Peer, Side
  <2>. QED
    BY <2>1 DEF Split, Tampered, TamperedFails, Again
<1>2. Init => Inv /\ Turns /\ Split
  BY InitInv, InitTurns, InitSplit
<1>3. Inv /\ Turns /\ Split /\ [Next]_vars => (Inv /\ Turns /\ Split)'
  BY StepInv, StepTurns, StepSplit
<1>. QED
  BY <1>1, <1>2, <1>3, PTL DEF Spec
=============================================================================
