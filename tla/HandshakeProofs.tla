-------------------------- MODULE HandshakeProofs --------------------------
(***************************************************************************)
(* What holds of Handshake for any setups, any number of calls and any     *)
(* number of faults: its types, that it implements the abstract key        *)
(* exchange, that WhatsApp's server is vouched for, and that no key and    *)
(* nonce seal two texts.                                                   *)
(***************************************************************************)
EXTENDS Handshake, SequenceTheorems, TLAPS

\* What is in a sequence of messages.
In(w) == {w[k] : k \in DOMAIN w}
IsSeq(w) == w \in Seq(In(w))

Made(c) == c.nonce # 2   \* a ciphertext that some side has sealed

IsMessage(m) ==
  m = [act |-> m.act, ok |-> m.ok, e |-> m.e, s |-> m.s, t |-> m.t]

-----------------------------------------------------------------------------
(* The inductive invariant.                                                *)

\* An initiator that waits has mixed in its own ephemeral key and, in BOLT-8,
\* the secret with the static key it was given.
Starting ==
  pc["initiator"] = "act2" =>
    LET x == st["initiator"]
    IN /\ x.own.kind = "ephemeral"
       /\ Bolt8 => x.ck = <<Secret(x.own, setup.rstatic)>>

\* What the responder has sealed shows its static key: in BOLT-8 by the first
\* secret of the key, in WhatsApp as the plaintext.  Its payload is its own.
FromResponder(m) ==
  /\ IsMessage(m) /\ m.act = "act2"
  /\ Made(m.t) => m.t.plain = setup.payload
  /\ Bolt8 /\ Made(m.t) => Static("responder") \in m.t.key[1]
  /\ ~Bolt8 /\ Made(m.s) => m.s.plain = Static("responder")

\* What the initiator has sealed in the last message shows its static key and
\* the session it has by then.
FromInitiator(m) ==
  /\ IsMessage(m)
  /\ m.act = "act3" /\ Made(m.s) => m.s.plain = Static("initiator")
  /\ m.act = "act3" /\ Made(m.t) =>
       LET x == session["initiator"]
       IN /\ x # NoSession
          /\ x.transcript = m.t.ad
          /\ x.send = [of |-> m.t.key, half |-> 1]
          /\ x.receive = [of |-> m.t.key, half |-> 2]

Genuine ==
  /\ \A m \in In(wire["initiator"]) : FromResponder(m)
  /\ \A m \in In(wire["responder"]) : FromInitiator(m)

\* The responder has no session that the initiator has not.
InOrder == session["responder"] # NoSession => session["initiator"] # NoSession

Inv == TypeOK /\ Starting /\ Genuine /\ InOrder

-----------------------------------------------------------------------------
(* Sequences of messages.                                                  *)

\* What is left after the first message was in the sequence before.
LEMMA TailIn ==
  ASSUME NEW w, IsSeq(w), w # <<>>
  PROVE  IsSeq(Tail(w)) /\ In(Tail(w)) \subseteq In(w) /\ Head(w) \in In(w)
<1> DEFINE S == In(w)
<1>1. w \in Seq(S) /\ Len(w) \in Nat /\ DOMAIN w = 1..Len(w)
  BY LenProperties DEF IsSeq
<1>2. Head(w) = w[1] /\ Tail(w) \in Seq(S) /\ Len(Tail(w)) = Len(w) - 1
      /\ \A i \in 1..Len(Tail(w)) : Tail(w)[i] = w[i + 1]
  <2> HIDE DEF S
  <2> QED BY <1>1, HeadTailProperties
<1>3. Len(w) # 0
  <2> HIDE DEF S
  <2> QED BY <1>1, EmptySeq
<1>4. DOMAIN Tail(w) = 1..Len(Tail(w))
  <2> HIDE DEF S
  <2> QED BY <1>2, LenProperties
<1>5. In(Tail(w)) \subseteq In(w)
  <2>1. \A i \in DOMAIN Tail(w) : i + 1 \in DOMAIN w /\ Tail(w)[i] = w[i + 1]
    <3> HIDE DEF S
    <3>1. \A i \in 1..Len(Tail(w)) : i + 1 \in 1..Len(w)
      BY <1>1, <1>2
    <3> QED BY <1>1, <1>2, <1>4, <3>1
  <2> QED BY <2>1 DEF In
<1>6. Head(w) \in In(w) BY <1>1, <1>2, <1>3 DEF In
<1>7. IsSeq(Tail(w))
  <2> HIDE DEF S
  <2> DEFINE v == Tail(w)
  <2>1. v \in Seq(S) BY <1>2
  <2> HIDE DEF v
  <2>2. v \in [1..Len(v) -> S] /\ Len(v) \in Nat BY <2>1, LenProperties
  <2>3. v \in [1..Len(v) -> In(v)] BY <2>2 DEF In
  <2>4. IsSeq(v) BY <2>2, <2>3 DEF IsSeq
  <2> QED BY <2>4 DEF v
<1> QED BY <1>5, <1>6, <1>7

\* A message that is added is the only new one.
LEMMA AppendIn ==
  ASSUME NEW w, NEW m, IsSeq(w)
  PROVE  IsSeq(Append(w, m)) /\ In(Append(w, m)) \subseteq In(w) \cup {m}
<1> DEFINE S == In(w) \cup {m}
           v == Append(w, m)
<1>1. w \in Seq(S) /\ Len(w) \in Nat
  <2>1. w \in Seq(In(w)) BY DEF IsSeq
  <2>2. In(w) \subseteq S OBVIOUS
  <2> QED BY <2>1, <2>2, SeqMonotonic, LenProperties
<1>2. v \in Seq(S) /\ Len(v) = Len(w) + 1
  <2>1. m \in S OBVIOUS
  <2> HIDE DEF S
  <2> QED BY <1>1, <2>1, AppendProperties
<1>3. v \in [1..Len(v) -> S] /\ Len(v) \in Nat
  <2> HIDE DEF S, v
  <2> QED BY <1>2, LenProperties
<1>4. In(v) \subseteq S
  <2> HIDE DEF S, v
  <2> QED BY <1>3 DEF In
<1>5. v \in [1..Len(v) -> In(v)]
  <2> HIDE DEF S, v
  <2> QED BY <1>3 DEF In
<1>6. IsSeq(v)
  <2> HIDE DEF S, v
  <2> QED BY <1>3, <1>5 DEF IsSeq
<1> QED BY <1>4, <1>6

\* So is one that takes the place of the first.
LEMMA ReplaceIn ==
  ASSUME NEW w, NEW a, NEW v, IsSeq(w), w # <<>>, v = [w EXCEPT ![1] = a]
  PROVE  IsSeq(v) /\ In(v) \subseteq In(w) \cup {a}
<1> DEFINE S == In(w) \cup {a}
<1>1. w \in Seq(In(w)) /\ Len(w) \in Nat /\ w \in [1..Len(w) -> In(w)]
  BY LenProperties DEF IsSeq
<1>2. v \in [1..Len(w) -> S] BY <1>1
<1>3. In(v) \subseteq S
  <2> HIDE DEF S
  <2> QED BY <1>2 DEF In
<1>4. v \in [1..Len(w) -> In(v)]
  <2> HIDE DEF S
  <2> QED BY <1>2 DEF In
<1>5. IsSeq(v)
  <2> DEFINE n == Len(w)
             T == In(v)
  <2>1. n \in Nat /\ v \in [1..n -> T] BY <1>1, <1>4
  <2> HIDE DEF n, T, S
  <2>2. v \in Seq(T) BY ONLY <2>1
  <2> QED BY <2>2 DEF IsSeq, T
<1> QED BY <1>3, <1>5

-----------------------------------------------------------------------------
(* The invariant, step by step.                                            *)

\* The conjuncts of TypeOK about one side's connection and session.
SideOK(s) ==
  /\ (session[s] # NoSession) <=> (pc[s] = "done")
  /\ IsSeq(wire[s])

LEMMA TypeOKIs ==
  TypeOK <=> /\ setup \in Setups
             /\ pc \in [Side -> {"new", "done", "failed", "closed"} \cup Waiting]
             /\ calls \in [Side -> 0..MaxCalls]
             /\ DOMAIN session = Side /\ DOMAIN st = Side /\ DOMAIN wire = Side
             /\ \A s \in Side : SideOK(s)
             /\ scrambled \in [Side -> BOOLEAN]
             /\ faults \in 0..MaxFaults
BY DEF TypeOK, SideOK, IsSeq, In

\* The same of the state after a step that keeps the setup.
LEMMA TypeOKNext ==
  ASSUME TypeOK, setup' = setup,
         pc' \in [Side -> {"new", "done", "failed", "closed"} \cup Waiting],
         calls' \in [Side -> 0..MaxCalls],
         DOMAIN session' = Side, DOMAIN st' = Side, DOMAIN wire' = Side,
         \A s \in Side : SideOK(s)',
         scrambled' \in [Side -> BOOLEAN],
         faults' \in 0..MaxFaults
  PROVE  TypeOK'
BY DEF TypeOK, SideOK, IsSeq, In

\* What a step has to show of a side, and a step that gives nobody a session of both.
LEMMA SideNext ==
  ASSUME NEW s, IsSeq(wire'[s]), (session'[s] # NoSession) <=> (pc'[s] = "done")
  PROVE  SideOK(s)'
<1>1. IsSeq(wire[s])' BY DEF IsSeq, In
<1> QED BY <1>1 DEF SideOK, NoSession

LEMMA SidesNext ==
  ASSUME TypeOK, UNCHANGED session, \A t \in Side : IsSeq(wire'[t]),
         \A t \in Side : (pc'[t] = "done") <=> (pc[t] = "done")
  PROVE  \A t \in Side : SideOK(t)'
<1> SUFFICES ASSUME NEW t \in Side PROVE SideOK(t)'
  OBVIOUS
<1>1. (session[t] # NoSession) <=> (pc[t] = "done") BY TypeOKIs DEF SideOK
<1>2. (session'[t] # NoSession) <=> (pc'[t] = "done") BY <1>1
<1> QED BY <1>2, SideNext

LEMMA InitInv == Init => Inv
<1> SUFFICES ASSUME Init PROVE Inv
  OBVIOUS
<1>1. \A s \in Side : wire[s] = <<>> /\ In(wire[s]) = {} /\ IsSeq(wire[s])
  <2>1. \A s \in Side : wire[s] = <<>> BY DEF Init
  <2>2. In(<<>>) = {} BY EmptySeq DEF In
  <2>3. IsSeq(<<>>) BY EmptySeq DEF IsSeq
  <2> QED BY <2>1, <2>2, <2>3
<1>2. TypeOK
  <2>1. \A s \in Side : SideOK(s)
    BY <1>1 DEF Init, SideOK, Side
  <2> QED BY <2>1, BoundsAssumption, TypeOKIs DEF Init
<1>3. Starting /\ InOrder
  BY DEF Init, Starting, InOrder, Side
<1>4. Genuine
  BY <1>1 DEF Genuine, Side
<1> QED BY <1>2, <1>3, <1>4 DEF Inv

\* Steps that give nobody a session, make nobody wait for act 2 and bring no
\* new message change nothing of what the invariant says beside the types.
LEMMA Quiet ==
  ASSUME Inv, UNCHANGED <<setup, session>>,
         \A s \in Side : In(wire'[s]) \subseteq In(wire[s]),
         pc'["initiator"] = "act2" =>
           pc["initiator"] = "act2" /\ st'["initiator"] = st["initiator"]
  PROVE  Starting' /\ Genuine' /\ InOrder'
<1>1. Starting' BY DEF Inv, Starting, Bolt8
<1>2. InOrder' BY DEF Inv, InOrder, NoSession
<1>3. Genuine'
  <2>1. "initiator" \in Side /\ "responder" \in Side BY DEF Side
  <2>2. \A m \in In(wire'["initiator"]) : FromResponder(m)'
    BY <2>1 DEF Inv, Genuine, FromResponder, IsMessage, Made, Bolt8
  <2>3. \A m \in In(wire'["responder"]) : FromInitiator(m)'
    BY <2>1 DEF Inv, Genuine, FromInitiator, IsMessage, Made, NoSession
  <2>4. In(wire["initiator"])' = In(wire'["initiator"])
        /\ In(wire["responder"])' = In(wire'["responder"]) BY DEF In
  <2> QED BY <2>2, <2>3, <2>4 DEF Genuine
<1> QED BY <1>1, <1>2, <1>3

\* What Read takes from the front of a side's messages.
LEMMA ReadIn ==
  ASSUME TypeOK, NEW s \in Side, wire[s] # <<>>, Read(s)
  PROVE  /\ DOMAIN wire' = Side
         /\ \A t \in Side : IsSeq(wire'[t]) /\ In(wire'[t]) \subseteq In(wire[t])
<1>1. DOMAIN wire = Side /\ \A t \in Side : IsSeq(wire[t])
  BY TypeOKIs DEF SideOK
<1>2. wire' = [wire EXCEPT ![s] = Tail(wire[s])]
  BY DEF Read
<1>3. IsSeq(Tail(wire[s])) /\ In(Tail(wire[s])) \subseteq In(wire[s])
  BY <1>1, TailIn
<1>4. \A t \in Side : wire'[t] = IF t = s THEN Tail(wire[s]) ELSE wire[t]
  BY <1>1, <1>2
<1> QED BY <1>1, <1>2, <1>3, <1>4

\* A handshake that fails, whatever the error, leaves no session behind.
LEMMA FailInv ==
  ASSUME Inv, NEW s \in Side, Fail(s), pc[s] \in Waiting,
         UNCHANGED wire \/ (wire[s] # <<>> /\ Read(s)),
         faults' \in 0..MaxFaults, scrambled' \in [Side -> BOOLEAN]
  PROVE  Inv'
<1>1. /\ DOMAIN wire' = Side
      /\ \A t \in Side : IsSeq(wire'[t]) /\ In(wire'[t]) \subseteq In(wire[t])
  BY ReadIn, TypeOKIs DEF Inv, SideOK
<1>2. TypeOK'
  <2>1. pc' \in [Side -> {"new", "done", "failed", "closed"} \cup Waiting]
        /\ \A t \in Side : pc'[t] = IF t = s THEN "failed" ELSE pc[t]
    BY TypeOKIs DEF Inv, Fail
  <2>2. \A t \in Side : SideOK(t)'
    <3>1. \A t \in Side : (pc'[t] = "done") <=> (pc[t] = "done")
      BY <2>1 DEF Waiting
    <3> QED BY <1>1, <3>1, SidesNext DEF Inv, Fail
  <2>3. UNCHANGED <<setup, calls, st, session>> BY DEF Fail
  <2> QED BY <1>1, <2>1, <2>2, <2>3, TypeOKIs, TypeOKNext DEF Inv
<1>3. Starting' /\ Genuine' /\ InOrder'
  BY <1>1, Quiet, TypeOKIs DEF Inv, Fail, Side
<1> QED BY <1>2, <1>3 DEF Inv

\* Steps that give nobody a session need only account for their new messages.
LEMMA SameSession ==
  ASSUME Inv, UNCHANGED <<setup, session>>,
         \A m \in In(wire'["initiator"]) :
           m \in In(wire["initiator"]) \/ FromResponder(m),
         \A m \in In(wire'["responder"]) :
           m \in In(wire["responder"]) \/ FromInitiator(m)
  PROVE  Genuine' /\ InOrder'
<1>1. InOrder' BY DEF Inv, InOrder, NoSession
<1>2. \A m \in In(wire'["initiator"]) : FromResponder(m)'
  BY DEF Inv, Genuine, FromResponder, IsMessage, Made, Bolt8
<1>3. \A m \in In(wire'["responder"]) : FromInitiator(m)'
  BY DEF Inv, Genuine, FromInitiator, IsMessage, Made, NoSession
<1>4. In(wire["initiator"])' = In(wire'["initiator"])
      /\ In(wire["responder"])' = In(wire'["responder"]) BY DEF In
<1> QED BY <1>1, <1>2, <1>3, <1>4 DEF Genuine

\* What an accepted message and its answer do to the wire.
LEMMA ReadAndWriteIn ==
  ASSUME TypeOK, NEW s \in Side, NEW m, wire[s] # <<>>, ReadAndWrite(s, m)
  PROVE  /\ DOMAIN wire' = Side
         /\ \A t \in Side : IsSeq(wire'[t])
         /\ In(wire'[s]) \subseteq In(wire[s])
         /\ In(wire'[Peer(s)]) \subseteq In(wire[Peer(s)]) \cup {m}
<1>1. DOMAIN wire = Side /\ \A t \in Side : IsSeq(wire[t])
  BY TypeOKIs DEF SideOK
<1>2. Peer(s) \in Side /\ Peer(s) # s /\ \A t \in Side : t = s \/ t = Peer(s)
  BY DEF Side, Peer
<1>3. wire'[s] = Tail(wire[s]) /\ wire'[Peer(s)] = Append(wire[Peer(s)], m)
      /\ DOMAIN wire' = Side
  BY <1>1, <1>2 DEF ReadAndWrite
<1>4. IsSeq(Tail(wire[s])) /\ In(Tail(wire[s])) \subseteq In(wire[s])
  BY <1>1, TailIn
<1>5. IsSeq(Append(wire[Peer(s)], m))
      /\ In(Append(wire[Peer(s)], m)) \subseteq In(wire[Peer(s)]) \cup {m}
  BY <1>1, <1>2, AppendIn
<1> QED BY <1>2, <1>3, <1>4, <1>5

\* A first message that is not written leaves a failed run and nothing else.
LEMMA WriteFailsIs ==
  ASSUME TypeOK, WriteFails
  PROVE  faults' \in 0..MaxFaults /\ faults' # faults
BY TypeOKIs, BoundsAssumption DEF WriteFails

LEMMA MoreCalls ==
  ASSUME TypeOK, NEW s \in Side, MayCall(s),
         calls' = [calls EXCEPT ![s] = calls[s] + 1]
  PROVE  calls' \in [Side -> 0..MaxCalls]
<1>1. calls[s] + 1 \in 0..MaxCalls
  BY TypeOKIs, BoundsAssumption DEF MayCall
<1> DEFINE n == calls[s] + 1
<1> HIDE DEF n
<1> QED BY <1>1, TypeOKIs DEF n

LEMMA StartUnsentIs ==
  ASSUME TypeOK, StartInitiator, faults' # faults
  PROVE  /\ WriteFails /\ MayCall("initiator")
         /\ calls' = [calls EXCEPT !["initiator"] = calls["initiator"] + 1]
         /\ pc' = [pc EXCEPT !["initiator"] = "failed"]
         /\ UNCHANGED <<setup, session, scrambled, st, wire, sealed>>
BY DEF StartInitiator

LEMMA StartUnsentInv == Inv /\ StartInitiator /\ faults' # faults => Inv'
<1> SUFFICES ASSUME Inv, StartInitiator, faults' # faults PROVE Inv'
  OBVIOUS
<1>0. "initiator" \in Side /\ TypeOK BY DEF Side, Inv
<1>1. /\ WriteFails /\ MayCall("initiator")
      /\ calls' = [calls EXCEPT !["initiator"] = calls["initiator"] + 1]
      /\ pc' = [pc EXCEPT !["initiator"] = "failed"]
      /\ UNCHANGED <<setup, session, scrambled, st, wire, sealed>>
  BY <1>0, StartUnsentIs
<1>2. pc' \in [Side -> {"new", "done", "failed", "closed"} \cup Waiting]
      /\ \A s \in Side : pc'[s] = IF s = "initiator" THEN "failed" ELSE pc[s]
  BY <1>0, <1>1, TypeOKIs
<1>3. TypeOK'
  <2>1. \A s \in Side : SideOK(s)'
    <3>1. \A s \in Side : IsSeq(wire'[s]) BY <1>0, <1>1, TypeOKIs DEF SideOK
    <3>2. \A s \in Side : (pc'[s] = "done") <=> (pc[s] = "done")
      BY <1>1, <1>2 DEF MayCall
    <3> QED BY <1>0, <1>1, <3>1, <3>2, SidesNext
  <2>2. calls' \in [Side -> 0..MaxCalls] BY <1>0, <1>1, MoreCalls
  <2> QED BY <1>0, <1>1, <1>2, <2>1, <2>2, WriteFailsIs, TypeOKIs, TypeOKNext
<1>4. Starting' /\ Genuine' /\ InOrder' BY <1>0, <1>1, <1>2, Quiet
<1> QED BY <1>3, <1>4 DEF Inv

LEMMA StartInitiatorInv == Inv /\ StartInitiator => Inv'
<1> SUFFICES ASSUME Inv, StartInitiator, faults' = faults PROVE Inv'
  BY StartUnsentInv
<1> DEFINE n == calls["initiator"] + 1
           e == Ephemeral("initiator", n)
           x == IF Bolt8 THEN First(setup.rstatic, e, Secret(e, setup.rstatic))
                         ELSE First(Stray, e, {})
           t == FirstTag(x)
           m == [act |-> "act1", ok |-> TRUE, e |-> e, s |-> NoCipher, t |-> t]
<1>0. "initiator" \in Side /\ "responder" \in Side BY DEF Side
<1>1. /\ MayCall("initiator")
      /\ calls' = [calls EXCEPT !["initiator"] = n]
      /\ st' = [st EXCEPT !["initiator"] = AfterFirst(x, t)]
      /\ wire' = [wire EXCEPT !["responder"] = Append(@, m)]
      /\ pc' = [pc EXCEPT !["initiator"] = "act2"]
      /\ UNCHANGED <<setup, session, scrambled, faults>>
  <2>1. ~WriteFails BY WriteFailsIs DEF Inv
  <2> QED BY <2>1 DEF StartInitiator
<1>2. TypeOK BY DEF Inv
<1> HIDE DEF m
<1>3. /\ DOMAIN wire' = Side /\ \A s \in Side : IsSeq(wire'[s])
      /\ In(wire'["initiator"]) \subseteq In(wire["initiator"])
      /\ In(wire'["responder"]) \subseteq In(wire["responder"]) \cup {m}
  <2>1. DOMAIN wire = Side /\ \A s \in Side : IsSeq(wire[s])
    BY <1>2, TypeOKIs DEF SideOK
  <2>2. wire'["responder"] = Append(wire["responder"], m)
        /\ wire'["initiator"] = wire["initiator"] /\ DOMAIN wire' = Side
    BY <2>1, <1>1, <1>0
  <2>3. IsSeq(Append(wire["responder"], m))
        /\ In(Append(wire["responder"], m)) \subseteq In(wire["responder"]) \cup {m}
    BY <2>1, <1>0, AppendIn
  <2> QED BY <2>1, <2>2, <2>3 DEF Side
<1>4. TypeOK'
  <2>1. pc' \in [Side -> {"new", "done", "failed", "closed"} \cup Waiting]
        /\ \A s \in Side : pc'[s] = IF s = "initiator" THEN "act2" ELSE pc[s]
    BY <1>1, <1>2, TypeOKIs DEF Waiting
  <2>2. calls' \in [Side -> 0..MaxCalls]
    <3>1. n \in 0..MaxCalls
      BY <1>0, <1>1, <1>2, TypeOKIs, BoundsAssumption DEF MayCall
    <3> HIDE DEF n
    <3> QED BY <3>1, <1>1, <1>2, TypeOKIs
  <2>3. \A s \in Side : SideOK(s)'
    BY <1>0, <1>1, <1>2, <1>3, <2>1, TypeOKIs
    DEF MayCall, SideOK, NoSession, IsSeq, In
  <2>4. DOMAIN st' = Side BY <1>1, <1>2, TypeOKIs
  <2> QED BY <1>1, <1>2, <1>3, <2>1, <2>2, <2>3, <2>4, TypeOKIs, TypeOKNext
<1>5. Starting'
  <2>1. st'["initiator"] = AfterFirst(x, t)
    BY <1>0, <1>1, <1>2, TypeOKIs
  <2>2. AfterFirst(x, t).own = x.own /\ AfterFirst(x, t).ck = x.ck
    BY DEF AfterFirst, MixHash, First
  <2>3. x.own = e /\ e.kind = "ephemeral"
        /\ (Bolt8 => x.ck = <<Secret(e, setup.rstatic)>>)
    BY DEF First, Ephemeral, Key
  <2> HIDE DEF x, t, e
  <2> QED BY <1>1, <2>1, <2>2, <2>3 DEF Starting, Bolt8, Secret
<1>6. FromInitiator(m)
  BY DEF m, FromInitiator, IsMessage
<1> QED BY <1>1, <1>3, <1>4, <1>5, <1>6, SameSession DEF Inv

LEMMA StartResponderInv == Inv /\ StartResponder => Inv'
<1> SUFFICES ASSUME Inv, StartResponder PROVE Inv'
  OBVIOUS
<1>0. "initiator" \in Side /\ "responder" \in Side BY DEF Side
<1>1. TypeOK BY DEF Inv
<1>2. /\ MayCall("responder")
      /\ UNCHANGED <<setup, st, session, wire, scrambled, faults, sealed>>
      /\ pc' = [pc EXCEPT !["responder"] = "act1"]
  BY DEF StartResponder
<1>3. TypeOK'
  <2>1. pc' \in [Side -> {"new", "done", "failed", "closed"} \cup Waiting]
        /\ \A s \in Side : pc'[s] = IF s = "responder" THEN "act1" ELSE pc[s]
    BY <1>1, <1>2, TypeOKIs DEF Waiting
  <2>2. calls' \in [Side -> 0..MaxCalls]
    <3>1. calls["responder"] + 1 \in 0..MaxCalls
      BY <1>0, <1>1, <1>2, TypeOKIs, BoundsAssumption DEF MayCall
    <3> QED BY <3>1, <1>1, TypeOKIs DEF StartResponder
  <2>3. \A s \in Side : SideOK(s)'
    BY <1>0, <1>1, <1>2, <2>1, TypeOKIs DEF MayCall, SideOK, NoSession, IsSeq, In
  <2> QED BY <1>1, <1>2, <2>1, <2>2, <2>3, TypeOKIs, TypeOKNext
<1>4. pc'["initiator"] = pc["initiator"]
  BY <1>0, <1>1, <1>2, TypeOKIs
<1>5. Starting' /\ Genuine' /\ InOrder'
  BY <1>2, <1>4, Quiet
<1> QED BY <1>3, <1>5 DEF Inv

LEMMA AppendTwo ==
  ASSUME NEW a, NEW b
  PROVE  Append(<<a>>, b)[1] = a
<1> DEFINE S == {a, b}
<1>1. <<a>> \in Seq(S) /\ Len(<<a>>) = 1 /\ b \in S OBVIOUS
<1> HIDE DEF S
<1>2. \A i \in 1..1 : Append(<<a>>, b)[i] = <<a>>[i]
  BY <1>1, AppendProperties
<1> QED BY <1>2

\* The answer of a responder that accepts the first message: BOLT-8's tag is
\* under a key that begins with a secret of its static key.
LEMMA ReadAct1Inv == Inv /\ ReadAct1 => Inv'
<1> SUFFICES ASSUME Inv, ReadAct1 PROVE Inv'
  OBVIOUS
<1> DEFINE m == Head(wire["responder"])
           rs == Static("responder")
           x == First(rs, m.e, Secret(rs, m.e))
           e == Ephemeral("responder", calls["responder"])
           y == Second(AfterFirst(x, m.t), e, Secret(e, m.e))
           c == IF Bolt8 THEN NoCipher ELSE Seal(y, 0, rs)
           z == SecondStatic(y, c, Secret(rs, m.e))
           t == Seal(z, 0, setup.payload)
           accepted == Parses(m) /\ (Bolt8 => Opens(x, 0, m.t))
           a == [act |-> "act2", ok |-> TRUE, e |-> e, s |-> c, t |-> t]
<1>0. "initiator" \in Side /\ "responder" \in Side
      /\ Peer("responder") = "initiator" BY DEF Side, Peer
<1>1. TypeOK BY DEF Inv
<1>2. /\ pc["responder"] = "act1" /\ wire["responder"] # <<>>
      /\ UNCHANGED scrambled /\ faults' \in 0..MaxFaults
  BY <1>1, WriteFailsIs, TypeOKIs DEF ReadAct1, Arrived
<1>3. CASE Fail("responder") /\ Read("responder")
  BY <1>0, <1>1, <1>2, <1>3, FailInv, TypeOKIs DEF Waiting
<1>4. CASE /\ st' = [st EXCEPT !["responder"] = [MixHash(z, t) EXCEPT !.own = e]]
           /\ pc' = [pc EXCEPT !["responder"] = "act3"]
           /\ ReadAndWrite("responder", a)
           /\ UNCHANGED <<setup, calls, session>>
  <2>1. FromResponder(a)
    <3>1. IsMessage(a) /\ a.act = "act2" /\ a.t = t /\ a.s = c
      BY DEF IsMessage
    <3>2. ASSUME Bolt8 PROVE Static("responder") \in t.key[1]
      <4>1. x.ck = <<Secret(rs, m.e)>>
        BY <3>2 DEF First
      <4>2. t.key = Append(x.ck, Secret(e, m.e))
        BY <3>2 DEF Seal, SecondStatic, Second, AfterFirst, MixHash, MixKey, First
      <4>3. t.key[1] = Secret(rs, m.e)
        BY <4>1, <4>2, AppendTwo
      <4> QED BY <4>3 DEF Secret
    <3>3. ASSUME ~Bolt8 PROVE c.plain = Static("responder")
      BY <3>3 DEF Seal
    <3>4. t.plain = setup.payload BY DEF Seal
    <3> HIDE DEF a, t, c
    <3> QED BY <3>1, <3>2, <3>3, <3>4 DEF FromResponder
  <2> HIDE DEF a, z, t, e
  <2>2. /\ DOMAIN wire' = Side /\ \A s \in Side : IsSeq(wire'[s])
        /\ In(wire'["responder"]) \subseteq In(wire["responder"])
        /\ In(wire'["initiator"]) \subseteq In(wire["initiator"]) \cup {a}
    BY <1>0, <1>1, <1>2, <1>4, ReadAndWriteIn
  <2>3. Genuine' /\ InOrder'
    BY <1>4, <2>1, <2>2, SameSession
  <2>4. pc' \in [Side -> {"new", "done", "failed", "closed"} \cup Waiting]
        /\ \A s \in Side : pc'[s] = IF s = "responder" THEN "act3" ELSE pc[s]
    BY <1>1, <1>4, TypeOKIs DEF Waiting
  <2>5. DOMAIN st' = Side /\ st'["initiator"] = st["initiator"]
    BY <1>0, <1>1, <1>4, TypeOKIs
  <2>6. \A s \in Side : SideOK(s)'
    <3>1. \A s \in Side : (pc'[s] = "done") <=> (pc[s] = "done")
      BY <1>2, <2>4
    <3> QED BY <1>1, <1>4, <2>2, <3>1, SidesNext
  <2>7. TypeOK'
    BY <1>1, <1>2, <1>4, <2>2, <2>4, <2>5, <2>6, TypeOKIs, TypeOKNext
  <2>8. Starting'
    BY <1>0, <1>4, <2>4, <2>5 DEF Inv, Starting, Bolt8
  <2> QED BY <2>3, <2>7, <2>8 DEF Inv
<1> QED BY <1>3, <1>4 DEF ReadAct1

\* A session is not the value that stands for none.
LEMMA IsSession ==
  ASSUME NEW s, NEW x, NEW peer
  PROVE  Session(s, x, peer) # NoSession
<1>1. DOMAIN Session(s, x, peer) = {"transcript", "peer", "send", "receive"}
  BY DEF Session
<1>2. DOMAIN NoSession = {"peer"} BY DEF NoSession
<1> QED BY <1>1, <1>2

\* The initiator's session and the last message that carries its transcript.
LEMMA ReadAct2Inv == Inv /\ ReadAct2 => Inv'
<1> SUFFICES ASSUME Inv, ReadAct2 PROVE Inv'
  OBVIOUS
<1> DEFINE m == Head(wire["initiator"])
           i == st["initiator"]
           y == Second(i, m.e, Secret(i.own, m.e))
           rs == IF Bolt8 THEN setup.rstatic ELSE m.s.plain
           z == SecondStatic(y, m.s, Secret(i.own, rs))
           x == MixHash(z, m.t)
           c == Seal(x, StaticNonce, Static("initiator"))
           w == Third(x, c, Secret(Static("initiator"), m.e))
           t == Seal(w, 0, Empty)
           a == [act |-> "act3", ok |-> TRUE, e |-> Stray, s |-> c, t |-> t]
<1>0. "initiator" \in Side /\ "responder" \in Side
      /\ Peer("initiator") = "responder" BY DEF Side, Peer
<1>1. TypeOK BY DEF Inv
<1>2. /\ pc["initiator"] = "act2" /\ wire["initiator"] # <<>>
      /\ UNCHANGED scrambled /\ faults' \in 0..MaxFaults
  BY <1>1, WriteFailsIs, TypeOKIs DEF ReadAct2, Arrived
<1>3. CASE Fail("initiator") /\ Read("initiator")
  BY <1>0, <1>1, <1>2, <1>3, FailInv, TypeOKIs DEF Waiting
<1>4. CASE /\ st' = [st EXCEPT !["initiator"] = w]
           /\ session' = [session EXCEPT !["initiator"] = Session("initiator", w, rs)]
           /\ pc' = [pc EXCEPT !["initiator"] = "done"]
           /\ ReadAndWrite("initiator", a)
           /\ UNCHANGED <<setup, calls>>
  <2>1. /\ a.act = "act3" /\ a.s = c /\ a.t = t /\ IsMessage(a)
        /\ c.plain = Static("initiator") /\ t.ad = w.h /\ t.key = w.ck
    BY DEF IsMessage, Seal
  <2> DEFINE n == Session("initiator", w, rs)
  <2>2. /\ n.transcript = w.h
        /\ n.send = [of |-> w.ck, half |-> 1]
        /\ n.receive = [of |-> w.ck, half |-> 2]
    BY DEF Session, Split
  <2>3. n # NoSession BY IsSession
  <2> HIDE DEF a, c, t, w, n
  <2>4. DOMAIN session = Side /\ session["initiator"] = NoSession
        /\ session["responder"] = NoSession
    BY <1>0, <1>1, <1>2, TypeOKIs DEF SideOK, Inv, InOrder
  <2>5. session'["initiator"] = n /\ session'["responder"] = NoSession
        /\ DOMAIN session' = Side
    BY <1>0, <1>4, <2>4 DEF n
  <2>6. /\ DOMAIN wire' = Side /\ \A s \in Side : IsSeq(wire'[s])
        /\ In(wire'["initiator"]) \subseteq In(wire["initiator"])
        /\ In(wire'["responder"]) \subseteq In(wire["responder"]) \cup {a}
    BY <1>0, <1>1, <1>2, <1>4, ReadAndWriteIn
  <2>7. Genuine'
    <3>1. \A b \in In(wire'["initiator"]) : FromResponder(b)'
      BY <1>4, <2>6 DEF Inv, Genuine, FromResponder, IsMessage, Made, Bolt8
    <3>2. \A b \in In(wire["responder"]) : FromInitiator(b)'
      <4>1. \A b \in In(wire["responder"]) : FromInitiator(b)
        BY DEF Inv, Genuine
      <4> QED BY <2>4, <4>1 DEF FromInitiator, IsMessage, Made
    <3>3. \A b \in {a} : FromInitiator(b)'
      BY <2>1, <2>2, <2>3, <2>5 DEF FromInitiator, NoSession, IsMessage
    <3>4. In(wire["initiator"])' = In(wire'["initiator"])
          /\ In(wire["responder"])' = In(wire'["responder"]) BY DEF In
    <3> QED BY <2>6, <3>1, <3>2, <3>3, <3>4 DEF Genuine
  <2>8. InOrder' BY <2>5 DEF InOrder, NoSession
  <2>9. pc' \in [Side -> {"new", "done", "failed", "closed"} \cup Waiting]
        /\ \A s \in Side : pc'[s] = IF s = "initiator" THEN "done" ELSE pc[s]
    BY <1>1, <1>4, TypeOKIs
  <2>10. \A s \in Side : SideOK(s)'
    <3>1. SideOK("initiator")'
      <4>1. n # NoSession BY <2>3 DEF NoSession
      <4> QED BY <1>0, <2>5, <2>6, <2>9, <4>1, SideNext
    <3>2. SideOK("responder")'
      <4>1. pc["responder"] # "done" BY <1>0, <1>1, <2>4, TypeOKIs DEF SideOK
      <4> QED BY <1>0, <2>5, <2>6, <2>9, <4>1, SideNext
    <3> QED BY <3>1, <3>2 DEF Side
  <2>11. DOMAIN st' = Side BY <1>1, <1>4, TypeOKIs
  <2>12. TypeOK'
    BY <1>1, <1>2, <1>4, <2>5, <2>6, <2>9, <2>10, <2>11, TypeOKIs, TypeOKNext
  <2>13. Starting' BY <1>0, <2>9 DEF Starting
  <2> QED BY <2>7, <2>8, <2>12, <2>13 DEF Inv
<1> QED BY <1>3, <1>4 DEF ReadAct2

\* The initiator has a session by the time its last message opens.
LEMMA ReadAct3Inv == Inv /\ ReadAct3 => Inv'
<1> SUFFICES ASSUME Inv, ReadAct3 PROVE Inv'
  OBVIOUS
<1> DEFINE m == Head(wire["responder"])
           x == st["responder"]
           w == Third(x, m.s, Secret(x.own, m.s.plain))
<1>0. "initiator" \in Side /\ "responder" \in Side BY DEF Side
<1>1. TypeOK BY DEF Inv
<1>2. /\ pc["responder"] = "act3" /\ wire["responder"] # <<>> /\ m.act = "act3"
      /\ UNCHANGED <<scrambled, faults>> /\ Read("responder")
  BY DEF ReadAct3, Arrived
<1>3. CASE Fail("responder")
  BY <1>0, <1>1, <1>2, <1>3, FailInv, TypeOKIs DEF Waiting
<1>4. CASE /\ Opens(w, 0, m.t)
           /\ st' = [st EXCEPT !["responder"] = w]
           /\ session' = [session EXCEPT !["responder"] =
                            Session("responder", w, m.s.plain)]
           /\ pc' = [pc EXCEPT !["responder"] = "done"]
           /\ UNCHANGED <<setup, calls, sealed>>
  <2>1. session["initiator"] # NoSession
    <3>1. IsSeq(wire["responder"]) BY <1>0, <1>1, TypeOKIs DEF SideOK
    <3>2. FromInitiator(m) BY <1>2, <3>1, TailIn DEF Inv, Genuine
    <3>3. Made(m.t) BY <1>4 DEF Opens, Made
    <3> QED BY <1>2, <3>2, <3>3 DEF FromInitiator
  <2> DEFINE n == Session("responder", w, m.s.plain)
  <2>2. n # NoSession BY IsSession
  <2> HIDE DEF n, w
  <2>3. DOMAIN session' = Side /\ session'["initiator"] = session["initiator"]
        /\ session'["responder"] = n
    BY <1>0, <1>1, <1>4, TypeOKIs DEF n
  <2>4. DOMAIN wire' = Side
        /\ \A s \in Side : IsSeq(wire'[s]) /\ In(wire'[s]) \subseteq In(wire[s])
    BY <1>0, <1>1, <1>2, ReadIn
  <2>5. Genuine'
    <3>1. \A b \in In(wire'["initiator"]) : FromResponder(b)'
      BY <1>0, <1>4, <2>4 DEF Inv, Genuine, FromResponder, IsMessage, Made, Bolt8
    <3>2. \A b \in In(wire'["responder"]) : FromInitiator(b)'
      BY <1>0, <2>3, <2>4 DEF Inv, Genuine, FromInitiator, IsMessage, Made, NoSession
    <3>3. In(wire["initiator"])' = In(wire'["initiator"])
          /\ In(wire["responder"])' = In(wire'["responder"]) BY DEF In
    <3> QED BY <3>1, <3>2, <3>3 DEF Genuine
  <2>6. InOrder' BY <2>1, <2>3 DEF InOrder, NoSession
  <2>7. pc' \in [Side -> {"new", "done", "failed", "closed"} \cup Waiting]
        /\ \A s \in Side : pc'[s] = IF s = "responder" THEN "done" ELSE pc[s]
    BY <1>1, <1>4, TypeOKIs
  <2>8. \A s \in Side : SideOK(s)'
    <3>1. SideOK("responder")'
      BY <1>0, <2>2, <2>3, <2>4, <2>7, SideNext
    <3>2. SideOK("initiator")'
      <4>1. (session["initiator"] # NoSession) <=> (pc["initiator"] = "done")
        BY <1>0, <1>1, TypeOKIs DEF SideOK
      <4> QED BY <1>0, <2>3, <2>4, <2>7, <4>1, SideNext
    <3> QED BY <3>1, <3>2 DEF Side
  <2>9. DOMAIN st' = Side /\ st'["initiator"] = st["initiator"]
    BY <1>0, <1>1, <1>4, TypeOKIs
  <2>10. TypeOK'
    BY <1>1, <1>2, <1>4, <2>3, <2>4, <2>7, <2>8, <2>9, TypeOKIs, TypeOKNext
  <2>11. Starting'
    BY <1>0, <1>4, <2>7, <2>9 DEF Inv, Starting, Bolt8
  <2> QED BY <2>5, <2>6, <2>10, <2>11 DEF Inv
<1> QED BY <1>3, <1>4 DEF ReadAct3

LEMMA CloseInv == ASSUME NEW s \in Side PROVE Inv /\ Close(s) => Inv'
<1> SUFFICES ASSUME Inv, Close(s) PROVE Inv'
  OBVIOUS
<1>1. TypeOK BY DEF Inv
<1>2. UNCHANGED <<setup, calls, st, session, wire, scrambled, faults, sealed>>
      /\ pc[s] # "done"
  BY DEF Close, Waiting
<1>3. pc' \in [Side -> {"new", "done", "failed", "closed"} \cup Waiting]
      /\ \A t \in Side : pc'[t] = IF t = s THEN "closed" ELSE pc[t]
  BY <1>1, TypeOKIs DEF Close
<1>4. \A t \in Side : SideOK(t)'
  <2>1. \A t \in Side : IsSeq(wire'[t]) BY <1>1, <1>2, TypeOKIs DEF SideOK
  <2>2. \A t \in Side : (pc'[t] = "done") <=> (pc[t] = "done") BY <1>2, <1>3
  <2> QED BY <1>1, <1>2, <2>1, <2>2, SidesNext
<1>5. TypeOK' BY <1>1, <1>2, <1>3, <1>4, TypeOKIs, TypeOKNext
<1>6. Starting' /\ Genuine' /\ InOrder'
  BY <1>2, <1>3, Quiet DEF Side
<1> QED BY <1>5, <1>6 DEF Inv

\* An altered message carries no ciphertext that the original did not.
LEMMA AlterInv == ASSUME NEW s \in Side PROVE Inv /\ Alter(s) => Inv'
<1> SUFFICES ASSUME Inv, Alter(s) PROVE Inv'
  OBVIOUS
<1> DEFINE m == Head(wire[s])
<1>1. TypeOK /\ IsSeq(wire[s]) /\ DOMAIN wire = Side
  BY TypeOKIs DEF Inv, SideOK
<1>2. /\ UNCHANGED <<setup, pc, calls, st, session, scrambled, sealed>>
      /\ wire[s] # <<>> /\ faults' = faults + 1 /\ faults < MaxFaults
  BY DEF Alter
<1>3. m \in In(wire[s]) BY <1>1, <1>2, TailIn
<1>4. PICK a \in {[m EXCEPT !.ok = FALSE], [m EXCEPT !.e = Stray],
                  [m EXCEPT !.s = NoCipher], [m EXCEPT !.t = NoCipher]} :
        wire' = [wire EXCEPT ![s][1] = a]
  BY DEF Alter
<1>5. /\ FromResponder(m) => FromResponder(a)
      /\ FromInitiator(m) => FromInitiator(a)
  <2>1. ASSUME IsMessage(m)
        PROVE  /\ IsMessage(a) /\ a.act = m.act
               /\ a.s = m.s \/ ~Made(a.s)
               /\ a.t = m.t \/ ~Made(a.t)
    <3>1. DOMAIN m = {"act", "ok", "e", "s", "t"}
          /\ m = [act |-> m.act, ok |-> m.ok, e |-> m.e, s |-> m.s, t |-> m.t]
      BY <2>1 DEF IsMessage
    <3>2. ~Made(NoCipher) BY DEF Made, NoCipher
    <3> HIDE DEF m
    <3>3. CASE a = [m EXCEPT !.ok = FALSE] BY <3>1, <3>2, <3>3 DEF IsMessage
    <3>4. CASE a = [m EXCEPT !.e = Stray] BY <3>1, <3>2, <3>4 DEF IsMessage
    <3>5. CASE a = [m EXCEPT !.s = NoCipher] BY <3>1, <3>2, <3>5 DEF IsMessage
    <3>6. CASE a = [m EXCEPT !.t = NoCipher] BY <3>1, <3>2, <3>6 DEF IsMessage
    <3> QED BY <1>4, <3>3, <3>4, <3>5, <3>6
  <2> HIDE DEF m
  <2>2. FromResponder(m) => FromResponder(a) BY <2>1 DEF FromResponder
  <2>3. FromInitiator(m) => FromInitiator(a) BY <2>1 DEF FromInitiator
  <2> QED BY <2>2, <2>3
<1> HIDE DEF m
<1>6. /\ DOMAIN wire' = Side
      /\ \A t \in Side \ {s} : wire'[t] = wire[t]
      /\ \A t \in Side : IsSeq(wire'[t])
      /\ In(wire'[s]) \subseteq In(wire[s]) \cup {a}
  <2>1. wire'[s] = [wire[s] EXCEPT ![1] = a] BY <1>1, <1>4
  <2>2. DOMAIN wire' = Side /\ \A t \in Side \ {s} : wire'[t] = wire[t]
    BY <1>1, <1>4
  <2>3. IsSeq(wire'[s]) /\ In(wire'[s]) \subseteq In(wire[s]) \cup {a}
    BY <1>1, <1>2, <2>1, ReplaceIn
  <2>4. \A t \in Side : IsSeq(wire[t]) BY <1>1, TypeOKIs DEF SideOK
  <2> QED BY <2>2, <2>3, <2>4
<1>7. Genuine' /\ InOrder'
  <2>1. \A b \in In(wire'["initiator"]) :
          b \in In(wire["initiator"]) \/ FromResponder(b)
    BY <1>3, <1>5, <1>6 DEF Inv, Genuine, Side
  <2>2. \A b \in In(wire'["responder"]) :
          b \in In(wire["responder"]) \/ FromInitiator(b)
    BY <1>3, <1>5, <1>6 DEF Inv, Genuine, Side
  <2> QED BY <1>2, <2>1, <2>2, SameSession
<1>8. Starting' BY <1>2 DEF Inv, Starting, Bolt8
<1>9. TypeOK'
  <2>1. \A t \in Side : SideOK(t)'
    BY <1>1, <1>2, <1>6, SidesNext
  <2>2. faults' \in 0..MaxFaults BY <1>1, <1>2, TypeOKIs, BoundsAssumption
  <2> QED BY <1>1, <1>2, <1>6, <2>1, <2>2, TypeOKIs, TypeOKNext
<1> QED BY <1>7, <1>8, <1>9 DEF Inv

LEMMA StepInv == Inv /\ [Next]_vars => Inv'
<1> SUFFICES ASSUME Inv, [Next]_vars PROVE Inv'
  OBVIOUS
<1>1. TypeOK BY DEF Inv
<1>2. CASE StartInitiator BY <1>2, StartInitiatorInv
<1>3. CASE StartResponder BY <1>3, StartResponderInv
<1>4. CASE ReadAct1 BY <1>4, ReadAct1Inv
<1>5. CASE ReadAct2 BY <1>5, ReadAct2Inv
<1>6. CASE ReadAct3 BY <1>6, ReadAct3Inv
<1>7. ASSUME NEW s \in Side, ReadMisframed(s) PROVE Inv'
  <2>1. scrambled' \in [Side -> BOOLEAN] /\ faults' \in 0..MaxFaults
    BY <1>1, <1>7, TypeOKIs DEF ReadMisframed
  <2> QED BY <1>7, <2>1, FailInv DEF ReadMisframed
<1>8. ASSUME NEW s \in Side, ReadTimeout(s) PROVE Inv'
  <2>1. faults' \in 0..MaxFaults
    BY <1>1, <1>8, TypeOKIs, BoundsAssumption DEF ReadTimeout
  <2>2. scrambled' \in [Side -> BOOLEAN]
    <3>1. PICK part \in {FALSE, wire[s] # <<>>} :
            scrambled' = [scrambled EXCEPT ![s] = scrambled[s] \/ part]
      BY <1>8 DEF ReadTimeout
    <3>2. (scrambled[s] \/ part) \in BOOLEAN OBVIOUS
    <3> QED BY <1>1, <3>1, <3>2, TypeOKIs
  <2> QED BY <1>8, <2>1, <2>2, FailInv DEF ReadTimeout
<1>9. ASSUME NEW s \in Side, Close(s) PROVE Inv' BY <1>9, CloseInv
<1>10. ASSUME NEW s \in Side, LosesConnection(s) PROVE Inv'
  <2>1. scrambled' \in [Side -> BOOLEAN] /\ faults' \in 0..MaxFaults
    BY <1>1, <1>10, TypeOKIs DEF LosesConnection
  <2> QED BY <1>10, <2>1, FailInv DEF LosesConnection
<1>11. ASSUME NEW s \in Side, Alter(s) PROVE Inv' BY <1>11, AlterInv
<1>12. CASE UNCHANGED vars
  <2>1. \A s \in Side : SideOK(s)'
    <3>1. \A s \in Side : IsSeq(wire'[s]) BY <1>1, <1>12, TypeOKIs DEF vars, SideOK
    <3> QED BY <1>1, <1>12, <3>1, SidesNext DEF vars
  <2>2. TypeOK'
    BY <1>1, <1>12, <2>1, TypeOKIs, TypeOKNext DEF vars
  <2>3. Starting' /\ Genuine' /\ InOrder'
    BY <1>12, Quiet DEF vars
  <2> QED BY <2>2, <2>3 DEF Inv
<1> QED BY <1>2, <1>3, <1>4, <1>5, <1>6, <1>7, <1>8, <1>9, <1>10, <1>11, <1>12 DEF Next

\* The types of the two handshakes' state: the phase a side is in, the runs
\* its copy loops have begun, and that it has a session exactly when it is done.
THEOREM TypeCorrect == Spec => []TypeOK
<1>1. Inv => TypeOK BY DEF Inv
<1> QED BY <1>1, InitInv, StepInv, PTL DEF Spec

-----------------------------------------------------------------------------
(* The refinement.                                                         *)

LEMMA InitRefines == Init => KX!Init
<1> SUFFICES ASSUME Init PROVE KX!Init
  OBVIOUS
<1>1. session = [s \in Side |-> NoSession] BY DEF Init
<1> QED BY <1>1 DEF Side, KX!Init, KX!First, KX!Last

\* A second message that opens comes from the responder: BOLT-8's key begins
\* with a secret that is both the initiator's ephemeral key's and the
\* responder's static key's; WhatsApp's static key is itself sealed.
LEMMA Authentic ==
  ASSUME Inv, Arrived("initiator", "act2"),
         LET m == Head(wire["initiator"])
             i == st["initiator"]
             y == Second(i, m.e, Secret(i.own, m.e))
             rs == IF Bolt8 THEN setup.rstatic ELSE m.s.plain
             z == SecondStatic(y, m.s, Secret(i.own, rs))
         IN Opens(z, 0, m.t) /\ (Bolt8 \/ Opens(y, 0, m.s))
  PROVE  (IF Bolt8 THEN setup.rstatic ELSE Head(wire["initiator"]).s.plain)
           = Static("responder")
<1> DEFINE m == Head(wire["initiator"])
           i == st["initiator"]
           y == Second(i, m.e, Secret(i.own, m.e))
           rs == IF Bolt8 THEN setup.rstatic ELSE m.s.plain
           z == SecondStatic(y, m.s, Secret(i.own, rs))
<1>1. FromResponder(m) /\ pc["initiator"] = "act2"
  <2>1. IsSeq(wire["initiator"]) BY TypeOKIs DEF Inv, SideOK, Side
  <2>2. wire["initiator"] # <<>> /\ pc["initiator"] = "act2" BY DEF Arrived
  <2> QED BY <2>1, <2>2, TailIn DEF Inv, Genuine
<1>2. CASE Bolt8
  <2>1. Made(m.t) /\ m.t.key = y.ck
    BY <1>2 DEF Opens, Made, SecondStatic
  <2>2. i.ck = <<Secret(i.own, setup.rstatic)>> /\ i.own.kind = "ephemeral"
    BY <1>1, <1>2 DEF Inv, Starting
  <2>3. y.ck = Append(i.ck, Secret(i.own, m.e))
    <3>1. MixHash(i, m.e).ck = i.ck
      <4>1. DOMAIN MixHash(i, m.e) = DOMAIN i BY DEF MixHash
      <4> QED BY DEF MixHash
    <3> QED BY <3>1 DEF Second, MixKey
  <2>4. m.t.key[1] = Secret(i.own, setup.rstatic)
    <3>1. PICK a, b : a = Secret(i.own, setup.rstatic) /\ b = Secret(i.own, m.e)
      OBVIOUS
    <3>2. m.t.key = Append(<<a>>, b) BY <2>1, <2>2, <2>3, <3>1
    <3> HIDE DEF m, i, y
    <3> QED BY <3>1, <3>2, AppendTwo
  <2>5. Static("responder") \in {i.own, setup.rstatic}
    BY <1>1, <1>2, <2>1, <2>4 DEF FromResponder, Secret
  <2>6. Static("responder").kind = "static" BY DEF Static, Key
  <2> QED BY <1>2, <2>2, <2>5, <2>6
<1>3. CASE ~Bolt8
  <2>1. Made(m.s) BY <1>3 DEF Opens, Made
  <2> QED BY <1>1, <1>3, <2>1 DEF FromResponder
<1> QED BY <1>2, <1>3

\* The initiator ends first, with its peer's static key.
LEMMA ReadAct2Refines == Inv /\ ReadAct2 => KX!EstablishFirst \/ UNCHANGED session
<1> SUFFICES ASSUME Inv, ReadAct2, session' # session PROVE KX!EstablishFirst
  OBVIOUS
<1> DEFINE m == Head(wire["initiator"])
           i == st["initiator"]
           y == Second(i, m.e, Secret(i.own, m.e))
           rs == IF Bolt8 THEN setup.rstatic ELSE m.s.plain
           z == SecondStatic(y, m.s, Secret(i.own, rs))
           x == MixHash(z, m.t)
           c == Seal(x, StaticNonce, Static("initiator"))
           w == Third(x, c, Secret(Static("initiator"), m.e))
<1>0. "initiator" \in Side /\ "responder" \in Side BY DEF Side
<1>1. /\ Arrived("initiator", "act2")
      /\ Opens(z, 0, m.t) /\ (Bolt8 \/ Opens(y, 0, m.s))
      /\ session' = [session EXCEPT !["initiator"] = Session("initiator", w, rs)]
  BY DEF ReadAct2, Fail
<1>2. rs = Static("responder") BY <1>1, Authentic
<1> HIDE DEF w, rs, z, y
<1>3. Session("initiator", w, rs).peer = rs BY DEF Session
<1>4. /\ session["initiator"] = NoSession /\ session["responder"] = NoSession
      /\ DOMAIN session = Side
  BY <1>0, <1>1, TypeOKIs DEF Inv, SideOK, InOrder, Arrived
<1>5. session'["initiator"] = Session("initiator", w, rs)
  BY <1>0, <1>1, <1>4
<1>6. session'["initiator"] # NoSession
  BY <1>5, IsSession
<1>7. [s \in Side |-> Static(s)]["responder"] = Static("responder")
  BY <1>0
<1> QED BY <1>1, <1>2, <1>3, <1>4, <1>5, <1>6, <1>7
        DEF KX!EstablishFirst, KX!First, KX!Last

\* The responder ends with the mirror image: the last tag shows the initiator's
\* transcript and keys, the sealed static key its identity.
LEMMA ReadAct3Refines == Inv /\ ReadAct3 => KX!EstablishLast \/ UNCHANGED session
<1> SUFFICES ASSUME Inv, ReadAct3, session' # session PROVE KX!EstablishLast
  OBVIOUS
<1> DEFINE m == Head(wire["responder"])
           x == st["responder"]
           w == Third(x, m.s, Secret(x.own, m.s.plain))
           n == Session("responder", w, m.s.plain)
           first == session["initiator"]
<1>0. "initiator" \in Side /\ "responder" \in Side BY DEF Side
<1>1. /\ Arrived("responder", "act3")
      /\ Opens(x, StaticNonce, m.s) /\ Opens(w, 0, m.t)
      /\ session' = [session EXCEPT !["responder"] = n]
  BY DEF ReadAct3, Fail
<1>2. FromInitiator(m) /\ m.act = "act3"
  <2>1. IsSeq(wire["responder"]) BY <1>0, TypeOKIs DEF Inv, SideOK
  <2> QED BY <1>1, <2>1, TailIn DEF Inv, Genuine, Arrived
<1>3. m.s.plain = Static("initiator")
  BY <1>1, <1>2 DEF FromInitiator, Opens, Made, StaticNonce
<1>4. /\ first # NoSession /\ first.transcript = w.h
      /\ first.send = [of |-> w.ck, half |-> 1]
      /\ first.receive = [of |-> w.ck, half |-> 2]
  BY <1>1, <1>2 DEF FromInitiator, Opens, Made
<1>5. /\ n.peer = m.s.plain /\ n.transcript = w.h
      /\ n.send = [of |-> w.ck, half |-> 2]
      /\ n.receive = [of |-> w.ck, half |-> 1]
  BY DEF Session, Split
<1>6. n # NoSession BY IsSession
<1> HIDE DEF n, w, first
<1>7. session["responder"] = NoSession /\ DOMAIN session = Side
  BY <1>0, <1>1, TypeOKIs DEF Inv, SideOK, Arrived
<1>8. session'["responder"] = n BY <1>0, <1>1, <1>7
<1>9. KX!Mirrors(first, session'["responder"])
  BY <1>4, <1>5, <1>8 DEF KX!Mirrors
<1>10. [s \in Side |-> Static(s)]["initiator"] = Static("initiator")
  BY <1>0
<1> QED BY <1>1, <1>3, <1>4, <1>5, <1>6, <1>7, <1>8, <1>9, <1>10
        DEF KX!EstablishLast, KX!First, KX!Last, first

LEMMA StepRefines == Inv /\ [Next]_vars => [KX!Next]_session
<1> SUFFICES ASSUME Inv, [Next]_vars PROVE [KX!Next]_session
  OBVIOUS
<1>1. CASE ReadAct2 BY <1>1, ReadAct2Refines DEF KX!Next
<1>2. CASE ReadAct3 BY <1>2, ReadAct3Refines DEF KX!Next
<1>3. CASE StartInitiator \/ StartResponder
  BY <1>3 DEF StartInitiator, StartResponder
<1>4. CASE ReadAct1 BY <1>4 DEF ReadAct1, Fail
<1>5. ASSUME NEW s \in Side, ReadMisframed(s) \/ ReadTimeout(s) \/ LosesConnection(s)
      PROVE  UNCHANGED session
  BY <1>5 DEF ReadMisframed, ReadTimeout, LosesConnection, Fail
<1>6. ASSUME NEW s \in Side, Close(s) \/ Alter(s) PROVE UNCHANGED session
  BY <1>6 DEF Close, Alter
<1>7. CASE UNCHANGED vars BY <1>7 DEF vars
<1> QED BY <1>1, <1>2, <1>3, <1>4, <1>5, <1>6, <1>7 DEF Next

\* Whatever is altered on the wire, times out, or is run again over a byte
\* stream left in the middle: the two handshakes implement the key exchange.
THEOREM ImplementsKeyExchange == Spec => IsKeyExchange
<1> QED BY InitInv, InitRefines, StepInv, StepRefines, PTL
        DEF Spec, IsKeyExchange, KX!Spec

-----------------------------------------------------------------------------
(* WhatsApp's server.                                                      *)

LEMMA ReadAct2Vouched ==
  Inv /\ ServerIsVouched /\ ReadAct2 => ServerIsVouched'
<1> SUFFICES ASSUME Inv, ServerIsVouched, ReadAct2, session' # session,
                    setup.proto = "backend"
             PROVE  session'["initiator"].peer \in Vouched(setup.payload)
  BY DEF ServerIsVouched, ReadAct2, Fail, Vouched, NoSession
<1> DEFINE m == Head(wire["initiator"])
           i == st["initiator"]
           y == Second(i, m.e, Secret(i.own, m.e))
           rs == IF Bolt8 THEN setup.rstatic ELSE m.s.plain
           z == SecondStatic(y, m.s, Secret(i.own, rs))
           x == MixHash(z, m.t)
           c == Seal(x, StaticNonce, Static("initiator"))
           w == Third(x, c, Secret(Static("initiator"), m.e))
<1>1. /\ Arrived("initiator", "act2")
      /\ Opens(z, 0, m.t) /\ verifyServerCert(m.t.plain, rs)
      /\ session' = [session EXCEPT !["initiator"] = Session("initiator", w, rs)]
  BY DEF ReadAct2, Fail
<1>2. m.t.plain = setup.payload
  <2>1. IsSeq(wire["initiator"]) BY TypeOKIs DEF Inv, SideOK, Side
  <2>2. FromResponder(m) BY <1>1, <2>1, TailIn DEF Inv, Genuine, Arrived
  <2> QED BY <1>1, <2>2 DEF FromResponder, Opens, Made
<1>3. session'["initiator"].peer = rs
  <2>1. Session("initiator", w, rs).peer = rs BY DEF Session
  <2> HIDE DEF w, rs
  <2>2. "initiator" \in DOMAIN session BY TypeOKIs DEF Inv, Side
  <2> QED BY <1>1, <2>1, <2>2
<1> HIDE DEF rs, m
<1> QED BY <1>1, <1>2, <1>3 DEF verifyServerCert, Vouched

LEMMA StepVouched ==
  Inv /\ ServerIsVouched /\ [Next]_vars => ServerIsVouched'
<1> SUFFICES ASSUME Inv, ServerIsVouched, [Next]_vars PROVE ServerIsVouched'
  OBVIOUS
<1>1. CASE ReadAct2 BY <1>1, ReadAct2Vouched
<1>2. CASE ReadAct3
  <2>1. setup' = setup /\ session'["initiator"] = session["initiator"]
    BY <1>2, TypeOKIs DEF ReadAct3, Fail, Inv, Side
  <2> QED BY <2>1 DEF ServerIsVouched, Vouched, NoSession
<1>3. ASSUME UNCHANGED <<setup, session>> PROVE ServerIsVouched'
  BY <1>3 DEF ServerIsVouched, Vouched, NoSession
<1>4. CASE StartInitiator \/ StartResponder
  BY <1>3, <1>4 DEF StartInitiator, StartResponder
<1>5. CASE ReadAct1 BY <1>3, <1>5 DEF ReadAct1, Fail
<1>6. ASSUME NEW s \in Side, ReadMisframed(s) \/ ReadTimeout(s) \/ LosesConnection(s)
      PROVE  UNCHANGED <<setup, session>>
  BY <1>6 DEF ReadMisframed, ReadTimeout, LosesConnection, Fail
<1>7. ASSUME NEW s \in Side, Close(s) \/ Alter(s) PROVE UNCHANGED <<setup, session>>
  BY <1>7 DEF Close, Alter
<1>8. CASE UNCHANGED vars BY <1>3, <1>8 DEF vars
<1> QED BY <1>1, <1>2, <1>3, <1>4, <1>5, <1>6, <1>7, <1>8 DEF Next

\* A client of WhatsApp's server never has a session with a key that a valid
\* chain from the root does not vouch for.
THEOREM ServerVouched == Spec => []ServerIsVouched
<1>1. Init => ServerIsVouched BY DEF Init, ServerIsVouched, Side, NoSession
<1> QED BY <1>1, InitInv, StepInv, StepVouched, PTL DEF Spec

-----------------------------------------------------------------------------
(* Keys and nonces.                                                        *)

\* What reaches a side never carries an ephemeral key of its own.
OthersKeys == \A s \in Side : \A m \in In(wire[s]) : m.e.owner # s

\* An initiator that waits is in the state its latest run has begun with.
OwnKey ==
  pc["initiator"] = "act2" =>
    LET own == Ephemeral("initiator", calls["initiator"])
    IN \E h : st["initiator"] =
                [ h |-> h, own |-> own,
                  ck |-> IF Bolt8 THEN <<Secret(own, setup.rstatic)>> ELSE <<>> ]

\* The chaining key after two secrets: that of both ephemeral keys, own and
\* k, and another one.
Chaining(own, k, x) ==
  IF Bolt8 THEN <<x, Secret(own, k)>> ELSE <<Secret(own, k), x>>

\* The step that has sealed a, in a side's n-th run, with its peer's key k.
ByStart(a, n) ==
  /\ Bolt8 /\ a.nonce = 0
  /\ a.key = <<Secret(Ephemeral("initiator", n), setup.rstatic)>>
ByResponder(a, n) ==
  /\ a.nonce = 0
  /\ \E k, x : /\ k.owner # "responder"
               /\ \/ a.key = Chaining(Ephemeral("responder", n), k, x)
                  \/ ~Bolt8 /\ a.key = <<Secret(Ephemeral("responder", n), k)>>
ByInitiator(a, n) ==
  \E k, x, z :
    LET c == Chaining(Ephemeral("initiator", n), k, x)
    IN /\ k.owner # "initiator"
       /\ \/ a.nonce = 1 /\ a.key = c
          \/ a.nonce = 0 /\ a.key = <<c[1], c[2], z>>

\* Nothing is sealed yet by the step that a waiting side is about to take.
SealedBy(a) ==
  \/ \E n \in 0..calls["initiator"] : ByStart(a, n)
  \/ \E n \in 0..calls["responder"] :
       ByResponder(a, n) /\ (n = calls["responder"] => pc["responder"] # "act1")
  \/ \E n \in 0..calls["initiator"] :
       ByInitiator(a, n) /\ (n = calls["initiator"] => pc["initiator"] # "act2")

Keyed == OthersKeys /\ OwnKey /\ (\A a \in sealed : SealedBy(a))
KeysInv == Keyed /\ NonceUsedOnce

SameUse(a, b) == a.key = b.key /\ a.nonce = b.nonce

LEMMA CallsAre ==
  TypeOK => /\ calls["initiator"] \in Nat /\ calls["responder"] \in Nat
            /\ DOMAIN calls = Side
BY BoundsAssumption, TypeOKIs DEF Side

\* A run's key is of no other run, and only its owner's.
LEMMA EphemeralIs ==
  ASSUME NEW s, NEW n
  PROVE  /\ Ephemeral(s, n).owner = s /\ Ephemeral(s, n).kind = "ephemeral"
         /\ Ephemeral(s, n).run = n
BY DEF Ephemeral, Key

\* Whoever makes the secret of an ephemeral key of its own and of another's
\* makes it in one run only.
LEMMA SecretOfRun ==
  ASSUME NEW s, NEW n, NEW r, NEW k, NEW j, k.owner # s, j.owner # s,
         Secret(Ephemeral(s, n), k) = Secret(Ephemeral(s, r), j)
  PROVE  n = r
<1>1. Ephemeral(s, n) \in {Ephemeral(s, r), j} BY DEF Secret
<1>2. Ephemeral(s, n) # j BY EphemeralIs
<1>3. Ephemeral(s, n) = Ephemeral(s, r) BY <1>1, <1>2
<1> QED BY <1>3, EphemeralIs

\* In BOLT-8 the key given with -rstatic is nobody's ephemeral key.
LEMMA StartOfRun ==
  ASSUME TypeOK, Bolt8, NEW n, NEW r,
         Secret(Ephemeral("initiator", n), setup.rstatic)
           = Secret(Ephemeral("initiator", r), setup.rstatic)
  PROVE  n = r
<1>1. setup.rstatic.kind = "static"
  <2>1. setup \in Setup BY SetupsAssumption, TypeOKIs
  <2>2. setup.rstatic \in {Static("responder"), Stranger}
    BY <2>1 DEF Setup, Bolt8
  <2> QED BY <2>2 DEF Static, Stranger, Key
<1>2. Ephemeral("initiator", n) \in {Ephemeral("initiator", r), setup.rstatic}
  BY DEF Secret
<1>3. Ephemeral("initiator", n) # setup.rstatic BY <1>1, EphemeralIs
<1>4. Ephemeral("initiator", n) = Ephemeral("initiator", r) BY <1>2, <1>3
<1> QED BY <1>4, EphemeralIs

\* The three steps seal with different nonces or under keys of different length.
LEMMA StartSealsAlone ==
  ASSUME NEW a, NEW b, NEW n, NEW r, ByStart(a, n), SameUse(a, b)
  PROVE  ~ByResponder(b, r) /\ ~ByInitiator(b, r)
<1>1. Bolt8 /\ a.nonce = 0 /\ Len(a.key) = 1 BY DEF ByStart
<1>2. ASSUME ByResponder(b, r) PROVE FALSE
  <2>1. Len(b.key) = 2 BY <1>1, <1>2 DEF ByResponder, Chaining
  <2> QED BY <1>1, <2>1 DEF SameUse
<1>3. ASSUME ByInitiator(b, r) PROVE FALSE
  <2>1. b.nonce = 1 \/ Len(b.key) = 3 BY <1>3 DEF ByInitiator
  <2> QED BY <1>1, <2>1 DEF SameUse
<1> QED BY <1>2, <1>3

LEMMA AnswerSealsAlone ==
  ASSUME NEW a, NEW b, NEW n, NEW r, ByResponder(a, n), SameUse(a, b)
  PROVE  ~ByInitiator(b, r)
<1>1. a.nonce = 0 /\ Len(a.key) \in {1, 2} BY DEF ByResponder, Chaining
<1>2. ASSUME ByInitiator(b, r) PROVE FALSE
  <2>1. b.nonce = 1 \/ Len(b.key) = 3 BY <1>2 DEF ByInitiator
  <2> QED BY <1>1, <2>1 DEF SameUse
<1> QED BY <1>2

\* Two seals of one kind with one key are of one run.
LEMMA ResponderRun ==
  ASSUME NEW a, NEW b, NEW n, NEW r,
         ByResponder(a, n), ByResponder(b, r), SameUse(a, b)
  PROVE  n = r
<1> DEFINE En == Ephemeral("responder", n)
           Er == Ephemeral("responder", r)
<1>1. PICK k, x : /\ k.owner # "responder"
                  /\ \/ a.key = Chaining(En, k, x)
                     \/ ~Bolt8 /\ a.key = <<Secret(En, k)>>
  BY DEF ByResponder
<1>2. PICK j, y : /\ j.owner # "responder"
                  /\ \/ b.key = Chaining(Er, j, y)
                     \/ ~Bolt8 /\ b.key = <<Secret(Er, j)>>
  BY DEF ByResponder
<1> DEFINE S == Secret(En, k)
           T == Secret(Er, j)
<1>3. S = T
  <2>1. a.key = b.key BY DEF SameUse
  <2>2. a.key = <<S>> \/ a.key = IF Bolt8 THEN <<x, S>> ELSE <<S, x>>
    BY <1>1 DEF Chaining
  <2>3. b.key = <<T>> \/ b.key = IF Bolt8 THEN <<y, T>> ELSE <<T, y>>
    BY <1>2 DEF Chaining
  <2>4. Bolt8 => a.key = <<x, S>> /\ b.key = <<y, T>>
    BY <1>1, <1>2 DEF Chaining
  <2> HIDE DEF S, T
  <2>5. CASE Bolt8 BY <2>1, <2>4, <2>5
  <2>6. CASE ~Bolt8
    <3>1. a.key[1] = S BY <2>2, <2>6
    <3>2. b.key[1] = T BY <2>3, <2>6
    <3> QED BY <2>1, <3>1, <3>2
  <2> QED BY <2>5, <2>6
<1> QED BY <1>1, <1>2, <1>3, SecretOfRun

LEMMA InitiatorRun ==
  ASSUME NEW a, NEW b, NEW n, NEW r,
         ByInitiator(a, n), ByInitiator(b, r), SameUse(a, b)
  PROVE  n = r
<1> DEFINE En == Ephemeral("initiator", n)
           Er == Ephemeral("initiator", r)
           At == IF Bolt8 THEN 2 ELSE 1
<1>1. \E k : k.owner # "initiator" /\ a.key[At] = Secret(En, k)
  BY DEF ByInitiator, Chaining
<1>2. \E k : k.owner # "initiator" /\ b.key[At] = Secret(Er, k)
  BY DEF ByInitiator, Chaining
<1>3. PICK k, j : /\ k.owner # "initiator" /\ a.key[At] = Secret(En, k)
                  /\ j.owner # "initiator" /\ b.key[At] = Secret(Er, j)
  BY <1>1, <1>2
<1>4. Secret(En, k) = Secret(Er, j) BY <1>3 DEF SameUse
<1> QED BY <1>3, <1>4, SecretOfRun

\* What the three steps seal, nobody has sealed before.
LEMMA StartIsFresh ==
  ASSUME TypeOK, NEW a, NEW b, SealedBy(b), ByStart(a, calls["initiator"] + 1)
  PROVE  ~SameUse(a, b)
<1> SUFFICES ASSUME SameUse(a, b) PROVE FALSE
  OBVIOUS
<1>1. PICK n \in 0..calls["initiator"] : ByStart(b, n)
  BY StartSealsAlone DEF SealedBy
<1>2. n = calls["initiator"] + 1
  <2> DEFINE r == calls["initiator"] + 1
             S == Secret(Ephemeral("initiator", n), setup.rstatic)
             T == Secret(Ephemeral("initiator", r), setup.rstatic)
  <2>1. Bolt8 /\ b.key = <<S>> /\ a.key = <<T>>
    BY <1>1 DEF ByStart
  <2>2. S = T
    <3> HIDE DEF S, T
    <3> QED BY <2>1 DEF SameUse
  <2> QED BY <2>1, <2>2, StartOfRun
<1> QED BY <1>2, CallsAre

LEMMA AnswerIsFresh ==
  ASSUME TypeOK, NEW a, NEW b, SealedBy(b), pc["responder"] = "act1",
         ByResponder(a, calls["responder"])
  PROVE  ~SameUse(a, b)
<1> SUFFICES ASSUME SameUse(a, b) PROVE FALSE
  OBVIOUS
<1>1. SameUse(b, a) BY DEF SameUse
<1>2. \A n : ~ByStart(b, n) BY <1>1, StartSealsAlone
<1>3. \A n : ~ByInitiator(b, n) BY AnswerSealsAlone
<1>4. PICK n \in 0..calls["responder"] :
        ByResponder(b, n) /\ n # calls["responder"]
  BY <1>2, <1>3 DEF SealedBy
<1> QED BY <1>4, ResponderRun

LEMMA LastIsFresh ==
  ASSUME TypeOK, NEW a, NEW b, SealedBy(b), pc["initiator"] = "act2",
         ByInitiator(a, calls["initiator"])
  PROVE  ~SameUse(a, b)
<1> SUFFICES ASSUME SameUse(a, b) PROVE FALSE
  OBVIOUS
<1>1. SameUse(b, a) BY DEF SameUse
<1>2. \A n : ~ByStart(b, n) BY <1>1, StartSealsAlone
<1>3. \A n : ~ByResponder(b, n) BY <1>1, AnswerSealsAlone
<1>4. PICK n \in 0..calls["initiator"] :
        ByInitiator(b, n) /\ n # calls["initiator"]
  BY <1>2, <1>3 DEF SealedBy
<1> QED BY <1>4, InitiatorRun

\* Fresh seals that differ among themselves keep the property.
LEMMA FreshSeals ==
  ASSUME NonceUsedOnce, NEW new, sealed' = sealed \cup new,
         \A a \in new, b \in sealed : ~SameUse(a, b),
         \A a, b \in new : SameUse(a, b) => a = b
  PROVE  NonceUsedOnce'
BY DEF NonceUsedOnce, SameUse

\* Runs only begin, and nobody comes back to a wait but by a new run.
Onward ==
  /\ setup' = setup
  /\ calls'["initiator"] \in Nat /\ calls'["responder"] \in Nat
  /\ \A s \in Side : calls'[s] >= calls[s]
  /\ pc'["initiator"] = "act2" /\ calls'["initiator"] = calls["initiator"]
       => pc["initiator"] = "act2"
  /\ pc'["responder"] = "act1" /\ calls'["responder"] = calls["responder"]
       => pc["responder"] = "act1"

\* Who has sealed what depends on nothing but the setup, which no step changes.
LEMMA SameSealer ==
  ASSUME setup' = setup, NEW a, NEW n
  PROVE  /\ ByStart(a, n)' = ByStart(a, n)
         /\ ByResponder(a, n)' = ByResponder(a, n)
         /\ ByInitiator(a, n)' = ByInitiator(a, n)
BY DEF ByStart, ByResponder, ByInitiator, Chaining, Bolt8

LEMMA SealsStay ==
  ASSUME TypeOK, Onward, NEW a, SealedBy(a)
  PROVE  SealedBy(a)'
<1>1. /\ setup' = setup /\ Bolt8' = Bolt8
      /\ calls["initiator"] \in Nat /\ calls["responder"] \in Nat
      /\ calls'["initiator"] \in Nat /\ calls'["responder"] \in Nat
      /\ calls'["initiator"] >= calls["initiator"]
      /\ calls'["responder"] >= calls["responder"]
  BY CallsAre DEF Onward, Bolt8, Side
<1>2. \A n : /\ ByStart(a, n)' = ByStart(a, n)
             /\ ByResponder(a, n)' = ByResponder(a, n)
             /\ ByInitiator(a, n)' = ByInitiator(a, n)
  BY <1>1, SameSealer
<1>3. ASSUME NEW n \in 0..calls["initiator"], ByStart(a, n) PROVE SealedBy(a)'
  BY <1>1, <1>2, <1>3 DEF SealedBy
<1>4. ASSUME NEW n \in 0..calls["responder"], ByResponder(a, n),
             n = calls["responder"] => pc["responder"] # "act1"
      PROVE  SealedBy(a)'
  <2>1. n \in 0..calls'["responder"] BY <1>1
  <2>2. n = calls'["responder"] => pc'["responder"] # "act1"
    BY <1>1, <1>4 DEF Onward
  <2> QED BY <1>2, <1>4, <2>1, <2>2 DEF SealedBy
<1>5. ASSUME NEW n \in 0..calls["initiator"], ByInitiator(a, n),
             n = calls["initiator"] => pc["initiator"] # "act2"
      PROVE  SealedBy(a)'
  <2>1. n \in 0..calls'["initiator"] BY <1>1
  <2>2. n = calls'["initiator"] => pc'["initiator"] # "act2"
    BY <1>1, <1>5 DEF Onward
  <2> QED BY <1>2, <1>5, <2>1, <2>2 DEF SealedBy
<1> QED BY <1>3, <1>4, <1>5 DEF SealedBy

\* A step that seals nothing and sends nothing.
LEMMA QuietKeys ==
  ASSUME TypeOK, KeysInv, Onward, sealed' = sealed,
         \A s \in Side : In(wire'[s]) \subseteq In(wire[s]),
         pc'["initiator"] = "act2" =>
           /\ pc["initiator"] = "act2"
           /\ st'["initiator"] = st["initiator"]
           /\ calls'["initiator"] = calls["initiator"]
  PROVE  KeysInv'
<1>1. OthersKeys'
  <2>1. \A s \in Side : In(wire[s])' = In(wire'[s]) BY DEF In
  <2> QED BY <2>1 DEF KeysInv, Keyed, OthersKeys
<1>2. OwnKey' BY DEF KeysInv, Keyed, OwnKey, Bolt8, Onward
<1>3. \A a \in sealed' : SealedBy(a)'
  BY SealsStay DEF KeysInv, Keyed
<1>4. NonceUsedOnce' BY DEF KeysInv, NonceUsedOnce
<1> QED BY <1>1, <1>2, <1>3, <1>4 DEF KeysInv, Keyed

LEMMA InitKeys == Init => KeysInv
<1> SUFFICES ASSUME Init PROVE KeysInv
  OBVIOUS
<1>1. \A s \in Side : In(wire[s]) = {}
  <2>1. \A s \in Side : wire[s] = <<>> BY DEF Init
  <2>2. In(<<>>) = {} BY EmptySeq DEF In
  <2> QED BY <2>1, <2>2
<1> QED BY <1>1 DEF Init, KeysInv, Keyed, OthersKeys, OwnKey, NonceUsedOnce, Side

LEMMA FailKeys ==
  ASSUME Inv, KeysInv, NEW s \in Side, Fail(s), pc[s] \in Waiting,
         UNCHANGED wire \/ (wire[s] # <<>> /\ Read(s))
  PROVE  KeysInv'
<1>1. TypeOK BY DEF Inv
<1>2. \A t \in Side : In(wire'[t]) \subseteq In(wire[t])
  BY <1>1, ReadIn
<1>3. UNCHANGED <<setup, calls, st, session, sealed>> BY DEF Fail
<1>4. \A t \in Side : pc'[t] = IF t = s THEN "failed" ELSE pc[t]
  BY <1>1, TypeOKIs DEF Fail
<1>5. Onward
  BY <1>1, <1>3, <1>4, CallsAre DEF Onward, Side
<1> QED BY <1>1, <1>2, <1>3, <1>4, <1>5, QuietKeys DEF Side

LEMMA StartUnsentKeys ==
  Inv /\ KeysInv /\ StartInitiator /\ faults' # faults => KeysInv'
<1> SUFFICES ASSUME Inv, KeysInv, StartInitiator, faults' # faults PROVE KeysInv'
  OBVIOUS
<1>1. TypeOK /\ "initiator" \in Side /\ "responder" \in Side
  BY DEF Inv, Side
<1>2. /\ pc'["initiator"] = "failed" /\ pc'["responder"] = pc["responder"]
      /\ calls'["initiator"] = calls["initiator"] + 1
      /\ calls'["responder"] = calls["responder"]
      /\ UNCHANGED <<setup, st, wire, sealed>>
  BY <1>1, StartUnsentIs, TypeOKIs
<1>3. Onward BY <1>1, <1>2, CallsAre DEF Onward, Side
<1> QED BY <1>1, <1>2, <1>3, QuietKeys

LEMMA StartInitiatorKeys == Inv /\ KeysInv /\ StartInitiator => KeysInv'
<1> SUFFICES ASSUME Inv, KeysInv, StartInitiator, faults' = faults PROVE KeysInv'
  BY StartUnsentKeys
<1> DEFINE n == calls["initiator"] + 1
           e == Ephemeral("initiator", n)
           x == IF Bolt8 THEN First(setup.rstatic, e, Secret(e, setup.rstatic))
                         ELSE First(Stray, e, {})
           t == FirstTag(x)
           m == [act |-> "act1", ok |-> TRUE, e |-> e, s |-> NoCipher, t |-> t]
<1>0. "initiator" \in Side /\ "responder" \in Side BY DEF Side
<1>1. /\ calls' = [calls EXCEPT !["initiator"] = n]
      /\ st' = [st EXCEPT !["initiator"] = AfterFirst(x, t)]
      /\ wire' = [wire EXCEPT !["responder"] = Append(@, m)]
      /\ sealed' = sealed \cup (IF Bolt8 THEN {t} ELSE {})
      /\ pc' = [pc EXCEPT !["initiator"] = "act2"]
      /\ UNCHANGED <<setup, session, scrambled, faults>>
  <2>1. ~WriteFails BY WriteFailsIs DEF Inv
  <2> QED BY <2>1 DEF StartInitiator
<1>2. TypeOK BY DEF Inv
<1>3. calls["initiator"] \in Nat /\ calls["responder"] \in Nat
      /\ calls'["initiator"] = n /\ calls'["responder"] = calls["responder"]
  BY <1>0, <1>1, <1>2, CallsAre
<1>4. m.e = e /\ e.owner = "initiator" BY EphemeralIs
<1>5. Bolt8 => ByStart(t, n)
  BY DEF ByStart, FirstTag, Seal, First
<1>6. st'["initiator"] =
        [ h |-> st'["initiator"].h, own |-> e,
          ck |-> IF Bolt8 THEN <<Secret(e, setup.rstatic)>> ELSE <<>> ]
  <2>1. st'["initiator"] = AfterFirst(x, t)
    BY <1>0, <1>1, <1>2, TypeOKIs
  <2>2. CASE Bolt8
    <3>1. AfterFirst(x, t) = [x EXCEPT !.h = Append(@, t)]
      BY <2>2 DEF AfterFirst, MixHash
    <3>2. x = [h |-> <<setup.rstatic, e>>, ck |-> <<Secret(e, setup.rstatic)>>, own |-> e]
      BY <2>2 DEF First
    <3> HIDE DEF x, t, e
    <3> QED BY <2>1, <2>2, <3>1, <3>2
  <2>3. CASE ~Bolt8
    BY <2>1, <2>3 DEF AfterFirst, First
  <2> QED BY <2>2, <2>3
<1>7. PICK r, own, tag, msg : r = n /\ own = e /\ tag = t /\ msg = m
  OBVIOUS
<1> HIDE DEF m, t, x, e, n
<1>8. /\ setup' = setup /\ Bolt8' = Bolt8
      /\ sealed' = sealed \cup (IF Bolt8 THEN {tag} ELSE {})
      /\ Bolt8 => ByStart(tag, r)
      /\ r = calls["initiator"] + 1 /\ r = calls'["initiator"]
  BY <1>1, <1>3, <1>5, <1>7 DEF Bolt8, n
<1>9. OthersKeys'
  <2>1. DOMAIN wire = Side /\ \A s \in Side : IsSeq(wire[s])
    BY <1>2, TypeOKIs DEF SideOK
  <2>2. wire'["responder"] = Append(wire["responder"], msg)
        /\ wire'["initiator"] = wire["initiator"]
    BY <2>1, <1>1, <1>0, <1>7
  <2>3. In(Append(wire["responder"], msg)) \subseteq In(wire["responder"]) \cup {msg}
    BY <2>1, <1>0, AppendIn
  <2>4. \A s \in Side : In(wire[s])' = In(wire'[s]) BY DEF In
  <2>5. msg.e.owner # "responder" BY <1>4, <1>7
  <2> QED BY <1>0, <2>2, <2>3, <2>4, <2>5 DEF KeysInv, Keyed, OthersKeys, Side
<1>10. OwnKey'
  <2>1. own = Ephemeral("initiator", calls'["initiator"])
    BY <1>7, <1>8 DEF e, n
  <2>2. st'["initiator"] =
          [ h |-> st'["initiator"].h, own |-> own,
            ck |-> IF Bolt8 THEN <<Secret(own, setup.rstatic)>> ELSE <<>> ]
    BY <1>6, <1>7
  <2> QED BY <1>8, <2>1, <2>2 DEF OwnKey
<1>11. \A b \in sealed' : SealedBy(b)'
  <2>1. Onward
    <3>1. pc'["responder"] = pc["responder"] BY <1>0, <1>1, <1>2, TypeOKIs
    <3>2. calls'["initiator"] = calls["initiator"] + 1 BY <1>8
    <3> QED BY <1>1, <1>3, <3>1, <3>2 DEF Onward, Side
  <2>2. \A b \in sealed : SealedBy(b)'
    BY <1>2, <2>1, SealsStay DEF KeysInv, Keyed
  <2>3. Bolt8 => SealedBy(tag)'
    <3>1. Bolt8 => ByStart(tag, r)' BY <1>8, SameSealer
    <3>2. r \in 0..calls'["initiator"] BY <1>3, <1>8
    <3> QED BY <3>1, <3>2 DEF SealedBy
  <2> QED BY <1>8, <2>2, <2>3
<1>12. NonceUsedOnce'
  <2>0. PICK new : new = IF Bolt8 THEN {tag} ELSE {}
    OBVIOUS
  <2>1. ASSUME Bolt8, NEW b \in sealed PROVE ~SameUse(tag, b)
    <3>1. ByStart(tag, calls["initiator"] + 1) BY <1>8, <2>1
    <3>2. SealedBy(b) BY DEF KeysInv, Keyed
    <3> QED BY <1>2, <3>1, <3>2, StartIsFresh
  <2>2. \A a \in new, b \in sealed : ~SameUse(a, b) BY <2>0, <2>1
  <2>3. \A a, b \in new : a = b BY <2>0
  <2>4. sealed' = sealed \cup new BY <1>8, <2>0
  <2> QED BY <2>2, <2>3, <2>4, FreshSeals DEF KeysInv
<1> QED BY <1>9, <1>10, <1>11, <1>12 DEF KeysInv, Keyed

LEMMA StartResponderKeys == Inv /\ KeysInv /\ StartResponder => KeysInv'
<1> SUFFICES ASSUME Inv, KeysInv, StartResponder PROVE KeysInv'
  OBVIOUS
<1>1. TypeOK /\ "initiator" \in Side /\ "responder" \in Side
  BY DEF Inv, Side
<1>2. /\ pc'["initiator"] = pc["initiator"]
      /\ calls'["initiator"] = calls["initiator"]
      /\ calls'["responder"] = calls["responder"] + 1
      /\ UNCHANGED <<setup, st, wire, sealed>>
  BY <1>1, TypeOKIs DEF StartResponder
<1>3. Onward BY <1>1, <1>2, CallsAre DEF Onward, Side
<1> QED BY <1>1, <1>2, <1>3, QuietKeys

\* Two secrets that are mixed in one after the other.
LEMMA MixedTwice ==
  ASSUME NEW a, NEW b, NEW c
  PROVE  Append(<<>>, a) = <<a>> /\ Append(<<a>>, b) = <<a, b>>
         /\ Append(<<a, b>>, c) = <<a, b, c>>
<1> DEFINE S == {a, b, c}
           one == <<a>>
           two == <<a, b>>
           v == Append(one, b)
           w == Append(two, c)
<1>0. a \in S /\ b \in S /\ c \in S OBVIOUS
<1>1. Append(<<>>, a) = <<a>> OBVIOUS
<1>2. one \in Seq(S) /\ Len(one) = 1 /\ one[1] = a BY <1>0
<1>3. two \in Seq(S) /\ Len(two) = 2 /\ two[1] = a /\ two[2] = b BY <1>0
<1>4. v = two
  <2> HIDE DEF one, S, two
  <2>1. v \in Seq(S) /\ Len(v) = 2 /\ v[1] = a /\ v[2] = b
    BY <1>0, <1>2, AppendProperties
  <2> HIDE DEF v
  <2> QED BY <1>3, <2>1, SeqEqual
<1>5. w = <<a, b, c>>
  <2> DEFINE u == <<a, b, c>>
  <2>1. u \in Seq(S) /\ Len(u) = 3 /\ u[1] = a /\ u[2] = b /\ u[3] = c
    BY <1>0
  <2> HIDE DEF one, v, two, S, u
  <2>2. /\ w \in Seq(S) /\ Len(w) = 3 /\ w[3] = c
        /\ \A i \in 1..2 : w[i] = two[i]
    <3>1. /\ w \in Seq(S) /\ Len(w) = Len(two) + 1 /\ w[Len(two) + 1] = c
          /\ \A i \in 1..Len(two) : w[i] = two[i]
      <4>1. two \in Seq(S) /\ c \in S BY <1>0, <1>3
      <4> QED BY ONLY <4>1, AppendProperties DEF w
    <3> HIDE DEF w
    <3> QED BY <1>3, <3>1
  <2> HIDE DEF w
  <2>3. w[1] = a /\ w[2] = b BY <1>3, <2>2
  <2>4. \A i \in 1..Len(w) : w[i] = u[i] BY <2>1, <2>2, <2>3
  <2> QED BY <2>1, <2>2, <2>4, SeqEqual
<1> QED BY <1>1, <1>4, <1>5

\* The responder's answer: one tag in BOLT-8, a static key and a payload for
\* WhatsApp.
LEMMA AnswerKeys ==
  ASSUME TypeOK, NEW m, m.e.owner # "responder",
         NEW rs, NEW e, e = Ephemeral("responder", calls["responder"]),
         NEW x, x = First(rs, m.e, Secret(rs, m.e)),
         NEW y, y = Second(AfterFirst(x, m.t), e, Secret(e, m.e)),
         NEW c, c = IF Bolt8 THEN NoCipher ELSE Seal(y, 0, rs),
         NEW t, t = Seal(SecondStatic(y, c, Secret(rs, m.e)), 0, setup.payload)
  PROVE  /\ ByResponder(t, calls["responder"])
         /\ ~Bolt8 => ByResponder(c, calls["responder"]) /\ ~SameUse(c, t)
<1> DEFINE z == SecondStatic(y, c, Secret(rs, m.e))
<1>1. y.ck = Append(x.ck, Secret(e, m.e))
  BY DEF Second, AfterFirst, MixHash, MixKey, First
<1>2. t.nonce = 0 /\ t.key = z.ck BY DEF Seal
<1>3. CASE Bolt8
  <2>1. x.ck = <<Secret(rs, m.e)>> BY <1>3 DEF First
  <2>2. z.ck = y.ck BY <1>3 DEF SecondStatic
  <2>3. t.key = <<Secret(rs, m.e), Secret(e, m.e)>>
    <3> HIDE DEF z
    <3> QED BY ONLY <1>1, <1>2, <2>1, <2>2, MixedTwice
  <2>4. t.key = Chaining(e, m.e, Secret(rs, m.e))
    BY <1>3, <2>3 DEF Chaining
  <2> HIDE DEF z
  <2> QED BY <1>2, <1>3, <2>4 DEF ByResponder
<1>4. CASE ~Bolt8
  <2>1. x.ck = <<>> BY <1>4 DEF First
  <2>2. y.ck = <<Secret(e, m.e)>>
    BY ONLY <1>1, <2>1, MixedTwice
  <2>3. z.ck = Append(y.ck, Secret(rs, m.e))
    BY <1>4 DEF SecondStatic, Second, MixKey, MixHash, AfterFirst, First
  <2>4. t.key = <<Secret(e, m.e), Secret(rs, m.e)>>
    <3> HIDE DEF z
    <3> QED BY ONLY <1>2, <2>2, <2>3, MixedTwice
  <2>5. t.key = Chaining(e, m.e, Secret(rs, m.e))
    BY <1>4, <2>4 DEF Chaining
  <2>6. c.nonce = 0 /\ c.key = <<Secret(e, m.e)>> BY <1>4, <2>2 DEF Seal
  <2> HIDE DEF z
  <2>7. ByResponder(t, calls["responder"])
    BY <1>2, <2>5 DEF ByResponder
  <2>8. ByResponder(c, calls["responder"])
    BY <1>4, <2>6 DEF ByResponder
  <2>9. ~SameUse(c, t)
    <3>1. Len(c.key) = 1 /\ Len(t.key) = 2 BY <2>4, <2>6
    <3> QED BY <3>1 DEF SameUse
  <2> QED BY <2>7, <2>8, <2>9
<1> QED BY <1>3, <1>4

LEMMA ReadAct1Keys == Inv /\ KeysInv /\ ReadAct1 => KeysInv'
<1> SUFFICES ASSUME Inv, KeysInv, ReadAct1 PROVE KeysInv'
  OBVIOUS
<1> DEFINE m0 == Head(wire["responder"])
           rs0 == Static("responder")
           x0 == First(rs0, m0.e, Secret(rs0, m0.e))
           e0 == Ephemeral("responder", calls["responder"])
           y0 == Second(AfterFirst(x0, m0.t), e0, Secret(e0, m0.e))
           c0 == IF Bolt8 THEN NoCipher ELSE Seal(y0, 0, rs0)
           z0 == SecondStatic(y0, c0, Secret(rs0, m0.e))
           t0 == Seal(z0, 0, setup.payload)
           a0 == [act |-> "act2", ok |-> TRUE, e |-> e0, s |-> c0, t |-> t0]
<1>0. "initiator" \in Side /\ "responder" \in Side
      /\ Peer("responder") = "initiator" BY DEF Side, Peer
<1>1. TypeOK BY DEF Inv
<1>2. pc["responder"] = "act1" /\ wire["responder"] # <<>>
  BY DEF ReadAct1, Arrived
<1>3. CASE Fail("responder") /\ Read("responder")
  BY <1>0, <1>2, <1>3, FailKeys DEF Waiting
<1>4. CASE /\ st' = [st EXCEPT !["responder"] = [MixHash(z0, t0) EXCEPT !.own = e0]]
           /\ pc' = [pc EXCEPT !["responder"] = "act3"]
           /\ ReadAndWrite("responder", a0)
           /\ sealed' = sealed \cup {t0} \cup (IF Bolt8 THEN {} ELSE {c0})
           /\ UNCHANGED <<setup, calls, session>>
  <2>1. m0.e.owner # "responder"
    <3>1. m0 \in In(wire["responder"])
      BY <1>0, <1>1, <1>2, TailIn, TypeOKIs DEF SideOK
    <3> QED BY <1>0, <3>1 DEF KeysInv, Keyed, OthersKeys
  <2>2. PICK m, rs, e, x, y, c, z, t, a, r :
          /\ m = m0 /\ rs = rs0 /\ e = e0 /\ x = x0 /\ y = y0 /\ c = c0
          /\ z = z0 /\ t = t0 /\ a = a0 /\ r = calls["responder"]
    OBVIOUS
  <2>3. /\ e = Ephemeral("responder", calls["responder"])
        /\ x = First(rs, m.e, Secret(rs, m.e))
        /\ y = Second(AfterFirst(x, m.t), e, Secret(e, m.e))
        /\ c = IF Bolt8 THEN NoCipher ELSE Seal(y, 0, rs)
        /\ t = Seal(SecondStatic(y, c, Secret(rs, m.e)), 0, setup.payload)
        /\ a.e = e
    BY <2>2
  <2>4. /\ ReadAndWrite("responder", a)
        /\ sealed' = sealed \cup {t} \cup (IF Bolt8 THEN {} ELSE {c})
        /\ m.e.owner # "responder"
    BY <1>4, <2>1, <2>2
  <2> HIDE DEF m0, rs0, x0, e0, y0, c0, z0, t0, a0
  <2>5. /\ ByResponder(t, r) /\ r = calls["responder"]
        /\ ~Bolt8 => ByResponder(c, r) /\ ~SameUse(c, t)
    BY <1>1, <2>2, <2>3, <2>4, AnswerKeys
  <2>6. /\ calls' = calls /\ setup' = setup /\ Bolt8' = Bolt8
        /\ pc'["responder"] = "act3" /\ pc'["initiator"] = pc["initiator"]
        /\ st'["initiator"] = st["initiator"]
    BY <1>0, <1>1, <1>4, TypeOKIs DEF Bolt8
  <2>7. Onward BY <1>1, <2>6, CallsAre DEF Onward, Side
  <2>8. OthersKeys'
    <3>1. /\ In(wire'["responder"]) \subseteq In(wire["responder"])
          /\ In(wire'["initiator"]) \subseteq In(wire["initiator"]) \cup {a}
      BY <1>0, <1>1, <1>2, <2>4, ReadAndWriteIn
    <3>2. a.e.owner # "initiator" BY <2>3, EphemeralIs
    <3>3. \A s \in Side : In(wire[s])' = In(wire'[s]) BY DEF In
    <3> QED BY <1>0, <3>1, <3>2, <3>3 DEF KeysInv, Keyed, OthersKeys, Side
  <2>9. OwnKey' BY <2>6 DEF KeysInv, Keyed, OwnKey
  <2>10. \A b \in sealed' : SealedBy(b)'
    <3>1. \A b \in sealed : SealedBy(b)'
      BY <1>1, <2>7, SealsStay DEF KeysInv, Keyed
    <3>2. r \in 0..calls'["responder"] BY <1>1, <2>5, <2>6, CallsAre
    <3>3. ByResponder(t, r)' /\ (~Bolt8 => ByResponder(c, r)')
      BY <2>5, <2>6, SameSealer
    <3>4. SealedBy(t)' BY <2>6, <3>2, <3>3 DEF SealedBy
    <3>5. ~Bolt8 => SealedBy(c)' BY <2>6, <3>2, <3>3 DEF SealedBy
    <3> QED BY <2>4, <3>1, <3>4, <3>5
  <2>11. NonceUsedOnce'
    <3>1. PICK new : new = {t} \cup (IF Bolt8 THEN {} ELSE {c})
      OBVIOUS
    <3>2. \A b \in new : ByResponder(b, calls["responder"])
      BY <2>5, <3>1
    <3>3. \A b \in new, d \in sealed : ~SameUse(b, d)
      BY <1>1, <1>2, <3>2, AnswerIsFresh DEF KeysInv, Keyed
    <3>4. \A b, d \in new : SameUse(b, d) => b = d
      BY <2>5, <3>1 DEF SameUse
    <3>5. sealed' = sealed \cup new BY <2>4, <3>1
    <3> QED BY <3>3, <3>4, <3>5, FreshSeals DEF KeysInv
  <2> QED BY <2>8, <2>9, <2>10, <2>11 DEF KeysInv, Keyed
<1> QED BY <1>3, <1>4 DEF ReadAct1

\* The initiator's last message: its static key under the key of the second
\* tag and the next nonce, and a tag under a key of its own.
LEMMA FinalKeys ==
  ASSUME TypeOK, NEW m, m.e.owner # "initiator", NEW h, NEW rs,
         NEW own, own = Ephemeral("initiator", calls["initiator"]),
         Bolt8 => rs = setup.rstatic,
         NEW i, i = [ h |-> h, own |-> own,
                      ck |-> IF Bolt8 THEN <<Secret(own, setup.rstatic)>> ELSE <<>> ],
         NEW y, y = Second(i, m.e, Secret(own, m.e)),
         NEW x, x = MixHash(SecondStatic(y, m.s, Secret(own, rs)), m.t),
         NEW c, c = Seal(x, StaticNonce, Static("initiator")),
         NEW t, t = Seal(Third(x, c, Secret(Static("initiator"), m.e)), 0, Empty)
  PROVE  /\ ByInitiator(c, calls["initiator"])
         /\ ByInitiator(t, calls["initiator"])
         /\ ~SameUse(c, t)
<1> DEFINE ee == Secret(own, m.e)
           es == Secret(own, rs)
           se == Secret(Static("initiator"), m.e)
           k == Chaining(own, m.e, es)
<1>1. y.ck = Append(i.ck, ee)
  BY DEF Second, MixHash, MixKey
<1>2. x.ck = k
  <2>1. CASE Bolt8
    <3>1. i.ck = <<es>> BY <2>1
    <3>2. y.ck = <<es, ee>>
      <4> HIDE DEF es, ee
      <4> QED BY ONLY <1>1, <3>1, MixedTwice
    <3>3. x.ck = y.ck BY <2>1 DEF SecondStatic, Second, MixHash, MixKey
    <3> QED BY <2>1, <3>2, <3>3 DEF Chaining
  <2>2. CASE ~Bolt8
    <3>1. i.ck = <<>> BY <2>2
    <3>2. y.ck = <<ee>>
      <4> HIDE DEF es, ee
      <4> QED BY ONLY <1>1, <3>1, MixedTwice
    <3>3. x.ck = Append(y.ck, es)
      BY <2>2 DEF SecondStatic, Second, MixHash, MixKey
    <3>4. x.ck = <<ee, es>>
      <4> HIDE DEF es, ee
      <4> QED BY ONLY <3>2, <3>3, MixedTwice
    <3> QED BY <2>2, <3>4 DEF Chaining
  <2> QED BY <2>1, <2>2
<1>3. c.nonce = 1 /\ c.key = k BY <1>2 DEF Seal, StaticNonce
<1>4. t.nonce = 0 /\ t.key = Append(k, se)
  <2>1. x.ck = k /\ DOMAIN x = {"h", "own", "ck"}
    BY <1>2 DEF MixHash, SecondStatic, Second, MixKey
  <2>2. Third(x, c, se).ck = Append(k, se)
    <3> HIDE DEF k, se
    <3> QED BY <2>1 DEF Third, MixHash, MixKey
  <2> QED BY <2>2 DEF Seal
<1>5. t.key = <<k[1], k[2], se>>
  <2>1. k = <<k[1], k[2]>> BY DEF Chaining
  <2> HIDE DEF k, se
  <2>2. Append(<<k[1], k[2]>>, se) = <<k[1], k[2], se>> BY MixedTwice
  <2> QED BY <1>4, <2>1, <2>2
<1>6. ByInitiator(c, calls["initiator"])
  <2> HIDE DEF es
  <2> QED BY <1>3 DEF ByInitiator
<1>7. ByInitiator(t, calls["initiator"])
  <2>1. PICK j, v, u : j = m.e /\ v = es /\ u = se
    OBVIOUS
  <2>2. PICK g : g = Chaining(Ephemeral("initiator", calls["initiator"]), j, v)
    OBVIOUS
  <2>3. t.nonce = 0 BY <1>4
  <2>4. j.owner # "initiator" BY <2>1
  <2>5. k = g BY <2>1, <2>2
  <2>6. t.key = <<g[1], g[2], u>>
    <3> HIDE DEF k, se
    <3> QED BY <1>5, <2>1, <2>5
  <2> QED BY ONLY <2>2, <2>3, <2>4, <2>6 DEF ByInitiator
<1> QED BY <1>3, <1>4, <1>6, <1>7 DEF SameUse

LEMMA ReadAct2Keys == Inv /\ KeysInv /\ ReadAct2 => KeysInv'
<1> SUFFICES ASSUME Inv, KeysInv, ReadAct2 PROVE KeysInv'
  OBVIOUS
<1> DEFINE m0 == Head(wire["initiator"])
           i0 == st["initiator"]
           y0 == Second(i0, m0.e, Secret(i0.own, m0.e))
           rs0 == IF Bolt8 THEN setup.rstatic ELSE m0.s.plain
           z0 == SecondStatic(y0, m0.s, Secret(i0.own, rs0))
           x0 == MixHash(z0, m0.t)
           c0 == Seal(x0, StaticNonce, Static("initiator"))
           w0 == Third(x0, c0, Secret(Static("initiator"), m0.e))
           t0 == Seal(w0, 0, Empty)
           a0 == [act |-> "act3", ok |-> TRUE, e |-> Stray, s |-> c0, t |-> t0]
<1>0. "initiator" \in Side /\ "responder" \in Side
      /\ Peer("initiator") = "responder" BY DEF Side, Peer
<1>1. TypeOK BY DEF Inv
<1>2. pc["initiator"] = "act2" /\ wire["initiator"] # <<>>
  BY DEF ReadAct2, Arrived
<1>3. CASE Fail("initiator") /\ Read("initiator")
  BY <1>0, <1>2, <1>3, FailKeys DEF Waiting
<1>4. CASE /\ pc' = [pc EXCEPT !["initiator"] = "done"]
           /\ ReadAndWrite("initiator", a0)
           /\ sealed' = sealed \cup {c0, t0}
           /\ UNCHANGED <<setup, calls>>
  <2>1. m0.e.owner # "initiator"
    <3>1. m0 \in In(wire["initiator"])
      BY <1>0, <1>1, <1>2, TailIn, TypeOKIs DEF SideOK
    <3> QED BY <1>0, <3>1 DEF KeysInv, Keyed, OthersKeys
  <2>2. PICK h, own :
          /\ own = Ephemeral("initiator", calls["initiator"])
          /\ i0 = [ h |-> h, own |-> own,
                    ck |-> IF Bolt8 THEN <<Secret(own, setup.rstatic)>> ELSE <<>> ]
    BY <1>2 DEF KeysInv, Keyed, OwnKey
  <2>3. PICK m, i, rs, y, x, c, t, a, r :
          /\ m = m0 /\ i = i0 /\ rs = rs0 /\ y = y0 /\ x = x0 /\ c = c0
          /\ t = t0 /\ a = a0 /\ r = calls["initiator"]
    OBVIOUS
  <2>4. i0.own = own BY <2>2
  <2>5. /\ Bolt8 => rs = setup.rstatic
        /\ y = Second(i, m.e, Secret(own, m.e))
        /\ x = MixHash(SecondStatic(y, m.s, Secret(own, rs)), m.t)
        /\ c = Seal(x, StaticNonce, Static("initiator"))
        /\ t = Seal(Third(x, c, Secret(Static("initiator"), m.e)), 0, Empty)
        /\ a.e = Stray
    BY <2>3, <2>4
  <2>6. /\ ReadAndWrite("initiator", a)
        /\ sealed' = sealed \cup {c, t}
        /\ m.e.owner # "initiator"
    BY <1>4, <2>1, <2>3
  <2> HIDE DEF m0, i0, y0, rs0, z0, x0, c0, w0, t0, a0
  <2>7. /\ ByInitiator(c, r) /\ ByInitiator(t, r) /\ r = calls["initiator"]
        /\ ~SameUse(c, t)
    BY <1>1, <2>2, <2>3, <2>5, <2>6, FinalKeys
  <2>8. /\ calls' = calls /\ setup' = setup /\ Bolt8' = Bolt8
        /\ pc'["initiator"] = "done" /\ pc'["responder"] = pc["responder"]
    BY <1>0, <1>1, <1>4, TypeOKIs DEF Bolt8
  <2>9. Onward BY <1>1, <2>8, CallsAre DEF Onward, Side
  <2>10. OthersKeys'
    <3>1. /\ In(wire'["initiator"]) \subseteq In(wire["initiator"])
          /\ In(wire'["responder"]) \subseteq In(wire["responder"]) \cup {a}
      BY <1>0, <1>1, <1>2, <2>6, ReadAndWriteIn
    <3>2. a.e.owner # "responder" BY <2>5 DEF Stray, Key
    <3>3. \A s \in Side : In(wire[s])' = In(wire'[s]) BY DEF In
    <3> QED BY <1>0, <3>1, <3>2, <3>3 DEF KeysInv, Keyed, OthersKeys, Side
  <2>11. OwnKey' BY <2>8 DEF OwnKey
  <2>12. \A b \in sealed' : SealedBy(b)'
    <3>1. \A b \in sealed : SealedBy(b)'
      BY <1>1, <2>9, SealsStay DEF KeysInv, Keyed
    <3>2. r \in 0..calls'["initiator"] BY <1>1, <2>7, <2>8, CallsAre
    <3>3. ByInitiator(c, r)' /\ ByInitiator(t, r)'
      BY <2>7, <2>8, SameSealer
    <3>4. SealedBy(c)' /\ SealedBy(t)' BY <2>8, <3>2, <3>3 DEF SealedBy
    <3> QED BY <2>6, <3>1, <3>4
  <2>13. NonceUsedOnce'
    <3>1. PICK new : new = {c, t}
      OBVIOUS
    <3>2. \A b \in new, d \in sealed : ~SameUse(b, d)
      BY <1>1, <1>2, <2>7, <3>1, LastIsFresh DEF KeysInv, Keyed
    <3>3. \A b, d \in new : SameUse(b, d) => b = d
      BY <2>7, <3>1 DEF SameUse
    <3>4. sealed' = sealed \cup new BY <2>6, <3>1
    <3> QED BY <3>2, <3>3, <3>4, FreshSeals DEF KeysInv
  <2> QED BY <2>10, <2>11, <2>12, <2>13 DEF KeysInv, Keyed
<1> QED BY <1>3, <1>4 DEF ReadAct2

LEMMA ReadAct3Keys == Inv /\ KeysInv /\ ReadAct3 => KeysInv'
<1> SUFFICES ASSUME Inv, KeysInv, ReadAct3 PROVE KeysInv'
  OBVIOUS
<1>0. "initiator" \in Side /\ "responder" \in Side BY DEF Side
<1>1. TypeOK BY DEF Inv
<1>2. pc["responder"] = "act3" /\ wire["responder"] # <<>> /\ Read("responder")
  BY DEF ReadAct3, Arrived
<1>3. CASE Fail("responder")
  BY <1>0, <1>2, <1>3, FailKeys DEF Waiting
<1>4. CASE /\ \E w : st' = [st EXCEPT !["responder"] = w]
           /\ pc' = [pc EXCEPT !["responder"] = "done"]
           /\ UNCHANGED <<setup, calls, sealed>>
  <2>1. /\ pc'["responder"] = "done" /\ pc'["initiator"] = pc["initiator"]
        /\ st'["initiator"] = st["initiator"]
    BY <1>0, <1>1, <1>4, TypeOKIs
  <2>2. Onward BY <1>1, <1>4, <2>1, CallsAre DEF Onward, Side
  <2>3. \A s \in Side : In(wire'[s]) \subseteq In(wire[s])
    BY <1>0, <1>1, <1>2, ReadIn
  <2> QED BY <1>1, <1>4, <2>1, <2>2, <2>3, QuietKeys
<1> QED BY <1>3, <1>4 DEF ReadAct3

\* No altered message carries an ephemeral key of its reader.
LEMMA AlterKeys ==
  ASSUME NEW s \in Side
  PROVE  Inv /\ KeysInv /\ Alter(s) => KeysInv'
<1> SUFFICES ASSUME Inv, KeysInv, Alter(s) PROVE KeysInv'
  OBVIOUS
<1> DEFINE m0 == Head(wire[s])
<1>1. TypeOK /\ IsSeq(wire[s]) /\ DOMAIN wire = Side
  BY TypeOKIs DEF Inv, SideOK
<1>2. /\ UNCHANGED <<setup, pc, calls, st, sealed>>
      /\ wire[s] # <<>>
  BY DEF Alter
<1>3. PICK a \in {[m0 EXCEPT !.ok = FALSE], [m0 EXCEPT !.e = Stray],
                  [m0 EXCEPT !.s = NoCipher], [m0 EXCEPT !.t = NoCipher]} :
        wire' = [wire EXCEPT ![s][1] = a]
  BY DEF Alter
<1>4. m0 \in In(wire[s]) BY <1>1, <1>2, TailIn
<1>5. m0.e.owner # s /\ IsMessage(m0)
  BY <1>4 DEF Inv, Genuine, FromResponder, FromInitiator, Side,
              KeysInv, Keyed, OthersKeys
<1> HIDE DEF m0
<1>6. a.e = m0.e \/ a.e = Stray
  BY <1>3, <1>5 DEF IsMessage
<1>7. a.e.owner # s BY <1>5, <1>6 DEF Stray, Key, Side
<1>8. OthersKeys'
  <2>1. wire'[s] = [wire[s] EXCEPT ![1] = a] BY <1>1, <1>3
  <2>2. \A t \in Side \ {s} : wire'[t] = wire[t] BY <1>1, <1>3
  <2>3. In(wire'[s]) \subseteq In(wire[s]) \cup {a}
    BY <1>1, <1>2, <2>1, ReplaceIn
  <2>4. \A t \in Side : In(wire[t])' = In(wire'[t]) BY DEF In
  <2> QED BY <1>7, <2>2, <2>3, <2>4 DEF KeysInv, Keyed, OthersKeys
<1>9. OwnKey' BY <1>2 DEF KeysInv, Keyed, OwnKey, Bolt8
<1>10. Onward BY <1>1, <1>2, CallsAre DEF Onward, Side
<1>11. \A b \in sealed' : SealedBy(b)'
  BY <1>1, <1>2, <1>10, SealsStay DEF KeysInv, Keyed
<1>12. NonceUsedOnce' BY <1>2 DEF KeysInv, NonceUsedOnce
<1> QED BY <1>8, <1>9, <1>11, <1>12 DEF KeysInv, Keyed

LEMMA StepKeys == Inv /\ KeysInv /\ [Next]_vars => KeysInv'
<1> SUFFICES ASSUME Inv, KeysInv, [Next]_vars PROVE KeysInv'
  OBVIOUS
<1>1. TypeOK BY DEF Inv
<1>2. CASE StartInitiator BY <1>2, StartInitiatorKeys
<1>3. CASE StartResponder BY <1>3, StartResponderKeys
<1>4. CASE ReadAct1 BY <1>4, ReadAct1Keys
<1>5. CASE ReadAct2 BY <1>5, ReadAct2Keys
<1>6. CASE ReadAct3 BY <1>6, ReadAct3Keys
<1>7. ASSUME NEW s \in Side,
             ReadMisframed(s) \/ ReadTimeout(s) \/ LosesConnection(s)
      PROVE  KeysInv'
  BY <1>7, FailKeys DEF ReadMisframed, ReadTimeout, LosesConnection
<1>8. ASSUME NEW s \in Side, Close(s) PROVE KeysInv'
  <2>1. UNCHANGED <<setup, calls, st, wire, sealed>>
        /\ \A t \in Side : pc'[t] = IF t = s THEN "closed" ELSE pc[t]
    BY <1>1, <1>8, TypeOKIs DEF Close
  <2>2. Onward BY <1>1, <2>1, CallsAre DEF Onward, Side
  <2> QED BY <1>1, <2>1, <2>2, QuietKeys DEF Side
<1>9. ASSUME NEW s \in Side, Alter(s) PROVE KeysInv' BY <1>9, AlterKeys
<1>10. CASE UNCHANGED vars
  <2>1. Onward BY <1>1, <1>10, CallsAre DEF Onward, Side, vars
  <2> QED BY <1>1, <1>10, <2>1, QuietKeys DEF vars
<1> QED BY <1>2, <1>3, <1>4, <1>5, <1>6, <1>7, <1>8, <1>9, <1>10 DEF Next

\* In the handshakes no two texts are sealed under one key and nonce, however
\* often BOLT-8's is run again and whatever is altered on the wire: each seal's
\* key is of the one run that made it.
THEOREM SealsOnce == Spec => []NonceUsedOnce
<1>1. KeysInv => NonceUsedOnce BY DEF KeysInv
<1> QED BY <1>1, InitInv, StepInv, InitKeys, StepKeys, PTL DEF Spec
=============================================================================
