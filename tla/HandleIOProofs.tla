--------------------------- MODULE HandleIOProofs ---------------------------
(***************************************************************************)
(* What holds of HandleIO for every set of modes and any number of chunks: *)
(* its types, that a half-close loses nothing, and that no connection is   *)
(* closed under a direction that still runs.                               *)
(***************************************************************************)
EXTENDS HandleIO, TLAPS

-----------------------------------------------------------------------------
(* The inductive invariant.                                                *)

\* A loop that reads has written all it has read; one that writes, all but one.
Flow ==
  \A d \in Dir :
    /\ put[d] <= taken[d] /\ taken[d] <= produced[d]
    /\ pc[d] \in {"idle", "read"} => put[d] = taken[d]
    /\ pc[d] = "write" => taken[d] = put[d] + 1

\* handleIO starts the loops once and returns when both have ended.
Stages ==
  \A d \in Dir : /\ main = "dial" <=> pc[d] = "idle"
                 /\ main = "returned" => Ended(d)

\* Who has closed what.
Closings ==
  /\ (mode.conn = "tcp" /\ timer # "fired") =>
       /\ ~connOpen => \A d \in Dir : Ended(d)
       /\ ~srcOpen => main = "returned"
       /\ ~sinkOpen => Ended("RCV")
  /\ ~connWrite => mode.conn = "tcp" /\ Ended("SNT")
  /\ main = "returned" => ~connOpen
  /\ main \in {"dial", "first"} => timer = "off"

\* The handshake's mutex is held by a loop inside Read or Write.
Mutex ==
  /\ hs \in {"reading", "writing"} <=> holder \in Dir
  /\ \A d \in Dir : holder = d => InConn(d)
  /\ hs = "writing" => hello = "consumed"

\* A handshake that has failed cannot get through any more: the peer's message
\* is gone or will never come.
Hopeless ==
  /\ hs \in {"idle", "reading"}
  /\ hello \in {"consumed", "refused"} \/ (hello = "unsent" /\ eof["RCV"])

Delivered(d) == eof[d] /\ put[d] = produced[d]
Undisturbed == mode.conn = "tcp" /\ reset = "none" /\ timer # "fired"
DialFailed == main = "returned" /\ srcOpen

\* A loop that has ended has delivered its whole stream, or there is no session.
Finished ==
  (Undisturbed /\ ~DialFailed) =>
    \A d \in Dir : pc[d] \in {"signal", "ended"} => Delivered(d) \/ Hopeless

Inv == TypeOK /\ Flow /\ Stages /\ Closings /\ Mutex /\ Finished

-----------------------------------------------------------------------------
(* The initial states.                                                     *)

\* A connection starts in a state of the invariant.
LEMMA InitInv == Init => Inv
<1>. SUFFICES ASSUME Init PROVE Inv
  OBVIOUS
<1>1. mode \in Mode
  BY ModesAssumption DEF Init
<1>2. TypeOK
  BY <1>1, BoundsAssumption DEF Init, TypeOK, Mode, Dir
<1>3. Flow
  BY DEF Init, Flow, Dir
<1>4. Stages
  BY <1>1 DEF Init, Stages, Dir, Mode
<1>5. Closings /\ Mutex /\ Finished
  BY DEF Init, Closings, Mutex, Finished, Dir
<1>. QED
  BY <1>2, <1>3, <1>4, <1>5 DEF Inv

-----------------------------------------------------------------------------
(* The steps.                                                              *)

\* Router and proxyConn keep the invariant.
LEMMA DialInv ==
  ASSUME Inv, DialBackend \/ DialFails
  PROVE  Inv'
<1>. USE DEF Inv, ends, handshake
<1>1. CASE DialBackend
  <2>0. TypeOK'
    BY <1>1 DEF DialBackend, TypeOK
  <2>1. Flow'
    BY <1>1 DEF DialBackend, Flow, Stages
  <2>2. Stages' /\ Closings'
    BY <1>1 DEF DialBackend, Stages, Closings, Ended, Dir
  <2>3. Mutex'
    BY <1>1 DEF DialBackend, Stages, Mutex, InConn, Dir
  <2>4. Finished'
    BY <1>1 DEF DialBackend, Finished
  <2>. QED
    BY <2>0, <2>1, <2>2, <2>3, <2>4
<1>2. CASE DialFails
  <2>0. TypeOK'
    <3>1. pc' \in [Dir -> {"idle", "read", "write", "signal", "ended"}]
      BY <1>2 DEF DialFails
    <3>2. /\ main' \in {"dial", "first", "second", "returned"} /\ connOpen' \in BOOLEAN
          /\ UNCHANGED <<mode, produced, taken, put, eof, connWrite, srcOpen, sinkOpen>>
          /\ UNCHANGED <<hello, hs, holder, timer, reset>>
      BY <1>2 DEF DialFails
    <3>3. TypeOK
      OBVIOUS
    <3>. QED
      BY ONLY <3>1, <3>2, <3>3 DEF TypeOK
  <2>1. Flow'
    BY <1>2 DEF DialFails, Flow
  <2>2. Stages' /\ Closings'
    BY <1>2 DEF DialFails, Stages, Closings, Ended, Dir
  <2>3. Mutex'
    BY <1>2 DEF DialFails, Stages, Mutex, InConn, Dir
  <2>4. Finished'
    BY <1>2 DEF DialFails, Finished, Closings, DialFailed, Undisturbed
  <2>. QED
    BY <2>0, <2>1, <2>2, <2>3, <2>4
<1>. QED
  BY <1>1, <1>2

\* The lazy handshake keeps the invariant, when it fails too.
LEMMA HandshakeInv ==
  ASSUME Inv, NEW d \in Dir,
         \/ EnterHandshake(d) \/ HandshakeRead(d) \/ HandshakeWrite(d)
         \/ HandshakeRefuses(d) \/ HandshakeFails(d)
  PROVE  Inv'
<1>. USE DEF Inv, ends, LeaveHandshake
<1>1. CASE EnterHandshake(d) \/ HandshakeRead(d) \/ HandshakeWrite(d)
  <2>1. TypeOK' /\ Flow'
    BY <1>1 DEF EnterHandshake, HandshakeRead, HandshakeWrite, TypeOK, Flow
  <2>2. Stages' /\ Closings'
    BY <1>1 DEF EnterHandshake, HandshakeRead, HandshakeWrite, Stages, Closings, Ended
  <2>3. Mutex'
    BY <1>1 DEF EnterHandshake, HandshakeRead, HandshakeWrite, Mutex, InConn, Dir
  <2>4. Finished'
    BY <1>1 DEF EnterHandshake, HandshakeRead, HandshakeWrite, Finished, Undisturbed,
                DialFailed, Hopeless, Delivered
  <2>. QED
    BY <2>1, <2>2, <2>3, <2>4
<1>2. CASE HandshakeFails(d)
  <2>1. /\ pc[d] \in {"read", "write"}
        /\ main # "dial"
    BY <1>2 DEF HandshakeFails, Mutex, InConn, Stages
  <2>2. TypeOK' /\ Flow'
    BY <1>2 DEF HandshakeFails, TypeOK, Flow
  <2>3. Stages' /\ Closings'
    BY <1>2, <2>1 DEF HandshakeFails, Stages, Closings, Ended, TypeOK
  <2>4. Mutex'
    BY <1>2 DEF HandshakeFails, Mutex, Dir
  <2>5. Undisturbed' => Hopeless'
    BY <1>2, <2>1 DEF HandshakeFails, Undisturbed, Hopeless, Closings, Ended, Mutex, TypeOK
  <2>6. Finished'
    BY <2>5 DEF Finished
  <2>. QED
    BY <2>2, <2>3, <2>4, <2>6
<1>3. CASE HandshakeRefuses(d)
  <2>1. /\ pc[d] \in {"read", "write"}
        /\ main # "dial"
    BY <1>3 DEF HandshakeRefuses, Mutex, InConn, Stages
  <2>2. TypeOK' /\ Flow'
    BY <1>3 DEF HandshakeRefuses, TypeOK, Flow
  <2>3. Stages' /\ Closings'
    BY <1>3, <2>1 DEF HandshakeRefuses, Stages, Closings, Ended, TypeOK
  <2>4. Mutex'
    BY <1>3 DEF HandshakeRefuses, Mutex, Dir
  <2>5. Hopeless'
    BY <1>3 DEF HandshakeRefuses, Hopeless
  <2>6. Finished'
    BY <2>5 DEF Finished
  <2>. QED
    BY <2>2, <2>3, <2>4, <2>6
<1>. QED
  BY <1>1, <1>2, <1>3

\* A loop's chunks keep the invariant.
LEMMA ChunkInv ==
  ASSUME Inv, NEW d \in Dir, ReadChunk(d) \/ WriteChunk(d)
  PROVE  Inv'
<1>. USE DEF Inv, ends, handshake
<1>1. CASE ReadChunk(d)
  <2>1. TypeOK'
    <3>1. taken[d] + 1 \in 0..MaxChunks
      BY <1>1, BoundsAssumption DEF TypeOK, ReadChunk
    <3>. QED
      BY <1>1, <3>1 DEF TypeOK, ReadChunk
  <2>2. Flow'
    BY <1>1 DEF ReadChunk, Flow, TypeOK
  <2>3. Stages' /\ Closings'
    BY <1>1 DEF ReadChunk, Stages, Closings, Ended, TypeOK
  <2>4. Mutex'
    BY <1>1 DEF ReadChunk, Mutex, InConn, Ready, TypeOK, Dir
  <2>5. Finished'
    BY <1>1 DEF ReadChunk, Finished, Undisturbed, DialFailed, Hopeless, Delivered, TypeOK
  <2>. QED
    BY <2>1, <2>2, <2>3, <2>4, <2>5
<1>2. CASE WriteChunk(d)
  <2>0. put[d] + 1 = taken[d]
    BY <1>2 DEF WriteChunk, Flow, TypeOK
  <2>1. TypeOK'
    BY <1>2, <2>0 DEF TypeOK, WriteChunk
  <2>2. Flow'
    BY <1>2, <2>0 DEF WriteChunk, Flow, TypeOK
  <2>3. Stages' /\ Closings'
    BY <1>2 DEF WriteChunk, Stages, Closings, Ended, TypeOK
  <2>4. Mutex'
    BY <1>2 DEF WriteChunk, Mutex, InConn, SinkReady, TypeOK, Dir
  <2>5. Undisturbed => pc'[d] = "read"
    BY <1>2 DEF WriteChunk, Undisturbed, Closings, Stages, SourceOpen, Ended, TypeOK
  <2>6. ~DialFailed
    BY <1>2 DEF WriteChunk, DialFailed, Stages, Ended
  <2>7. Finished'
    <3>. SUFFICES ASSUME Undisturbed', NEW f \in Dir, pc'[f] \in {"signal", "ended"}
                  PROVE  Delivered(f)' \/ Hopeless'
      BY DEF Finished
    <3>1. Undisturbed /\ f # d
      BY <1>2, <2>5 DEF WriteChunk, Undisturbed
    <3>. QED
      BY <1>2, <2>6, <3>1 DEF WriteChunk, Finished, Hopeless, Delivered, TypeOK
  <2>. QED
    BY <2>1, <2>2, <2>3, <2>4, <2>7
<1>. QED
  BY <1>1, <1>2

\* The end of a loop keeps the invariant.
LEMMA EndInv ==
  ASSUME Inv, NEW d \in Dir, ReadEnds(d) \/ WriteFails(d) \/ SignalEndOfWrite(d)
  PROVE  Inv'
<1>. USE DEF Inv, ends, handshake
<1>1. CASE ReadEnds(d) \/ WriteFails(d)
  <2>1. TypeOK' /\ Flow'
    BY <1>1 DEF TypeOK, ReadEnds, WriteFails, Flow
  <2>2. Stages' /\ Closings'
    <3>1. /\ pc[d] \in {"read", "write"} /\ pc' = [pc EXCEPT ![d] = "signal"]
          /\ UNCHANGED <<mode, main, connOpen, connWrite, srcOpen, sinkOpen, timer>>
      BY <1>1 DEF ReadEnds, WriteFails
    <3>2. Stages'
      BY <3>1 DEF Stages, Ended, TypeOK
    <3>3. \A f \in Dir : Ended(f) <=> Ended(f)'
      BY <3>1 DEF Ended, TypeOK
    <3>. QED
      BY <3>1, <3>2, <3>3 DEF Closings, Dir
  <2>3. Mutex'
    BY <1>1 DEF ReadEnds, WriteFails, Mutex, InConn, Ready, SinkReady, TypeOK, Dir
  <2>4. main \notin {"dial", "returned"}
    BY <1>1 DEF ReadEnds, WriteFails, Stages, Ended
  <2>5. Undisturbed => Delivered(d)
    <3>. SUFFICES ASSUME Undisturbed PROVE Delivered(d)
      OBVIOUS
    <3>1. connOpen /\ srcOpen /\ (d = "SNT" => connWrite) /\ (d = "RCV" => sinkOpen)
      BY <1>1, <2>4 DEF ReadEnds, WriteFails, Undisturbed, Closings, Ended, TypeOK
    <3>2. ReadEnds(d)
      BY <1>1, <3>1 DEF WriteFails, Undisturbed, SinkOpen, SinkReset, SourceReset, Dir
    <3>3. taken[d] = produced[d] /\ eof[d]
      BY <3>1, <3>2 DEF ReadEnds, Interrupted, SourceOpen, SourceReset, Undisturbed
    <3>. QED
      BY <3>2, <3>3 DEF ReadEnds, Flow, Delivered
  <2>6. Finished'
    <3>. SUFFICES ASSUME Undisturbed', NEW f \in Dir, pc'[f] \in {"signal", "ended"}
                  PROVE  Delivered(f)' \/ Hopeless'
      BY DEF Finished
    <3>1. Undisturbed /\ ~DialFailed
      BY <1>1, <2>4 DEF ReadEnds, WriteFails, Undisturbed, DialFailed
    <3>2. f # d => pc[f] \in {"signal", "ended"}
      BY <1>1 DEF ReadEnds, WriteFails, TypeOK
    <3>3. Delivered(f) \/ Hopeless
      BY <2>5, <3>1, <3>2 DEF Finished
    <3>. QED
      BY <1>1, <3>3 DEF ReadEnds, WriteFails, Hopeless, Delivered
  <2>. QED
    BY <2>1, <2>2, <2>3, <2>6
<1>2. CASE SignalEndOfWrite(d)
  <2>1. TypeOK'
    <3>1. pc' \in [Dir -> {"idle", "read", "write", "signal", "ended"}]
      BY <1>2 DEF TypeOK, SignalEndOfWrite
    <3>2. connOpen' \in BOOLEAN /\ connWrite' \in BOOLEAN /\ sinkOpen' \in BOOLEAN
      BY <1>2 DEF TypeOK, SignalEndOfWrite
    <3>. QED
      BY <1>2, <3>1, <3>2 DEF TypeOK, SignalEndOfWrite
  <2>6. Flow'
    BY <1>2 DEF TypeOK, SignalEndOfWrite, Flow
  <2>2. Stages'
    BY <1>2 DEF SignalEndOfWrite, Stages, Ended, TypeOK
  <2>3. Closings'
    BY <1>2 DEF SignalEndOfWrite, Closings, Ended, HalfCloses, TypeOK, Dir
  <2>4. Mutex'
    BY <1>2 DEF SignalEndOfWrite, Mutex, InConn, TypeOK, Dir
  <2>5. Finished'
    BY <1>2 DEF SignalEndOfWrite, Finished, Undisturbed, DialFailed, Hopeless, Delivered,
                TypeOK
  <2>. QED
    BY <2>1, <2>2, <2>3, <2>4, <2>5, <2>6
<1>. QED
  BY <1>1, <1>2

\* handleIO's own steps keep the invariant.
LEMMA MainInv ==
  ASSUME Inv, FirstEnds \/ TimerFires \/ SecondEnds
  PROVE  Inv'
<1>. USE DEF Inv, ends, handshake, FullClose
<1>1. CASE FirstEnds
  <2>1. TypeOK' /\ Flow' /\ Stages'
    BY <1>1 DEF FirstEnds, TypeOK, Flow, Stages, Ended
  <2>2. Closings'
    BY <1>1 DEF FirstEnds, Closings, Ended
  <2>3. Mutex' /\ Finished'
    BY <1>1 DEF FirstEnds, Mutex, InConn, Finished, Undisturbed, DialFailed, Hopeless, Delivered,
                Closings
  <2>. QED
    BY <2>1, <2>2, <2>3
<1>2. CASE TimerFires
  <2>1. TypeOK' /\ Flow' /\ Stages'
    BY <1>2 DEF TimerFires, TypeOK, Flow, Stages, Ended
  <2>2. Closings' /\ Mutex' /\ Finished'
    BY <1>2 DEF TimerFires, Closings, Ended, Mutex, InConn, Finished, Undisturbed
  <2>. QED
    BY <2>1, <2>2
<1>3. CASE SecondEnds
  <2>1. TypeOK' /\ Flow' /\ Stages'
    BY <1>3 DEF SecondEnds, TypeOK, Flow, Stages, Ended
  <2>2. Closings'
    BY <1>3 DEF SecondEnds, Closings, Ended, Dir
  <2>3. Mutex' /\ Finished'
    BY <1>3 DEF SecondEnds, Mutex, InConn, Finished, Undisturbed, DialFailed, Hopeless, Delivered,
                TypeOK
  <2>. QED
    BY <2>1, <2>2, <2>3
<1>. QED
  BY <1>1, <1>2, <1>3

\* The peer, the backend and the user keep the invariant.
LEMMA OutsideInv ==
  ASSUME Inv, PeerHello \/ Reset \/ \E d \in Dir : Produce(d) \/ EndStream(d)
  PROVE  Inv'
<1>. USE DEF Inv, ends, handshake
<1>1. CASE PeerHello
  BY <1>1 DEF PeerHello, TypeOK, Flow, Stages, Closings, Ended, Mutex, InConn, Finished,
              Undisturbed, DialFailed, Hopeless, Delivered
<1>2. CASE Reset
  BY <1>2 DEF Reset, TypeOK, Flow, Stages, Closings, Ended, Mutex, InConn, Finished,
              Undisturbed, DialFailed, Hopeless, Delivered
<1>3. ASSUME NEW d \in Dir, Produce(d)
      PROVE  Inv'
  <2>1. TypeOK'
    <3>1. produced[d] + 1 \in 0..MaxChunks
      BY <1>3, BoundsAssumption DEF TypeOK, Produce
    <3>. QED
      BY <1>3, <3>1 DEF TypeOK, Produce
  <2>2. Flow'
    BY <1>3 DEF Produce, Flow, TypeOK
  <2>3. Stages' /\ Closings' /\ Mutex'
    BY <1>3 DEF Produce, Stages, Closings, Ended, Mutex, InConn
  <2>4. Finished'
    BY <1>3 DEF Produce, Finished, Undisturbed, DialFailed, Hopeless, Delivered, TypeOK
  <2>. QED
    BY <2>1, <2>2, <2>3, <2>4
<1>4. ASSUME NEW d \in Dir, EndStream(d)
      PROVE  Inv'
  <2>1. TypeOK' /\ Flow'
    BY <1>4 DEF EndStream, TypeOK, Flow
  <2>2. Stages' /\ Closings' /\ Mutex'
    BY <1>4 DEF EndStream, Stages, Closings, Ended, Mutex, InConn
  <2>3. Finished'
    BY <1>4 DEF EndStream, Finished, Undisturbed, DialFailed, Hopeless, Delivered, TypeOK, Dir
  <2>. QED
    BY <2>1, <2>2, <2>3
<1>. QED
  BY <1>1, <1>2, <1>3, <1>4

\* Inv is inductive.
LEMMA StepInv == Inv /\ [Next]_vars => Inv'
<1>. SUFFICES ASSUME Inv, [Next]_vars
              PROVE  Inv'
  OBVIOUS
<1>1. ASSUME NEW d \in Dir, LoopStep(d)
      PROVE  Inv'
  BY <1>1, HandshakeInv, ChunkInv, EndInv DEF LoopStep
<1>2. CASE UNCHANGED vars
  BY <1>2 DEF vars, Inv, TypeOK, Flow, Stages, Closings, Ended, Mutex, InConn, Finished,
              Undisturbed, DialFailed, Hopeless, Delivered
<1>. QED
  BY <1>1, <1>2, DialInv, MainInv, OutsideInv DEF Next

-----------------------------------------------------------------------------
(* The theorems.                                                           *)

\* Every state of the relay is in the invariant.
LEMMA Invariance == Spec => []Inv
BY InitInv, StepInv, PTL DEF Spec

\* Every reachable state of the relay is of its type.
THEOREM TypeCorrect == Spec => []TypeOK
BY Invariance, PTL DEF Inv

\* handleIO does not leave an undisturbed session before both streams have ended
\* and every chunk of theirs has been passed on.
THEOREM NothingLost == Spec => []GracefulEnd
<1>1. Inv => GracefulEnd
  BY DEF Inv, GracefulEnd, Stages, Ended, Finished, Undisturbed, DialFailed, Hopeless,
         Delivered
<1>. QED
  BY <1>1, Invariance, PTL

\* The half-close of the secure connection comes after all of the source's data,
\* and only the safety timer closes a connection that has a half-close while one
\* of its directions still runs.
THEOREM NothingEarly == Spec => []OrderlyEnd
<1>1. ASSUME Inv, ~connWrite, reset = "none", timer # "fired", hs = "done", connOpen
      PROVE  put["SNT"] = produced["SNT"]
  BY <1>1 DEF Inv, Stages, Ended, Closings, Finished, Undisturbed, DialFailed,
              Hopeless, Delivered, Dir
<1>2. ASSUME Inv, ~connOpen, mode.conn = "tcp", timer # "fired"
      PROVE  \A d \in Dir : Ended(d)
  BY <1>2 DEF Inv, Closings
<1>3. Inv => OrderlyEnd
  BY <1>1, <1>2 DEF OrderlyEnd
<1>. QED
  BY <1>3, Invariance, PTL
=============================================================================
