------------------------------ MODULE HandleIO ------------------------------
(***************************************************************************)
(* The relay of one connection (pkg/noisecat/runners.go): Router, proxyConn *)
(* and handleIO with its two copy loops, the half-close that each of them   *)
(* ends with, and the safety timer that bounds the wait for the second.     *)
(*                                                                         *)
(* SNT copies the local source (a backend's TCP connection, or stdin) to   *)
(* the secure connection, RCV the secure connection to the local sink.     *)
(* On an accepted connection the Noise handshake has not run yet: the      *)
(* first Read or Write runs it, under a mutex.                             *)
(***************************************************************************)
EXTENDS Naturals

CONSTANTS
  Modes,         \* kinds of connection that a run considers
  TimerPatient,  \* the timer leaves the loops the time to do what they can
  MaxChunks      \* bound: chunks each source produces

Dir == {"SNT", "RCV"}
Other(d) == IF d = "SNT" THEN "RCV" ELSE "SNT"

\* local: "tcp" a proxied backend, "file" stdin and stdout;
\* conn: "tcp" has a half-close, "udp" has none;
\* lazy: an accepted connection, whose handshake is still to run.
Mode == [local : {"tcp", "file"}, conn : {"tcp", "udp"}, lazy : BOOLEAN]

ASSUME ModesAssumption == Modes \subseteq Mode
ASSUME BoundsAssumption == TimerPatient \in BOOLEAN /\ MaxChunks \in Nat

VARIABLES
  mode,      \* fixed for the connection
  main,      \* handleIO itself: which of its steps is next
  pc,        \* the copy loops
  produced,  \* chunks each loop's source has made available
  taken,     \* chunks the loop has read
  put,       \* chunks the loop has written to its destination
  eof,       \* the source has ended
  connOpen,  \* c.Conn is open
  connWrite, \* its write half is open
  srcOpen,   \* the local source is open
  sinkOpen,  \* the local sink's write half is open
  hello,     \* the peer's first handshake message: unsent, sent right or wrong,
             \* accepted ("consumed") or refused
  hs,        \* Handshake: how far the running call is, or "done"
  holder,    \* the loop inside Handshake, holding its mutex
  timer,     \* the safety timer
  reset      \* the connection that has been reset by its other end

vars == <<mode, main, pc, produced, taken, put, eof, connOpen, connWrite, srcOpen,
          sinkOpen, hello, hs, holder, timer, reset>>
env == <<produced, eof, hello, reset>>
handshake == <<hs, holder, hello>>
ends == <<connOpen, connWrite, srcOpen, sinkOpen>>

Init ==
  /\ mode \in Modes
  /\ main = IF mode.local = "tcp" THEN "dial" ELSE "first"
  /\ pc = [d \in Dir |-> IF mode.local = "tcp" THEN "idle" ELSE "read"]
  /\ produced = [d \in Dir |-> 0]
  /\ taken = [d \in Dir |-> 0]
  /\ put = [d \in Dir |-> 0]
  /\ eof = [d \in Dir |-> FALSE]
  /\ connOpen = TRUE /\ connWrite = TRUE
  /\ srcOpen = TRUE /\ sinkOpen = TRUE
  /\ hello = IF mode.lazy THEN "unsent" ELSE "consumed"
  /\ hs = IF mode.lazy THEN "idle" ELSE "done"
  /\ holder = "none"
  /\ timer = "off"
  /\ reset = "none"

-----------------------------------------------------------------------------
(* Router and proxyConn.                                                   *)

DialBackend ==
  /\ main = "dial"
  /\ main' = "first"
  /\ pc' = [d \in Dir |-> "read"]
  /\ UNCHANGED <<mode, produced, taken, put, eof, ends, handshake, timer, reset>>

\* The backend cannot be reached: Router's deferred Close.
DialFails ==
  /\ main = "dial"
  /\ main' = "returned"
  /\ pc' = [d \in Dir |-> "ended"]
  /\ connOpen' = FALSE
  /\ UNCHANGED <<mode, produced, taken, put, eof, connWrite, srcOpen, sinkOpen,
                 handshake, timer, reset>>

-----------------------------------------------------------------------------
(* The handshake that the first Read or Write of the connection runs.      *)

\* Loop d is inside a Read or a Write of the secure connection.
InConn(d) == pc[d] = IF d = "RCV" THEN "read" ELSE "write"

EnterHandshake(d) ==
  /\ InConn(d) /\ hs = "idle" /\ holder = "none"
  /\ holder' = d
  /\ hs' = "reading"
  /\ UNCHANGED <<mode, main, pc, produced, taken, put, eof, ends, hello, timer, reset>>

HandshakeRead(d) ==
  /\ holder = d /\ hs = "reading"
  /\ connOpen /\ reset # "conn" /\ hello = "sent"
  /\ hello' = "consumed"
  /\ hs' = "writing"
  /\ UNCHANGED <<mode, main, pc, produced, taken, put, eof, ends, holder, timer, reset>>

HandshakeWrite(d) ==
  /\ holder = d /\ hs = "writing"
  /\ connOpen /\ connWrite /\ reset # "conn"
  /\ hs' = "done"
  /\ holder' = "none"
  /\ UNCHANGED <<mode, main, pc, produced, taken, put, eof, ends, hello, timer, reset>>

\* The handshake fails: the loop's Read or Write returns the error.  The next
\* call starts another handshake on the same connection.
LeaveHandshake(d) ==
  /\ hs' = "idle"
  /\ holder' = "none"
  /\ pc' = [pc EXCEPT ![d] = "signal"]
  /\ UNCHANGED <<mode, main, produced, taken, put, eof, ends, timer, reset>>

\* What the peer has sent does not authenticate, and is not followed by another
\* message.
HandshakeRefuses(d) ==
  /\ holder = d /\ hs = "reading"
  /\ connOpen /\ reset # "conn" /\ hello = "wrong"
  /\ hello' = "refused"
  /\ LeaveHandshake(d)

HandshakeFails(d) ==
  /\ holder = d
  /\ \/ ~connOpen \/ reset = "conn"
     \/ hs = "reading" /\ hello \notin {"sent", "wrong"} /\ eof["RCV"]
     \/ hs = "writing" /\ ~connWrite
  /\ LeaveHandshake(d)
  /\ UNCHANGED hello

-----------------------------------------------------------------------------
(* copyIO: io.Copy reads a chunk, writes it, and so on.                    *)

SourceOpen(d) == IF d = "SNT" THEN srcOpen ELSE connOpen
SourceReset(d) == reset = IF d = "SNT" THEN "local" ELSE "conn"
SinkReset(d) == SourceReset(Other(d))
Ready(d) == IF d = "RCV" THEN hs = "done" ELSE TRUE
SinkReady(d) == IF d = "SNT" THEN hs = "done" ELSE TRUE
SinkOpen(d) == IF d = "SNT" THEN connOpen /\ connWrite ELSE sinkOpen

\* A Read on a closed connection returns; one that stdin has already begun
\* does not.
Interrupted(d) == ~SourceOpen(d) /\ (d = "RCV" \/ mode.local = "tcp")

\* Seeded bug: a chunk is forwarded that the source has not produced.
ReadChunkTooMany(d) ==
  /\ pc[d] = "read" /\ Ready(d)
  /\ ~Interrupted(d) /\ ~SourceReset(d)
  /\ taken[d] <= produced[d]
  /\ taken' = [taken EXCEPT ![d] = @ + 1]
  /\ pc' = [pc EXCEPT ![d] = "write"]
  /\ UNCHANGED <<mode, main, produced, put, eof, ends, handshake, timer, reset>>

ReadChunk(d) ==
  /\ pc[d] = "read" /\ Ready(d)
  /\ ~Interrupted(d) /\ ~SourceReset(d)
  /\ taken[d] < produced[d]
  /\ taken' = [taken EXCEPT ![d] = @ + 1]
  /\ pc' = [pc EXCEPT ![d] = "write"]
  /\ UNCHANGED <<mode, main, produced, put, eof, ends, handshake, timer, reset>>

\* Seeded bug: the end of the source overtakes what is still to be read.
ReadEndsEarly(d) ==
  /\ pc[d] = "read" /\ Ready(d)
  /\ Interrupted(d) \/ SourceReset(d) \/ eof[d]
  /\ pc' = [pc EXCEPT ![d] = "signal"]
  /\ UNCHANGED <<mode, main, produced, taken, put, eof, ends, handshake, timer, reset>>

ReadEnds(d) ==
  /\ pc[d] = "read" /\ Ready(d)
  /\ \/ Interrupted(d) \/ SourceReset(d)
     \/ taken[d] = produced[d] /\ eof[d]
  /\ pc' = [pc EXCEPT ![d] = "signal"]
  /\ UNCHANGED <<mode, main, produced, taken, put, eof, ends, handshake, timer, reset>>

\* The chunk is written; the next Read of a source closed meanwhile fails.
WriteChunk(d) ==
  /\ pc[d] = "write" /\ SinkReady(d)
  /\ SinkOpen(d) /\ ~SinkReset(d)
  /\ put' = [put EXCEPT ![d] = @ + 1]
  /\ pc' = [pc EXCEPT ![d] = IF SourceOpen(d) THEN "read" ELSE "signal"]
  /\ UNCHANGED <<mode, main, produced, taken, eof, ends, handshake, timer, reset>>

WriteFails(d) ==
  /\ pc[d] = "write" /\ SinkReady(d)
  /\ ~SinkOpen(d) \/ SinkReset(d)
  /\ pc' = [pc EXCEPT ![d] = "signal"]
  /\ UNCHANGED <<mode, main, produced, taken, put, eof, ends, handshake, timer, reset>>

\* Seeded bug: a wrapper around the connection hides its CloseWrite.
NoHalfClose == FALSE

\* The secure connection's CloseWrite shuts one half: TCP underneath.
HalfCloses == mode.conn = "tcp"

\* signalEndOfWrite(dst), then the result goes to the channel.
SignalEndOfWrite(d) ==
  /\ pc[d] = "signal"
  /\ pc' = [pc EXCEPT ![d] = "ended"]
  /\ IF d = "SNT"
     THEN /\ IF HalfCloses
             THEN connWrite' = FALSE /\ UNCHANGED connOpen
             ELSE connOpen' = FALSE /\ UNCHANGED connWrite
          /\ UNCHANGED sinkOpen
     ELSE sinkOpen' = FALSE /\ UNCHANGED <<connOpen, connWrite>>
  /\ UNCHANGED <<mode, main, produced, taken, put, eof, srcOpen, handshake, timer, reset>>

-----------------------------------------------------------------------------
(* handleIO after it has started the loops.                                *)

Ended(d) == pc[d] = "ended"

\* Seeded bug: the local endpoint is not closed.
CloseConnOnly == connOpen' = FALSE /\ UNCHANGED <<connWrite, srcOpen, sinkOpen>>

FullClose ==
  connOpen' = FALSE /\ srcOpen' = FALSE /\ sinkOpen' = FALSE /\ UNCHANGED connWrite

FirstEnds ==
  /\ main = "first"
  /\ \E d \in Dir : Ended(d)
  /\ main' = "second"
  /\ timer' = "armed"
  /\ UNCHANGED <<mode, pc, produced, taken, put, eof, ends, handshake, reset>>

\* Loop d waits: for the mutex, for the peer's handshake message or for data.
Waits(d) ==
  \/ Ended(d)
  \/ InConn(d) /\ hs # "done" /\ holder = Other(d)
  \/ /\ holder = d /\ hs = "reading"
     /\ connOpen /\ reset # "conn" /\ hello \notin {"sent", "wrong"} /\ ~eof["RCV"]
  \/ /\ pc[d] = "read" /\ Ready(d)
     /\ ~Interrupted(d) /\ ~SourceReset(d) /\ taken[d] = produced[d] /\ ~eof[d]

\* defaultHandleIOSafetyTimeout has passed since the first loop ended.
TimerFires ==
  /\ timer = "armed"
  /\ TimerPatient => \A d \in Dir : Waits(d)
  /\ timer' = "fired"
  /\ FullClose
  /\ UNCHANGED <<mode, main, pc, produced, taken, put, eof, handshake, reset>>

\* timer.Stop, fullClose, and the deferred Close of Router.
SecondEnds ==
  /\ main = "second"
  /\ \A d \in Dir : Ended(d)
  /\ main' = "returned"
  /\ timer' = IF timer = "armed" THEN "off" ELSE timer
  /\ FullClose
  /\ UNCHANGED <<mode, pc, produced, taken, put, eof, handshake, reset>>

-----------------------------------------------------------------------------
(* The peer, the backend and the user.                                     *)

PeerHello ==
  /\ hello = "unsent" /\ ~eof["RCV"]
  /\ hello' \in {"sent", "wrong"}
  /\ UNCHANGED <<mode, main, pc, produced, taken, put, eof, ends, hs, holder, timer, reset>>

\* A source writes a chunk, or ends its stream.  The peer writes no data before
\* it has the answer to its handshake message.
Produce(d) ==
  /\ ~eof[d] /\ produced[d] < MaxChunks
  /\ d = "RCV" => hs = "done"
  /\ produced' = [produced EXCEPT ![d] = @ + 1]
  /\ UNCHANGED <<mode, main, pc, taken, put, eof, ends, handshake, timer, reset>>

EndStream(d) ==
  /\ ~eof[d]
  /\ eof' = [eof EXCEPT ![d] = TRUE]
  /\ UNCHANGED <<mode, main, pc, produced, taken, put, ends, handshake, timer, reset>>

Reset ==
  /\ reset = "none"
  /\ reset' \in {"conn"} \cup (IF mode.local = "tcp" THEN {"local"} ELSE {})
  /\ UNCHANGED <<mode, main, pc, produced, taken, put, eof, ends, handshake, timer>>

LoopStep(d) ==
  \/ EnterHandshake(d) \/ HandshakeRead(d) \/ HandshakeWrite(d)
  \/ HandshakeRefuses(d) \/ HandshakeFails(d)
  \/ ReadChunk(d) \/ ReadEnds(d) \/ WriteChunk(d) \/ WriteFails(d)
  \/ SignalEndOfWrite(d)

Next ==
  \/ DialBackend \/ DialFails
  \/ \E d \in Dir : LoopStep(d) \/ Produce(d) \/ EndStream(d)
  \/ FirstEnds \/ TimerFires \/ SecondEnds
  \/ PeerHello \/ Reset

\* The process runs, its timer expires, and what is written is drained; the
\* peer, the backend and the user may fall silent.
Fairness ==
  /\ \A d \in Dir : WF_vars(LoopStep(d))
  /\ WF_vars(DialBackend \/ DialFails)
  /\ WF_vars(FirstEnds) /\ WF_vars(TimerFires) /\ WF_vars(SecondEnds)

Spec == Init /\ [][Next]_vars
FairSpec == Spec /\ Fairness

-----------------------------------------------------------------------------
TypeOK ==
  /\ mode \in Modes
  /\ main \in {"dial", "first", "second", "returned"}
  /\ pc \in [Dir -> {"idle", "read", "write", "signal", "ended"}]
  /\ produced \in [Dir -> 0..MaxChunks]
  /\ taken \in [Dir -> 0..MaxChunks] /\ put \in [Dir -> 0..MaxChunks]
  /\ eof \in [Dir -> BOOLEAN]
  /\ connOpen \in BOOLEAN /\ connWrite \in BOOLEAN
  /\ srcOpen \in BOOLEAN /\ sinkOpen \in BOOLEAN
  /\ hello \in {"unsent", "sent", "wrong", "refused", "consumed"}
  /\ hs \in {"idle", "reading", "writing", "done"}
  /\ holder \in Dir \cup {"none"}
  /\ timer \in {"off", "armed", "fired"}
  /\ reset \in {"none", "conn", "local"}

\* A half-close loses nothing: unless a connection was reset or the safety timer
\* ran out, handleIO leaves a connection with a half-close whose handshake got
\* through only when both streams have ended and every chunk has arrived.
GracefulEnd ==
  (/\ main = "returned" /\ ~srcOpen
   /\ hs = "done" /\ mode.conn = "tcp" /\ reset = "none" /\ timer # "fired")
    => \A d \in Dir : eof[d] /\ put[d] = produced[d]

\* Nothing ends early. The end of the stream is announced after its last chunk:
\* when the write half of the secure connection is shut, all that the local source
\* had written before it ended has been sent. And a connection with a half-close
\* is not closed under a direction that still runs, unless the safety timer has
\* run out.
OrderlyEnd ==
  /\ (~connWrite /\ reset = "none" /\ timer # "fired" /\ hs = "done" /\ connOpen)
       => put["SNT"] = produced["SNT"]
  /\ (~connOpen /\ mode.conn = "tcp" /\ timer # "fired") => \A d \in Dir : Ended(d)

\* handleIO does not hang on a silent backend: once one direction of a proxied
\* connection has ended, it returns.
Returns == ((\E d \in Dir : Ended(d)) /\ mode.local = "tcp") ~> main = "returned"

\* The README: a client that closes its write side still receives the
\* backend's full response -- all the backend has written when handleIO returns
\* without any connection having failed.
FullResponse ==
  (/\ main = "returned" /\ eof["RCV"]
   /\ hs = "done" /\ mode.conn = "tcp" /\ reset = "none")
     => put["SNT"] = produced["SNT"]

\* signalEndOfWrite: after the half-close our Read can still drain what is
\* inbound -- the loop that reads does not fail for it, of a peer whose own part
\* of the handshake is right.
StillDrains ==
  (/\ Ended("RCV") /\ main = "second" /\ hello # "refused"
   /\ mode.conn = "tcp" /\ reset = "none" /\ timer # "fired")
     => eof["RCV"]
=============================================================================
