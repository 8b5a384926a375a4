------------------------------ MODULE Startup ------------------------------
(***************************************************************************)
(* One noisecat process from its command line to the end of a connection,  *)
(* with the timers of every transport: parse and resolve the flags, dial   *)
(* or listen, run the handshake eagerly (raw, udp and WhatsApp clients) or *)
(* in the first Read or Write, and relay under the idle timeout, with the  *)
(* dial to -proxy's target before and the local sink behind.               *)
(*                                                                         *)
(* Time is discrete: a timer holds the time left, a tick takes one unit    *)
(* from each, and time does not pass while something is due.               *)
(***************************************************************************)
EXTENDS Configuration, Sequences

CONSTANTS
  CommandLines,    \* the command lines under study, members of Flags
  DefaultTimeout,  \* WhatsApp's handshake timeout without -w
  SafetyTimeout,   \* defaultHandleIOSafetyTimeout
  MaxAge           \* bound: ages are not told apart beyond it

ASSUME CommandLinesAssumption == CommandLines \subseteq Flags
ASSUME TimesAssumption ==
  /\ DefaultTimeout \in Nat \ {0} /\ SafetyTimeout \in Nat \ {0}
  /\ MaxAge \in Nat /\ 2 * DefaultTimeout < MaxAge
  /\ \A f \in CommandLines : 2 * f.w < MaxAge /\ f.w + SafetyTimeout < MaxAge

VARIABLES
  flags,     \* the command line
  pc,        \* where main stands
  conf,      \* what ParseConfig has made of the flags
  net,       \* the network connection
  peer,      \* whether the other end still sends
  session,   \* the Noise session
  loop,      \* handleIO's copy loops: "out" writes to the connection, "in" reads
  reporter,  \* DialWithDialer's goroutine, which runs the handshake
  reports,   \* DialWithDialer's errChannel
  left,      \* time left: dialer, dial timer, connection deadline, safety timer
  age,       \* time since the dial began, or since bytes last moved
  late       \* how much of it the idle deadline was over and nobody there to see

vars == <<flags, pc, conf, net, peer, session, loop, reporter, reports, left, age, late>>

Never == -1   \* a timer that is not set
Loop == {"in", "out"}
Other(l) == IF l = "in" THEN "out" ELSE "in"
NoConf == [transport |-> "none"]

Init ==
  /\ flags \in CommandLines
  /\ pc = "flags" /\ conf = NoConf
  /\ net = "none" /\ peer = "talks" /\ session = "none"
  /\ loop = [l \in Loop |-> "none"]
  /\ reporter = "none" /\ reports = <<>>
  /\ left = [dialer |-> Never, timer |-> Never, deadline |-> Never, safety |-> Never]
  /\ age = 0 /\ late = 0

-----------------------------------------------------------------------------
(* The command line.                                                       *)

unchangedConnection ==
  UNCHANGED <<net, peer, session, loop, reporter, reports, left, age, late>>

ParseFlags ==
  /\ pc = "flags"
  /\ pc' = IF ~ArgumentsFit(flags) \/ flags.validate THEN "exit" ELSE "parse"
  /\ UNCHANGED <<flags, conf>> /\ unchangedConnection

\* ParseConfig, and -keygen.
Configure ==
  /\ pc = "parse"
  /\ IF ParseConfig(flags) /\ ~flags.keygen
     THEN conf' = Config(flags) /\ pc' = "start"
     ELSE pc' = "exit" /\ UNCHANGED conf
  /\ UNCHANGED flags /\ unchangedConnection

Transport == IF flags.udp THEN "udp" ELSE conf.transport
Eager == ~flags.listen /\ Transport \in {"raw", "udp", "whatsapp"}

\* Seeded bug: WhatsApp's default is added to -w.
AddedTimeout ==
  IF Transport = "whatsapp" THEN flags.w + DefaultTimeout
  ELSE IF flags.w > 0 THEN flags.w ELSE Never

\* -w as a bound: of a Dial, and of WhatsApp's deferred handshake.
Timeout ==
  IF flags.w > 0 THEN flags.w
  ELSE IF Transport = "whatsapp" THEN DefaultTimeout ELSE Never

\* DialWithDialer starts its own timer, so that the dialer's bounds the whole.
HasTimer == Transport = "raw" /\ ~flags.listen /\ flags.w > 0

Refuse ==
  /\ pc = "start" /\ ~resolveTransport(flags, conf)
  /\ pc' = "exit"
  /\ UNCHANGED <<flags, conf>> /\ unchangedConnection

StartServer ==
  /\ pc = "start" /\ flags.listen /\ resolveTransport(flags, conf)
  /\ pc' = IF flags.daemon THEN "daemon" ELSE "listen"
  /\ UNCHANGED <<flags, conf>> /\ unchangedConnection

\* Listen fails, or Accept does.
ServerFails ==
  /\ \/ pc = "start" /\ flags.listen /\ resolveTransport(flags, conf)
     \/ pc = "listen"
  /\ pc' = "exit"
  /\ UNCHANGED <<flags, conf>> /\ unchangedConnection

\* Seeded bug: DialWithDialer's timer is started once the connection is there.
StartClientUntimed ==
  /\ pc = "start" /\ ~flags.listen /\ resolveTransport(flags, conf)
  /\ pc' = "connect"
  /\ left' = [left EXCEPT !.dialer = Timeout]
  /\ age' = 0
  /\ UNCHANGED <<flags, conf, net, peer, session, loop, reporter, reports, late>>

StartClient ==
  /\ pc = "start" /\ ~flags.listen /\ resolveTransport(flags, conf)
  /\ pc' = "connect"
  /\ left' = [left EXCEPT !.timer = IF HasTimer THEN flags.w ELSE Never,
                          !.dialer = IF Transport = "udp" THEN Never ELSE Timeout]
  /\ age' = 0
  /\ UNCHANGED <<flags, conf, net, peer, session, loop, reporter, reports, late>>

-----------------------------------------------------------------------------
(* The relay begins: newIdleConn, and Router to the proxy's dial, to the    *)
(* command, or to handleIO's copy loops.                                   *)

\* idleConn: the deadline that bytes push forward.
Bumped(deadline) == IF flags.w > 0 THEN flags.w ELSE deadline

\* Seeded bug: the first deadline is set by the first bytes.
UnarmedConn(deadline) == deadline

newIdleConn(deadline) == Bumped(deadline)

\* The copy loops start, towards the connection and from it.
handleIO == pc' = "relay" /\ loop' = [in |-> "call", out |-> "source"]

\* Relay(d): newParams(conn).Router(), the connection having deadline d.
Relay(d) ==
  /\ \/ flags.proxy # "" /\ pc' = "proxy" /\ UNCHANGED loop
     \/ flags.proxy = "" /\ flags.exec /\ pc' = "command" /\ UNCHANGED loop
     \/ flags.proxy = "" /\ ~flags.exec /\ handleIO
  /\ left' = [left EXCEPT !.dialer = Never, !.deadline = newIdleConn(d)]
  /\ age' = 0 /\ late' = 0

\* proxyConn dials without a timeout, while nobody reads the connection.
ProxyDials ==
  /\ pc = "proxy"
  /\ handleIO
  /\ UNCHANGED <<flags, conf, net, peer, session, reporter, reports, left, age, late>>

\* Router's deferred Close, without a relay: the proxy's target cannot be
\* reached, or the command has come to its end.
NothingToRelay ==
  /\ pc \in {"proxy", "command"}
  /\ pc' = "exit" /\ net' = "closed"
  /\ UNCHANGED <<flags, conf, peer, session, loop, reporter, reports, left, age, late>>

DialFails ==
  /\ pc' = "exit"
  /\ net' = IF net = "open" THEN "closed" ELSE net
  /\ UNCHANGED <<loop, left, age, late>>

Accept ==
  /\ pc = "listen"
  /\ net' = "open" /\ Relay(Never)
  /\ UNCHANGED <<flags, conf, peer, session, reporter, reports>>

\* Of udp it is the resolution of the name, before any deadline is set.
Connect ==
  /\ pc = "connect" /\ (peer = "talks" \/ Transport = "udp")
  /\ net' = "open"
  /\ IF Eager
     THEN /\ pc' = "handshake"
          /\ left' = [left EXCEPT !.dialer = Never,
                                  !.deadline = IF Transport = "raw" THEN Never ELSE Timeout]
          /\ reporter' = IF HasTimer THEN "running" ELSE "none"
          /\ age' = IF Transport = "udp" THEN 0 ELSE age
          /\ UNCHANGED <<loop, late>>
     ELSE Relay(Never) /\ UNCHANGED reporter
  /\ UNCHANGED <<flags, conf, peer, session, reports>>

ConnectFails ==
  /\ pc = "connect"
  /\ DialFails
  /\ UNCHANGED <<flags, conf, peer, session, reporter, reports>>

\* How the handshake may end, one way or the other: with the peer's messages,
\* with what is wrong about them, at the deadline, on a closed connection.
MayFinish ==
  /\ peer = "talks" /\ net = "open" /\ left.deadline # 0
  /\ flags.listen /\ Negotiates(flags, conf) => Supported(flags)
MayFail == net = "closed" \/ left.deadline = 0 \/ peer = "talks"

\* Seeded bug: the deadline for the handshake is left in place.
KeptDeadline == left.deadline

\* udp and WhatsApp clear the deadline that was for the handshake.
ClearedDeadline == Never

\* The eager handshake without a goroutine of its own.
DialHandshake ==
  /\ pc = "handshake" /\ reporter = "none"
  /\ \/ /\ MayFinish
        /\ session' = "done" /\ Relay(ClearedDeadline) /\ UNCHANGED net
     \/ MayFail /\ DialFails /\ UNCHANGED session
  /\ UNCHANGED <<flags, conf, peer, reporter, reports>>

\* Seeded bug: a report is handed over, or its sender waits.
Unbuffered == pc = "handshake" /\ reports = <<>>

\* errChannel has room for both reports.
MaySend == Len(reports) < 2

\* The goroutine of DialWithDialer's handshake reports.
ReportHandshake ==
  /\ reporter = "running" /\ MaySend
  /\ \/ MayFinish /\ session' = "done" /\ reports' = Append(reports, "done")
     \/ MayFail /\ UNCHANGED session /\ reports' = Append(reports, "failed")
  /\ reporter' = "ended"
  /\ UNCHANGED <<flags, pc, conf, net, peer, loop, left, age, late>>

\* So does its timer, whether or not the dial has come to an end.
ReportTimeout ==
  /\ left.timer = 0 /\ MaySend
  /\ reports' = Append(reports, "timeout")
  /\ left' = [left EXCEPT !.timer = Never]
  /\ UNCHANGED <<flags, pc, conf, net, peer, session, loop, reporter, age, late>>

\* Seeded bug: the report is not looked at.
AnyReport(r) == TRUE

Success(r) == r = "done"

\* DialWithDialer takes the first report.
ReceiveReport ==
  /\ pc = "handshake" /\ reporter # "none" /\ reports # <<>>
  /\ reports' = Tail(reports)
  /\ IF Success(Head(reports)) THEN Relay(Never) /\ UNCHANGED net ELSE DialFails
  /\ UNCHANGED <<flags, conf, peer, session, reporter>>

-----------------------------------------------------------------------------
(* The relay.                                                              *)

\* UDP and the websocket have no half-close: theirs is a full one.
HalfCloses == Transport # "udp" /\ ~Backend(flags)

\* A copy loop returns: the first starts the safety timer, the second ends
\* handleIO and the process.
End(l) ==
  /\ loop' = [loop EXCEPT ![l] = "ended"]
  /\ IF loop[Other(l)] = "ended"
     THEN pc' = "exit" /\ net' = "closed" /\ UNCHANGED left
     ELSE /\ left' = [left EXCEPT !.safety = SafetyTimeout]
          /\ net' = IF l = "out" /\ ~HalfCloses THEN "closed" ELSE net
          /\ UNCHANGED pc

\* idleConn's Read or Write moves bytes, and the loop goes on to the next.
Moves(l, to) ==
  /\ loop' = [loop EXCEPT ![l] = to]
  /\ left' = [left EXCEPT !.deadline = Bumped(@)]
  /\ age' = 0 /\ late' = 0
  /\ UNCHANGED <<pc, net>>

\* The bytes of a Write go out, unless the connection is closed or timed out.
WriteData ==
  IF net = "open" /\ left.deadline # 0 THEN Moves("out", "source")
  ELSE End("out") /\ UNCHANGED <<age, late>>

\* WhatsApp's deferred handshake has a deadline of its own.
HandshakeDeadline == IF Transport = "whatsapp" THEN Timeout ELSE left.deadline

\* One handshake at a time: the other loop waits for its end.
MayStart(l) == loop[Other(l)] # "handshake"

\* Read or Write of the connection: the handshake first, if it is not done.
Call(l) ==
  /\ pc = "relay" /\ loop[l] = "call"
  /\ \/ /\ session = "none" /\ MayStart(l)
        /\ loop' = [loop EXCEPT ![l] = "handshake"]
        /\ left' = [left EXCEPT !.deadline = HandshakeDeadline]
        /\ UNCHANGED <<pc, net, age, late>>
     \/ session = "failed" /\ End(l) /\ UNCHANGED <<age, late>>
     \/ /\ session = "done" /\ l = "in"
        /\ loop' = [loop EXCEPT ![l] = "read"] /\ UNCHANGED <<pc, net, left, age, late>>
     \/ session = "done" /\ l = "out" /\ WriteData
  /\ UNCHANGED <<flags, conf, peer, session, reporter, reports>>

HandshakeDone(l) ==
  /\ pc = "relay" /\ loop[l] = "handshake" /\ MayFinish
  /\ session' = "done"
  /\ loop' = [loop EXCEPT ![l] = "call"]
  /\ left' = [left EXCEPT !.deadline = IF Transport = "whatsapp" THEN ClearedDeadline ELSE @]
  /\ UNCHANGED <<flags, pc, conf, net, peer, reporter, reports, age, late>>

\* WhatsApp keeps the error for the other loop, which runs the handshake again
\* in the other transports.
HandshakeFails(l) ==
  /\ pc = "relay" /\ loop[l] = "handshake" /\ MayFail
  /\ session' = IF Transport = "whatsapp" THEN "failed" ELSE "none"
  /\ End(l)
  /\ UNCHANGED <<flags, conf, peer, reporter, reports, age, late>>

\* A retry or a switch to the first of no protocols.
ProposalUnsupported(l) ==
  /\ pc = "relay" /\ loop[l] = "handshake" /\ peer = "talks" /\ net = "open"
  /\ left.deadline # 0
  /\ flags.listen /\ Negotiates(flags, conf) /\ flags.policy \in {"retry", "switch"}
  /\ ~Supported(flags)
  /\ pc' = "panic"
  /\ UNCHANGED <<flags, conf, net, peer, session, loop, reporter, reports, left, age, late>>

\* io.Copy takes what it has read to the local sink.
ReadData ==
  /\ pc = "relay" /\ loop["in"] = "read"
  /\ peer = "talks" /\ net = "open" /\ left.deadline # 0
  /\ Moves("in", "sink")
  /\ UNCHANGED <<flags, conf, peer, session, reporter, reports>>

\* The sink may take its time, and nobody reads the connection meanwhile.
SinkTakes ==
  /\ pc = "relay" /\ loop["in"] = "sink"
  /\ loop' = [loop EXCEPT !["in"] = "read"]
  /\ UNCHANGED <<flags, pc, conf, net, peer, session, reporter, reports, left, age, late>>

SinkFails ==
  /\ pc = "relay" /\ loop["in"] = "sink"
  /\ End("in")
  /\ UNCHANGED <<flags, conf, peer, session, reporter, reports, age, late>>

\* The peer's end of stream, an error, or the deadline.
ReadEnds ==
  /\ pc = "relay" /\ loop["in"] = "read" /\ MayFail
  /\ End("in")
  /\ UNCHANGED <<flags, conf, peer, session, reporter, reports, age, late>>

SourceData ==
  /\ pc = "relay" /\ loop["out"] = "source"
  /\ \/ session = "done" /\ WriteData
     \/ /\ session # "done" /\ loop' = [loop EXCEPT !["out"] = "call"]
        /\ UNCHANGED <<pc, net, left, age, late>>
  /\ UNCHANGED <<flags, conf, peer, session, reporter, reports>>

SourceEnds ==
  /\ pc = "relay" /\ loop["out"] = "source"
  /\ End("out")
  /\ UNCHANGED <<flags, conf, peer, session, reporter, reports, age, late>>

\* fullClose, by the safety timer.
SafetyFires ==
  /\ pc = "relay" /\ left.safety = 0
  /\ net' = "closed"
  /\ left' = [left EXCEPT !.safety = Never]
  /\ UNCHANGED <<flags, pc, conf, peer, session, loop, reporter, reports, age, late>>

-----------------------------------------------------------------------------
(* The peer and the clock.                                                 *)

PeerFallsSilent ==
  /\ pc \in {"connect", "handshake", "proxy", "relay"} /\ peer = "talks"
  /\ peer' = "silent"
  /\ UNCHANGED <<flags, pc, conf, net, session, loop, reporter, reports, left, age, late>>

\* What the program does without waiting for anything.
Due ==
  \/ left.timer = 0 /\ MaySend
  \/ pc = "connect" /\ left.dialer = 0
  \/ pc = "handshake" /\ (left.deadline = 0 \/ reports # <<>>)
  \/ /\ pc = "relay"
     /\ \/ left.safety = 0
        \/ \E l \in Loop :
             \/ loop[l] = "call" /\ (session = "none" => MayStart(l))
             \/ loop[l] \in {"read", "handshake"} /\ (left.deadline = 0 \/ net = "closed")

\* The dial to the proxy's target and a write to the sink are nobody's Read or
\* Write of the connection: its deadline passes and nobody gets the error.
Unattended == pc = "proxy" \/ loop["in"] = "sink"

Capped(n) == IF n < MaxAge THEN n + 1 ELSE n

Tick ==
  /\ pc \in {"connect", "handshake", "proxy", "relay", "command"} /\ ~Due
  /\ left' = [t \in DOMAIN left |-> IF left[t] > 0 THEN left[t] - 1 ELSE left[t]]
  /\ age' = Capped(age)
  /\ late' = IF Unattended /\ left.deadline = 0 THEN Capped(late) ELSE late
  /\ UNCHANGED <<flags, pc, conf, net, peer, session, loop, reporter, reports>>

Main == ParseFlags \/ Configure \/ Refuse \/ StartServer \/ StartClient
Route == ProxyDials \/ NothingToRelay
Dial == Connect \/ ConnectFails \/ DialHandshake \/ ReceiveReport
Copy(l) == Call(l) \/ HandshakeDone(l) \/ HandshakeFails(l) \/ ProposalUnsupported(l)

Next ==
  \/ Main \/ ServerFails \/ Accept \/ Dial \/ Route
  \/ ReportHandshake \/ ReportTimeout
  \/ \E l \in Loop : Copy(l)
  \/ ReadData \/ ReadEnds \/ SinkTakes \/ SinkFails
  \/ SourceData \/ SourceEnds \/ SafetyFires
  \/ PeerFallsSilent \/ Tick

\* Timers fire, time goes by, and each goroutine is scheduled; neither the peer
\* nor the source, the sink, the proxy's target or a command need ever do
\* anything.
Fairness ==
  /\ WF_vars(Main) /\ WF_vars(ReportTimeout) /\ WF_vars(SafetyFires)
  /\ WF_vars(ReceiveReport)
  /\ WF_vars(left.dialer = 0 /\ ConnectFails)
  /\ WF_vars(left.deadline = 0 /\ (DialHandshake \/ ReadEnds))
  /\ \A l \in Loop : WF_vars(Call(l)) /\ WF_vars(left.deadline = 0 /\ HandshakeFails(l))
  /\ SF_vars(Tick)

Spec == Init /\ [][Next]_vars
FairSpec == Spec /\ Fairness

-----------------------------------------------------------------------------
(* Properties.                                                             *)

Longest == IF flags.w > DefaultTimeout THEN flags.w ELSE DefaultTimeout

\* Types; no timer is set to more than the longest of -w and the default.
TypeOK ==
  /\ flags \in Flags
  /\ pc \in {"flags", "parse", "start", "connect", "handshake", "listen", "daemon",
             "proxy", "relay", "command", "exit", "panic"}
  /\ conf = NoConf \/ conf = Config(flags)
  /\ net \in {"none", "open", "closed"} /\ peer \in {"talks", "silent"}
  /\ session \in {"none", "done", "failed"}
  /\ loop \in [Loop -> {"none", "source", "call", "handshake", "read", "sink", "ended"}]
  /\ reporter \in {"none", "running", "ended"}
  /\ reports \in Seq({"done", "failed", "timeout"}) /\ Len(reports) <= 2
  /\ left \in [ dialer : Never .. Longest, timer : Never .. Longest,
               deadline : Never .. Longest, safety : Never .. SafetyTimeout ]
  /\ age \in 0 .. MaxAge /\ late \in 0 .. MaxAge

Relayed == pc \in {"proxy", "relay"}
Started == Relayed \/ pc \in {"connect", "handshake", "listen", "daemon", "command"}

\* A command line that gets as far as the network has all that its handshake
\* needs, whatever the combination of transport, protocol and key flags: no
\* combination slips between parseFlags, ParseConfig and resolveTransport.
IsReady == Started => Ready(flags, conf)

\* -w bounds a dial. Of raw it bounds connect and handshake together, of
\* WhatsApp each of them; of udp the handshake alone, which the resolution of
\* the name precedes, and of noisesocket and bolt8 the connect alone.
DialBounded ==
  (pc = "handshake" \/ (pc = "connect" /\ Transport # "udp")) /\ Timeout # Never =>
    age <= IF Transport = "whatsapp" THEN 2 * Timeout ELSE Timeout

\* A relayed connection is closed once no bytes have moved for -w, and the
\* safety timeout has let the other direction end. All that can put it off is
\* what has no timeout of its own, the dial to the proxy's target and a write
\* to the local sink: from -w on, and for as long as they last. Not a WhatsApp
\* listener's.
IdleBounded ==
  Relayed /\ net = "open" /\ flags.w > 0 /\ ~(flags.listen /\ Transport = "whatsapp")
    => age <= flags.w + SafetyTimeout + late

\* An established session is cut short by a deadline only for having been idle
\* for -w: the deadline of the handshake does not outlive it.
NotCutShort ==
  pc = "relay" /\ session = "done" /\ left.deadline = 0 =>
    flags.w > 0 /\ age >= flags.w

\* An eager Dial that returns a connection has done the handshake, although the
\* timer and the handshake report to the same channel.
Returned == (Relayed \/ pc = "command") /\ Eager => session = "done"

\* DialWithDialer's timer gets its report off, also after the dial: its
\* goroutine is never left waiting for someone to take it.
Reported == left.timer # Never ~> (left.timer = Never \/ pc = "exit")

\* What README.md and idleConn say of -w, of every transport, either role and
\* whatever the relay is waiting for.
IdleBoundedEverywhere ==
  Relayed /\ net = "open" /\ flags.w > 0 => age <= flags.w + SafetyTimeout

\* README.md's -ns-support: any list that is accepted can be negotiated with.
NoPanic == pc # "panic"
=============================================================================
