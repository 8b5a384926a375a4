--------------------------- MODULE StartupProofs ---------------------------
(***************************************************************************)
(* For every set of command lines and any timeouts: a command line that    *)
(* gets to the network is ready for its handshake, a dial and an idle      *)
(* connection are bounded by -w, and no session is cut short by a deadline *)
(* that was meant for the handshake.                                       *)
(***************************************************************************)
EXTENDS Startup, TLAPS

-----------------------------------------------------------------------------
(* The command line.                                                       *)

Accepted(f) == /\ ArgumentsFit(f) /\ ~f.keygen /\ ~f.validate /\ ParseConfig(f)

\* What passes parseFlags, ParseConfig and resolveTransport is ready, for every
\* combination of the flags.
LEMMA AcceptedIsReady ==
  ASSUME NEW f \in Flags, Accepted(f), resolveTransport(f, Config(f))
  PROVE  Ready(f, Config(f))
<1> DEFINE p == TheProtocol(f)
           c == Config(f)
<1>1. CombinationFits(f) /\ parseNoise(f) BY DEF Accepted, ParseConfig
<1>2. p \in Protocol /\ c.proto = p BY <1>1 DEF parseNoise, Config
<1>3. p.dh \in {"25519", "secp256k1"} BY <1>2 DEF Protocol
<1>4. f.transport = "whatsapp" => p = XX BY DEF TheProtocol
<1>5. \A init \in BOOLEAN : NeedsLocal(XX, init)
  BY DEF XX, Plain, NeedsLocal
<1>6. /\ f.udp \in BOOLEAN /\ f.listen \in BOOLEAN /\ f.keygen \in BOOLEAN /\ f.validate \in BOOLEAN
      /\ f.transport \in {"", "raw", "noisesocket", "bolt8", "whatsapp", "other"}
  BY DEF Flags
<1>7. c.transport = IF f.transport \in {"", "raw"}
                    THEN IF p.dh = "secp256k1" THEN "bolt8" ELSE "raw"
                    ELSE f.transport
  BY DEF Config
<1>8. f.udp => f.transport \in {"", "raw"} BY <1>1 DEF CombinationFits
<1>9. (c.transport = "bolt8") <=> (p.dh = "secp256k1")
  BY <1>2, <1>3, <1>6, <1>7, <1>8 DEF resolveTransport
<1>10. f.udp => c.transport = "raw" BY <1>2, <1>3, <1>7, <1>8 DEF resolveTransport
<1>11. c.local <=> (p.dh = "secp256k1" \/ NeedsLocal(p, ~f.listen)) BY DEF Config
<1>12. p.dh = "secp256k1" => c.peer = ~f.listen BY DEF Config
<1>13. ASSUME p.dh # "secp256k1"
       PROVE  /\ buildNoise25519Config(f, p, ~f.listen)
              /\ c.peer = NeedsPeer(p, ~f.listen)
              /\ c.psk = (f.psk # "")
  BY <1>1, <1>13 DEF parseNoise, Config
<1>14. c.transport # "bolt8" =>
         /\ NeedsPeer(p, ~f.listen) => c.peer /\ f.rstatic = "32 bytes"
         /\ c.psk <=> p.psk
  BY <1>9, <1>13 DEF buildNoise25519Config
<1>15. c.transport = "whatsapp" => f.transport = "whatsapp" BY <1>6, <1>7
<1>16. c.transport = "whatsapp" => p = XX /\ c.local
  <2>1. ASSUME c.transport = "whatsapp" PROVE p = XX /\ NeedsLocal(p, ~f.listen)
    <3>1. p = XX BY <2>1, <1>15, <1>4
    <3>2. (~f.listen) \in BOOLEAN BY <1>6
    <3> QED BY <3>1, <3>2, <1>5
  <2> HIDE DEF p, c
  <2> QED BY <2>1, <1>11
<1>17. Backend(f) => c.transport = "whatsapp"
  <2>1. ASSUME Backend(f) PROVE f.transport = "whatsapp"
    <3>1. ~f.listen /\ f.args = 0 BY <2>1 DEF Backend
    <3>2. ArgumentsFit(f) /\ ~f.keygen /\ ~f.validate BY DEF Accepted
    <3>3. f.args # 2 BY <3>1
    <3> QED BY <3>1, <3>2, <3>3 DEF ArgumentsFit
  <2> QED BY <2>1, <1>7
<1>18. NeedsLocal(p, ~f.listen) => c.local BY <1>11
<1>19. c.transport = "bolt8" => c.local /\ (~f.listen => c.peer)
  BY <1>9, <1>11, <1>12
<1>20. Ready(f, c)
  <2> HIDE DEF p, c
  <2> QED BY <1>2, <1>9, <1>10, <1>14, <1>16, <1>17, <1>18, <1>19 DEF Ready
<1> QED BY <1>20

-----------------------------------------------------------------------------
(* The inductive invariant.                                                *)

\* How far the command line has got, and what is known of it by then.
Configured ==
  /\ flags \in CommandLines
  /\ pc \in {"flags", "parse"} => conf = NoConf
  /\ pc = "parse" => ArgumentsFit(flags) /\ ~flags.validate
  /\ pc = "start" \/ Started => Accepted(flags) /\ conf = Config(flags)
  /\ Started => resolveTransport(flags, conf)

\* Nothing is under way before there is a connection.
Fresh ==
  pc \in {"flags", "parse", "start", "listen", "daemon"} =>
    /\ \A t \in DOMAIN left : left[t] = Never
    /\ session = "none" /\ reporter = "none" /\ reports = <<>>

\* The two reports: who may still send one, and what a success means.
Reports ==
  /\ reporter = "running" => pc \in {"handshake", "exit"}
  /\ \A i \in DOMAIN reports : reports[i] = "done" => session = "done" /\ reporter = "ended"
  /\ left.timer >= 0 => Len(reports) <= 1 /\ (reporter # "ended" => reports = <<>>)

\* Where there is no session yet; and who accepts.
Unstarted == pc = "connect" => session = "none"
Listening == pc = "listen" => flags.listen

Reached == pc = "handshake" => net = "open"

TimerBounds == (left.timer >= 0 /\ left.timer + age <= Timeout) \/ reports # <<>>

\* The timers of a dial leave no more time than -w has left.
Dialling ==
  pc = "connect" =>
    /\ ~flags.listen /\ reporter = "none"
    /\ Timeout # Never =>
         /\ Transport # "udp" => left.dialer >= 0 /\ left.dialer + age <= Timeout
         /\ HasTimer => TimerBounds

Handshaking ==
  pc = "handshake" =>
    /\ Eager
    /\ Timeout # Never =>
         /\ Transport = "raw" => age <= Timeout /\ TimerBounds
         /\ Transport = "udp" => left.deadline >= 0 /\ left.deadline + age <= Timeout
         /\ Transport = "whatsapp" =>
              left.deadline >= 0 /\ left.deadline + age <= 2 * Timeout

\* Where the copy loops stand; one at most runs the handshake, and only as long
\* as there is no session.
Loops ==
  pc = "relay" =>
    /\ loop["in"] \in {"call", "handshake", "read", "sink", "ended"}
    /\ loop["out"] \in {"source", "call", "handshake", "ended"}
    /\ \A l \in Loop : loop[l] = "handshake" =>
         session = "none" /\ loop[Other(l)] # "handshake"
    /\ loop["in"] \in {"read", "sink"} => session = "done"

\* The idle deadline leaves no more time than -w and what has passed unseen
\* since, and once a loop has ended the safety timer no more than its own on
\* top of it.
Idle ==
  (Relayed /\ net = "open" /\ flags.w > 0 /\ ~(flags.listen /\ Transport = "whatsapp")) =>
    IF pc = "relay" /\ \E l \in Loop : loop[l] = "ended"
    THEN left.safety >= 0 /\ left.safety + age <= flags.w + SafetyTimeout + late
    ELSE left.deadline >= 0 /\ left.deadline + age <= flags.w + late

\* A session's deadline is the idle one, and leaves no less time than -w.
Kept ==
  (Relayed /\ left.deadline >= 0 /\ (Transport # "whatsapp" \/ session = "done")) =>
    flags.w > 0 /\ left.deadline + age >= flags.w

Inv ==
  /\ TypeOK /\ Configured /\ Fresh /\ Unstarted /\ Listening /\ Reached /\ Reports /\ Dialling /\ Handshaking
  /\ Loops /\ Idle /\ Kept /\ Returned

-----------------------------------------------------------------------------
(* -w and what is made of it.                                              *)

\* The transport and the bounds stay what they are with the command line.
LEMMA SameFlags ==
  ASSUME flags' = flags, conf' = conf
  PROVE  /\ Transport' = Transport /\ Timeout' = Timeout /\ HasTimer' = HasTimer
         /\ Eager' = Eager /\ Longest' = Longest
BY DEF Transport, Timeout, HasTimer, Eager, Longest

\* The bound of a dial is -w, or WhatsApp's own, or none.
LEMMA Bounds ==
  ASSUME Inv, pc = "start" \/ Started
  PROVE  /\ flags.w \in Nat /\ Longest \in Nat /\ flags.w <= Longest
         /\ 2 * flags.w < MaxAge /\ flags.w + SafetyTimeout < MaxAge
         /\ Timeout \in {Never} \cup 1 .. Longest
         /\ 2 * Timeout < MaxAge
         /\ Timeout = IF flags.w > 0 THEN flags.w
                      ELSE IF Transport = "whatsapp" THEN DefaultTimeout ELSE Never
         /\ HasTimer <=> (Transport = "raw" /\ ~flags.listen /\ Timeout # Never)
         /\ Eager <=> (~flags.listen /\ Transport \in {"raw", "udp", "whatsapp"})
<1>1. flags \in CommandLines /\ flags \in Flags BY DEF Inv, Configured, TypeOK
<1>2. flags.w >= 0
  <2>1. Accepted(flags) BY DEF Inv, Configured
  <2>2. ~flags.keygen /\ ParseConfig(flags) BY <2>1 DEF Accepted
  <2>3. CombinationFits(flags) BY <2>2 DEF ParseConfig
  <2> QED BY <2>3 DEF CombinationFits
<1>3. flags.w \in Int BY <1>1 DEF Flags
<1>4. 2 * flags.w < MaxAge /\ flags.w + SafetyTimeout < MaxAge BY <1>1, TimesAssumption
<1>5. Timeout = IF flags.w > 0 THEN flags.w
                ELSE IF Transport = "whatsapp" THEN DefaultTimeout ELSE Never
  BY DEF Timeout
<1>6. flags.w \in Nat /\ Longest \in Nat /\ flags.w <= Longest /\ DefaultTimeout <= Longest
  BY <1>2, <1>3, TimesAssumption DEF Longest
<1>7. Timeout \in {Never} \cup 1 .. Longest /\ 2 * Timeout < MaxAge
  BY <1>4, <1>5, <1>6, TimesAssumption DEF Never
<1>8. HasTimer <=> (Transport = "raw" /\ ~flags.listen /\ Timeout # Never)
  BY <1>5, <1>6 DEF HasTimer, Never
<1> QED BY <1>4, <1>5, <1>6, <1>7, <1>8 DEF Eager

-----------------------------------------------------------------------------
(* Init and the command line.                                              *)

LEMMA InitInv == Init => Inv
<1> SUFFICES ASSUME Init PROVE Inv OBVIOUS
<1>1. flags \in CommandLines /\ flags \in Flags BY CommandLinesAssumption DEF Init
<1>2. flags.w \in Int BY <1>1 DEF Flags
<1>3. Longest \in Int /\ SafetyTimeout \in Nat /\ Never <= Longest /\ Never \in Int
  BY <1>2, TimesAssumption DEF Longest, Never
<1>4. left \in [ dialer : Never .. Longest, timer : Never .. Longest,
                deadline : Never .. Longest, safety : Never .. SafetyTimeout ]
  BY <1>3 DEF Init, Never
<1>5. reports \in Seq({"done", "failed", "timeout"}) /\ Len(reports) = 0 BY DEF Init
<1>6. TypeOK BY <1>1, <1>4, <1>5, TimesAssumption DEF Init, TypeOK, Loop
<1>7. Configured BY <1>1 DEF Init, Configured, Started, Relayed
<1>8. Fresh BY DEF Init, Fresh
<1>9. Reports BY <1>5 DEF Init, Reports, Never
<1>10. Dialling /\ Handshaking /\ Loops /\ Idle /\ Kept /\ Returned /\ Unstarted /\ Listening /\ Reached
  BY DEF Init, Reached, Unstarted, Listening, Dialling, Handshaking, Loops, Idle, Kept, Relayed, Returned
<1> QED BY <1>6, <1>7, <1>8, <1>9, <1>10 DEF Inv

\* Before there is a connection, only the configuration can be disturbed.
LEMMA Quiet ==
  ASSUME Inv, unchangedConnection, flags' = flags,
         pc \in {"flags", "parse", "start", "listen"},
         pc' \in {"parse", "start", "listen", "daemon", "exit"},
         conf' = NoConf \/ conf' = Config(flags), Configured', Listening'
  PROVE  Inv'
<1>1. Longest' = Longest BY DEF Longest
<1>2. TypeOK' BY <1>1 DEF Inv, TypeOK, unchangedConnection
<1>3. Fresh BY DEF Inv
<1>4. Fresh' BY <1>3 DEF Fresh, unchangedConnection
<1>5. left.timer = Never /\ reports = <<>> /\ reporter = "none"
  <2>1. "timer" \in DOMAIN left BY DEF Inv, TypeOK
  <2> QED BY <1>3, <2>1 DEF Fresh
<1>6. Reports' BY <1>5 DEF Reports, Never, unchangedConnection
<1>7. Dialling' /\ Handshaking' /\ Loops' /\ Idle' /\ Kept' /\ Returned' /\ Unstarted' /\ Reached'
  BY DEF Reached, Unstarted, Dialling, Handshaking, Loops, Idle, Kept, Relayed, Returned
<1> QED BY <1>2, <1>4, <1>6, <1>7 DEF Inv

LEMMA ParseFlagsStep == ASSUME Inv, ParseFlags PROVE Inv'
<1>1. pc' \in {"parse", "exit"} /\ flags' = flags /\ conf' = conf /\ unchangedConnection
  BY DEF ParseFlags
<1>2. conf = NoConf /\ flags \in CommandLines BY DEF Inv, Configured, ParseFlags
<1>3. Configured' /\ Listening' BY <1>1, <1>2 DEF ParseFlags, Configured, Listening, Started, Relayed
<1> QED BY <1>1, <1>2, <1>3, Quiet DEF ParseFlags

LEMMA ConfigureStep == ASSUME Inv, Configure PROVE Inv'
<1>1. pc = "parse" /\ flags' = flags /\ unchangedConnection BY DEF Configure
<1>2. conf = NoConf /\ flags \in CommandLines /\ ArgumentsFit(flags) /\ ~flags.validate
  BY <1>1 DEF Inv, Configured
<1>3. CASE ParseConfig(flags) /\ ~flags.keygen
  <2>1. conf' = Config(flags) /\ pc' = "start" BY <1>3 DEF Configure
  <2>2. Accepted(flags) BY <1>2, <1>3 DEF Accepted
  <2>3. Configured' /\ Listening' BY <1>1, <1>2, <2>1, <2>2 DEF Configured, Listening, Started, Relayed
  <2> QED BY <1>1, <2>1, <2>3, Quiet
<1>4. CASE ~(ParseConfig(flags) /\ ~flags.keygen)
  <2>1. conf' = conf /\ pc' = "exit" BY <1>4 DEF Configure
  <2>2. Configured' /\ Listening' BY <1>1, <1>2, <2>1 DEF Configured, Listening, Started, Relayed
  <2> QED BY <1>1, <1>2, <2>1, <2>2, Quiet
<1> QED BY <1>3, <1>4

LEMMA RefuseStep == ASSUME Inv, Refuse PROVE Inv'
<1>1. pc = "start" /\ pc' = "exit" /\ flags' = flags /\ conf' = conf /\ unchangedConnection
  BY DEF Refuse
<1>2. flags \in CommandLines /\ conf = Config(flags) BY <1>1 DEF Inv, Configured
<1>3. Configured' /\ Listening' BY <1>1, <1>2 DEF Configured, Listening, Started, Relayed
<1> QED BY <1>1, <1>2, <1>3, Quiet

LEMMA StartServerStep == ASSUME Inv, StartServer PROVE Inv'
<1>1. /\ pc = "start" /\ pc' \in {"listen", "daemon"} /\ flags' = flags /\ conf' = conf
      /\ unchangedConnection /\ resolveTransport(flags, conf) /\ flags.listen
  BY DEF StartServer
<1>2. flags \in CommandLines /\ Accepted(flags) /\ conf = Config(flags)
  BY <1>1 DEF Inv, Configured
<1>3. Configured' /\ Listening' BY <1>1, <1>2 DEF Configured, Listening, Started, Relayed
<1> QED BY <1>1, <1>2, <1>3, Quiet

LEMMA ServerFailsStep == ASSUME Inv, ServerFails PROVE Inv'
<1>1. /\ pc \in {"start", "listen"} /\ pc' = "exit" /\ flags' = flags /\ conf' = conf
      /\ unchangedConnection
  BY DEF ServerFails
<1>2. flags \in CommandLines /\ conf = Config(flags)
  BY <1>1 DEF Inv, Configured, Started
<1>3. Configured' /\ Listening' BY <1>1, <1>2 DEF Configured, Listening, Started, Relayed
<1> QED BY <1>1, <1>2, <1>3, Quiet

\* The dial's timers start with all of -w left.
LEMMA StartClientStep == ASSUME Inv, StartClient PROVE Inv'
<1>1. /\ pc = "start" /\ pc' = "connect" /\ ~flags.listen /\ resolveTransport(flags, conf)
      /\ age' = 0 /\ UNCHANGED <<flags, conf, net, peer, session, loop, reporter, reports, late>>
      /\ left' = [left EXCEPT !.timer = IF HasTimer THEN flags.w ELSE Never,
                              !.dialer = IF Transport = "udp" THEN Never ELSE Timeout]
  BY DEF StartClient
<1>2. flags \in CommandLines /\ Accepted(flags) /\ conf = Config(flags)
  BY <1>1 DEF Inv, Configured
<1>3. Configured' BY <1>1, <1>2 DEF Configured, Started, Relayed
<1>4. TypeOK BY DEF Inv
<1>5. Transport' = Transport /\ Timeout' = Timeout /\ HasTimer' = HasTimer /\ Longest' = Longest
  BY <1>1, SameFlags
<1>6. /\ Longest \in Nat /\ Timeout \in {Never} \cup 1 .. Longest
      /\ HasTimer => flags.w = Timeout /\ Timeout # Never /\ Transport = "raw"
      /\ flags.w <= Longest /\ flags.w \in Nat
  <2>1. Timeout = IF flags.w > 0 THEN flags.w
                  ELSE IF Transport = "whatsapp" THEN DefaultTimeout ELSE Never
    BY DEF Timeout
  <2>2. HasTimer => flags.w > 0 /\ Transport = "raw" BY DEF HasTimer
  <2> QED BY <1>1, <2>1, <2>2, Bounds
<1>7. left' \in [ dialer : Never .. Longest, timer : Never .. Longest,
                 deadline : Never .. Longest, safety : Never .. SafetyTimeout ]
  <2>1. /\ (IF HasTimer THEN flags.w ELSE Never) \in Never .. Longest
        /\ (IF Transport = "udp" THEN Never ELSE Timeout) \in Never .. Longest
    BY <1>6 DEF Never
  <2> QED BY <1>1, <1>4, <2>1 DEF TypeOK
<1>8. /\ left'.timer = IF HasTimer THEN Timeout ELSE Never
      /\ left'.dialer = IF Transport = "udp" THEN Never ELSE Timeout
  BY <1>1, <1>4, <1>6 DEF TypeOK
<1>9. session = "none" /\ reporter = "none" /\ reports = <<>> BY <1>1 DEF Inv, Fresh
<1>10. TypeOK' BY <1>1, <1>4, <1>5, <1>7, TimesAssumption DEF TypeOK
<1>11. Fresh' BY <1>1 DEF Fresh
<1>12. Reports' BY <1>1, <1>9 DEF Reports
<1>13. Dialling'
  <2>1. HasTimer => TimerBounds' BY <1>1, <1>5, <1>6, <1>8 DEF TimerBounds, Never
  <2>2. Transport # "udp" /\ Timeout # Never =>
          left'.dialer >= 0 /\ left'.dialer + age' <= Timeout
    BY <1>1, <1>6, <1>8 DEF Never
  <2> QED BY <1>1, <1>5, <1>9, <2>1, <2>2 DEF Dialling
<1>14. Handshaking' /\ Loops' /\ Idle' /\ Kept' /\ Returned' /\ Unstarted' /\ Listening' /\ Reached'
  BY <1>1, <1>9 DEF Reached, Unstarted, Listening, Handshaking, Loops, Idle, Kept, Relayed, Returned
<1> QED BY <1>3, <1>10, <1>11, <1>12, <1>13, <1>14 DEF Inv

-----------------------------------------------------------------------------
(* Dial.                                                                   *)

\* What the relay begins with: all of -w left, and nothing more under way.
LEMMA RelayBegins ==
  ASSUME Inv, Relay(Never), pc \in {"listen", "connect", "handshake"},
         UNCHANGED <<flags, conf>>, peer' = peer, net' = "open",
         session' \in {"none", "done"}, Eager => session' = "done",
         reporter' \in {"none", "ended"},
         reports' \in Seq({"done", "failed", "timeout"}), Len(reports') <= 2, Reports'
  PROVE  Inv'
<1>1. TypeOK BY DEF Inv
<1>2. /\ Transport' = Transport /\ Longest' = Longest /\ Eager' = Eager
  BY SameFlags
<1>3. /\ flags.w \in Nat /\ Longest \in Nat /\ flags.w <= Longest BY Bounds DEF Started, Relayed
<1>4. /\ pc' \in {"proxy", "command", "relay"} /\ age' = 0 /\ late' = 0
      /\ pc' = "relay" => loop' = [in |-> "call", out |-> "source"]
      /\ loop' \in {loop, [in |-> "call", out |-> "source"]}
      /\ left' = [left EXCEPT !.dialer = Never,
                              !.deadline = IF flags.w > 0 THEN flags.w ELSE Never]
  BY DEF Relay, handleIO, newIdleConn, Bumped
<1>5. left'.deadline = IF flags.w > 0 THEN flags.w ELSE Never BY <1>1, <1>4 DEF TypeOK
<1>6. Configured' BY <1>4 DEF Inv, Configured, Started, Relayed
<1>7. TypeOK'
  <2>1. /\ Never \in Never .. Longest
        /\ (IF flags.w > 0 THEN flags.w ELSE Never) \in Never .. Longest
    BY <1>3 DEF Never
  <2>2. left' \in [ dialer : Never .. Longest, timer : Never .. Longest,
                   deadline : Never .. Longest, safety : Never .. SafetyTimeout ]
    BY <1>1, <1>4, <2>1 DEF TypeOK
  <2>3. loop' \in [Loop -> {"none", "source", "call", "handshake", "read", "sink", "ended"}]
    <3>1. [in |-> "call", out |-> "source"] \in
            [Loop -> {"none", "source", "call", "handshake", "read", "sink", "ended"}]
      BY DEF Loop
    <3> QED BY <1>1, <1>4, <3>1 DEF TypeOK
  <2> QED BY <1>1, <1>2, <1>4, <2>2, <2>3, TimesAssumption DEF TypeOK
<1>8. Fresh' /\ Dialling' /\ Handshaking' /\ Unstarted' /\ Listening' /\ Reached'
  BY <1>4 DEF Fresh, Dialling, Handshaking, Reached, Unstarted, Listening
<1>9. Loops' BY <1>4 DEF Loops, Loop
<1>10. Idle'
  <2>1. pc' = "relay" => \A l \in Loop : loop'[l] # "ended" BY <1>4 DEF Loop
  <2> QED BY <1>3, <1>4, <1>5, <2>1 DEF Idle, Relayed
<1>11. Kept' BY <1>3, <1>4, <1>5 DEF Kept, Never
<1>12. Returned' BY <1>2 DEF Returned, Relayed
<1> QED BY <1>6, <1>7, <1>8, <1>9, <1>10, <1>11, <1>12 DEF Inv

\* A dial that comes to nothing.
LEMMA DialEnds ==
  ASSUME Inv, DialFails, UNCHANGED <<flags, conf, peer, session, reporter>>,
         reports' \in Seq({"done", "failed", "timeout"}), Len(reports') <= 2, Reports',
         pc \in {"connect", "handshake"}
  PROVE  Inv'
<1>1. /\ pc' = "exit" /\ left' = left /\ age' = age /\ late' = late /\ loop' = loop
      /\ net' \in {"closed", net}
  BY DEF DialFails
<1>2. Longest' = Longest BY SameFlags
<1>3. TypeOK' BY <1>1, <1>2 DEF Inv, TypeOK
<1>4. Configured' BY <1>1 DEF Inv, Configured, Started, Relayed
<1>5. Fresh' /\ Dialling' /\ Handshaking' /\ Loops' /\ Idle' /\ Kept' /\ Returned'
      /\ Unstarted' /\ Listening' /\ Reached'
  BY <1>1 DEF Reached, Unstarted, Listening, Fresh, Dialling, Handshaking, Loops, Idle, Kept, Relayed, Returned
<1> QED BY <1>3, <1>4, <1>5 DEF Inv

LEMMA AcceptStep == ASSUME Inv, Accept PROVE Inv'
<1>1. /\ pc = "listen" /\ net' = "open" /\ Relay(Never)
      /\ UNCHANGED <<flags, conf, peer, session, reporter, reports>>
  BY DEF Accept
<1>2. session = "none" /\ reporter = "none" /\ reports = <<>> BY <1>1 DEF Inv, Fresh
<1>3. Reports' BY <1>1, <1>2 DEF Reports, Relay, Inv, Fresh, TypeOK, Never
<1>4. ~Eager
  <2> SUFFICES ASSUME Eager PROVE FALSE OBVIOUS
  <2>1. ~flags.listen BY DEF Eager
  <2> QED BY <1>1, <2>1 DEF Inv, Listening
<1> QED BY <1>1, <1>2, <1>3, <1>4, RelayBegins DEF Inv, TypeOK

LEMMA ConnectFailsStep == ASSUME Inv, ConnectFails PROVE Inv'
<1>1. /\ pc = "connect" /\ DialFails
      /\ UNCHANGED <<flags, conf, peer, session, reporter, reports>>
  BY DEF ConnectFails
<1>2. Reports' BY <1>1 DEF Inv, Reports, DialFails
<1> QED BY <1>1, <1>2, DialEnds DEF Inv, TypeOK

\* What -w has left for the handshake, of which the timer runs on.
LEMMA ConnectStep == ASSUME Inv, Connect PROVE Inv'
<1>1. /\ pc = "connect" /\ net' = "open"
      /\ UNCHANGED <<flags, conf, peer, session, reports>>
  BY DEF Connect
<1>2. TypeOK /\ Dialling /\ Reports BY DEF Inv
<1>3. reporter = "none" /\ ~flags.listen BY <1>1, <1>2 DEF Dialling
<1>4. /\ Transport' = Transport /\ Timeout' = Timeout /\ HasTimer' = HasTimer
      /\ Eager' = Eager /\ Longest' = Longest
  BY <1>1, SameFlags
<1>5. /\ Longest \in Nat /\ Timeout \in {Never} \cup 1 .. Longest
      /\ HasTimer <=> (Transport = "raw" /\ Timeout # Never)
      /\ Eager <=> Transport \in {"raw", "udp", "whatsapp"}
  BY <1>1, <1>3, Bounds DEF Started, Relayed
<1>6. session \in {"none", "done", "failed"} /\ age \in Nat BY <1>2, TimesAssumption DEF TypeOK
<1>7. CASE ~Eager
  <2>1. Relay(Never) /\ reporter' = reporter BY <1>7 DEF Connect
  <2>2. Reports' BY <1>1, <1>2, <1>3, <2>1 DEF Reports, Relay, TypeOK
  <2>3. session = "none" BY <1>1 DEF Inv, Unstarted
  <2> QED BY <1>1, <1>2, <1>3, <1>7, <2>1, <2>2, <2>3, RelayBegins DEF TypeOK
<1>8. CASE Eager
  <2>1. /\ pc' = "handshake" /\ loop' = loop /\ late' = late
        /\ age' = IF Transport = "udp" THEN 0 ELSE age
        /\ left' = [left EXCEPT !.dialer = Never,
                                !.deadline = IF Transport = "raw" THEN Never ELSE Timeout]
        /\ reporter' = IF HasTimer THEN "running" ELSE "none"
    BY <1>8 DEF Connect
  <2>2. left' \in [ dialer : Never .. Longest, timer : Never .. Longest,
                   deadline : Never .. Longest, safety : Never .. SafetyTimeout ]
    <3>1. /\ Never \in Never .. Longest
          /\ (IF Transport = "raw" THEN Never ELSE Timeout) \in Never .. Longest
      BY <1>5 DEF Never
    <3> QED BY <1>2, <2>1, <3>1 DEF TypeOK
  <2>3. /\ left'.timer = left.timer
        /\ left'.deadline = IF Transport = "raw" THEN Never ELSE Timeout
    BY <1>2, <2>1 DEF TypeOK
  <2>4. TypeOK' BY <1>1, <1>2, <1>4, <2>1, <2>2, TimesAssumption DEF TypeOK
  <2>5. Configured' BY <1>1, <2>1 DEF Inv, Configured, Started, Relayed
  <2>6. Reports' BY <1>1, <1>2, <1>3, <2>1, <2>3 DEF Reports
  <2>7. Handshaking'
    <3>1. ASSUME Timeout # Never, Transport = "raw" PROVE age' <= Timeout /\ TimerBounds'
      <4>1. left.dialer >= 0 /\ left.dialer + age <= Timeout /\ TimerBounds
        BY <1>1, <1>2, <1>5, <3>1 DEF Dialling
      <4>2. left.dialer \in Int /\ Timeout \in Int BY <1>2, <1>5 DEF TypeOK, Never
      <4>3. age <= Timeout BY <1>6, <4>1, <4>2
      <4>4. TimerBounds' BY <1>1, <1>4, <2>1, <2>3, <3>1, <4>1 DEF TimerBounds
      <4> QED BY <2>1, <3>1, <4>3, <4>4
    <3>2. ASSUME Timeout # Never, Transport = "udp"
          PROVE  left'.deadline >= 0 /\ left'.deadline + age' <= Timeout
      <4>1. age' = 0 BY <2>1, <3>2
      <4> QED BY <1>5, <2>3, <3>2, <4>1
    <3>3. ASSUME Timeout # Never, Transport = "whatsapp"
          PROVE  left'.deadline >= 0 /\ left'.deadline + age' <= 2 * Timeout
      <4>1. left.dialer >= 0 /\ left.dialer + age <= Timeout
        BY <1>1, <1>2, <3>3 DEF Dialling
      <4>2. left.dialer \in Int /\ Timeout \in Nat BY <1>2, <1>5, <3>3 DEF TypeOK, Never
      <4> QED BY <1>6, <2>1, <2>3, <3>3, <4>1, <4>2
    <3> QED BY <1>4, <1>8, <3>1, <3>2, <3>3 DEF Handshaking
  <2>8. Fresh' /\ Dialling' /\ Loops' /\ Idle' /\ Kept' /\ Returned' /\ Unstarted' /\ Listening'
        /\ Reached'
    BY <1>1, <2>1 DEF Fresh, Dialling, Loops, Idle, Kept, Relayed, Returned, Reached, Unstarted, Listening
  <2> QED BY <2>4, <2>5, <2>6, <2>7, <2>8 DEF Inv
<1> QED BY <1>7, <1>8

LEMMA DialHandshakeStep == ASSUME Inv, DialHandshake PROVE Inv'
<1>1. /\ pc = "handshake" /\ reporter = "none"
      /\ UNCHANGED <<flags, conf, peer, reporter, reports>>
  BY DEF DialHandshake
<1>2. TypeOK /\ Reports BY DEF Inv
<1>3. CASE MayFinish /\ session' = "done" /\ Relay(ClearedDeadline) /\ UNCHANGED net
  <2>1. Relay(Never) /\ net' = "open" BY <1>3 DEF ClearedDeadline, MayFinish
  <2>2. left'.timer = left.timer BY <1>2, <2>1 DEF TypeOK, Relay
  <2>3. Reports' BY <1>1, <1>2, <2>2 DEF Reports
  <2> QED BY <1>1, <1>2, <1>3, <2>1, <2>3, RelayBegins DEF TypeOK
<1>4. CASE MayFail /\ DialFails /\ UNCHANGED session
  <2>1. Reports' BY <1>1, <1>2, <1>4 DEF Reports, DialFails
  <2> QED BY <1>1, <1>2, <1>4, <2>1, DialEnds DEF TypeOK
<1> QED BY <1>3, <1>4 DEF DialHandshake

\* A report more, with the reporter's end.
LEMMA ReportHandshakeStep == ASSUME Inv, ReportHandshake PROVE Inv'
<1>1. /\ reporter = "running" /\ Len(reports) < 2 /\ reporter' = "ended"
      /\ UNCHANGED <<flags, pc, conf, net, peer, loop, left, age, late>>
  BY DEF ReportHandshake, MaySend
<1>2. TypeOK /\ Reports BY DEF Inv
<1>3. pc \in {"handshake", "exit"} BY <1>1, <1>2 DEF Reports
<1>4. PICK r \in {"done", "failed"} :
        reports' = Append(reports, r) /\ (r = "done" => session' = "done")
  BY DEF ReportHandshake
<1>5. session' \in {"done", session} BY DEF ReportHandshake
<1>6. /\ reports \in Seq({"done", "failed", "timeout"})
      /\ reports' \in Seq({"done", "failed", "timeout"})
      /\ Len(reports') = Len(reports) + 1 /\ Len(reports) \in Nat
      /\ \A i \in DOMAIN reports' : (i \in DOMAIN reports /\ reports'[i] = reports[i]) \/ reports'[i] = r
  BY <1>2, <1>4 DEF TypeOK
<1>7. /\ Transport' = Transport /\ Timeout' = Timeout /\ HasTimer' = HasTimer
      /\ Eager' = Eager /\ Longest' = Longest
  BY <1>1, SameFlags
<1>8. TypeOK' BY <1>1, <1>2, <1>5, <1>6, <1>7 DEF TypeOK
<1>9. Reports'
  <2>1. \A i \in DOMAIN reports : reports[i] # "done" BY <1>1, <1>2 DEF Reports
  <2>2. \A i \in DOMAIN reports' : reports'[i] = "done" => session' = "done"
    BY <1>4, <1>6, <2>1
  <2>3. left.timer >= 0 => Len(reports) = 0 BY <1>1, <1>2 DEF Reports
  <2>4. left'.timer >= 0 => Len(reports') <= 1 BY <1>1, <1>6, <2>3
  <2> QED BY <1>1, <2>2, <2>4 DEF Reports
<1>10. Handshaking'
  <2>1. reports' # <<>> BY <1>6
  <2>2. TimerBounds' BY <2>1 DEF TimerBounds
  <2> QED BY <1>1, <1>7, <2>2 DEF Inv, Handshaking
<1>11. Configured' BY <1>1 DEF Inv, Configured, Started, Relayed
<1>12. /\ Fresh' /\ Dialling' /\ Loops' /\ Idle' /\ Kept' /\ Returned' /\ Unstarted'
       /\ Listening'
  BY <1>1, <1>3 DEF Fresh, Dialling, Loops, Idle, Kept, Relayed, Returned, Unstarted, Listening
<1>13. Reached' BY <1>1 DEF Inv, Reached
<1> QED BY <1>13, <1>8, <1>9, <1>10, <1>11, <1>12 DEF Inv

LEMMA ReportTimeoutStep == ASSUME Inv, ReportTimeout PROVE Inv'
<1>1. /\ left.timer = 0 /\ Len(reports) < 2 /\ reports' = Append(reports, "timeout")
      /\ left' = [left EXCEPT !.timer = Never]
      /\ UNCHANGED <<flags, pc, conf, net, peer, session, loop, reporter, age, late>>
  BY DEF ReportTimeout, MaySend
<1>2. TypeOK /\ Reports BY DEF Inv
<1>3. /\ reports' \in Seq({"done", "failed", "timeout"})
      /\ Len(reports') = Len(reports) + 1 /\ Len(reports) \in Nat
      /\ \A i \in DOMAIN reports' :
           (i \in DOMAIN reports /\ reports'[i] = reports[i]) \/ reports'[i] = "timeout"
  BY <1>1, <1>2 DEF TypeOK
<1>4. /\ Transport' = Transport /\ Timeout' = Timeout /\ HasTimer' = HasTimer
      /\ Eager' = Eager /\ Longest' = Longest
  BY <1>1, SameFlags
<1>5. /\ left'.timer = Never /\ left'.dialer = left.dialer /\ left'.deadline = left.deadline
      /\ left'.safety = left.safety
  BY <1>1, <1>2 DEF TypeOK
<1>6. TypeOK'
  <2>1. Longest \in Int /\ Never \in Never .. Longest
    <3>1. flags.w \in Int BY <1>2 DEF TypeOK, Flags
    <3> QED BY <3>1, TimesAssumption DEF Longest, Never
  <2>2. left' \in [ dialer : Never .. Longest, timer : Never .. Longest,
                   deadline : Never .. Longest, safety : Never .. SafetyTimeout ]
    BY <1>1, <1>2, <2>1 DEF TypeOK
  <2> QED BY <1>1, <1>2, <1>3, <1>4, <2>2 DEF TypeOK
<1>7. Configured' BY <1>1 DEF Inv, Configured, Started, Relayed
<1>8. pc \notin {"flags", "parse", "start", "listen", "daemon"}
  <2>1. "timer" \in DOMAIN left BY <1>2 DEF TypeOK
  <2> QED BY <1>1, <2>1 DEF Inv, Fresh, Never
<1>9. Fresh' BY <1>1, <1>8 DEF Fresh
<1>10. Reports'
  <2>1. reporter' = "running" => pc' \in {"handshake", "exit"} BY <1>1, <1>2 DEF Reports
  <2>2. \A i \in DOMAIN reports' : reports'[i] = "done" => session' = "done" /\ reporter' = "ended"
    BY <1>1, <1>2, <1>3 DEF Reports
  <2> QED BY <1>5, <2>1, <2>2 DEF Reports, Never
<1>11. TimerBounds'
  <2>1. reports' # <<>> BY <1>3
  <2> QED BY <2>1 DEF TimerBounds
<1>12. Dialling' BY <1>1, <1>4, <1>5, <1>11 DEF Inv, Dialling
<1>13. Handshaking' BY <1>1, <1>4, <1>5, <1>11 DEF Inv, Handshaking
<1>14. Loops' BY <1>1 DEF Inv, Loops
<1>15. Idle' BY <1>1, <1>4, <1>5 DEF Inv, Idle, Relayed
<1>16. Kept' BY <1>1, <1>4, <1>5 DEF Inv, Kept, Relayed
<1>17. Returned' /\ Unstarted' /\ Listening' /\ Reached'
  BY <1>1, <1>4 DEF Inv, Returned, Relayed, Reached, Unstarted, Listening
<1> QED BY <1>6, <1>7, <1>9, <1>10, <1>12, <1>13, <1>14, <1>15, <1>16, <1>17 DEF Inv

\* Two reports are never those of a dial that succeeds late: the second one
\* stays unread, and a success that is read is the handshake's.
LEMMA ReceiveReportStep == ASSUME Inv, ReceiveReport PROVE Inv'
<1>1. /\ pc = "handshake" /\ reporter # "none" /\ reports # <<>> /\ reports' = Tail(reports)
      /\ UNCHANGED <<flags, conf, peer, session, reporter>>
  BY DEF ReceiveReport
<1>2. TypeOK /\ Reports BY DEF Inv
<1>3. /\ reports \in Seq({"done", "failed", "timeout"})
      /\ reports' \in Seq({"done", "failed", "timeout"})
      /\ Len(reports) \in 1 .. 2 /\ Len(reports') = Len(reports) - 1
      /\ Head(reports) = reports[1] /\ 1 \in DOMAIN reports
      /\ \A i \in DOMAIN reports' : i + 1 \in DOMAIN reports /\ reports'[i] = reports[i + 1]
  <2>1. reports \in Seq({"done", "failed", "timeout"}) /\ Len(reports) <= 2 BY <1>2 DEF TypeOK
  <2>2. Len(reports) \in Nat /\ (Len(reports) = 0 => reports = <<>>) BY <2>1
  <2>3. Len(reports) # 0 BY <1>1, <2>2
  <2>4. \A n \in Nat : n # 0 /\ n <= 2 => n \in 1 .. 2 OBVIOUS
  <2>5. Len(reports) \in 1 .. 2 BY <2>1, <2>2, <2>3, <2>4
  <2> QED BY <1>1, <2>1, <2>5
<1>4. ASSUME left'.timer = left.timer, pc' \in {"handshake", "exit"} \/ reporter # "running"
      PROVE  Reports'
  <2>1. reporter' = "running" => pc' \in {"handshake", "exit"} BY <1>1, <1>4
  <2>2. \A i \in DOMAIN reports' : reports'[i] = "done" => session' = "done" /\ reporter' = "ended"
    BY <1>1, <1>2, <1>3 DEF Reports
  <2>3. left.timer >= 0 => Len(reports) = 1 BY <1>2, <1>3 DEF Reports
  <2>4. left'.timer >= 0 => Len(reports') = 0 BY <1>3, <1>4, <2>3
  <2>5. Len(reports') = 0 => reports' = <<>> BY <1>3
  <2> QED BY <2>1, <2>2, <2>4, <2>5 DEF Reports
<1>5. CASE Head(reports) = "done"
  <2>1. Relay(Never) /\ net' = net BY <1>5 DEF ReceiveReport, Success
  <2>2. session = "done" /\ reporter = "ended" BY <1>2, <1>3, <1>5 DEF Reports
  <2>3. left'.timer = left.timer BY <1>2, <2>1 DEF TypeOK, Relay
  <2>4. Reports' BY <1>4, <2>2, <2>3
  <2>5. net = "open" BY <1>1 DEF Inv, Reached
  <2> QED BY <1>1, <1>2, <1>3, <2>1, <2>2, <2>4, <2>5, RelayBegins DEF TypeOK
<1>6. CASE Head(reports) # "done"
  <2>1. DialFails BY <1>6 DEF ReceiveReport, Success
  <2>2. Reports' BY <1>4, <2>1 DEF DialFails
  <2> QED BY <1>1, <1>2, <1>3, <2>1, <2>2, DialEnds DEF TypeOK
<1> QED BY <1>5, <1>6

-----------------------------------------------------------------------------
(* The peer and the clock.                                                 *)

LEMMA PeerFallsSilentStep == ASSUME Inv, PeerFallsSilent PROVE Inv'
<1>1. /\ peer' = "silent"
      /\ UNCHANGED <<flags, pc, conf, net, session, loop, reporter, reports, left, age, late>>
  BY DEF PeerFallsSilent
<1>2. /\ Transport' = Transport /\ Timeout' = Timeout /\ HasTimer' = HasTimer
      /\ Eager' = Eager /\ Longest' = Longest
  BY <1>1, SameFlags
<1>3. TypeOK' BY <1>1, <1>2 DEF Inv, TypeOK
<1>4. Configured' BY <1>1 DEF Inv, Configured, Started, Relayed
<1>5. Fresh' BY <1>1 DEF Inv, Fresh
<1>6. Unstarted' /\ Listening' /\ Reached' BY <1>1 DEF Inv, Unstarted, Listening, Reached
<1>7. Reports' BY <1>1 DEF Inv, Reports
<1>8. TimerBounds' = TimerBounds BY <1>1, <1>2 DEF TimerBounds
<1>9. Dialling' BY <1>1, <1>2, <1>8 DEF Inv, Dialling
<1>10. Handshaking' BY <1>1, <1>2, <1>8 DEF Inv, Handshaking
<1>11. Loops' BY <1>1 DEF Inv, Loops
<1>12. Idle' BY <1>1, <1>2 DEF Inv, Idle, Relayed
<1>13. Kept' BY <1>1, <1>2 DEF Inv, Kept, Relayed
<1>14. Returned' BY <1>1, <1>2 DEF Inv, Returned, Relayed
<1> QED
  BY <1>3, <1>4, <1>5, <1>6, <1>7, <1>9, <1>10, <1>11, <1>12, <1>13, <1>14 DEF Inv

\* The target of the proxy is reached: the idle deadline is where it was.
LEMMA ProxyDialsStep == ASSUME Inv, ProxyDials PROVE Inv'
<1>1. /\ pc = "proxy" /\ pc' = "relay" /\ loop' = [in |-> "call", out |-> "source"]
      /\ UNCHANGED <<flags, conf, net, peer, session, reporter, reports, left, age, late>>
  BY DEF ProxyDials, handleIO
<1>2. /\ Transport' = Transport /\ Longest' = Longest /\ Eager' = Eager
  BY <1>1, SameFlags
<1>3. TypeOK'
  <2>1. loop' \in [Loop -> {"none", "source", "call", "handshake", "read", "sink", "ended"}]
    BY <1>1 DEF Loop
  <2> QED BY <1>1, <1>2, <2>1 DEF Inv, TypeOK
<1>4. Configured' BY <1>1 DEF Inv, Configured, Started, Relayed
<1>5. /\ Fresh' /\ Dialling' /\ Handshaking' /\ Unstarted' /\ Listening' /\ Reached'
  BY <1>1 DEF Fresh, Dialling, Handshaking, Reached, Unstarted, Listening
<1>6. Reports' BY <1>1 DEF Inv, Reports
<1>7. Loops' BY <1>1 DEF Loops, Loop
<1>8. Idle'
  <2>1. \A l \in Loop : loop'[l] # "ended" BY <1>1 DEF Loop
  <2> QED BY <1>1, <1>2, <2>1 DEF Inv, Idle, Relayed
<1>9. Kept' /\ Returned' BY <1>1, <1>2 DEF Inv, Kept, Returned, Relayed
<1> QED BY <1>3, <1>4, <1>5, <1>6, <1>7, <1>8, <1>9 DEF Inv

LEMMA NothingToRelayStep == ASSUME Inv, NothingToRelay PROVE Inv'
<1>1. /\ pc \in {"proxy", "command"} /\ pc' = "exit" /\ net' = "closed"
      /\ UNCHANGED <<flags, conf, peer, session, loop, reporter, reports, left, age, late>>
  BY DEF NothingToRelay
<1>2. Longest' = Longest BY <1>1, SameFlags
<1>3. TypeOK' BY <1>1, <1>2 DEF Inv, TypeOK
<1>4. Configured' BY <1>1 DEF Inv, Configured, Started, Relayed
<1>5. Reports' BY <1>1 DEF Inv, Reports
<1>6. Fresh' /\ Dialling' /\ Handshaking' /\ Loops' /\ Idle' /\ Kept' /\ Returned'
      /\ Unstarted' /\ Listening' /\ Reached'
  BY <1>1 DEF Reached, Unstarted, Listening, Fresh, Dialling, Handshaking, Loops, Idle, Kept,
     Returned, Relayed
<1> QED BY <1>3, <1>4, <1>5, <1>6 DEF Inv

\* What a tick takes off a timer goes onto the age, and what is due is not
\* passed over; nor is an idle deadline, unless nobody is there to see it.
LEMMA TickStep == ASSUME Inv, Tick PROVE Inv'
<1>1. /\ pc \in {"connect", "handshake", "proxy", "relay", "command"} /\ ~Due
      /\ left' = [t \in DOMAIN left |-> IF left[t] > 0 THEN left[t] - 1 ELSE left[t]]
      /\ age' = IF age < MaxAge THEN age + 1 ELSE age
      /\ late' = IF Unattended /\ left.deadline = 0
                 THEN IF late < MaxAge THEN late + 1 ELSE late
                 ELSE late
      /\ UNCHANGED <<flags, pc, conf, net, peer, session, loop, reporter, reports>>
  BY DEF Tick, Capped
<1>2. TypeOK BY DEF Inv
<1>3. /\ Transport' = Transport /\ Timeout' = Timeout /\ HasTimer' = HasTimer
      /\ Eager' = Eager /\ Longest' = Longest
  BY <1>1, SameFlags
<1>4. /\ flags.w \in Nat /\ Longest \in Nat /\ flags.w < MaxAge
      /\ Timeout \in {Never} \cup 1 .. Longest /\ SafetyTimeout \in Nat /\ MaxAge \in Nat
      /\ Eager => Transport \in {"raw", "udp", "whatsapp"}
      /\ HasTimer <=> (Transport = "raw" /\ ~flags.listen /\ Timeout # Never)
  BY <1>1, Bounds, TimesAssumption DEF Started, Relayed
<1>5. DOMAIN left = {"dialer", "timer", "deadline", "safety"} BY <1>2 DEF TypeOK
<1>6. /\ left.dialer \in Never .. Longest /\ left.timer \in Never .. Longest
      /\ left.deadline \in Never .. Longest /\ left.safety \in Never .. SafetyTimeout
      /\ age \in 0 .. MaxAge /\ late \in 0 .. MaxAge
  BY <1>2 DEF TypeOK
<1>7. /\ left'.dialer = IF left.dialer > 0 THEN left.dialer - 1 ELSE left.dialer
      /\ left'.timer = IF left.timer > 0 THEN left.timer - 1 ELSE left.timer
      /\ left'.deadline = IF left.deadline > 0 THEN left.deadline - 1 ELSE left.deadline
      /\ left'.safety = IF left.safety > 0 THEN left.safety - 1 ELSE left.safety
  BY <1>1, <1>5
<1>8. left' \in [ dialer : Never .. Longest, timer : Never .. Longest,
                 deadline : Never .. Longest, safety : Never .. SafetyTimeout ]
  <2>1. /\ left'.dialer \in Never .. Longest /\ left'.timer \in Never .. Longest
        /\ left'.deadline \in Never .. Longest /\ left'.safety \in Never .. SafetyTimeout
    BY <1>4, <1>6, <1>7 DEF Never
  <2>2. left' = [dialer |-> left'.dialer, timer |-> left'.timer,
                 deadline |-> left'.deadline, safety |-> left'.safety]
    BY <1>1, <1>5
  <2> QED BY <2>1, <2>2
<1>9. /\ age' \in 0 .. MaxAge /\ age' <= age + 1 /\ age' >= age /\ (age' = age => age = MaxAge)
      /\ late' \in 0 .. MaxAge /\ late' >= late
      /\ Unattended /\ left.deadline = 0 => late' = late + 1 \/ late' = MaxAge
  BY <1>1, <1>4, <1>6
<1>10. TypeOK' BY <1>1, <1>2, <1>3, <1>8, <1>9 DEF TypeOK
<1>11. Configured' BY <1>1 DEF Inv, Configured, Started, Relayed
<1>12. Fresh' BY <1>1 DEF Fresh
<1>13. Unstarted' /\ Listening' /\ Reached' BY <1>1 DEF Inv, Unstarted, Listening, Reached
<1>14. Returned' BY <1>1, <1>3 DEF Inv, Returned, Relayed
<1>15. Loops' BY <1>1 DEF Inv, Loops
<1>16. Reports'
  <2>1. left'.timer >= 0 => left.timer >= 0 BY <1>6, <1>7 DEF Never
  <2> QED BY <1>1, <2>1 DEF Inv, Reports
<1>17. TimerBounds => TimerBounds'
  <2> SUFFICES ASSUME TimerBounds, reports = <<>> PROVE TimerBounds'
    BY <1>1 DEF TimerBounds
  <2>1. left.timer >= 0 /\ left.timer + age <= Timeout BY DEF TimerBounds
  <2>2. Len(reports) < 2 OBVIOUS
  <2>3. left.timer # 0 BY <1>1, <2>2 DEF Due, MaySend
  <2>4. /\ Timeout \in Int /\ left.timer \in Int /\ left.timer > 0
        /\ age \in Int /\ age' \in Int /\ age' <= age + 1
    BY <1>4, <1>6, <1>9, <2>1, <2>3 DEF Never
  <2>5. left'.timer = left.timer - 1 BY <1>7, <2>4
  <2>6. left'.timer >= 0 /\ left'.timer + age' <= Timeout BY <2>1, <2>4, <2>5
  <2> QED BY <1>3, <2>6 DEF TimerBounds
<1>18. Dialling'
  <2> SUFFICES ASSUME pc = "connect" PROVE Dialling' BY <1>1 DEF Dialling
  <2>1. left.dialer # 0 BY <1>1 DEF Due
  <2>2. /\ ~flags.listen /\ reporter = "none" /\ (Timeout # Never /\ HasTimer => TimerBounds)
        /\ Transport # "udp" /\ Timeout # Never =>
             left.dialer >= 0 /\ left.dialer + age <= Timeout
    BY DEF Inv, Dialling
  <2>3. Transport # "udp" /\ Timeout # Never =>
          left'.dialer >= 0 /\ left'.dialer + age' <= Timeout
    <3> SUFFICES ASSUME Transport # "udp", Timeout # Never
                 PROVE  left'.dialer >= 0 /\ left'.dialer + age' <= Timeout
      OBVIOUS
    <3>1. /\ Timeout \in Int /\ left.dialer \in Int /\ left.dialer > 0
          /\ age \in Int /\ age' \in Int /\ age' <= age + 1
      BY <1>4, <1>6, <1>9, <2>1, <2>2 DEF Never
    <3>2. left'.dialer = left.dialer - 1 BY <1>7, <3>1
    <3> QED BY <2>2, <3>1, <3>2
  <2> QED BY <1>1, <1>3, <1>17, <2>2, <2>3 DEF Dialling
<1>19. Handshaking'
  <2> SUFFICES ASSUME pc = "handshake" PROVE Handshaking' BY <1>1 DEF Handshaking
  <2>1. left.deadline # 0 /\ reports = <<>> BY <1>1 DEF Due
  <2>2. Handshaking BY DEF Inv
  <2>3. Timeout \in Int BY <1>4 DEF Never
  <2>4. ASSUME Timeout # Never, Transport = "raw" PROVE age' <= Timeout /\ TimerBounds'
    <3>1. TimerBounds BY <2>2, <2>4 DEF Handshaking
    <3>2. TimerBounds' BY <1>17, <3>1
    <3>3. left'.timer >= 0 /\ left'.timer + age' <= Timeout
      BY <1>1, <1>3, <2>1, <3>2 DEF TimerBounds
    <3>4. left'.timer \in Int BY <1>6, <1>7
    <3> QED BY <1>9, <2>3, <3>2, <3>3, <3>4
  <2>5. ASSUME Timeout # Never, Transport = "udp"
        PROVE  left'.deadline >= 0 /\ left'.deadline + age' <= Timeout
    <3>1. left.deadline >= 0 /\ left.deadline + age <= Timeout BY <2>2, <2>5 DEF Handshaking
    <3> QED BY <1>6, <1>7, <1>9, <2>1, <2>3, <3>1
  <2>6. ASSUME Timeout # Never, Transport = "whatsapp"
        PROVE  left'.deadline >= 0 /\ left'.deadline + age' <= 2 * Timeout
    <3>1. left.deadline >= 0 /\ left.deadline + age <= 2 * Timeout BY <2>2, <2>6 DEF Handshaking
    <3> QED BY <1>6, <1>7, <1>9, <2>1, <2>3, <3>1
  <2> QED BY <1>1, <1>3, <2>2, <2>4, <2>5, <2>6 DEF Handshaking
<1>20. Idle'
  <2> SUFFICES ASSUME Relayed, net = "open", flags.w > 0,
                      ~(flags.listen /\ Transport = "whatsapp")
               PROVE  Idle'
    BY <1>1, <1>3 DEF Idle, Relayed
  <2>1. CASE pc = "relay" /\ \E l \in Loop : loop[l] = "ended"
    <3>1. left.safety >= 0 /\ left.safety + age <= flags.w + SafetyTimeout + late
      BY <2>1 DEF Inv, Idle, Relayed
    <3>2. left.safety # 0 BY <1>1, <2>1 DEF Due
    <3>3. left'.safety >= 0 /\ left'.safety + age' <= flags.w + SafetyTimeout + late'
      BY <1>4, <1>6, <1>7, <1>9, <3>1, <3>2
    <3> QED BY <1>1, <2>1, <3>3 DEF Idle, Relayed
  <2>2. CASE ~(pc = "relay" /\ \E l \in Loop : loop[l] = "ended")
    <3>1. left.deadline >= 0 /\ left.deadline + age <= flags.w + late BY <2>2 DEF Inv, Idle, Relayed
    <3>2. "in" \in Loop /\ Other("in") = "out" /\ "out" \in Loop BY DEF Loop, Other
    <3>3. left.deadline # 0 \/ Unattended
      <4> SUFFICES ASSUME pc = "relay", loop["in"] # "sink" PROVE left.deadline # 0
        BY DEF Unattended, Relayed
      <4>1. loop["in"] \in {"call", "handshake", "read"} BY <2>2, <3>2 DEF Inv, Loops
      <4>2. loop["in"] # "call" => left.deadline # 0 BY <1>1, <3>2, <4>1 DEF Due
      <4>3. loop["out"] = "handshake" => left.deadline # 0 BY <1>1, <3>2 DEF Due
      <4>4. loop["in"] = "call" => ~(session = "none" => MayStart("in")) BY <1>1, <3>2 DEF Due
      <4> QED BY <3>2, <4>2, <4>3, <4>4 DEF MayStart
    <3>4. /\ left.deadline \in Int /\ age \in Int /\ age' \in Int /\ late \in Int
          /\ late' \in Int /\ late' >= late /\ age' <= age + 1 /\ age' <= MaxAge
          /\ MaxAge \in Int /\ flags.w \in Nat
      BY <1>4, <1>6, <1>9
    <3>5. CASE left.deadline # 0
      <4>1. left'.deadline = left.deadline - 1 BY <1>7, <3>1, <3>4, <3>5
      <4>2. left'.deadline >= 0 BY <3>1, <3>4, <3>5, <4>1
      <4>3. left'.deadline + age' <= flags.w + late' BY <3>1, <3>4, <4>1
      <4> QED BY <1>1, <2>2, <4>2, <4>3 DEF Idle, Relayed
    <3>6. CASE left.deadline = 0
      <4>1. left'.deadline = 0 BY <1>7, <3>6
      <4>2. late' = late + 1 \/ late' = MaxAge BY <1>9, <3>3, <3>6
      <4>3. age' <= flags.w + late' BY <3>1, <3>4, <3>6, <4>2
      <4>4. left'.deadline + age' <= flags.w + late' BY <3>4, <4>1, <4>3
      <4> QED BY <1>1, <2>2, <4>1, <4>4 DEF Idle, Relayed
    <3> QED BY <3>5, <3>6
  <2> QED BY <2>1, <2>2
<1>21. Kept'
  <2> SUFFICES ASSUME Relayed, left'.deadline >= 0, Transport # "whatsapp" \/ session = "done"
               PROVE  flags.w > 0 /\ left'.deadline + age' >= flags.w
    BY <1>1, <1>3 DEF Kept, Relayed
  <2>1. left.deadline >= 0 BY <1>6, <1>7 DEF Never
  <2>2. flags.w > 0 /\ left.deadline + age >= flags.w BY <2>1 DEF Inv, Kept, Relayed
  <2>3. CASE age' = age
    <3>1. age' = MaxAge /\ left'.deadline \in Nat BY <1>9, <1>6, <1>7, <2>3, <2>1
    <3> QED BY <1>4, <2>2, <3>1
  <2>4. CASE age' # age
    <3>1. age' = age + 1 BY <1>1, <2>4
    <3> QED BY <1>4, <1>6, <1>7, <2>2, <3>1
  <2> QED BY <2>3, <2>4
<1> QED
  BY <1>10, <1>11, <1>12, <1>13, <1>14, <1>15, <1>16, <1>18, <1>19, <1>20, <1>21 DEF Inv

-----------------------------------------------------------------------------
(* The relay.                                                              *)

\* A step of the relay leaves what the configuration and the dial have set.
LEMMA RelayStep ==
  ASSUME Inv, pc = "relay", pc' \in {"relay", "exit", "panic"},
         UNCHANGED <<flags, conf, reporter, reports>>, left'.timer = left.timer,
         session = "done" => session' = "done"
  PROVE  /\ Configured' /\ Fresh' /\ Unstarted' /\ Listening' /\ Reached' /\ Reports'
         /\ Dialling' /\ Handshaking' /\ Returned'
<1>1. Configured' BY DEF Inv, Configured, Started, Relayed
<1>2. Fresh' /\ Unstarted' /\ Listening' /\ Reached' /\ Dialling' /\ Handshaking'
  BY DEF Fresh, Unstarted, Listening, Reached, Dialling, Handshaking
<1>3. Reports' BY DEF Inv, Reports
<1>4. Eager' = Eager BY SameFlags
<1>5. Returned' BY <1>4 DEF Inv, Returned, Relayed
<1> QED BY <1>1, <1>2, <1>3, <1>5

\* The types, as far as the relay can disturb them.
LEMMA RelayTypes ==
  ASSUME Inv, pc' \in {"relay", "exit", "panic"},
         UNCHANGED <<flags, conf, peer, reporter, reports>>,
         net' \in {"closed", net}, session' \in {"none", "done", "failed"},
         loop' \in [Loop -> {"none", "source", "call", "handshake", "read", "sink", "ended"}],
         left' \in [ dialer : Never .. Longest, timer : Never .. Longest,
                    deadline : Never .. Longest, safety : Never .. SafetyTimeout ],
         age' \in {0, age}, late' \in {0, late}
  PROVE  TypeOK'
<1>1. Longest' = Longest BY SameFlags
<1>2. 0 \in 0 .. MaxAge BY TimesAssumption
<1> QED BY <1>1, <1>2 DEF Inv, TypeOK

\* A loop returns: the safety timer has its time on top of what -w had left.
LEMMA EndStep ==
  ASSUME Inv, pc = "relay", NEW l \in Loop, loop[l] # "ended", End(l),
         UNCHANGED <<flags, conf, peer, reporter, reports, age, late>>,
         session' \in {"none", "done", "failed"}, session = "done" => session' = "done",
         session' = "done" => session = "done",
         session # session' => loop[l] = "handshake"
  PROVE  Inv'
<1>1. TypeOK BY DEF Inv
<1>2. /\ Transport' = Transport /\ Longest' = Longest BY SameFlags
<1>3. /\ flags.w \in Nat /\ Longest \in Nat /\ SafetyTimeout \in Nat
  BY Bounds, TimesAssumption DEF Started, Relayed
<1>4. /\ loop' = [loop EXCEPT ![l] = "ended"] /\ Other(l) \in Loop /\ Other(l) # l
      /\ loop'[l] = "ended" /\ loop'[Other(l)] = loop[Other(l)]
      /\ Loop = {l, Other(l)} /\ Other(Other(l)) = l
  BY <1>1 DEF End, TypeOK, Loop, Other
<1>5. CASE loop[Other(l)] = "ended"
  <2>1. pc' = "exit" /\ net' = "closed" /\ left' = left BY <1>5 DEF End
  <2>2. TypeOK' BY <1>1, <1>4, <2>1, RelayTypes DEF TypeOK
  <2>3. Loops' /\ Idle' /\ Kept' BY <2>1 DEF Loops, Idle, Kept, Relayed
  <2> QED BY <2>1, <2>2, <2>3, RelayStep DEF Inv
<1>6. CASE loop[Other(l)] # "ended"
  <2>1. /\ pc' = "relay" /\ left' = [left EXCEPT !.safety = SafetyTimeout]
        /\ net' \in {"closed", net}
    BY <1>6 DEF End
  <2>2. /\ left'.timer = left.timer /\ left'.deadline = left.deadline
        /\ left'.safety = SafetyTimeout
    BY <1>1, <2>1 DEF TypeOK
  <2>3. left' \in [ dialer : Never .. Longest, timer : Never .. Longest,
                   deadline : Never .. Longest, safety : Never .. SafetyTimeout ]
    <3>1. SafetyTimeout \in Never .. SafetyTimeout BY <1>3 DEF Never
    <3> QED BY <1>1, <2>1, <3>1 DEF TypeOK
  <2>4. TypeOK' BY <1>1, <1>4, <2>1, <2>3, RelayTypes DEF TypeOK
  <2>5. Loops'
    <3>1. Loops BY DEF Inv
    <3>2. "in" \in Loop /\ "out" \in Loop BY DEF Loop
    <3>3. \A k \in Loop : loop'[k] \in {"ended", loop[k]} BY <1>4
    <3>4. \A k \in Loop : loop'[k] = "handshake" =>
            session' = "none" /\ loop'[Other(k)] # "handshake"
      <4>1. \A k \in Loop : loop'[k] = "handshake" => k = Other(l) /\ loop[k] = "handshake"
        BY <1>4
      <4>2. loop[Other(l)] = "handshake" => session = "none" /\ loop[l] # "handshake"
        BY <1>4, <3>1 DEF Loops
      <4> QED BY <1>4, <4>1, <4>2
    <3>5. loop'["in"] \in {"read", "sink"} => session' = "done" BY <3>1, <3>2, <3>3 DEF Loops
    <3> QED BY <3>1, <3>2, <3>3, <3>4, <3>5 DEF Loops
  <2>6. Idle'
    <3> SUFFICES ASSUME net' = "open", flags.w > 0, ~(flags.listen /\ Transport = "whatsapp")
                 PROVE  left'.safety >= 0 /\ left'.safety + age' <= flags.w + SafetyTimeout + late'
      BY <1>2, <1>4, <2>1 DEF Idle, Relayed
    <3>1. net = "open" BY <2>1
    <3>2. ~\E k \in Loop : loop[k] = "ended" BY <1>4, <1>6
    <3>3. left.deadline >= 0 /\ left.deadline + age <= flags.w + late BY <3>1, <3>2 DEF Inv, Idle, Relayed
    <3>4. left.deadline \in Int /\ age \in Int /\ late \in Int /\ late' = late
      BY <1>1 DEF TypeOK
    <3> QED BY <1>3, <2>2, <3>3, <3>4
  <2>7. Kept' BY <1>2, <2>1, <2>2 DEF Inv, Kept, Relayed
  <2> QED BY <2>1, <2>2, <2>4, <2>5, <2>6, <2>7, RelayStep DEF Inv
<1> QED BY <1>5, <1>6

\* Bytes move: all of -w is left again.
LEMMA MovesStep ==
  ASSUME Inv, pc = "relay", NEW l \in Loop, NEW to \in {"source", "sink"}, Moves(l, to),
         l = "in" <=> to = "sink", session = "done", loop[l] # "ended",
         UNCHANGED <<flags, conf, peer, session, reporter, reports>>
  PROVE  Inv'
<1>1. TypeOK BY DEF Inv
<1>2. /\ Transport' = Transport /\ Longest' = Longest BY SameFlags
<1>3. /\ flags.w \in Nat /\ Longest \in Nat /\ flags.w <= Longest BY Bounds DEF Started, Relayed
<1>4. /\ pc' = "relay" /\ net' = net /\ age' = 0 /\ late' = 0 /\ loop' = [loop EXCEPT ![l] = to]
      /\ left' = [left EXCEPT !.deadline = IF flags.w > 0 THEN flags.w ELSE @]
  BY DEF Moves, Bumped
<1>5. /\ left'.timer = left.timer /\ left'.safety = left.safety
      /\ left'.deadline = IF flags.w > 0 THEN flags.w ELSE left.deadline
  BY <1>1, <1>4 DEF TypeOK
<1>6. left' \in [ dialer : Never .. Longest, timer : Never .. Longest,
                 deadline : Never .. Longest, safety : Never .. SafetyTimeout ]
  <2>1. (IF flags.w > 0 THEN flags.w ELSE left.deadline) \in Never .. Longest
    BY <1>1, <1>3 DEF Never, TypeOK
  <2> QED BY <1>1, <1>4, <2>1 DEF TypeOK
<1>7. loop' \in [Loop -> {"none", "source", "call", "handshake", "read", "sink", "ended"}]
  BY <1>1, <1>4 DEF TypeOK
<1>8. TypeOK' BY <1>1, <1>4, <1>6, <1>7, RelayTypes DEF TypeOK
<1>9. /\ \A k \in Loop : loop'[k] = IF k = l THEN to ELSE loop[k]
      /\ "in" \in Loop /\ "out" \in Loop /\ l \in {"in", "out"}
      /\ \A k \in Loop : Other(k) \in Loop
  BY <1>1, <1>4 DEF TypeOK, Loop, Other
<1>10. Loops'
  <2>1. Loops BY DEF Inv
  <2>2. \A k \in Loop : loop[k] # "handshake" BY <2>1 DEF Loops
  <2>3. \A k \in Loop : loop'[k] # "handshake" BY <1>9, <2>2
  <2>4. loop'["in"] \in {"call", "handshake", "read", "sink", "ended"} BY <1>9, <2>1 DEF Loops
  <2>5. loop'["out"] \in {"source", "call", "handshake", "ended"} BY <1>9, <2>1 DEF Loops
  <2> QED BY <2>3, <2>4, <2>5 DEF Loops
<1>11. (\E k \in Loop : loop'[k] = "ended") <=> (\E k \in Loop : loop[k] = "ended")
  BY <1>9
<1>12. Idle'
  <2> SUFFICES ASSUME net = "open", flags.w > 0, ~(flags.listen /\ Transport = "whatsapp")
               PROVE  IF \E k \in Loop : loop[k] = "ended"
                      THEN left'.safety >= 0 /\ left'.safety + age' <= flags.w + SafetyTimeout + late'
                      ELSE left'.deadline >= 0 /\ left'.deadline + age' <= flags.w + late'
    BY <1>2, <1>4, <1>11 DEF Idle, Relayed
  <2>1. CASE \E k \in Loop : loop[k] = "ended"
    <3>1. left.safety >= 0 /\ left.safety + age <= flags.w + SafetyTimeout + late
      BY <2>1 DEF Inv, Idle, Relayed
    <3>2. left.safety \in Never .. SafetyTimeout /\ SafetyTimeout \in Nat
      BY <1>1, TimesAssumption DEF TypeOK
    <3> QED BY <1>3, <1>4, <1>5, <2>1, <3>1, <3>2
  <2>2. CASE ~\E k \in Loop : loop[k] = "ended" BY <1>3, <1>4, <1>5, <2>2
  <2> QED BY <2>1, <2>2
<1>13. Kept'
  <2>1. flags.w = 0 => left.deadline < 0 /\ left.deadline \in Int BY <1>1 DEF Inv, Kept, Relayed, TypeOK
  <2> QED BY <1>2, <1>3, <1>4, <1>5, <2>1 DEF Kept, Relayed
<1> QED BY <1>4, <1>5, <1>8, <1>10, <1>12, <1>13, RelayStep DEF Inv

LEMMA WriteDataStep ==
  ASSUME Inv, pc = "relay", WriteData, session = "done", loop["out"] # "ended",
         UNCHANGED <<flags, conf, peer, session, reporter, reports>>
  PROVE  Inv'
<1>1. "out" \in Loop /\ session \in {"none", "done", "failed"} BY DEF Loop, Inv, TypeOK
<1>2. CASE net = "open" /\ left.deadline # 0
  <2>1. Moves("out", "source") BY <1>2 DEF WriteData
  <2> QED BY <1>1, <2>1, MovesStep
<1>3. CASE ~(net = "open" /\ left.deadline # 0)
  <2>1. End("out") /\ age' = age /\ late' = late BY <1>3 DEF WriteData
  <2> QED BY <1>1, <2>1, EndStep
<1> QED BY <1>2, <1>3

\* The deferred handshake of a WhatsApp listener, whose deadline is not the
\* idle one.
LEMMA CallStep == ASSUME Inv, NEW l \in Loop, Call(l) PROVE Inv'
<1>1. /\ pc = "relay" /\ loop[l] = "call"
      /\ UNCHANGED <<flags, conf, peer, session, reporter, reports>>
  BY DEF Call
<1>2. TypeOK BY DEF Inv
<1>3. /\ Transport' = Transport /\ Longest' = Longest BY <1>1, SameFlags
<1>4. \/ /\ session = "none" /\ MayStart(l)
         /\ loop' = [loop EXCEPT ![l] = "handshake"]
         /\ left' = [left EXCEPT !.deadline = HandshakeDeadline]
         /\ UNCHANGED <<pc, net, age, late>>
      \/ session = "failed" /\ End(l) /\ UNCHANGED <<age, late>>
      \/ /\ session = "done" /\ l = "in"
         /\ loop' = [loop EXCEPT ![l] = "read"] /\ UNCHANGED <<pc, net, left, age, late>>
      \/ session = "done" /\ l = "out" /\ WriteData
  BY DEF Call
<1>5. CASE /\ session = "none" /\ MayStart(l)
           /\ loop' = [loop EXCEPT ![l] = "handshake"]
           /\ left' = [left EXCEPT !.deadline = HandshakeDeadline]
           /\ UNCHANGED <<pc, net, age, late>>
  <2>1. Longest \in Nat /\ Timeout \in Never .. Longest
    <3>1. Longest \in Nat /\ Timeout \in {Never} \cup 1 .. Longest BY <1>1, Bounds DEF Started, Relayed
    <3> QED BY <3>1 DEF Never
  <2>2. HandshakeDeadline \in Never .. Longest BY <1>2, <2>1 DEF HandshakeDeadline, TypeOK
  <2>3. left' \in [ dialer : Never .. Longest, timer : Never .. Longest,
                   deadline : Never .. Longest, safety : Never .. SafetyTimeout ]
    BY <1>2, <1>5, <2>2 DEF TypeOK
  <2>4. /\ left'.timer = left.timer /\ left'.safety = left.safety
        /\ Transport # "whatsapp" => left'.deadline = left.deadline
    BY <1>2, <1>5 DEF TypeOK, HandshakeDeadline
  <2>5. loop' \in [Loop -> {"none", "source", "call", "handshake", "read", "sink", "ended"}]
    BY <1>2, <1>5 DEF TypeOK
  <2>6. TypeOK' BY <1>1, <1>2, <1>5, <2>3, <2>5, RelayTypes DEF TypeOK
  <2>7. /\ \A k \in Loop : loop'[k] = IF k = l THEN "handshake" ELSE loop[k]
        /\ "in" \in Loop /\ "out" \in Loop /\ Loop = {l, Other(l)}
        /\ Other(l) # l /\ Other(Other(l)) = l /\ Other(l) \in Loop
    BY <1>2, <1>5 DEF TypeOK, Loop, Other
  <2>8. Loops'
    <3>1. Loops /\ loop[Other(l)] # "handshake" BY <1>5 DEF Inv, MayStart
    <3>2. loop'["in"] \in {"call", "handshake", "read", "sink", "ended"} BY <1>1, <2>7, <3>1 DEF Loops
    <3>3. loop'["out"] \in {"source", "call", "handshake", "ended"}
      BY <1>1, <2>7, <3>1 DEF Loops
    <3>4. \A k \in Loop : loop'[k] = "handshake" =>
            session' = "none" /\ loop'[Other(k)] # "handshake"
      BY <1>1, <1>5, <2>7, <3>1
    <3>5. loop'["in"] \in {"read", "sink"} => session' = "done" BY <1>1, <2>7, <3>1 DEF Loops
    <3> QED BY <3>2, <3>3, <3>4, <3>5 DEF Loops
  <2>9. (\E k \in Loop : loop'[k] = "ended") <=> (\E k \in Loop : loop[k] = "ended")
    BY <1>1, <2>7
  <2>10. Transport = "whatsapp" => flags.listen
    <3>1. Eager => session = "done" BY <1>1 DEF Inv, Returned, Relayed
    <3> QED BY <1>5, <3>1 DEF Eager
  <2>11. Idle' BY <1>1, <1>3, <1>5, <2>4, <2>9, <2>10 DEF Inv, Idle, Relayed
  <2>12. Kept' BY <1>1, <1>3, <1>5, <2>4 DEF Inv, Kept, Relayed
  <2> QED BY <1>1, <1>5, <2>4, <2>6, <2>8, <2>11, <2>12, RelayStep DEF Inv
<1>6. CASE session = "failed" /\ End(l) /\ UNCHANGED <<age, late>>
  BY <1>1, <1>2, <1>6, EndStep DEF TypeOK
<1>7. CASE /\ session = "done" /\ l = "in"
           /\ loop' = [loop EXCEPT ![l] = "read"] /\ UNCHANGED <<pc, net, left, age, late>>
  <2>1. loop' \in [Loop -> {"none", "source", "call", "handshake", "read", "sink", "ended"}]
    BY <1>2, <1>7 DEF TypeOK
  <2>2. TypeOK' BY <1>1, <1>2, <1>7, <2>1, RelayTypes DEF TypeOK
  <2>3. \A k \in Loop : loop'[k] = IF k = "in" THEN "read" ELSE loop[k]
    BY <1>2, <1>7 DEF TypeOK
  <2>4. "in" \in Loop /\ "out" \in Loop BY DEF Loop
  <2>5. Loops'
    <3>1. Loops BY DEF Inv
    <3>2. \A k \in Loop : loop'[k] # "handshake" BY <1>1, <1>7, <2>3, <3>1 DEF Loops
    <3>3. loop'["in"] = "read" /\ loop'["out"] = loop["out"] BY <2>3, <2>4
    <3> QED BY <1>1, <1>7, <3>1, <3>2, <3>3 DEF Loops
  <2>6. (\E k \in Loop : loop'[k] = "ended") <=> (\E k \in Loop : loop[k] = "ended")
    BY <1>1, <1>7, <2>3
  <2>7. Idle' BY <1>1, <1>3, <1>7, <2>6 DEF Inv, Idle, Relayed
  <2>8. Kept' BY <1>1, <1>3, <1>7 DEF Inv, Kept, Relayed
  <2> QED BY <1>1, <1>7, <2>2, <2>5, <2>7, <2>8, RelayStep DEF Inv
<1>8. CASE session = "done" /\ l = "out" /\ WriteData BY <1>1, <1>8, WriteDataStep
<1> QED BY <1>4, <1>5, <1>6, <1>7, <1>8

LEMMA HandshakeDoneStep == ASSUME Inv, NEW l \in Loop, HandshakeDone(l) PROVE Inv'
<1>1. /\ pc = "relay" /\ loop[l] = "handshake" /\ session' = "done"
      /\ loop' = [loop EXCEPT ![l] = "call"]
      /\ left' = [left EXCEPT !.deadline = IF Transport = "whatsapp" THEN Never ELSE @]
      /\ UNCHANGED <<flags, pc, conf, net, peer, reporter, reports, age, late>>
  BY DEF HandshakeDone, ClearedDeadline
<1>2. TypeOK /\ Loops BY DEF Inv
<1>3. /\ Transport' = Transport /\ Longest' = Longest BY <1>1, SameFlags
<1>4. left' \in [ dialer : Never .. Longest, timer : Never .. Longest,
                 deadline : Never .. Longest, safety : Never .. SafetyTimeout ]
  <2>1. Longest \in Nat BY <1>1, Bounds DEF Started, Relayed
  <2>2. (IF Transport = "whatsapp" THEN Never ELSE left.deadline) \in Never .. Longest
    BY <1>2, <2>1 DEF TypeOK, Never
  <2> QED BY <1>1, <1>2, <2>2 DEF TypeOK
<1>5. /\ left'.timer = left.timer /\ left'.safety = left.safety
      /\ left'.deadline = IF Transport = "whatsapp" THEN Never ELSE left.deadline
  BY <1>1, <1>2 DEF TypeOK
<1>6. loop' \in [Loop -> {"none", "source", "call", "handshake", "read", "sink", "ended"}]
  BY <1>1, <1>2 DEF TypeOK
<1>7. TypeOK' BY <1>1, <1>4, <1>6, RelayTypes
<1>8. /\ \A k \in Loop : loop'[k] = IF k = l THEN "call" ELSE loop[k]
      /\ "in" \in Loop /\ "out" \in Loop /\ Loop = {l, Other(l)} /\ Other(l) \in Loop
  BY <1>1, <1>2 DEF TypeOK, Loop, Other
<1>9. session = "none" /\ loop[Other(l)] # "handshake" BY <1>1, <1>2 DEF Loops
<1>10. Loops'
  <2>1. \A k \in Loop : loop'[k] # "handshake" BY <1>8, <1>9
  <2>2. loop'["in"] \in {"call"} \cup {loop["in"]} BY <1>8
  <2>3. loop'["out"] \in {"call"} \cup {loop["out"]} BY <1>8
  <2> QED BY <1>1, <1>2, <2>1, <2>2, <2>3 DEF Loops
<1>11. (\E k \in Loop : loop'[k] = "ended") <=> (\E k \in Loop : loop[k] = "ended")
  BY <1>1, <1>8
<1>12. Transport = "whatsapp" => flags.listen
  <2>1. Eager => session = "done" BY <1>1 DEF Inv, Returned, Relayed
  <2> QED BY <1>9, <2>1 DEF Eager
<1>13. Idle' BY <1>1, <1>3, <1>5, <1>11, <1>12 DEF Inv, Idle, Relayed
<1>14. Kept' BY <1>1, <1>3, <1>5 DEF Inv, Kept, Relayed, Never
<1> QED BY <1>1, <1>5, <1>7, <1>10, <1>13, <1>14, RelayStep DEF Inv

LEMMA HandshakeFailsStep == ASSUME Inv, NEW l \in Loop, HandshakeFails(l) PROVE Inv'
<1>1. /\ pc = "relay" /\ loop[l] = "handshake" /\ End(l) /\ session' \in {"none", "failed"}
      /\ UNCHANGED <<flags, conf, peer, reporter, reports, age, late>>
  BY DEF HandshakeFails
<1>2. session = "none" BY <1>1 DEF Inv, Loops
<1> QED BY <1>1, <1>2, EndStep

LEMMA ProposalUnsupportedStep ==
  ASSUME Inv, NEW l \in Loop, ProposalUnsupported(l) PROVE Inv'
<1>1. /\ pc = "relay" /\ pc' = "panic"
      /\ UNCHANGED <<flags, conf, net, peer, session, loop, reporter, reports, left, age, late>>
  BY DEF ProposalUnsupported
<1>2. TypeOK' BY <1>1, RelayTypes DEF Inv, TypeOK
<1>3. Loops' /\ Idle' /\ Kept' BY <1>1 DEF Loops, Idle, Kept, Relayed
<1> QED BY <1>1, <1>2, <1>3, RelayStep DEF Inv

LEMMA CopyStep == ASSUME Inv, NEW l \in Loop, Copy(l) PROVE Inv'
BY CallStep, HandshakeDoneStep, HandshakeFailsStep, ProposalUnsupportedStep DEF Copy

LEMMA ReadDataStep == ASSUME Inv, ReadData PROVE Inv'
<1>1. /\ pc = "relay" /\ loop["in"] = "read" /\ Moves("in", "sink")
      /\ UNCHANGED <<flags, conf, peer, session, reporter, reports>>
  BY DEF ReadData
<1>2. "in" \in Loop /\ session = "done" BY <1>1 DEF Inv, Loops, Loop
<1> QED BY <1>1, <1>2, MovesStep

LEMMA ReadEndsStep == ASSUME Inv, ReadEnds PROVE Inv'
<1>1. /\ pc = "relay" /\ loop["in"] = "read" /\ End("in")
      /\ UNCHANGED <<flags, conf, peer, session, reporter, reports, age, late>>
  BY DEF ReadEnds
<1>2. "in" \in Loop /\ session \in {"none", "done", "failed"} BY DEF Inv, TypeOK, Loop
<1> QED BY <1>1, <1>2, EndStep

\* The sink has taken what was read, however long that took.
LEMMA SinkTakesStep == ASSUME Inv, SinkTakes PROVE Inv'
<1>1. /\ pc = "relay" /\ loop["in"] = "sink" /\ loop' = [loop EXCEPT !["in"] = "read"]
      /\ UNCHANGED <<flags, pc, conf, net, peer, session, reporter, reports, left, age, late>>
  BY DEF SinkTakes
<1>2. TypeOK /\ Loops BY DEF Inv
<1>3. session = "done" BY <1>1, <1>2 DEF Loops
<1>4. loop' \in [Loop -> {"none", "source", "call", "handshake", "read", "sink", "ended"}]
  BY <1>1, <1>2 DEF TypeOK
<1>5. TypeOK' BY <1>1, <1>2, <1>4, RelayTypes DEF TypeOK
<1>6. \A k \in Loop : loop'[k] = IF k = "in" THEN "read" ELSE loop[k]
  BY <1>1, <1>2 DEF TypeOK
<1>7. "in" \in Loop /\ "out" \in Loop BY DEF Loop
<1>8. Loops'
  <2>1. \A k \in Loop : loop'[k] # "handshake" BY <1>1, <1>2, <1>3, <1>6 DEF Loops
  <2>2. loop'["in"] = "read" /\ loop'["out"] = loop["out"] BY <1>6, <1>7
  <2> QED BY <1>1, <1>2, <1>3, <2>1, <2>2 DEF Loops
<1>9. (\E k \in Loop : loop'[k] = "ended") <=> (\E k \in Loop : loop[k] = "ended")
  BY <1>1, <1>6
<1>10. Transport' = Transport BY <1>1, SameFlags
<1>11. Idle' BY <1>1, <1>9, <1>10 DEF Inv, Idle, Relayed
<1>12. Kept' BY <1>1, <1>10 DEF Inv, Kept, Relayed
<1> QED BY <1>1, <1>5, <1>8, <1>11, <1>12, RelayStep DEF Inv

LEMMA SinkFailsStep == ASSUME Inv, SinkFails PROVE Inv'
<1>1. /\ pc = "relay" /\ loop["in"] = "sink" /\ End("in")
      /\ UNCHANGED <<flags, conf, peer, session, reporter, reports, age, late>>
  BY DEF SinkFails
<1>2. "in" \in Loop /\ session \in {"none", "done", "failed"} BY DEF Inv, TypeOK, Loop
<1> QED BY <1>1, <1>2, EndStep

LEMMA SourceDataStep == ASSUME Inv, SourceData PROVE Inv'
<1>1. /\ pc = "relay" /\ loop["out"] = "source"
      /\ UNCHANGED <<flags, conf, peer, session, reporter, reports>>
  BY DEF SourceData
<1>2. TypeOK /\ "out" \in Loop BY DEF Inv, Loop
<1>3. CASE session = "done" /\ WriteData BY <1>1, <1>3, WriteDataStep
<1>4. CASE /\ session # "done" /\ loop' = [loop EXCEPT !["out"] = "call"]
           /\ UNCHANGED <<pc, net, left, age, late>>
  <2>1. loop' \in [Loop -> {"none", "source", "call", "handshake", "read", "sink", "ended"}]
    BY <1>2, <1>4 DEF TypeOK
  <2>2. TypeOK' BY <1>1, <1>2, <1>4, <2>1, RelayTypes DEF TypeOK
  <2>3. \A k \in Loop : loop'[k] = IF k = "out" THEN "call" ELSE loop[k]
    BY <1>2, <1>4 DEF TypeOK
  <2>4. "in" \in Loop /\ \A k \in Loop : Other(k) \in Loop BY DEF Loop, Other
  <2>5. Loops'
    <3>1. Loops BY DEF Inv
    <3>2. \A k \in Loop : loop'[k] = "handshake" =>
            session' = "none" /\ loop'[Other(k)] # "handshake"
      BY <1>1, <2>3, <2>4, <3>1 DEF Loops
    <3>3. loop'["in"] = loop["in"] /\ loop'["out"] = "call" BY <1>2, <2>3, <2>4
    <3> QED BY <1>1, <1>4, <3>1, <3>2, <3>3 DEF Loops
  <2>6. (\E k \in Loop : loop'[k] = "ended") <=> (\E k \in Loop : loop[k] = "ended")
    BY <1>1, <2>3
  <2>7. /\ Transport' = Transport BY <1>1, SameFlags
  <2>8. Idle' BY <1>1, <1>4, <2>6, <2>7 DEF Inv, Idle, Relayed
  <2>9. Kept' BY <1>1, <1>4, <2>7 DEF Inv, Kept, Relayed
  <2> QED BY <1>1, <1>4, <2>2, <2>5, <2>8, <2>9, RelayStep DEF Inv
<1> QED BY <1>3, <1>4 DEF SourceData

LEMMA SourceEndsStep == ASSUME Inv, SourceEnds PROVE Inv'
<1>1. /\ pc = "relay" /\ loop["out"] = "source" /\ End("out")
      /\ UNCHANGED <<flags, conf, peer, session, reporter, reports, age, late>>
  BY DEF SourceEnds
<1>2. "out" \in Loop /\ session \in {"none", "done", "failed"} BY DEF Inv, TypeOK, Loop
<1> QED BY <1>1, <1>2, EndStep

LEMMA SafetyFiresStep == ASSUME Inv, SafetyFires PROVE Inv'
<1>1. /\ pc = "relay" /\ net' = "closed" /\ left' = [left EXCEPT !.safety = Never]
      /\ UNCHANGED <<flags, pc, conf, peer, session, loop, reporter, reports, age, late>>
  BY DEF SafetyFires
<1>2. TypeOK BY DEF Inv
<1>3. left' \in [ dialer : Never .. Longest, timer : Never .. Longest,
                 deadline : Never .. Longest, safety : Never .. SafetyTimeout ]
  <2>1. Never \in Never .. SafetyTimeout BY TimesAssumption DEF Never
  <2> QED BY <1>1, <1>2, <2>1 DEF TypeOK
<1>4. TypeOK' BY <1>1, <1>2, <1>3, RelayTypes DEF TypeOK
<1>5. left'.timer = left.timer /\ left'.deadline = left.deadline BY <1>1, <1>2 DEF TypeOK
<1>6. Transport' = Transport BY <1>1, SameFlags
<1>7. Loops' BY <1>1 DEF Inv, Loops
<1>8. Idle' BY <1>1 DEF Idle, Relayed
<1>9. Kept' BY <1>1, <1>5, <1>6 DEF Inv, Kept, Relayed
<1> QED BY <1>1, <1>4, <1>5, <1>7, <1>8, <1>9, RelayStep DEF Inv

-----------------------------------------------------------------------------
(* The theorems.                                                           *)

LEMMA NextInv == Inv /\ [Next]_vars => Inv'
<1> SUFFICES ASSUME Inv, [Next]_vars PROVE Inv' OBVIOUS
<1>1. CASE Main
  BY <1>1, ParseFlagsStep, ConfigureStep, RefuseStep, StartServerStep, StartClientStep DEF Main
<1>2. CASE Accept BY <1>2, AcceptStep
<1>3. CASE Dial
  BY <1>3, ConnectStep, ConnectFailsStep, DialHandshakeStep, ReceiveReportStep DEF Dial
<1>4. CASE ReportHandshake BY <1>4, ReportHandshakeStep
<1>5. CASE ReportTimeout BY <1>5, ReportTimeoutStep
<1>6. CASE \E l \in Loop : Copy(l) BY <1>6, CopyStep
<1>7. CASE ReadData \/ ReadEnds \/ SinkTakes \/ SinkFails
  BY <1>7, ReadDataStep, ReadEndsStep, SinkTakesStep, SinkFailsStep
<1>8. CASE SourceData \/ SourceEnds BY <1>8, SourceDataStep, SourceEndsStep
<1>9. CASE SafetyFires BY <1>9, SafetyFiresStep
<1>10. CASE PeerFallsSilent BY <1>10, PeerFallsSilentStep
<1>11. CASE Tick BY <1>11, TickStep
<1>13. CASE Route BY <1>13, ProxyDialsStep, NothingToRelayStep DEF Route
<1>14. CASE ServerFails BY <1>14, ServerFailsStep
<1>12. CASE UNCHANGED vars
  <2>1. UNCHANGED <<flags, pc, conf, net, peer, session, loop, reporter, reports, left, age, late>>
    BY <1>12 DEF vars
  <2>2. /\ Transport' = Transport /\ Timeout' = Timeout /\ HasTimer' = HasTimer
        /\ Eager' = Eager /\ Longest' = Longest
    BY <2>1, SameFlags
  <2>3. TypeOK' /\ Configured' /\ Fresh'
    BY <2>1, <2>2 DEF Inv, TypeOK, Configured, Started, Relayed, Fresh
  <2>4. Unstarted' /\ Listening' /\ Reached' /\ Reports'
    BY <2>1 DEF Inv, Unstarted, Listening, Reached, Reports
  <2>5. Dialling' /\ Handshaking'
    <3>1. TimerBounds' = TimerBounds BY <2>1, <2>2 DEF TimerBounds
    <3>2. Dialling' BY <2>1, <2>2, <3>1 DEF Inv, Dialling
    <3>3. Handshaking' BY <2>1, <2>2, <3>1 DEF Inv, Handshaking
    <3> QED BY <3>2, <3>3
  <2>6. Loops' BY <2>1 DEF Inv, Loops
  <2>7. Idle' BY <2>1, <2>2 DEF Inv, Idle, Relayed
  <2>8. Kept' /\ Returned' BY <2>1, <2>2 DEF Inv, Kept, Returned, Relayed
  <2> QED BY <2>3, <2>4, <2>5, <2>6, <2>7, <2>8 DEF Inv
<1> QED
  BY <1>1, <1>2, <1>3, <1>4, <1>5, <1>6, <1>7, <1>8, <1>9, <1>10, <1>11, <1>12, <1>13,
     <1>14
  DEF Next

LEMMA Invariant == Spec => []Inv
BY InitInv, NextInv, PTL DEF Spec

\* Types, of every command line and whatever the timers are set to.
THEOREM TypeCorrect == Spec => []TypeOK
<1>1. Inv => TypeOK BY DEF Inv
<1> QED BY <1>1, Invariant, PTL

\* No combination of flags gets past parseFlags, ParseConfig and
\* resolveTransport to the network without the transport, the keys and the
\* pre-shared key that its handshake needs.
THEOREM StartsReady == Spec => []IsReady
<1>1. Inv => IsReady
  <2> SUFFICES ASSUME Inv, Started PROVE Ready(flags, conf) BY DEF IsReady
  <2>1. Accepted(flags) /\ conf = Config(flags) /\ resolveTransport(flags, conf)
    BY DEF Inv, Configured
  <2>2. flags \in Flags BY DEF Inv, TypeOK
  <2> QED BY <2>1, <2>2, AcceptedIsReady
<1> QED BY <1>1, Invariant, PTL

\* For every -w: a dial is not under way for longer than its bound.
THEOREM DialsInTime == Spec => []DialBounded
<1>1. Inv => DialBounded
  <2> SUFFICES ASSUME Inv, pc = "handshake" \/ (pc = "connect" /\ Transport # "udp"),
                      Timeout # Never
               PROVE  age <= IF Transport = "whatsapp" THEN 2 * Timeout ELSE Timeout
    BY DEF DialBounded
  <2>1. /\ Timeout \in Nat /\ age \in Nat /\ left.dialer \in Int /\ left.deadline \in Int
        /\ Timeout <= 2 * Timeout
    <3>1. Longest \in Nat /\ Timeout \in {Never} \cup 1 .. Longest BY Bounds DEF Started, Relayed
    <3>2. Timeout \in Nat /\ Timeout <= 2 * Timeout BY <3>1
    <3> QED BY <3>2, TimesAssumption DEF Inv, TypeOK
  <2>2. CASE pc = "connect"
    <3>1. age <= Timeout BY <2>1, <2>2 DEF Inv, Dialling
    <3> QED BY <2>1, <3>1
  <2>3. CASE pc = "handshake"
    <3>1. Transport \in {"raw", "udp", "whatsapp"} BY <2>3 DEF Inv, Handshaking, Eager
    <3>2. Transport = "raw" => age <= Timeout BY <2>3 DEF Inv, Handshaking
    <3>3. Transport = "udp" => age <= Timeout BY <2>1, <2>3 DEF Inv, Handshaking
    <3>4. Transport = "whatsapp" => age <= 2 * Timeout BY <2>1, <2>3 DEF Inv, Handshaking
    <3> QED BY <3>1, <3>2, <3>3, <3>4
  <2> QED BY <2>2, <2>3
<1> QED BY <1>1, Invariant, PTL

\* For every -w and safety timeout: an idle connection is closed in time, put
\* off by no more than the dial to the proxy's target and the writes to the
\* sink go on past -w.
THEOREM ClosesIdle == Spec => []IdleBounded
<1>1. Inv => IdleBounded
  <2> SUFFICES ASSUME Inv, Relayed, net = "open", flags.w > 0,
                      ~(flags.listen /\ Transport = "whatsapp")
               PROVE  age <= flags.w + SafetyTimeout + late
    BY DEF IdleBounded
  <2>1. /\ left.deadline \in Int /\ left.safety \in Int /\ age \in Nat /\ flags.w \in Nat
        /\ late \in Nat
        /\ SafetyTimeout \in Nat
    BY Bounds, TimesAssumption DEF Started, Relayed, Inv, TypeOK
  <2> QED BY <2>1 DEF Inv, Idle, Relayed
<1> QED BY <1>1, Invariant, PTL

\* The handshake's deadline never outlives the handshake.
THEOREM NeverCutShort == Spec => []NotCutShort
<1>1. Inv => NotCutShort
  <2> SUFFICES ASSUME Inv, pc = "relay", session = "done", left.deadline = 0
               PROVE  flags.w > 0 /\ age >= flags.w
    BY DEF NotCutShort
  <2>1. age \in Nat BY TimesAssumption DEF Inv, TypeOK
  <2> QED BY <2>1 DEF Inv, Kept, Relayed
<1> QED BY <1>1, Invariant, PTL

\* Of the two reports, no order lets a Dial return without its handshake.
THEOREM ReturnsConnected == Spec => []Returned
<1>1. Inv => Returned BY DEF Inv
<1> QED BY <1>1, Invariant, PTL
=============================================================================
