------------------------------- MODULE Daemon -------------------------------
(***************************************************************************)
(* noisecat -l -k: StartServer's accept loop, its goroutine per connection *)
(* and its shutdown by SIGINT or SIGTERM; and executeCmd, which gives the  *)
(* connection to a command as its stdin, stdout and stderr.                *)
(*                                                                         *)
(* The relay of a proxied connection is HandleIO's matter: here it goes on *)
(* until one of its directions ends, if ever, and then returns at last.    *)
(***************************************************************************)
EXTENDS Integers, Sequences, FiniteSets

CONSTANTS
  Configs,     \* the configurations under study, members of Config
  Conns,       \* the connections that clients open
  MaxSignals   \* bound: the signals sent

\* exec: -e rather than -proxy; udp: -u; idle: -w is not 0, and not WhatsApp
\* (see Startup).
Config == [exec : BOOLEAN, idle : BOOLEAN, udp : BOOLEAN]

ASSUME ConfigsAssumption == Configs \subseteq Config
ASSUME ConnsAssumption == IsFiniteSet(Conns)
ASSUME SignalsAssumption == MaxSignals \in Nat

VARIABLES
  conf,      \* the configuration
  main,      \* where StartServer's loop stands
  cur,       \* the connection it has just accepted
  wg,        \* the WaitGroup's counter
  listener,  \* "open" or "closed"
  backlog,   \* the connections that the kernel has for Accept, in order
  signals,   \* how many signals have been sent
  sig,       \* how many are in the channel sig
  notifier,  \* the goroutine that takes one of them
  conn,      \* conn[c]: the connection
  peer,      \* peer[c]: "silent" so far, "spoke", or "gone"
  cut,       \* the connections whose Read and Write fail: idle for -w, or no socket
  handler,   \* handler[c]: the goroutine that runs Router
  cmd,       \* cmd[c]: the command's process
  copying    \* copying[c]: the copies of Cmd.Run under way, "stdin", "stdout"

daemonVars == <<main, cur, wg, listener, backlog, signals, sig, notifier>>
connVars == <<conn, peer, cut, handler, cmd, copying>>
vars == <<conf, daemonVars, connVars>>

Nobody == "nobody"
ASSUME NobodyAssumption == Nobody \notin Conns

Init ==
  /\ conf \in Configs
  /\ main = "accept" /\ cur = Nobody /\ wg = 0
  /\ listener = "open" /\ backlog = <<>>
  /\ signals = 0 /\ sig = 0 /\ notifier = "starting"
  /\ conn = [c \in Conns |-> "none"] /\ peer = [c \in Conns |-> "silent"]
  /\ cut = {}
  /\ handler = [c \in Conns |-> "none"] /\ cmd = [c \in Conns |-> "none"]
  /\ copying = [c \in Conns |-> {}]

-----------------------------------------------------------------------------
(* The peers.                                                              *)

ClientConnects(c) ==
  /\ listener = "open" /\ conn[c] = "none" /\ main # "returned"
  /\ conn' = [conn EXCEPT ![c] = "backlog"]
  /\ backlog' = Append(backlog, c)
  /\ UNCHANGED <<conf, main, cur, wg, listener, signals, sig, notifier>>
  /\ UNCHANGED <<peer, cut, handler, cmd, copying>>

\* Bytes for a command that has exited break the pipe of its stdin.
PeerSends(c) ==
  /\ conn[c] \in {"backlog", "accepted"} /\ peer[c] # "gone"
  /\ peer' = [peer EXCEPT ![c] = "spoke"]
  /\ copying' = [copying EXCEPT ![c] = IF cmd[c] = "exited" THEN @ \ {"stdin"} ELSE @]
  /\ UNCHANGED <<conf, daemonVars, conn, cut, handler, cmd>>

PeerLeaves(c) ==
  /\ conn[c] \in {"backlog", "accepted"} /\ peer[c] # "gone"
  /\ peer' = [peer EXCEPT ![c] = "gone"]
  /\ UNCHANGED <<conf, daemonVars, conn, cut, handler, cmd, copying>>

-----------------------------------------------------------------------------
(* Signals.                                                                *)

\* Seeded bug: signal.Notify has an unbuffered channel, and does not wait.
Received == notifier = "receiving"

\* The channel has room for one signal; further ones are dropped.
HasRoom == sig = 0

Signal ==
  /\ signals < MaxSignals /\ main # "returned"
  /\ signals' = signals + 1
  /\ sig' = IF HasRoom THEN 1 ELSE sig
  /\ UNCHANGED <<conf, main, cur, wg, listener, backlog, notifier, connVars>>

Receive ==
  /\ notifier = "starting" /\ main # "returned"
  /\ notifier' = "receiving"
  /\ UNCHANGED <<conf, main, cur, wg, listener, backlog, signals, sig, connVars>>

TakeSignal ==
  /\ notifier = "receiving" /\ sig = 1 /\ main # "returned"
  /\ sig' = 0 /\ notifier' = "closing"
  /\ UNCHANGED <<conf, main, cur, wg, listener, backlog, signals, connVars>>

\* Whom the kernel has not handed over yet is refused. The sessions of a UDP
\* listener use its socket, which Close takes from under them.
CloseListener ==
  /\ notifier = "closing" /\ main # "returned"
  /\ notifier' = "ended" /\ listener' = "closed" /\ backlog' = <<>>
  /\ conn' = [c \in Conns |-> IF conn[c] = "backlog" THEN "refused" ELSE conn[c]]
  /\ cut' = cut \cup {c \in Conns : conf.udp /\ conn[c] = "accepted"}
  /\ UNCHANGED <<conf, main, cur, wg, signals, sig, peer, handler, cmd, copying>>

-----------------------------------------------------------------------------
(* The accept loop.                                                        *)

\* Seeded bug: Accept runs the handshake, for which the peer has to speak.
Greeted(c) == peer[c] # "silent"

\* Accept hands over whoever is next: the handshake is for the first Read.
Acceptable(c) == TRUE

Accept ==
  /\ main = "accept" /\ listener = "open" /\ backlog # <<>> /\ Acceptable(Head(backlog))
  /\ main' = "add" /\ cur' = Head(backlog) /\ backlog' = Tail(backlog)
  /\ conn' = [conn EXCEPT ![Head(backlog)] = "accepted"]
  /\ UNCHANGED <<conf, wg, listener, signals, sig, notifier>>
  /\ UNCHANGED <<peer, cut, handler, cmd, copying>>

\* Seeded bug: return where the code has break.
ReturnsAtOnce ==
  /\ main = "accept"
  /\ main' = "returned"
  /\ UNCHANGED <<conf, cur, wg, listener, backlog, signals, sig, notifier, connVars>>

\* The listener is closed, or Accept has failed: either way the loop ends.
AcceptFails ==
  /\ main = "accept"
  /\ main' = "wait"
  /\ UNCHANGED <<conf, cur, wg, listener, backlog, signals, sig, notifier, connVars>>

\* Seeded bug: wg.Add is left out.
NotAdded ==
  /\ main = "add"
  /\ main' = "go"
  /\ UNCHANGED <<conf, cur, wg, listener, backlog, signals, sig, notifier, connVars>>

Add ==
  /\ main = "add"
  /\ main' = "go" /\ wg' = wg + 1
  /\ UNCHANGED <<conf, cur, listener, backlog, signals, sig, notifier, connVars>>

Go ==
  /\ main = "go"
  /\ main' = "accept" /\ cur' = Nobody
  /\ handler' = [handler EXCEPT ![cur] = "route"]
  /\ UNCHANGED <<conf, wg, listener, backlog, signals, sig, notifier>>
  /\ UNCHANGED <<conn, peer, cut, cmd, copying>>

\* wg.Wait, the deferred listener.Close and the end of the process.
Return ==
  /\ main = "wait" /\ wg = 0
  /\ main' = "returned" /\ listener' = "closed" /\ backlog' = <<>>
  /\ conn' = [c \in Conns |-> IF conn[c] = "backlog" THEN "refused" ELSE conn[c]]
  /\ UNCHANGED <<conf, cur, wg, signals, sig, notifier, peer, cut, handler, cmd, copying>>

-----------------------------------------------------------------------------
(* The goroutine of a connection.                                          *)

Runs(c, at) == main # "returned" /\ handler[c] = at

\* Router; executeCmd starts the command, or cannot. proxyConn dials.
Route(c) ==
  /\ Runs(c, "route")
  /\ \/ /\ conf.exec
        /\ handler' = [handler EXCEPT ![c] = "run"]
        /\ cmd' = [cmd EXCEPT ![c] = "running"]
        /\ copying' = [copying EXCEPT ![c] = {"stdin", "stdout"}]
     \/ conf.exec /\ handler' = [handler EXCEPT ![c] = "close"] /\ UNCHANGED <<cmd, copying>>
     \/ ~conf.exec /\ handler' = [handler EXCEPT ![c] = "dial"] /\ UNCHANGED <<cmd, copying>>
  /\ UNCHANGED <<conf, daemonVars, conn, peer, cut>>

\* Seeded bug: newParams leaves out newIdleConn.
NotWrapped == FALSE

\* newIdleConn wraps the connection if -w asks for it.
Wrapped == conf.idle

\* The connection of a command has been idle for -w.
IdleTimeout(c) ==
  /\ Runs(c, "run") /\ Wrapped /\ c \notin cut
  /\ cut' = cut \cup {c}
  /\ UNCHANGED <<conf, daemonVars, conn, peer, handler, cmd, copying>>

Dead(c) == peer[c] = "gone" \/ c \in cut

CommandExits(c) ==
  /\ Runs(c, "run") /\ cmd[c] = "running"
  /\ cmd' = [cmd EXCEPT ![c] = "exited"]
  /\ UNCHANGED <<conf, daemonVars, conn, peer, cut, handler, copying>>

\* The copy to stdin ends with the connection, the one from stdout with the
\* command or when it cannot write to the connection.
CopyEnds(c, s) ==
  /\ Runs(c, "run") /\ s \in copying[c]
  /\ Dead(c) \/ (s = "stdout" /\ cmd[c] = "exited")
  /\ copying' = [copying EXCEPT ![c] = @ \ {s}]
  /\ UNCHANGED <<conf, daemonVars, conn, peer, cut, handler, cmd>>

\* Cmd.Run returns: the command has exited and the copies have ended.
RunReturns(c) ==
  /\ Runs(c, "run") /\ cmd[c] = "exited" /\ copying[c] = {}
  /\ handler' = [handler EXCEPT ![c] = "close"]
  /\ UNCHANGED <<conf, daemonVars, conn, peer, cut, cmd, copying>>

\* The proxy's target answers or refuses, whenever it does.
DialEnds(c) ==
  /\ Runs(c, "dial")
  /\ \E to \in {"relay", "close"} : handler' = [handler EXCEPT ![c] = to]
  /\ UNCHANGED <<conf, daemonVars, conn, peer, cut, cmd, copying>>

\* The first direction of the relay ends: by the peer or the target, by -w, with
\* the socket. Two silent ends without -w never bring it about, nor does any
\* end as long as nobody is in a Read or Write to learn of it.
DirectionEnds(c) ==
  /\ Runs(c, "relay")
  /\ handler' = [handler EXCEPT ![c] = "drain"]
  /\ UNCHANGED <<conf, daemonVars, conn, peer, cut, cmd, copying>>

\* handleIO returns, by the safety timer at the latest.
RelayReturns(c) ==
  /\ Runs(c, "drain")
  /\ handler' = [handler EXCEPT ![c] = "close"]
  /\ UNCHANGED <<conf, daemonVars, conn, peer, cut, cmd, copying>>

\* Router's deferred Close.
Close(c) ==
  /\ Runs(c, "close")
  /\ conn' = [conn EXCEPT ![c] = "closed"]
  /\ handler' = [handler EXCEPT ![c] = "done"]
  /\ UNCHANGED <<conf, daemonVars, peer, cut, cmd, copying>>

\* Seeded bug: wg.Done is not deferred, and a command that cannot be started
\* returns before it.
DoneAfterRun(c) ==
  /\ Runs(c, "done")
  /\ wg' = (IF conf.exec /\ cmd[c] = "none" THEN wg ELSE wg - 1)
  /\ handler' = [handler EXCEPT ![c] = "ended"]
  /\ UNCHANGED <<conf, main, cur, listener, backlog, signals, sig, notifier>>
  /\ UNCHANGED <<conn, peer, cut, cmd, copying>>

Done(c) ==
  /\ Runs(c, "done")
  /\ wg' = wg - 1 /\ handler' = [handler EXCEPT ![c] = "ended"]
  /\ UNCHANGED <<conf, main, cur, listener, backlog, signals, sig, notifier>>
  /\ UNCHANGED <<conn, peer, cut, cmd, copying>>

-----------------------------------------------------------------------------
Peers == \E c \in Conns : ClientConnects(c) \/ PeerSends(c) \/ PeerLeaves(c)
Notifier == Receive \/ TakeSignal \/ CloseListener
Serve == Accept \/ Add \/ Go \/ Return
Handle(c) ==
  \/ Route(c) \/ RunReturns(c) \/ RelayReturns(c) \/ Close(c) \/ Done(c)
  \/ \E s \in {"stdin", "stdout"} : CopyEnds(c, s)

Next ==
  \/ Peers \/ Signal \/ Notifier \/ Serve \/ AcceptFails
  \/ \E c \in Conns :
       Handle(c) \/ IdleTimeout(c) \/ CommandExits(c) \/ DialEnds(c) \/ DirectionEnds(c)

\* Each goroutine is scheduled, a closed listener's Accept fails, and once the
\* command has exited silence runs into -w. Of the surroundings: a command
\* exits, but neither the peers nor a proxy's target need ever do anything.
Fairness ==
  /\ WF_vars(Notifier) /\ WF_vars(Serve) /\ WF_vars(listener = "closed" /\ AcceptFails)
  /\ \A c \in Conns :
       /\ WF_vars(Handle(c)) /\ WF_vars(CommandExits(c))
       /\ WF_vars(cmd[c] = "exited" /\ IdleTimeout(c))

Spec == Init /\ [][Next]_vars
FairSpec == Spec /\ Fairness

-----------------------------------------------------------------------------
(* Properties.                                                             *)

TypeOK ==
  /\ conf \in Config
  /\ main \in {"accept", "add", "go", "wait", "returned"}
  /\ cur \in Conns \cup {Nobody} /\ (cur = Nobody <=> main \notin {"add", "go"})
  /\ wg \in Nat /\ listener \in {"open", "closed"} /\ backlog \in Seq(Conns)
  /\ signals \in 0 .. MaxSignals /\ sig \in {0, 1}
  /\ notifier \in {"starting", "receiving", "closing", "ended"}
  /\ conn \in [Conns -> {"none", "backlog", "refused", "accepted", "closed"}]
  /\ peer \in [Conns -> {"silent", "spoke", "gone"}]
  /\ cut \in SUBSET Conns
  /\ handler \in [Conns -> {"none", "route", "run", "dial", "relay", "drain", "close",
                            "done", "ended"}]
  /\ cmd \in [Conns -> {"none", "running", "exited"}]
  /\ copying \in [Conns -> SUBSET {"stdin", "stdout"}]

\* The process does not end under a connection that it has accepted: whenever
\* the signal or the failure of Accept comes, StartServer returns only once
\* Router has closed them all and their goroutines have ended.
ServedToTheEnd ==
  main = "returned" => \A c \in Conns : conn[c] \in {"none", "refused", "closed"}

\* A signal stops the daemon from accepting, also one that comes before the
\* goroutine is there to take it.
SignalStops == signals > 0 ~> listener = "closed"

\* No client is kept waiting by the connections before it, silent as they may
\* be: Accept takes it, unless the daemon stops accepting.
Responsive ==
  \A c \in Conns :
    conn[c] = "backlog" ~> (conn[c] # "backlog" \/ main \in {"wait", "returned"})

\* With -w, a command that has exited takes its connection along, although
\* Cmd.Run waits for the copy to its stdin, and that copy for the peer.
Released == \A c \in Conns : (conf.idle /\ cmd[c] = "exited") ~> conn[c] = "closed"

\* The only connections that can keep the process: those of a proxy whose target
\* does not answer the dial, or whose relay no end of a direction has reached.
Held(c) == handler[c] \in {"dial", "relay"}

\* A signal ends the process, once the commands have exited. With -e it takes
\* -w, for the copy to a command's stdin waits for the peer; with -proxy it
\* takes the end of a direction of every relay.
Exits ==
  <>[](signals > 0 /\ (conf.exec => conf.idle) =>
         main = "returned" \/ \E c \in Conns : Held(c))
=============================================================================
