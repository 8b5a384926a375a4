# noisecat in TLA+

noisecat is netcat over the Noise protocol framework, in Go: a client or a server
that relays stdin/stdout, a TCP backend or a command over an encrypted connection.
This directory specifies the parts of it that are concurrent, that talk to a peer
or that must survive failures, checks them with TLC on small instances, and proves
the most important properties with TLAPS for every value of the constants.

All paths below are relative to `src/`; `N/`, `B/`, `R/`, `W/` stand for
`pkg/transport/noisesocket/`, `bolt8/`, `raw/` and `whatsapp/`.

## Inventory

| Component | State | Operations | Interacts with |
|---|---|---|---|
| **NoiseSocket negotiation** (`N/handshake_neg.go`, `N/negotiation.go`) | attempt counter, transcript of dead attempts, current `HandshakeState` | `negotiateInitiator`, `negotiateResponder`, `driveFrom` | frames with its peer; `BuildConfig` callback of the configuration |
| **NoiseSocket connection** (`N/conn.go`, `N/noisesocket.go`) | cipher states, `inputBuffer`, handshake flag and mutexes | `Handshake`, `Read`, `Write`, `CloseWrite`, `Dial`, `Listen` | runs the negotiation lazily from the first `Read` or `Write` |
| **BOLT-8 transport phase** (`B/conn.go`, `B/primitives.go`) | per direction key, chaining key, nonce | `writeMessage`, `Read`, `maybeRekeySend`, `maybeRekeyRecv` | ciphertexts with its peer; must rotate keys in step |
| **BOLT-8 handshake** (`B/handshake.go`, `B/bolt8.go`) | handshake hash, chaining key | acts one, two and three | hands its keys to the transport phase |
| **Relay** (`pkg/noisecat/runners.go`) | two copy loops, safety timer, backend connection or command | `Router`, `proxyConn`, `handleIO`, `signalEndOfWrite`, `fullClose`, `executeCmd` | drives any transport through `net.Conn`; half-closes |
| **Idle timeout** (`pkg/noisecat/timeout.go`) | deadline of a connection | `idleConn.Read/Write/CloseWrite` | between the relay and the transport |
| **Raw transport** (`R/conn.go`, `R/raw.go`) | cipher states, `inputBuffer`, handshake flag and mutexes | `Handshake`, `Read`, `Write`, `CloseWrite`, `DialWithDialer` | the relay |
| **WhatsApp transport** (`W/`) | 32-bit counters, `inputBuffer`, `sync.Once` of the handshake | `Handshake`, `Read`, `Write`, framing, certificate check | the relay |
| **UDP transport** (`pkg/transport/udp/udp.go`) | a KCP session | `Dial`, `Listen` | below the raw transport; no half-close |
| **Daemon and client start-up** (`pkg/noisecat/net.go`) | listener, WaitGroup, signal channel | `StartServer`, `StartClient`, accept loop | one `Router` goroutine per connection |
| **Configuration and command line** (`pkg/noisecat/conf.go`, `noise.go`, `protocols.go`, `validate.go`, `cmd/noisecat/main.go`) | none after start | `ParseConfig`, `BuildConfig`, checks | gives the transports their protocol and keys |
| **Keys and utilities**, **noisenet aliases** | none | | |

What is hard about them, and what makes each correct:

* *Negotiation.* Two loops on two machines count attempts and build transcripts
  separately, roles may be inverted half way, an attacker may change the cleartext
  negotiation data, and `Handshake` does not remember that it has failed, so that
  the relay's second copy loop runs it again on a byte stream left in the middle.
  Correct: who verifies the last tag agrees with its peer on protocol, role, hash
  and keys; the outcome is the one the configurations lead to; nobody waits for ever.
* *BOLT-8 transport.* Nonces and rotations are counted on both sides without any
  message about them, and every error path must leave them in step or end the
  connection. Correct: no key and nonce pair encrypts twice; what is read is what
  was written; both rotate at the same ciphertext.
* *Relay.* Two copy loops, a lazy handshake that either of them may enter, a mutex
  around it, a half-close by each loop, a timer, and two connections that may fail
  at any moment. Correct: nothing is lost when nothing fails; the end of a stream
  never overtakes its data; `handleIO` returns.
* *Record layers.* Writes longer than a frame, readers with short buffers, failed
  writes, timeouts, the last nonce. Correct: one direction is a secure stream --
  a prefix of what was written, in order, a clean end only after all of it.
* *Handshakes of BOLT-8 and WhatsApp.* Both are written out in this repository, step
  by step on each side; nonces, keys and hashes are positional, and BOLT-8's second
  run after a failure reads whatever the first one left. Correct: both sides end with
  one session or none, with the peer they meant to reach.
* *Command line.* Four places decide what may be combined, and one of them rewrites
  the transport and the protocol for the next. Correct: what is started has the keys
  its handshake needs.
* *Connection establishment.* Timers against goroutines, deadlines set and cleared
  by two layers. Correct: a dial returns once, in bounded time, and leaves no
  connection or deadline behind that its caller does not know of.
* *Daemon.* Signals, the listener, and connections that are still relayed.
  Correct: an accepted connection is served or closed before the process ends, a
  signal is never lost, and no silent peer or ended command holds the others up.

The hazards of the code, line by line, with the properties that would catch each
of them going wrong, are listed in `PROJECT.json`.

## Plan

1. **Negotiation** -- the two loops, repeated calls, alterations. *Done.*
2. **Bolt8Transport** -- both directions with faults and rotations. *Done.*
3. **HandleIO** -- the relay of one connection. *Done.*
4. **SecureStream** (abstract) and **RecordLayer** (raw, noisesocket, whatsapp),
   which implements it. *Done, with the refinement proved.*
5. **Startup** -- connection establishment on a clock: `raw.DialWithDialer`'s timer
   against its handshake goroutine, the dial timeouts of the other transports,
   whatsapp's deferred handshake, and the idle deadline. *Done, safety proved.*
6. **Daemon** -- the accept loop, signals, the WaitGroup, `executeCmd` and its
   command. *Done, safety proved.*
7. **KeyExchange** (abstract) and **Handshake** (BOLT-8's three acts and WhatsApp's
   three messages), which implements it. *Done, with the refinement proved.*
8. **Configuration** -- every combination of flags, against what the handshakes of
   steps 1, 4 and 7 need. *Done, as the first steps of Startup; proved.*
9. **Composition**: **MessageStream** (abstract), which Bolt8Transport implements.
   *Done, with the refinement proved.* HandleIO above SecureStream instead of its own
   channels. *Open.*
10. **Proofs**: Lockstep and Delivery of Bolt8Transport, NonceUsedOnce of Handshake.
    *Done.* TakeTurns, Agreement, DowngradeBound and TamperedFails of Negotiation.
    *Done.*

## Modules

| Module | Role |
|---|---|
| `Negotiation`, `MCNegotiation`, `NegotiationProofs`, `DowngradeProofs` | the NoiseSocket negotiation of one connection |
| `MessageStream` | abstract: what a BOLT-8 connection promises, both directions |
| `Bolt8Transport`, `MCBolt8Transport`, `Bolt8TransportProofs` | the BOLT-8 transport phase, both directions; implements `MessageStream` |
| `HandleIO`, `MCHandleIO`, `HandleIOProofs` | `Router`, `proxyConn` and `handleIO` of one connection |
| `SecureStream` | abstract: what one direction of any transport promises |
| `RecordLayer`, `MCRecordLayer`, `RecordLayerProofs` | `Read` and `Write` of raw, noisesocket and whatsapp; implements `SecureStream` |
| `KeyExchange` | abstract: what a handshake promises to the transport phase |
| `Handshake`, `MCHandshake`, `HandshakeProofs` | the handshakes of BOLT-8 and WhatsApp; implements `KeyExchange` |
| `Configuration` | what the checks of the command line decide, as operators |
| `Startup`, `MCStartup`, `StartupProofs` | one process: flags, dial or listen, handshake, relay, with every timer |
| `Daemon`, `MCDaemon`, `DaemonProofs` | `noisecat -l -k`: accept loop, shutdown, `executeCmd` |

How they fit together: `Startup` EXTENDS `Configuration`, ends where `Daemon` (for
`-k`), the command of `-e` (in `Daemon`) or the relay begins, and keeps of the relay
only what moves deadlines; `HandleIO` is that relay in full. `Handshake` and
`Negotiation` give the keys with which `Bolt8Transport` and `RecordLayer` start.

An `MC` module gives a module's constants their values for TLC; a `Proofs` module
extends the module with its inductive invariant, lemmas and theorems. Definitions
whose comment begins with "Seeded bug" are variants of the definition that follows
them; nothing uses them, and each property is known to fail when one of them takes
that definition's place.

### Negotiation

`pc` is where a side is: not yet called, waiting in `readHandshakeFrame` in one of
the three places of the code (`reply`: the client's, `proposal`: the server's,
`drive`: `driveFrom`'s), `done`, `failed`, or with its connection `closed`.
`attempt`, `dead` and `hs` are the locals of the same names; `initiator` is the
Noise role, which a switch inverts. `chan[s]` is what is on its way to `s`. A
handler runs from one blocking read to the next in a single action: `StartClient`
(the first proposal), `ReadReply` (accept, reject, retry, switch, and all their
errors), `StartServer`, `ReadProposal`, `ReadDriven` (`driveFrom`'s loop). That is
sound because a side writes only to its own half of the connection.

The cryptography is symbolic: a handshake hash is a record of what has been mixed
into it (protocol, negotiation data, application prologue, the frames of dead
attempts, the messages), a message carries the hash under which it was written,
and `ReadMessage` accepts it when that is the reader's own hash -- or, before the
pattern's first tag (`FirstTag`), possibly when it is not: `BOOLEAN`. A message is
known by its writer, call, attempt and position, as its ephemeral key would make
it. `builds[s]` says for which protocols and roles `BuildConfig` of side `s` finds
key material.

`Handshake` remembers only success. The two copy loops each call it, so a side may
run it `MaxCalls = 2` times over the same byte stream. `Alter` replaces the
negotiation data of a frame on the wire by any other.

### MessageStream and Bolt8Transport

`send` and `recv` are `(sk, sck, sn)` and `(rk, rck, rn)`. A key is known by its
direction, its turn and the chaining key it came from. `WriteMessage` is one call of
`writeMessage`: length ciphertext, body ciphertext, `maybeRekeySend`. A `Write` of
more than 65535 bytes is several of them, one after the other, which ends at the
first that fails. `WriteFails` is one whose `conn.Write` fails after none, part or
one of the ciphertexts, and after none once the connection is half-closed or closed;
it has advanced the nonces all the same. `CloseWrite` (`shut`) is the relay's
half-close. `Read` is two actions because it may be interrupted between them:
`ReadLength`, `ReadBody`; what does not fit the caller's buffer of `Buf` bytes stays
in `readBuf`, from which `ReadBuffer` serves the next calls without a look at the
connection. `ReadEnd` is `io.ReadFull` at the end of the stream, in either place
(`eof`); `ReadTimeout` ends a `Read` in either place, with or without part of a
ciphertext consumed; `ReadFails` is the failed authentication, which closes the
connection. `got` has a body once it is decrypted. Ciphertexts carry their size,
so that what a `Read` consumes is a matter of bytes: when sizes and nonces no
longer line up, it fails, and when they happen to -- a body of two bytes read as a
length -- it does not. `ReadAgain` is whether the caller reads on after a timeout
(noisecat's copy loop does not; a user of the package may).

`MessageStream` has whole messages: an end accepts one (`Accept`) or writes no more
(`Finish`), the other one is given the next (`Deliver`), hears the end once it has
them all (`HearEnd`), or stops reading, which it does not before something has gone
wrong (`Fail`, `faulty`). Of `Bolt8Transport`, these are `WriteMessage`, `CloseWrite`,
`ReadBody`, `ReadEnd` without a fault, and `ReadFails`, `ReadTimeout` and the other
`ReadEnd`s; `ReadLength` and `ReadBuffer` are nothing of it, and a `Write` that fails
or an alteration is seen as `faulty` only.

### HandleIO

`SNT` copies the local source to the secure connection, `RCV` the connection to
the local sink. `pc` is the loop's position in `io.Copy` and after it; `taken` and
`put` count chunks; `main` is `handleIO` itself. `Mode` is the kind of connection:
proxied or stdin/stdout, with a half-close (TCP) or without (KCP), dialled (its
handshake is done) or accepted (`lazy`). The lazy handshake is the raw transport's
with two messages: the loop that comes first holds the mutex, reads the peer's
message, writes the answer; the other one waits for the mutex. A message that does
not authenticate (`HandshakeRefuses`) or a connection that fails or ends
(`HandshakeFails`) makes that loop end, and the other one run the handshake again. `SignalEndOfWrite`
is `signalEndOfWrite`, and a full `Close` where there is no half-close. `Reset`
is the failure of either connection, a passed idle deadline included. `Produce`
and `EndStream` are the peer, the backend or the user, who may also fall silent.
With `TimerPatient` the safety timer fires only when neither loop can go on;
without it, at any time.

### SecureStream and RecordLayer

One direction. `SecureStream` has bytes accepted, bytes returned, the writer's end
and the reader's; bytes are known by position. `RecordLayer` cuts each `Write` into
frames (`WriteFrame`, one per iteration of the loop), fails between or inside them
(`WriteFails`, with or without a fragment on the wire), ends when the nonces do
(`EncryptFails`), and is read through `ReadBuffer` (the rest of an earlier frame is
enough), `StartRead` and `ReadFrame`, with `DecryptFails`, `ReadEOF`,
`ReadTruncated` and `ReadTimeout` for its errors. The three transports share these
actions, and differ in `ServesFromBuffer` (raw goes on to the connection unless
the rest fills the caller's buffer), `Exhausted` and `NextNonce` (whatsapp's 32-bit
counter wraps) and `ReadTruncated` (raw's `readBytes` returns a plain `io.EOF`
anywhere inside a frame, the others between its header and its body only). A setup names the transport, the sizes the writer uses, the
reader's buffer, and whether the writer goes on after an error. Raw's writer does
not (noisecat's copy loop ends there): its reader could not tell a stream that ends
inside a frame from a clean end, whatever was accepted later.

### KeyExchange and Handshake

`KeyExchange` has one variable, the sessions: the initiator gets the first one, with
the responder's static key as its peer; the responder then may get the mirror image,
with the initiator's; nothing else ever happens. `Handshake` is both handshakes that
noisecat writes itself. They differ in the state before the second message and are
the same from there: `First`, `Second`, `SecondStatic` and `Third` are what the
messages mix in, for either protocol, and `ReadAct1` to `ReadAct3` the handlers from
one blocking read to the next, named after BOLT-8's acts (`runInitiator` and
`runResponder`; `clientHandshake` and `serverHandshake`). A hash is the sequence of
what was mixed into it, a chaining key the sequence of its shared secrets, and a
ciphertext opens under its own key, nonce and hash only. That the cipher key of a
message is named by its chaining key is HKDF's two outputs taken as one name.

A side's answer may fail to be written (`WriteFails` in `StartInitiator`, `ReadAct1`
and `ReadAct2`: a reset, or the relay's half-close before the lazy handshake), and
nothing of it is sent: it is far smaller than the socket's buffer. `sealed` has the
ciphertexts that were made for it all the same.

`Alter` changes one field of a message; `ReadTimeout` ends a side with or without
part of a message consumed; `ReadMisframed` is the second run of BOLT-8's
`Handshake`, whose `io.ReadFull` reads across acts of the first. WhatsApp's handshake
runs once (`Dial`, or under `sync.Once`). `verifyServerCert` is the chain of two
certificates with their serials, issuers, signatures and validity, and the binding
of the leaf to the static key the handshake has used; a payload without a chain that
parses is `Empty`.

### Configuration and Startup

A command line is a record of flags in which files, base64 strings and lists are
known by what they decode to. `ArgumentsFit`, `CombinationFits`, `parseNoise` (with
`buildNoise25519Config` and the key files), `Config` and `resolveTransport` are the
checks and rewritings of `parseFlags`, `ParseConfig` and `StartClient`, in that order.

`Startup` runs them (`ParseFlags`, `Configure`, `Refuse`, `StartClient`,
`StartServer`, `ServerFails`) and goes on to the connection. `left` holds the four timers: the
dialer's, the one `DialWithDialer` starts itself, the connection's deadline (one
variable, because `idleConn`, udp and whatsapp all set the deadline of the same
`net.Conn`), and `handleIO`'s safety timer; `age` measures what the properties are
about, the time since the dial began or since bytes last moved. `Tick` advances the
clock unless the program can go on without waiting (`Due`), so that timers fire when
they are due. `reports` is `errChannel` with its two slots. The relay is reduced to
who is blocked where (`loop`): in the source, in the call that waits for the
handshake, in the handshake itself, in `Read`, in a write to the local sink
(`ReadData`, `SinkTakes`, `SinkFails`). Before it, `Relay` is `Router`: `proxyConn`'s
dial (pc `"proxy"`, `ProxyDials`, `NothingToRelay`), the command of `-e` (pc
`"command"`, on the same clock), or the copy loops at once. The dial and the write to
the sink may take any time, and while one of them lasts nobody is in a `Read` or
`Write` of the connection that would report its deadline; `late` counts the time that
the deadline has then been over (`Unattended`).

### Daemon

`main` is the accept loop between `Accept`, `wg.Add`, `go` and `wg.Wait`;
`notifier` the goroutine behind the signal channel `sig` of capacity one; `backlog`
the kernel's queue. Per connection, `handler` is the goroutine that runs `Router`,
`cmd` and `copying` are `executeCmd`'s process and the copies `Cmd.Run` waits for. A
proxied connection waits for `proxyConn`'s dial (`DialEnds`), is relayed by
`HandleIO`'s code until one of its directions ends (`DirectionEnds`), which nothing
need ever bring about, and returns after that (`RelayReturns`). `CloseListener` cuts
the sessions of a UDP listener off, which use its socket.
`AcceptFails` is both the closed listener and any other error: the code does not
tell them apart, and stops accepting after either.

## Runs

| Run | Checks | Distinct states |
|---|---|---|
| `Negotiation` | TypeOK, Agreement, DowngradeBound, TamperedFails, OwnChoice, TakeTurns; Completes, Terminates (liveness) | 198,339 |
| `Bolt8` | TypeOK, NonceUsedOnce, Lockstep; IsMessageStream (refinement), AllDelivered (liveness) | 1,181,941 |
| `HandleIO` | TypeOK, GracefulEnd, OrderlyEnd; Returns (liveness) | 66,090 |
| `RecordLayer` | TypeOK, NonceUsedOnce; IsStream (refinement), Delivered (liveness) | 258,876 |
| `Handshake` | TypeOK, NonceUsedOnce, ServerIsVouched; IsKeyExchange (refinement), Completes, Terminates (liveness) | 5,292 |
| `Startup` | TypeOK, IsReady, DialBounded, IdleBounded, NotCutShort, Returned; Reported (liveness) | 212,344 |
| `Daemon` | TypeOK, ServedToTheEnd; SignalStops, Responsive, Released, Exits (liveness) | 338,994 |
| `RecordLayer_large` | WholeStream: violated | |
| `HandleIO_response` | FullResponse: violated | |
| `HandleIO_drain` | StillDrains: violated | |
| `Startup_idle` | IdleBoundedEverywhere: violated | |
| `Startup_support` | NoPanic: violated | |

Deadlock is not checked in any of them: a connection or the process ends, and the
bounds end what its environment does.

**Bounds, and why they are enough.**

* `Negotiation`: two attempts instead of four, two calls of `Handshake` per side, one
  altered frame; three patterns (two messages without an early tag, two with one,
  three messages); every proposal, fallback set, support list of up to two, policy,
  and one missing key on either side. Two attempts are the least with a transcript
  that matters, two calls are what the two copy loops make, and one alteration at
  any frame reaches each comparison in the code once.
* `Bolt8`: `rekeyInterval` 4 instead of 1000, so that a key lasts two messages;
  four messages over both directions make two rotations of one of them;
  two faults allow a failed write followed by a timeout or an alteration. Bodies have
  two and 30 bytes, and the reader's buffer 20: one fits and the other takes two reads.
* `HandleIO`: two chunks per source (one before and one after any event), all
  eight modes, the timer at any moment, a first handshake message that is right, wrong
  or never comes.
* `RecordLayer`: frames of three bytes and buffers of one to three, writes of one,
  two and four bytes (shorter than a frame, as long as the buffer, two frames),
  four nonces for up to six bytes and two faults, so that the nonces run out and,
  for whatsapp, wrap.
* `Handshake`: BOLT-8 with the right and a wrong `-rstatic`, two noisecats over
  WhatsApp's protocol, and WhatsApp's server with the right chain, seven that are
  wrong in one place, and none; two calls, and two faults of any kind (an altered act,
  a timeout, a failed write).
* `Startup`: every transport in either role with and without `-w` on a clock where
  `-w` is 2, WhatsApp's default 3 and the safety timeout 2, so that the default is
  longer than `-w` and each deadline can pass before or after any other; listeners with
  a proxy's target and commands, both with `-w`; and over
  four thousand command lines that combine transports, protocols, key flags and the
  other flags, right and wrong, of which those that are accepted run on. Ages are
  told apart up to 8, more than any bound that a property names.
* `Daemon`: two connections (one accepted, one waiting behind it) and two signals
  (one to act on, one to be dropped or to come late); commands with and without `-w`,
  proxied connections, and each of them over UDP.

**Fairness.** `Negotiation`: a side that is called answers, and one that waits for
a frame of a closed connection notices; the first call is fair because the copy
loop that reads the connection starts at once, the second one is not, as the other
loop may never have anything to send. `Alter` is never fair. `Bolt8Transport` and
`RecordLayer`: the copy loop that reads keeps reading; writers, closes, faults and
timeouts are not fair. `HandleIO`: the goroutines run and the timer expires; data,
the end of a stream, the peer's first message and resets are not fair, so
`Returns` holds with peers and backends that are silent for ever. `Handshake`: as in
Negotiation; a second run, an alteration and a timeout are not fair. `Startup`: the
goroutines run, timers that are due fire, and time goes by (strongly fair, as every
step of another actor delays it); neither the peer nor the source, the sink, the
proxy's target or a command need do anything.
`Daemon`: the goroutines run and a closed listener's `Accept` fails; of the
surroundings, commands exit, and once the command has exited the idle deadline passes.
Clients, peers, signals, the dial to a proxy's target and the end of a direction of a
relay are not fair; a relay that has lost one returns (which is `HandleIO`'s
`Returns`).

### What the violated runs show

Each of them states what a comment, a test or the README says, and TLC finds a
behaviour of the code that does otherwise. They are recorded as findings in
`PROJECT.json`, with the lines.

* `RecordLayer_large`: raw's `Read` empties `inputBuffer` into the caller's buffer,
  waits for another frame, and returns 0 bytes with `io.EOF` when there is none.
* `HandleIO_response`: the safety timer cuts off a backend that is silent for 30
  seconds after the client's half-close.
* `HandleIO_drain`: a backend that ends at once makes the relay half-close the
  connection before the lazy handshake could answer; the inbound direction, too,
  is then lost.
* `Startup_idle`: whatsapp's deferred handshake clears the deadline of the connection
  when it ends, and with it the one `newIdleConn` had set; `-w` then bounds nothing
  until bytes move. The run needs a listener with `-w` and a peer that falls silent
  after its handshake.
* `Startup_support`: `-ns-support ","` is a non-empty string and an empty list. The
  negotiation is enabled, and the first proposal indexes `Supported[0]`.

Other places where a comment or the README says more than the code does, found while
modelling, and not runs of their own:

* "Handshake performs the NoiseSocket handshake on first call; subsequent calls
  return nil immediately" (`N/conn.go:137-138`) holds after a success only; after a
  failure the second copy loop runs it again. `Negotiation` models both calls.
* A BOLT-8 message takes two nonces, so that a key lasts 500 messages, not the 1000
  of `README.md:213`. `Lockstep` does not depend on the number.
* A BOLT-8 `Read` that times out between a message's length and its body leaves the
  connection open and out of step: with `ReadAgain = TRUE` in `Bolt8.cfg`,
  `IsMessageStream` fails. noisecat's copy loop does not read on.
* `-w` "closes a connection once it has been idle for that long" (`README.md:129`),
  but not while `proxyConn` dials its target (`runners.go:51`, without a timeout) nor
  while `io.Copy` writes to a backend or terminal that blocks (`runners.go:126`): nobody
  is at the connection to be told of its deadline. `IdleBoundedEverywhere` fails for
  these too, with `CommandLines <- Proxied` in `StartupIdle.cfg`; `IdleBounded` says
  what holds.
* With stdin as the source, the safety timer's `Close` of stdin does not interrupt a
  `Read` that is blocked on it, and `handleIO` does not return (`runners.go:136-141`);
  `Returns` is about proxied connections.
* `DialTimeout` is "honored by every transport's Dial; ignored by Listen"
  (`pkg/transport/transport.go:71-74`): noisesocket and bolt8 bound the connect alone,
  whatsapp the connect and the handshake each, by 20 seconds when `-w` is 0, and its
  listener uses it as well. `DialBounded` says what holds.
* `-prologue` is "mixed into the handshake hash" of every transport
  (`README.md:218`); bolt8 and whatsapp ignore it. `-psk` is silently unused with
  secp256k1 (`README.md:136` has it rejected), and every secp256k1 protocol name
  runs XK, whatever pattern it spells.
* The proxy example of `README.md:197` passes an address with `-l`, which
  `parseFlags` refuses.
* A second SIGINT during the shutdown is swallowed, since `signal.Notify` stays in
  force; and a daemon that leaves its loop by an `Accept` error keeps its listening
  socket, with a backlog nobody serves, until its last connection has ended.

### How to read some of the properties

* `Agreement` and `DowngradeBound` speak of a side that finished by *reading* the
  last message. When an altered accept makes the client take it for a switch, both
  sides can end as writers of a last message with different keys; each finds out at
  the first message it receives, not in the handshake.
* `NonceUsedOnce` of `RecordLayer` leaves out whatsapp, whose counter wraps after
  2^32 messages without an error.
* `IsStream` in `RecordLayer`: raw's writer stops at its first error. The comments
  at `R/conn.go:49` and `:62` say that after a write timeout "all future writes
  will return the same error"; the code does not see to it.
* `TamperedFails` goes further than `DowngradeBound`, which a tampered retry that led
  nowhere else would satisfy: the run of `Handshake` it was altered in must fail on
  one side. It speaks of one alteration, since a second could undo the first.
* `Handshake`'s `Completes` is about setups that fit and runs without a fault: a second
  run of a failed handshake may well never succeed.
* `IdleBounded` leaves out WhatsApp listeners (`Startup_idle` is why), and allows the
  safety timeout on top: the deadline ends one copy loop, `handleIO` waits for the
  other. It also allows `late`, the time from the deadline on for which everybody was
  kept away from the connection by `proxyConn`'s dial or a write to
  the local sink; with neither, `late` is 0, and once they have ended, the connection
  is closed without another wait for `-w`.
* `DialBounded` starts udp's clock behind the resolution of the name, which
  `kcp.DialWithOptions` does before any deadline is set.
* `Released` and `Exits` ask for `-w` when a command serves the connections: without
  it, `Cmd.Run` waits for a peer that may be silent for ever after the command has
  exited, and so does the shutdown. For proxied connections `Exits` says that the
  process ends or one of them is still in its dial or relayed in both directions
  (`Held`): nothing else can keep `wg.Wait`. A client and a backend that are both silent
  do keep it, without `-w` for ever.
* `GracefulEnd` leaves out KCP, where the half-close is a close; the README of
  noisecat says so (`README.md:130`).

## Proofs

All theorems are safety theorems about `Spec`, for every value of the constants
under the modules' named assumptions: nonempty patterns, positive sizes and
intervals, natural bounds. TLC evaluates the assumptions in every run, and the
inductive invariants were checked with TLC before they were proved.

**NegotiationProofs.** `TypeCorrect` (`Spec => []TypeOK`) and `NobodyIsTalkedInto`
(`Spec => []OwnChoice`), from `Inv == TypeOK /\ Stages /\ Choice`. `OwnChoice`
speaks of finished sides only; inductively, each side's handshake state is in an
allowed protocol from the moment it exists (`Choice`), and a side that waits for a
reply has attempts left and a message of its own to record (`Stages`), without
which the transcripts would leave their type. One lemma per handler, and one for
each branch of `ReadReply` and `ReadProposal`.

`TurnsAreTaken` (`Spec => []TakeTurns`) adds that only the client writes unasked,
when it begins a call, and that nothing is on the wire then (`Turns`): every other
frame answers one that was read. `SidesAgree` (`Spec => []Agreement`) rests on
`Ends`: a message that ends its handshake was written by a side that is done with
that very state (`Finals`), and a side that waits does not hold the turn (`Turned`),
so that the last message it accepts is its peer's. A message before the last may
have been taken for another one; the tag of the last one tells.

**DowngradeProofs.** `BoundAgainstDowngrade` (`Spec => []DowngradeBound`). A
handshake state says which frames made it (`Made`): a client's either is its
first proposal, or has in its transcript that proposal first (`Chained`) and the
retry it followed last; a server's has a proposal it did not support first and its
own retry last (`Asked`), or its own switch as the prologue's negotiation data. By
`SidesAgree` the two states are the same one with opposite roles, and `SameHash`
goes through the cases: no alteration is possible that both transcripts agree on.

`TamperingIsNoticed` (`Spec => []TamperedFails`) is about what happens after an
alteration, finished or not, so that it needs an invariant of every state in
between. `Split` has two halves. Before any alteration (`Unaltered`), a retry or a
switch on the wire is one that the server has in its transcript or its handshake
state. From a tampered one on (`Apart`), the two sides never meet again in the calls
it fell into: either no frame is left and one of them waits for ever (`Deaf`), has
finished alone (`Alone`) or has failed against a server in the middle of its call
(`Restart`); or the one frame on the wire (`TakeTurns` says there is no other)
carries a transcript or a message that is not its reader's (`ToServer`, `ToClient`),
since transcripts that differ still do when both grow by as much (`GrownApart`). The
way out is a second call on both sides, which is what the property allows, or a
closed connection.

**Bolt8TransportProofs.** `TypeCorrect`, and `NoncesFresh`
(`Spec => []NonceUsedOnce`) from `NonceInv == TypeOK /\ Behind /\ Distinct`: each
pair ever used is of an earlier turn than the sender's key, or of its turn with a
smaller nonce (`Behind`), so that the next two pairs are new. `CipherMovesOn` says
that sending, failing and rotating preserve this, for any interval.
`BodiesDelivered` (`Spec => []Delivery`, for `~ReadAgain`) rests on that: since a
pair is used once, the only ciphertext that opens under the receiver's cipher is the
one after those it has consumed (`OpensNext`). What makes it inductive is a number
`f` per direction (`Flow`), the messages that went out whole before the first Write
that failed: their pairs chain through the rotations (`Chained`), which a failed
Write does not make, the body of message `f + 1` never reaches the wire (`OnWire`),
and the receiver holds the cipher of the next pair it expects, so that it gets stuck
there (`Receiver`). `RotateTogether` (`Spec => []Lockstep`, with no condition) adds
`InStep`: without faults the wire holds every pair spent, in order and of its size.
`ImplementsMessageStream` (`Spec => IsMessageStream`, for `~ReadAgain`) needs both:
`Delivery` after a step says that the body it returned is the next message
(`ReadBodyDelivers`), and `Lockstep` before it that no authentication fails unless
there was a fault (`ReadFailsLate`), and that without one the end of the stream is met
behind the last message, never inside one (`EndBehindAll`).

**HandleIOProofs.** `TypeCorrect`, `NothingLost` (`GracefulEnd`) and
`NothingEarly` (`OrderlyEnd`), from
`Inv == TypeOK /\ Flow /\ Stages /\ Closings /\ Mutex /\ Finished`. `Flow` counts
chunks through a loop, `Closings` says who may have closed what, `Mutex` that the
handshake's holder is inside `Read` or `Write`, and `Finished`, the heart of it,
that a loop which ended without a fault has delivered its whole stream or the
handshake can no longer get through (`Hopeless`): that second case is the one
`HandleIO_drain` exhibits, and without it the invariant is not inductive.

**RecordLayerProofs.** `TypeCorrect`, `NoncesFresh`, and `ImplementsStream`: when
all setups fit, `Spec => IsStream`, the refinement of `SecureStream` by the three
record layers. `Fits` asks nothing of noisesocket and whatsapp; of raw's callers it
asks for a buffer with room for every frame and a writer that stops at the first
error. (`RecordLayer_large` is what happens without the first; the run `RecordLayer`
also has raw with a buffer of one byte, which every rest of a frame fills.) The
invariant `StreamInv` says how the frames on the wire chain up to the last byte
accepted (`Chained`), where a frame cut short can be (`CutShort`), that raw's frames
fit (`Fitting`), and that what was returned and what is buffered make up the frames
consumed (`Reading`). Each action then is a step of the stream or a stutter
(`StepIsStream`): `WriteFrame` accepts, `ReadBuffer` and `ReadFrame` deliver,
`ReadEOF` ends only after all was returned (`AllGot`), raw's plain `io.EOF` inside a
frame included.

**HandshakeProofs.** `TypeCorrect`, `ImplementsKeyExchange` (`Spec => IsKeyExchange`),
`ServerVouched` and `SealsOnce` (`NonceUsedOnce`), for any set of setups. The first
three come from
`Inv == TypeOK /\ Starting /\ Genuine /\ InOrder`. `Genuine` is the heart: whatever
ciphertext is on the wire was sealed by the other side, and shows who that is -- the
responder's static key in the first secret of act two's key, or as the plaintext in
WhatsApp's; the initiator's in the third message, whose tag also carries the
transcript and the key of the session the initiator has by then. Alterations leave
only what opens nowhere. `InOrder` is that the responder never finishes first. From these, a step of
`ReadAct2` is `EstablishFirst`, one of `ReadAct3` `EstablishLast`, and all others
stutter. `SealsOnce` takes `KeysInv` beside it: a side is never sent an ephemeral key
of its own (`OthersKeys`), so that a chaining key holds its secret of one run only;
every ciphertext was sealed by one of three steps in a run that side has begun, and
none yet by the step a waiting side is about to take (`SealedBy`). A message that
could not be written has sealed its texts in a run that ends there, and is sent to
nobody (`StartUnsentIs`). The three steps
never share a nonce and a key's length, and the two ciphertexts of one step do not
either.

**StartupProofs.** `TypeCorrect`, `StartsReady` (`IsReady`), `DialsInTime`
(`DialBounded`), `ClosesIdle` (`IdleBounded`), `NeverCutShort` (`NotCutShort`) and
`ReturnsConnected` (`Returned`), for any command lines and any timeouts. The lemma
`AcceptedIsReady` is about the operators of `Configuration` alone and covers every
combination of flags. The timers need an invariant each way: what is left and the
age add up to no more than the bound (`Dialling`, `Handshaking`, `Idle`; the last with
`late` on the bound's side, for the times when nobody is at the connection), and a
deadline of a session that has begun is a full `-w` away when bytes move (`Kept`).
`Reports` says which of the two reports may still be sent and what a success means.
`Loops` keeps at most one loop in the handshake.

**DaemonProofs.** `TypeCorrect` and `NobodyCutOff` (`ServedToTheEnd`), for any number
of connections and signals, from `Inv == TypeOK /\ Counted /\ Queue /\ Served /\
ServedToTheEnd`: the WaitGroup's counter is the number of goroutines in flight, plus
the one between `Add` and `go` (`Counted`), so that it is never decremented below
zero, and an open connection is one of them, or the one being started (`Served`).

**Only model-checked.** The liveness properties (`Completes`, `Terminates`,
`AllDelivered`, `Returns`, `Delivered`, `Reported`, `SignalStops`, `Responsive`,
`Released`, `Exits`): liveness under fairness is outside the proof system's reach.
Every invariant and all three refinements that the passing runs check are theorems.

## Not modelled, and why

* The Noise and BOLT-8 primitives, HKDF, the AEADs: libraries or pure functions,
  taken as ideal. Bit-level encodings of frames and negotiation data: what
  `parseNeg` refuses is one value, `Garbled`.
* Noise patterns with one message, whose guards in the raw transport the command
  line cannot reach.
* The reader's own end of nonces in `RecordLayer`: the sender's comes first.
* The bytes of whatsapp's protobuf and certificates, XEdDSA: a message or a chain
  has its fields or does not parse, a signature is by a key or is not.
* The messages of the noise library's patterns in the raw and the un-negotiated
  noisesocket handshake (`R/conn.go:252-325`, `N/conn.go:153-209`): the first are an
  outcome in Startup and two messages in HandleIO; the second are Negotiation with a
  proposal that is supported, without the negotiation's frames.
* Generating and validating keys (`-keygen`, `-validate`), `warnIfWorldReadable`,
  logging: computation and I/O without a state of their own. In Startup they end the
  process.
* Handshake messages of which `conn.Write` has written a part before it fails: they
  are far smaller than a socket's buffer. A raw or BOLT-8 transport message that is
  written in part is modelled.
* That a `Write` to the secure connection may block while its peer does not read:
  `-w`'s deadline ends it as it ends a `Read`.
* KCP, TCP, the Go runtime: the environment.
* Composition (step 9 of the plan).

## Running it

    tlc -workers 2 -config RecordLayer.cfg MCRecordLayer.tla
    tlapm RecordLayerProofs.tla

The module and configuration of each run are in `PROJECT.json`. The longest runs
take about two minutes on two workers, each proof module one to three minutes.
