----------------------------- MODULE MCStartup -----------------------------
EXTENDS Startup

\* A plain client of the raw transport.
Client ==
  [ keygen |-> FALSE, validate |-> FALSE, listen |-> FALSE, daemon |-> FALSE,
    exec |-> FALSE, proxy |-> "", args |-> 2, srcPort |-> "port", ip4 |-> FALSE,
    ip6 |-> FALSE, udp |-> FALSE, w |-> 0, transport |-> "raw", proto |-> NN,
    psk |-> "", rstatic |-> "", lstatic |-> "", fallback |-> "", support |-> "",
    policy |-> "" ]

Secp(i, r) == [Plain(i, r) EXCEPT !.dh = "secp256k1", !.suite = "other"]

\* Every transport and role with and without -w: the timers.
Timed ==
  { [Client EXCEPT !.transport = t[1], !.udp = t[2], !.proto = t[3], !.rstatic = t[4],
                   !.listen = l, !.args = IF l THEN 0 ELSE t[5], !.w = w] :
      t \in { <<"raw", FALSE, NN, "", 2>>, <<"", TRUE, NN, "", 2>>,
              <<"noisesocket", FALSE, XX, "", 2>>, <<"raw", FALSE, Secp("X", "K"), "33 bytes", 2>>,
              <<"whatsapp", FALSE, NN, "", 2>>, <<"whatsapp", FALSE, XX, "", 0>> },
      l \in BOOLEAN, w \in {0, 2} }

\* Listeners with a proxy's target to dial, and -e: the timers behind a Dial.
Proxied ==
  { [Client EXCEPT !.listen = TRUE, !.args = 0, !.proxy = "address", !.transport = t[1],
                   !.udp = t[2], !.proto = t[3], !.w = w] :
      t \in { <<"raw", FALSE, NN>>, <<"", TRUE, NN>>, <<"noisesocket", FALSE, XX>>,
              <<"raw", FALSE, Secp("X", "K")>> },
      w \in {1, 2} }
Commanded ==
  { [Client EXCEPT !.exec = TRUE, !.w = 2, !.listen = l, !.args = IF l THEN 0 ELSE 2] :
      l \in BOOLEAN }

\* Every combination of transport, protocol and keys.
Keyed ==
  { [Client EXCEPT !.transport = t, !.udp = u, !.listen = l, !.args = IF l THEN 0 ELSE a,
                   !.proto = p, !.psk = k, !.rstatic = r, !.lstatic = s] :
      t \in {"raw", "noisesocket", "bolt8", "whatsapp", "other"}, u, l \in BOOLEAN,
      a \in {0, 2},
      p \in {NoName, BadName, NN, XX, Plain("K", "K"), [Plain("N", "K") EXCEPT !.psk = TRUE],
             Secp("X", "K"), [Secp("X", "K") EXCEPT !.psk = TRUE]},
      k \in {"", "key"}, r \in {"", "32 bytes", "33 bytes"}, s \in {"", "25519", "secp256k1"} }

\* The flags that are not about keys.
Refusable ==
  LET listener == [Client EXCEPT !.listen = TRUE, !.args = 0]
  IN { [listener EXCEPT !.daemon = d, !.exec = e, !.proxy = p] :
         d, e \in BOOLEAN, p \in {"", "address", "bad"} }
     \cup { [Client EXCEPT !.daemon = d, !.exec = e, !.proxy = p] :
              d, e \in BOOLEAN, p \in {"", "address"} }
     \cup { [c EXCEPT !.transport = t, !.fallback = f, !.support = s, !.policy = p] :
              c \in {Client, listener}, t \in {"raw", "noisesocket"}, f \in {"", "list"},
              s \in {"", "list"}, p \in {"", "reject", "retry", "other"} }
     \cup { [listener EXCEPT !.transport = "noisesocket", !.support = "blank", !.policy = p] :
              p \in {"", "reject", "retry"} }
     \cup { [Client EXCEPT !.keygen = TRUE], [Client EXCEPT !.validate = TRUE],
            [Client EXCEPT !.args = 1], [Client EXCEPT !.w = -1],
            [Client EXCEPT !.srcPort = "bad"], [Client EXCEPT !.ip4 = TRUE, !.ip6 = TRUE],
            [listener EXCEPT !.args = 2] }

AllLines == Timed \cup Proxied \cup Commanded \cup Keyed \cup Refusable

\* noisecat -l -transport whatsapp -w 2
WhatsAppListener ==
  { [Client EXCEPT !.listen = TRUE, !.args = 0, !.transport = "whatsapp", !.w = w] : w \in {1, 2} }

\* noisecat -l -transport noisesocket -ns-support "," -ns-policy retry
BlankSupport ==
  { [Client EXCEPT !.listen = TRUE, !.args = 0, !.transport = "noisesocket",
                   !.support = "blank", !.policy = p] : p \in {"retry", "switch"} }
=============================================================================
