--------------------------- MODULE Bolt8Transport ---------------------------
(***************************************************************************)
(* The transport phase of a BOLT-8 connection (pkg/transport/bolt8): each  *)
(* direction has its own key, chaining key and nonce, which sender and     *)
(* receiver advance and rotate by themselves and must keep in step.        *)
(*                                                                         *)
(* A message travels as two ciphertexts, its length and its body.  A Write *)
(* may fail after part of them is on the wire, a Read may run out of its   *)
(* deadline after part of them is consumed, and the wire may alter them.   *)
(* What a caller's buffer has no room for waits for its next Reads, and an *)
(* end that has half-closed is heard to be at its end.                     *)
(***************************************************************************)
EXTENDS Integers, Sequences

CONSTANTS
  Msgs,           \* message bodies
  Size,           \* their lengths
  AsLength,       \* what a body says when its two bytes are taken for a length
  RekeyInterval,  \* rekeyInterval
  Buf,            \* the size of the buffer that the caller reads into
  ReadAgain,      \* whether the caller reads on after a Read that timed out
  MaxWrites,      \* bound: messages written by the two ends
  MaxFaults       \* bound: failed writes, read timeouts and alterations

End == {"initiator", "responder"}
Peer(e) == IF e = "initiator" THEN "responder" ELSE "initiator"

ASSUME MsgsAssumption ==
  Size \in [Msgs -> Nat \ {0}] /\ AsLength \in [Msgs -> Nat]

ASSUME BoundsAssumption ==
  /\ RekeyInterval \in Nat \ {0} /\ Buf \in Nat \ {0}
  /\ ReadAgain \in BOOLEAN
  /\ MaxWrites \in Nat /\ MaxFaults \in Nat

macSize == 16

-----------------------------------------------------------------------------
(* One direction's cipher.  HKDF is known by what it is given: a key by its *)
(* direction, its turn and the chaining key it was derived from.           *)

Key == [dir : {"a", "b"}, turn : Nat, ck : Nat]
Cipher == [k : Key, ck : Nat, n : Nat]
NoKey == [dir |-> "none"]

\* Handshake's split: (sk, rk) of the initiator, swapped for the responder.
Split(dir) == [k |-> [dir |-> dir, turn |-> 0, ck |-> 0], ck |-> 0, n |-> 0]

hkdfExpand(c) ==
  [ k |-> [dir |-> c.k.dir, turn |-> c.k.turn + 1, ck |-> c.ck],
    ck |-> c.ck + 1, n |-> 0 ]

Bump(c) == [c EXCEPT !.n = @ + 1]
maybeRekeySend(c) == IF c.n < RekeyInterval THEN c ELSE hkdfExpand(c)

\* Seeded bug: the receiver counts to one nonce more than the sender.
RekeyRecvLate(c) == IF c.n <= RekeyInterval THEN c ELSE hkdfExpand(c)

maybeRekeyRecv(c) == IF c.n < RekeyInterval THEN c ELSE hkdfExpand(c)

\* A ciphertext on the wire; the remains of one are a Fragment.
Unit(c, size, plain) == [size |-> size, k |-> c.k, n |-> c.n, plain |-> plain]
Fragment == [size |-> 1, k |-> NoKey, n |-> 0, plain |-> [len |-> 0]]

\* Seeded bug: a ciphertext is accepted out of its place.
DecryptsAnyNonce(c, u) == u.k = c.k

Decrypts(c, u) == u.k = c.k /\ u.n = c.n

LengthUnit(c, m) == Unit(c, 2 + macSize, [len |-> Size[m]])
BodyUnit(c, m) == Unit(Bump(c), Size[m] + macSize, [msg |-> m])

-----------------------------------------------------------------------------
VARIABLES
  send, recv,  \* (sk, sck, sn) and (rk, rck, rn) of each end
  stream,      \* the ciphertexts sent to each end
  pos,         \* how many of them it has consumed
  bodyLen,     \* Read: the length it has decrypted, None before that
  readBuf,     \* how much of the last body a later Read has yet to return
  stopped,     \* the copy loop that reads has ended with an error
  eof,         \* it has ended with the stream
  open,        \* the underlying connection is open at this end
  shut,        \* it is half-closed at this end
  sent, got,   \* messages whose writeMessage returned nil, bodies Read decrypted
  used,        \* the (key, nonce) pairs each end has encrypted with
  faults       \* faults so far

\* What only the end of a stream or of a body changes.
ends == <<readBuf, eof, shut>>
vars == <<send, recv, stream, pos, bodyLen, stopped, open, sent, got, used, faults, ends>>

None == [none |-> TRUE]
Plain == [len : Nat] \cup [msg : Msgs]
UnitSet == [size : Nat, k : Key \cup {NoKey}, n : Nat, plain : Plain]

Init ==
  /\ send = [e \in End |-> Split(IF e = "initiator" THEN "a" ELSE "b")]
  /\ recv = [e \in End |-> Split(IF e = "initiator" THEN "b" ELSE "a")]
  /\ stream = [e \in End |-> <<>>]
  /\ pos = [e \in End |-> 0]
  /\ bodyLen = [e \in End |-> None]
  /\ readBuf = [e \in End |-> 0]
  /\ stopped = [e \in End |-> FALSE]
  /\ eof = [e \in End |-> FALSE]
  /\ open = [e \in End |-> TRUE]
  /\ shut = [e \in End |-> FALSE]
  /\ sent = [e \in End |-> <<>>]
  /\ got = [e \in End |-> <<>>]
  /\ used = [e \in End |-> <<>>]
  /\ faults = 0

Pairs(c) == <<[k |-> c.k, n |-> c.n], [k |-> c.k, n |-> Bump(c).n]>>

MayWrite == Len(used["initiator"]) + Len(used["responder"]) < 2 * MaxWrites

\* writeMessage, for all of Write's argument or for 65535 bytes of it: both
\* ciphertexts reach the wire.
WriteMessage(e, m) ==
  /\ open[e] /\ ~shut[e]
  /\ MayWrite
  /\ stream' = [stream EXCEPT ![Peer(e)] =
                  @ \o <<LengthUnit(send[e], m), BodyUnit(send[e], m)>>]
  /\ send' = [send EXCEPT ![e] = maybeRekeySend(Bump(Bump(@)))]
  /\ used' = [used EXCEPT ![e] = @ \o Pairs(send[e])]
  /\ sent' = [sent EXCEPT ![e] = Append(@, m)]
  /\ UNCHANGED <<recv, pos, bodyLen, stopped, open, got, faults, ends>>

\* What of a message may be on the wire when conn.Write returns an error.
Partial(c, m) ==
  {<<>>, <<Fragment>>, <<LengthUnit(c, m)>>, <<LengthUnit(c, m), Fragment>>}

\* Seeded bug: the nonces advance only once the message is written.
WriteFailsKeepingNonces(e, m) ==
  /\ faults < MaxFaults
  /\ MayWrite
  /\ IF open[e] /\ ~shut[e]
     THEN \E p \in Partial(send[e], m) :
            stream' = [stream EXCEPT ![Peer(e)] = @ \o p]
     ELSE UNCHANGED stream
  /\ used' = [used EXCEPT ![e] = @ \o Pairs(send[e])]
  /\ faults' = faults + 1
  /\ UNCHANGED <<send, recv, pos, bodyLen, stopped, open, sent, got, ends>>

\* writeMessage when conn.Write fails: the nonces are spent, the key is not
\* rotated, and the caller may write again.
WriteFails(e, m) ==
  /\ faults < MaxFaults
  /\ MayWrite
  /\ IF open[e] /\ ~shut[e]
     THEN \E p \in Partial(send[e], m) :
            stream' = [stream EXCEPT ![Peer(e)] = @ \o p]
     ELSE UNCHANGED stream
  /\ send' = [send EXCEPT ![e] = Bump(Bump(@))]
  /\ used' = [used EXCEPT ![e] = @ \o Pairs(send[e])]
  /\ faults' = faults + 1
  /\ UNCHANGED <<recv, pos, bodyLen, stopped, open, sent, got, ends>>

\* The relay's half-close, which reaches the underlying connection.
CloseWrite(e) ==
  /\ open[e] /\ ~shut[e]
  /\ shut' = [shut EXCEPT ![e] = TRUE]
  /\ UNCHANGED <<send, recv, stream, pos, bodyLen, readBuf, stopped, eof, open,
                 sent, got, used, faults>>

\* Read is at the connection, and has nothing left of the last body.
AtConn(e) == open[e] /\ ~stopped[e] /\ ~eof[e] /\ readBuf[e] = 0

\* io.ReadFull finds the next n bytes to be exactly the next ciphertext, or to
\* be the remains or the parts of others.
Reading(e) == AtConn(e) /\ pos[e] < Len(stream[e])
NextUnit(e) == stream[e][pos[e] + 1]
Needed(e) == macSize + (IF bodyLen[e] = None THEN 2 ELSE bodyLen[e].len)
Aligned(e) == NextUnit(e).size = Needed(e)

\* Read decrypts a ciphertext with the present key and nonce.
Authentic(e) == Reading(e) /\ Aligned(e) /\ Decrypts(recv[e], NextUnit(e))

\* Seeded bug: the length is taken to count the MAC.
LengthWithoutMac(p) == IF "len" \in DOMAIN p THEN p.len - macSize ELSE AsLength[p.msg]

\* The two bytes that a plaintext gives for a length.
LengthOf(p) == IF "len" \in DOMAIN p THEN p.len ELSE AsLength[p.msg]

ReadLength(e) ==
  /\ bodyLen[e] = None
  /\ Authentic(e)
  /\ recv' = [recv EXCEPT ![e] = Bump(@)]
  /\ bodyLen' = [bodyLen EXCEPT ![e] = [len |-> LengthOf(NextUnit(e).plain)]]
  /\ pos' = [pos EXCEPT ![e] = @ + 1]
  /\ UNCHANGED <<send, stream, stopped, open, sent, got, used, faults, ends>>

\* What is left of n bytes when the caller's buffer is full.
Surplus(n) == IF n > Buf THEN n - Buf ELSE 0

ReadBody(e) ==
  /\ bodyLen[e] # None
  /\ Authentic(e)
  /\ recv' = [recv EXCEPT ![e] = maybeRekeyRecv(Bump(@))]
  /\ bodyLen' = [bodyLen EXCEPT ![e] = None]
  /\ pos' = [pos EXCEPT ![e] = @ + 1]
  /\ got' = [got EXCEPT ![e] = Append(@, NextUnit(e).plain)]
  /\ readBuf' = [readBuf EXCEPT ![e] = Surplus(NextUnit(e).size - macSize)]
  /\ UNCHANGED <<send, stream, stopped, eof, open, shut, sent, used, faults>>

\* Read returns more of the last body, without a look at the connection.
ReadBuffer(e) ==
  /\ ~stopped[e] /\ readBuf[e] > 0
  /\ readBuf' = [readBuf EXCEPT ![e] = Surplus(@)]
  /\ UNCHANGED <<send, recv, stream, pos, bodyLen, stopped, eof, open, shut,
                 sent, got, used, faults>>

\* Authentication fails, in either stage of Read: the connection is closed.
ReadFails(e) ==
  /\ Reading(e)
  /\ ~Authentic(e)
  /\ Aligned(e) \/ NextUnit(e).size > Needed(e) \/ pos[e] + 1 < Len(stream[e])
  /\ open' = [open EXCEPT ![e] = FALSE]
  /\ bodyLen' = [bodyLen EXCEPT ![e] = None]
  /\ pos' = [pos EXCEPT ![e] = @ + 1]
  /\ UNCHANGED <<send, recv, stream, stopped, sent, got, used, faults, ends>>

\* io.ReadFull comes to the end of the stream, in either stage of Read, with
\* nothing read or with less than it needs.
ReadEnd(e) ==
  /\ AtConn(e)
  /\ shut[Peer(e)] \/ ~open[Peer(e)]
  /\ \/ pos[e] = Len(stream[e])
     \/ pos[e] + 1 = Len(stream[e]) /\ NextUnit(e).size < Needed(e)
  /\ eof' = [eof EXCEPT ![e] = TRUE]
  /\ UNCHANGED <<send, recv, stream, pos, bodyLen, readBuf, stopped, open, shut,
                 sent, got, used, faults>>

\* The read deadline passes inside Read, with none or part of the ciphertext
\* it waits for consumed: what was consumed is forgotten.
ReadTimeout(e) ==
  /\ faults < MaxFaults
  /\ AtConn(e)
  /\ stopped' = [stopped EXCEPT ![e] = ~ReadAgain]
  /\ bodyLen' = [bodyLen EXCEPT ![e] = None]
  /\ faults' = faults + 1
  /\ \/ UNCHANGED stream
     \/ /\ Reading(e)
        /\ stream' = [stream EXCEPT ![e][pos[e] + 1] = Fragment]
  /\ UNCHANGED <<send, recv, pos, open, sent, got, used, ends>>

\* A ciphertext on its way to e is altered.
Alter(e) ==
  /\ faults < MaxFaults
  /\ \E i \in pos[e] + 1 .. Len(stream[e]) :
       /\ stream[e][i].k # NoKey
       /\ stream' = [stream EXCEPT ![e][i].k = NoKey]
  /\ faults' = faults + 1
  /\ UNCHANGED <<send, recv, pos, bodyLen, stopped, open, sent, got, used, ends>>

Next ==
  \E e \in End :
    \/ \E m \in Msgs : WriteMessage(e, m) \/ WriteFails(e, m)
    \/ CloseWrite(e)
    \/ ReadLength(e) \/ ReadBody(e) \/ ReadBuffer(e) \/ ReadFails(e) \/ ReadEnd(e)
    \/ ReadTimeout(e) \/ Alter(e)

\* The copy loop that reads the connection keeps reading.
Fairness ==
  \A e \in End : WF_vars(ReadLength(e) \/ ReadBody(e) \/ ReadBuffer(e)
                            \/ ReadFails(e) \/ ReadEnd(e))

Spec == Init /\ [][Next]_vars
FairSpec == Spec /\ Fairness

-----------------------------------------------------------------------------
TypeOK ==
  /\ send \in [End -> Cipher] /\ recv \in [End -> Cipher]
  /\ stream \in [End -> Seq(UnitSet)]
  /\ pos \in [End -> Nat]
  /\ bodyLen \in [End -> [len : Nat] \cup {None}]
  /\ readBuf \in [End -> Nat]
  /\ stopped \in [End -> BOOLEAN] /\ eof \in [End -> BOOLEAN]
  /\ open \in [End -> BOOLEAN] /\ shut \in [End -> BOOLEAN]
  /\ sent \in [End -> Seq(Msgs)] /\ got \in [End -> Seq(Plain)]
  /\ used \in [End -> Seq([k : Key, n : Nat])]
  /\ faults \in 0..MaxFaults

\* No pair of key and nonce ever encrypts twice, in one direction or across
\* the two, also when writes fail and are followed by others.
NonceUsedOnce ==
  /\ \A e \in End : \A i, j \in DOMAIN used[e] :
       used[e][i] = used[e][j] => i = j
  /\ \A i \in DOMAIN used["initiator"], j \in DOMAIN used["responder"] :
       used["initiator"][i] # used["responder"][j]

\* What Read decrypts are the bodies that the peer's Write has accepted, in
\* their order, none missing and nothing else -- in particular never a length
\* header taken for a body.  (What IsMessageStream, below, comes to in any one
\* state; its proof goes by way of this invariant.)
Delivery ==
  \A e \in End :
    /\ Len(got[e]) <= Len(sent[Peer(e)])
    /\ \A i \in DOMAIN got[e] : got[e][i] = [msg |-> sent[Peer(e)][i]]

\* The two ciphertexts of a message, the nonces, the rotations of the keys and
\* every failure half way come to a stream of whole messages each way: a step
\* of Read or Write either accepts or returns one message, or nothing of it is
\* seen, and an end whose peer and wire do nothing wrong is never closed and
\* hears of the stream's end after the last message.
State(e) ==
  IF ~open[e] THEN "closed" ELSE IF stopped[e] \/ eof[e] THEN "deaf" ELSE "up"
Messages == INSTANCE MessageStream
              WITH state <- [e \in End |-> State(e)], ended <- shut, faulty <- faults > 0
IsMessageStream == Messages!Spec

\* As long as nothing has failed, the receiver is where the sender was when it
\* encrypted the next ciphertext on the wire, and where the sender is when
\* there is none: each rotates its key at the same point of the stream.
Lockstep ==
  faults = 0 =>
    \A e \in End :
      /\ open[e]
      /\ IF pos[e] < Len(stream[e])
         THEN Aligned(e) /\ Decrypts(recv[e], NextUnit(e))
         ELSE recv[e] = send[Peer(e)]

\* Without faults every message written is delivered to its last byte, time
\* and again, and so is the end of a stream.
AllDelivered ==
  []<>(\/ faults > 0
       \/ \A e \in End :
            /\ Len(got[e]) = Len(sent[Peer(e)])
            /\ readBuf[e] = 0
            /\ shut[Peer(e)] => eof[e])
=============================================================================
